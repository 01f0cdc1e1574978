CONSTANTS
  Jobs = {j1}
  Schedules <- OneShot
  Goroutines = {g1}
  Workers = {}
  Editors = {}
  Budgets <- Quiet
  Never = Never
  None = None
SPECIFICATION Spec
INVARIANTS ExpiredJobsRest

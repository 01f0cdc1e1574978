CONSTANTS
  Jobs = {j1}
  Schedules <- AllSchedules
  Goroutines = {g1, g2}
  Workers = {w1}
  Editors = {u1}
  Budgets <- Sizes
  Never = Never
  None = None
SPECIFICATION FairSpec
INVARIANTS TypeOK RunningMatchesExecutions RunsAreClosed OneShotRunsOnce EditsSurvive
PROPERTIES DueJobsRun

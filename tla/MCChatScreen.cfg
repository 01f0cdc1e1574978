CONSTANTS
  Sessions = {s1, s2}
  MaxSends = 2
  Budgets <- Sizes
  None = None
SPECIFICATION Spec
SYMMETRY SessionsAreAlike
INVARIANTS
  TypeOK
  OnlyForThisSession
  NewMessagesStay
  DoubledOnlyWhenLate
  StreamIsTheRuns
CHECK_DEADLOCK FALSE

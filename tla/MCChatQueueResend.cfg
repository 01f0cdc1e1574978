CONSTANTS
  MaxMessages = 2
  Sessions = {s1, s2}
  NoRun = NoRun
  MaxFaults = 0
SPECIFICATION Spec
INVARIANTS SentOnce
CHECK_DEADLOCK FALSE

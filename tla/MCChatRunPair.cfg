CONSTANTS
  Conns = {c1}
  Sessions = {s1}
  Runs = {r1, r2}
  MaxClock = 2
  MaxEvents = 0
  NoRun = NoRun
  NoRequest = NoRequest
SPECIFICATION Spec
INVARIANTS
  TrackerMatchesRuns
SYMMETRY Symmetry
CHECK_DEADLOCK FALSE

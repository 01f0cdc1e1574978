CONSTANTS
  Conns = {c1, c2}
  Sessions = {s1, s2}
  NoSnapshot = NoSnapshot
SPECIFICATION FairSpec
INVARIANTS
  TypeOK
  ClosedLeavesNoTrace
  SubscribersReachable
  PresenceAccurate
PROPERTIES
  LeavingEndsClean
  ImplementsConnLife
CHECK_DEADLOCK FALSE

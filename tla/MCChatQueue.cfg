CONSTANTS
  MaxMessages = 2
  Sessions = {s1, s2}
  NoRun = NoRun
  MaxFaults = 1
SPECIFICATION FairSpec
INVARIANTS
  TypeOK
  KeptAndSentOnce
  SnapsBackOnlyToOvertaken
  SentInOrder
PROPERTIES
  QueueDrains
CHECK_DEADLOCK FALSE

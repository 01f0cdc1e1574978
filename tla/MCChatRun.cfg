CONSTANTS
  Conns = {c1, c2}
  Sessions = {s1}
  Runs = {r1}
  MaxClock = 1
  MaxEvents = 1
  NoRun = NoRun
  NoRequest = NoRequest
SPECIFICATION FairSpec
INVARIANTS
  TypeOK
  UninterruptedRunAnswered
  SavedAnswerWasFinal
  StoryInOrder
PROPERTIES
  QuietAfterCancel
  CutRunsEnd
CHECK_DEADLOCK FALSE

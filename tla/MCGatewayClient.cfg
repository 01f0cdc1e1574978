CONSTANTS
  Requests = {r1}
  MaxConnects = 3
  MaxTokens = 1
  OtherTabs = {"store", "clear"}
SPECIFICATION FairSpec
INVARIANTS
  TypeOK
  PendingOnActiveSocket
  OneLiveSocket
  HandshakeOnActiveSocket
  IdleOnlyWhenRefused
  StoredTokenTriedOnce
PROPERTIES
  NeverStuck
CHECK_DEADLOCK FALSE

-------------------------- MODULE GatewayClientProofs --------------------------
(***************************************************************************)
(* Proofs about GatewayClient, for any requests, any number of connections *)
(* and tokens and whatever other tabs do.  Everything follows from one     *)
(* inductive invariant: what the fields of the client say of one another   *)
(* while the socket of the highest generation is, or is not, current.      *)
(***************************************************************************)
EXTENDS GatewayClient, TLAPS

USE ClientAssumption
    DEF Gens, Tokens, authVars, errorVars, handshakeVars, requestVars, history

-------------------------------------------------------------------------------
(* The current socket is the newest one; the client waits to reconnect     *)
(* only without one.                                                       *)
NewestIsCurrent ==
  /\ ws # 0 => ws = connectGeneration /\ ~closed
  /\ connectTimer.kind = "reconnect" => ws = 0 /\ ~closed /\ connectGeneration > 0

(* Every retry has spent a socket.                                         *)
RetriesSpendSockets ==
  mismatchRetries + (IF ws = 0 THEN 0 ELSE 1) <= connectGeneration

(* Nothing is planned for a socket to come, and no plan holds the nonce of *)
(* another socket; nor does an open socket find one.                       *)
NonceIsOwn ==
  /\ \A g \in Gens : /\ g > connectGeneration => plan[g].stage = "none"
                     /\ plan[g].nonce \in {0, g}
  /\ Open => connectNonce \in {0, ws}

(* A socket that has a plan will not get another.                          *)
PlannedOnce ==
  ws # 0 /\ plan[ws].stage # "none" => connectSent /\ sock[ws] # "connecting"

(* A plan is over once the gateway answered it: what the host was told and *)
(* the error that is remembered come from that answer.                     *)
HostWasGreeted ==
  hostConnected => ~pendingStartupReconnectDelay /\ plan[ws].stage = "over"

ErrorIsAnswer ==
  pendingConnectError # "none" =>
    ws # 0 /\ plan[ws].stage = "over" /\ lastAnswer = pendingConnectError

IInv == /\ TypeOK /\ NewestIsCurrent /\ RetriesSpendSockets
        /\ OneLiveSocket /\ PendingOnActiveSocket
        /\ NonceIsOwn /\ HandshakeOnActiveSocket /\ PlannedOnce
        /\ HostAgrees /\ HostWasGreeted /\ ErrorIsAnswer /\ IdleOnlyWhenRefused

(* Of the stored device token: a retry that is still pending was paid for  *)
(* and not sent; what was sent stays paid for; and a plan that presents the*)
(* token on the current socket is the pending retry.                       *)
RetryIsPaid ==
  /\ pendingDeviceTokenRetry => deviceTokenRetryBudgetUsed /\ retriesSent = 0
  /\ retriesSent > 0 => deviceTokenRetryBudgetUsed
  /\ retriesSent <= 1
  /\ ws # 0 /\ plan[ws].stage = "signing" /\ plan[ws].device => pendingDeviceTokenRetry

-------------------------------------------------------------------------------
(* What the records of the model are made of.                              *)
LEMMA TimerFields ==
  /\ NoTimer \in Timers /\ NoTimer.kind = "none"
  /\ [kind |-> "reconnect", gen |-> 0] \in Timers
  /\ \A g \in Gens : [kind |-> "fallback", gen |-> g] \in Timers
  /\ \A t \in Timers : t.gen \in 0 .. MaxConnects
BY DEF NoTimer, Timers

LEMMA NoPlanType ==
  NoPlan \in Plans /\ NoPlan.stage = "none" /\ NoPlan.nonce = 0
<1>1. 0 \in 0 .. MaxConnects /\ 0 \in Tokens
  OBVIOUS
<1> HIDE DEF Tokens
<1> QED BY <1>1, Zenon DEF NoPlan, Plans

LEMMA OverType == Over \in Plans /\ Over.stage = "over" /\ Over.nonce = 0
BY NoPlanType DEF Over, Plans

LEMMA PlannedType ==
  \A n \in 0 .. MaxConnects :
    /\ Planned(n) \in Plans
    /\ Planned(n).stage = "identity" /\ Planned(n).nonce = n
BY NoPlanType DEF Planned, Plans

LEMMA WithAuthType ==
  ASSUME NEW p \in Plans, TypeOK
  PROVE  /\ WithAuth(p) \in Plans /\ WithAuth(p).stored = storedToken
         /\ WithAuth(p).stage = "signing" /\ WithAuth(p).nonce = p.nonce
         /\ WithAuth(p).device =
              (pendingDeviceTokenRetry /\ auth = "trustedToken" /\ storedToken # 0)
<1> DEFINE d == pendingDeviceTokenRetry /\ auth = "trustedToken" /\ storedToken # 0
<1>1. d \in BOOLEAN /\ storedToken \in Tokens
  BY DEF TypeOK
<1>2. WithAuth(p) = [p EXCEPT !.stage = "signing", !.stored = storedToken, !.device = d]
  BY DEF WithAuth
<1> HIDE DEF d, Tokens
<1>3. WithAuth(p) \in Plans /\ WithAuth(p).stage = "signing" /\ WithAuth(p).stored = storedToken
      /\ WithAuth(p).nonce = p.nonce /\ WithAuth(p).device = d
  BY <1>1, <1>2 DEF Plans
<1> QED BY <1>3 DEF d

LEMMA SentType ==
  ASSUME NEW p \in Plans, NEW q, q = [p EXCEPT !.stage = "sent"]
  PROVE  q \in Plans /\ q.stage = "sent" /\ q.nonce = p.nonce /\ q.stored = p.stored
BY DEF Plans

LEMMA PlanFields == \A p \in Plans : p.nonce \in 0 .. MaxConnects /\ p.device \in BOOLEAN
BY DEF Plans

-------------------------------------------------------------------------------
(* The parts of TypeOK, by what changes together.                          *)
SocketTypes ==
  /\ sock \in [Gens -> {"none", "connecting", "open", "closing", "closed"}]
  /\ \A g \in Gens : sock[g] = "none" <=> g > connectGeneration
TimerTypes ==
  /\ connectTimer \in Timers
  /\ connectSent \in BOOLEAN /\ connectNonce \in 0 .. MaxConnects
CounterTypes ==
  /\ ws \in 0 .. MaxConnects /\ connectGeneration \in 0 .. MaxConnects
  /\ mismatchRetries \in 0 .. MaxConnects /\ retriesSent \in Nat
RequestTypes ==
  /\ request \in [Requests -> {"new", "pending", "answered", "rejected"}]
  /\ sentOn \in [Requests -> 0 .. MaxConnects]
AnswerTypes ==
  /\ pendingConnectError \in Errors \cup {"none"}
  /\ lastAnswer \in Errors \cup {"none", "hello", "constructor"}
FlagTypes ==
  /\ auth \in {"none", "password", "token", "trustedToken"}
  /\ closed \in BOOLEAN /\ hostConnected \in BOOLEAN
  /\ storedToken \in Tokens
  /\ pendingDeviceTokenRetry \in BOOLEAN
  /\ deviceTokenRetryBudgetUsed \in BOOLEAN
  /\ pendingStartupReconnectDelay \in BOOLEAN
PlanTypes == plan \in [Gens -> Plans]

LEMMA TypeParts ==
  ASSUME PlanTypes', SocketTypes', TimerTypes', CounterTypes', RequestTypes',
         AnswerTypes', FlagTypes'
  PROVE  TypeOK'
BY DEF TypeOK, PlanTypes, SocketTypes, TimerTypes, CounterTypes, RequestTypes,
       AnswerTypes, FlagTypes

-------------------------------------------------------------------------------
(* Every step keeps the invariant.                                         *)

(* The first socket, or none.                                              *)
LEMMA StartKeeps ==
  ASSUME IInv, Start
  PROVE  IInv'
<1> USE DEF Start, Connect, ConnectThrows, FlushPending
<1>0. PlanTypes'
  BY TimerFields, NoPlanType, OverType, PlannedType, PlanFields
  DEF IInv, TypeOK, PlanTypes, Open, Live
<1>1. SocketTypes'
  BY DEF IInv, TypeOK, SocketTypes, NewestIsCurrent, Open, Live
<1>2. TimerTypes'
  BY TimerFields DEF IInv, TypeOK, TimerTypes, Open, Live
<1>3. CounterTypes'
  BY DEF IInv, TypeOK, CounterTypes, NewestIsCurrent, RetriesSpendSockets, Open, Live
<1>4. RequestTypes' /\ AnswerTypes' /\ FlagTypes'
  BY DEF IInv, TypeOK, RequestTypes, AnswerTypes, FlagTypes, Open, Live
<1>5. TypeOK'
  BY <1>0, <1>1, <1>2, <1>3, <1>4, TypeParts
<1>6. NewestIsCurrent' /\ RetriesSpendSockets'
  BY TimerFields DEF IInv, TypeOK, NewestIsCurrent, RetriesSpendSockets
<1>7. OneLiveSocket'
  BY DEF IInv, TypeOK, OneLiveSocket, NewestIsCurrent
<1>8. PendingOnActiveSocket'
  BY DEF IInv, TypeOK, PendingOnActiveSocket, NewestIsCurrent, Open, Live
<1>9. NonceIsOwn' /\ HandshakeOnActiveSocket' /\ PlannedOnce'
  BY <1>0, TimerFields, NoPlanType, OverType, PlannedType, PlanFields
  DEF IInv, TypeOK, PlanTypes, NonceIsOwn, HandshakeOnActiveSocket, PlannedOnce,
      NewestIsCurrent, Open, Live
<1>10. HostAgrees' /\ HostWasGreeted' /\ ErrorIsAnswer' /\ IdleOnlyWhenRefused'
  BY <1>0, TimerFields, NoPlanType, OverType, PlannedType, PlanFields
  DEF IInv, TypeOK, PlanTypes, HostAgrees, HostWasGreeted, ErrorIsAnswer, IdleOnlyWhenRefused,
      PlannedOnce, NewestIsCurrent, NonceIsOwn, Open, Live, Errors, NonRecoverable
<1> QED
  BY <1>5, <1>6, <1>7, <1>8, <1>9, <1>10 DEF IInv

(* The next socket: none was current, so none is live.                     *)
LEMMA FireReconnectKeeps ==
  ASSUME IInv, FireReconnect
  PROVE  IInv'
<1> USE DEF FireReconnect, Connect, ConnectThrows, FlushPending
<1>0. PlanTypes'
  BY TimerFields, NoPlanType, OverType, PlannedType, PlanFields
  DEF IInv, TypeOK, PlanTypes, Open, Live
<1>1. SocketTypes'
  BY DEF IInv, TypeOK, SocketTypes, NewestIsCurrent, Open, Live
<1>2. TimerTypes'
  BY TimerFields DEF IInv, TypeOK, TimerTypes, Open, Live
<1>3. CounterTypes'
  BY DEF IInv, TypeOK, CounterTypes, NewestIsCurrent, RetriesSpendSockets, Open, Live
<1>4. RequestTypes' /\ AnswerTypes' /\ FlagTypes'
  BY DEF IInv, TypeOK, RequestTypes, AnswerTypes, FlagTypes, Open, Live
<1>5. TypeOK'
  BY <1>0, <1>1, <1>2, <1>3, <1>4, TypeParts
<1>6. NewestIsCurrent' /\ RetriesSpendSockets'
  BY TimerFields DEF IInv, TypeOK, NewestIsCurrent, RetriesSpendSockets
<1>7. OneLiveSocket'
  BY DEF IInv, TypeOK, OneLiveSocket, NewestIsCurrent
<1>8. PendingOnActiveSocket'
  BY DEF IInv, TypeOK, PendingOnActiveSocket, NewestIsCurrent, Open, Live
<1>9. NonceIsOwn' /\ HandshakeOnActiveSocket' /\ PlannedOnce'
  BY <1>0, TimerFields, NoPlanType, OverType, PlannedType, PlanFields
  DEF IInv, TypeOK, PlanTypes, NonceIsOwn, HandshakeOnActiveSocket, PlannedOnce,
      NewestIsCurrent, Open, Live
<1>10. HostAgrees' /\ HostWasGreeted' /\ ErrorIsAnswer' /\ IdleOnlyWhenRefused'
  BY <1>0, TimerFields, NoPlanType, OverType, PlannedType, PlanFields
  DEF IInv, TypeOK, PlanTypes, HostAgrees, HostWasGreeted, ErrorIsAnswer, IdleOnlyWhenRefused,
      PlannedOnce, NewestIsCurrent, NonceIsOwn, Open, Live, Errors, NonRecoverable
<1> QED
  BY <1>5, <1>6, <1>7, <1>8, <1>9, <1>10 DEF IInv

(* The fallback timer plans for the current socket or does nothing.        *)
LEMMA FireFallbackKeeps ==
  ASSUME IInv, FireFallback
  PROVE  IInv'
<1> USE DEF FireFallback, SendConnect
<1>0. /\ PlanTypes'
      /\ NonceIsOwn' /\ HandshakeOnActiveSocket' /\ PlannedOnce'
  <2>1. CASE Open /\ ws = connectTimer.gen /\ ~connectSent
    <3>1. ws \in Gens /\ connectNonce \in {0, ws}
      BY <2>1 DEF IInv, TypeOK, NonceIsOwn, Open, Live
    <3>2. plan' = [plan EXCEPT ![ws] = Planned(connectNonce)] /\ connectSent'
      BY <2>1
    <3>3. /\ Planned(connectNonce) \in Plans
          /\ Planned(connectNonce).nonce = connectNonce
          /\ Planned(connectNonce).stage = "identity"
      BY <3>1, PlannedType
    <3> HIDE DEF SendConnect
    <3> QED
      BY <2>1, <3>1, <3>2, <3>3
      DEF IInv, TypeOK, PlanTypes, NonceIsOwn, HandshakeOnActiveSocket, PlannedOnce,
          NewestIsCurrent, Open, Live
  <2>2. CASE ~(Open /\ ws = connectTimer.gen /\ ~connectSent)
    BY <2>2 DEF IInv, TypeOK, PlanTypes, NonceIsOwn, HandshakeOnActiveSocket, PlannedOnce,
                Open, Live
  <2> QED BY <2>1, <2>2
<1>1. SocketTypes'
  BY DEF IInv, TypeOK, SocketTypes, NewestIsCurrent, Open, Live
<1>2. TimerTypes'
  BY TimerFields DEF IInv, TypeOK, TimerTypes, Open, Live
<1>3. CounterTypes'
  BY DEF IInv, TypeOK, CounterTypes, NewestIsCurrent, RetriesSpendSockets, Open, Live
<1>4. RequestTypes' /\ AnswerTypes' /\ FlagTypes'
  BY DEF IInv, TypeOK, RequestTypes, AnswerTypes, FlagTypes, Open, Live
<1>5. TypeOK'
  BY <1>0, <1>1, <1>2, <1>3, <1>4, TypeParts
<1>6. NewestIsCurrent' /\ RetriesSpendSockets'
  BY TimerFields DEF IInv, TypeOK, NewestIsCurrent, RetriesSpendSockets
<1>7. OneLiveSocket'
  BY DEF IInv, TypeOK, OneLiveSocket, NewestIsCurrent
<1>8. PendingOnActiveSocket'
  BY DEF IInv, TypeOK, PendingOnActiveSocket, NewestIsCurrent, Open, Live
<1>10. HostAgrees' /\ HostWasGreeted' /\ ErrorIsAnswer' /\ IdleOnlyWhenRefused'
  BY <1>0, TimerFields, NoPlanType, OverType, PlannedType, PlanFields
  DEF IInv, TypeOK, PlanTypes, HostAgrees, HostWasGreeted, ErrorIsAnswer, IdleOnlyWhenRefused,
      PlannedOnce, NewestIsCurrent, NonceIsOwn, Open, Live, Errors, NonRecoverable
<1> QED
  BY <1>5, <1>6, <1>7, <1>8, <1>0, <1>10 DEF IInv

(* A challenge brings the nonce of the current socket.                     *)
LEMMA ChallengedKeeps ==
  ASSUME IInv, Challenged
  PROVE  IInv'
<1> USE DEF Challenged, SendConnect
<1>0. PlanTypes'
  BY TimerFields, NoPlanType, OverType, PlannedType, PlanFields
  DEF IInv, TypeOK, PlanTypes, Open, Live
<1>1. SocketTypes'
  BY DEF IInv, TypeOK, SocketTypes, NewestIsCurrent, Open, Live
<1>2. TimerTypes'
  BY TimerFields DEF IInv, TypeOK, TimerTypes, Open, Live
<1>3. CounterTypes'
  BY DEF IInv, TypeOK, CounterTypes, NewestIsCurrent, RetriesSpendSockets, Open, Live
<1>4. RequestTypes' /\ AnswerTypes' /\ FlagTypes'
  BY DEF IInv, TypeOK, RequestTypes, AnswerTypes, FlagTypes, Open, Live
<1>5. TypeOK'
  BY <1>0, <1>1, <1>2, <1>3, <1>4, TypeParts
<1>6. NewestIsCurrent' /\ RetriesSpendSockets'
  BY TimerFields DEF IInv, TypeOK, NewestIsCurrent, RetriesSpendSockets
<1>7. OneLiveSocket'
  BY DEF IInv, TypeOK, OneLiveSocket, NewestIsCurrent
<1>8. PendingOnActiveSocket'
  BY DEF IInv, TypeOK, PendingOnActiveSocket, NewestIsCurrent, Open, Live
<1>9. NonceIsOwn' /\ HandshakeOnActiveSocket' /\ PlannedOnce'
  BY <1>0, TimerFields, NoPlanType, OverType, PlannedType, PlanFields
  DEF IInv, TypeOK, PlanTypes, NonceIsOwn, HandshakeOnActiveSocket, PlannedOnce,
      NewestIsCurrent, Open, Live
<1>10. HostAgrees' /\ HostWasGreeted' /\ ErrorIsAnswer' /\ IdleOnlyWhenRefused'
  BY <1>0, TimerFields, NoPlanType, OverType, PlannedType, PlanFields
  DEF IInv, TypeOK, PlanTypes, HostAgrees, HostWasGreeted, ErrorIsAnswer, IdleOnlyWhenRefused,
      PlannedOnce, NewestIsCurrent, NonceIsOwn, Open, Live, Errors, NonRecoverable
<1> QED
  BY <1>5, <1>6, <1>7, <1>8, <1>9, <1>10 DEF IInv

(* The plan that is answered is over, and its socket gets no other.        *)
LEMMA HelloKeeps ==
  ASSUME IInv, NEW token \in Tokens, NEW throws \in BOOLEAN, Hello(token, throws)
  PROVE  IInv'
<1> USE DEF Hello, AwaitsHello
<1>0. PlanTypes'
  BY TimerFields, NoPlanType, OverType, PlannedType, PlanFields
  DEF IInv, TypeOK, PlanTypes, Open, Live
<1>1. SocketTypes'
  BY DEF IInv, TypeOK, SocketTypes, NewestIsCurrent, Open, Live
<1>2. TimerTypes'
  BY TimerFields DEF IInv, TypeOK, TimerTypes, Open, Live
<1>3. CounterTypes'
  BY DEF IInv, TypeOK, CounterTypes, NewestIsCurrent, RetriesSpendSockets, Open, Live
<1>4. RequestTypes' /\ AnswerTypes' /\ FlagTypes'
  BY DEF IInv, TypeOK, RequestTypes, AnswerTypes, FlagTypes, Open, Live
<1>5. TypeOK'
  BY <1>0, <1>1, <1>2, <1>3, <1>4, TypeParts
<1>6. NewestIsCurrent' /\ RetriesSpendSockets'
  BY TimerFields DEF IInv, TypeOK, NewestIsCurrent, RetriesSpendSockets
<1>7. OneLiveSocket'
  BY DEF IInv, TypeOK, OneLiveSocket, NewestIsCurrent
<1>8. PendingOnActiveSocket'
  BY DEF IInv, TypeOK, PendingOnActiveSocket, NewestIsCurrent, Open, Live
<1>9. NonceIsOwn' /\ HandshakeOnActiveSocket' /\ PlannedOnce'
  BY <1>0, TimerFields, NoPlanType, OverType, PlannedType, PlanFields
  DEF IInv, TypeOK, PlanTypes, NonceIsOwn, HandshakeOnActiveSocket, PlannedOnce,
      NewestIsCurrent, Open, Live
<1>10. HostAgrees' /\ HostWasGreeted' /\ ErrorIsAnswer' /\ IdleOnlyWhenRefused'
  BY <1>0, TimerFields, NoPlanType, OverType, PlannedType, PlanFields
  DEF IInv, TypeOK, PlanTypes, HostAgrees, HostWasGreeted, ErrorIsAnswer, IdleOnlyWhenRefused,
      PlannedOnce, NewestIsCurrent, NonceIsOwn, Open, Live, Errors, NonRecoverable
<1> QED
  BY <1>5, <1>6, <1>7, <1>8, <1>9, <1>10 DEF IInv

(* Nor does it after an error, which is then the last answer.              *)
LEMMA RefusedKeeps ==
  ASSUME IInv, NEW error \in Errors, NEW hint \in BOOLEAN, Refused(error, hint)
  PROVE  IInv'
<1> USE DEF Refused, AwaitsHello, ShouldRetryWithDeviceToken, UsesStored
<1>0. PlanTypes'
  BY TimerFields, NoPlanType, OverType, PlannedType, PlanFields
  DEF IInv, TypeOK, PlanTypes, Open, Live
<1>1. SocketTypes'
  BY DEF IInv, TypeOK, SocketTypes, NewestIsCurrent, Open, Live
<1>2. TimerTypes'
  BY TimerFields DEF IInv, TypeOK, TimerTypes, Open, Live
<1>3. CounterTypes'
  BY DEF IInv, TypeOK, CounterTypes, NewestIsCurrent, RetriesSpendSockets, Open, Live
<1>4. RequestTypes' /\ AnswerTypes' /\ FlagTypes'
  BY DEF IInv, TypeOK, RequestTypes, AnswerTypes, FlagTypes, Open, Live
<1>5. TypeOK'
  BY <1>0, <1>1, <1>2, <1>3, <1>4, TypeParts
<1>6. NewestIsCurrent' /\ RetriesSpendSockets'
  BY TimerFields DEF IInv, TypeOK, NewestIsCurrent, RetriesSpendSockets
<1>7. OneLiveSocket'
  BY DEF IInv, TypeOK, OneLiveSocket, NewestIsCurrent
<1>8. PendingOnActiveSocket'
  BY DEF IInv, TypeOK, PendingOnActiveSocket, NewestIsCurrent, Open, Live
<1>9. NonceIsOwn' /\ HandshakeOnActiveSocket' /\ PlannedOnce'
  BY <1>0, TimerFields, NoPlanType, OverType, PlannedType, PlanFields
  DEF IInv, TypeOK, PlanTypes, NonceIsOwn, HandshakeOnActiveSocket, PlannedOnce,
      NewestIsCurrent, Open, Live
<1>10. HostAgrees' /\ HostWasGreeted' /\ ErrorIsAnswer' /\ IdleOnlyWhenRefused'
  BY <1>0, TimerFields, NoPlanType, OverType, PlannedType, PlanFields
  DEF IInv, TypeOK, PlanTypes, HostAgrees, HostWasGreeted, ErrorIsAnswer, IdleOnlyWhenRefused,
      PlannedOnce, NewestIsCurrent, NonceIsOwn, Open, Live, Errors, NonRecoverable
<1> QED
  BY <1>5, <1>6, <1>7, <1>8, <1>9, <1>10 DEF IInv

(* No plan was made for a socket before it opens.                          *)
LEMMA SocketOpensKeeps ==
  ASSUME IInv, NEW g \in Gens, SocketOpens(g)
  PROVE  IInv'
<1> USE DEF SocketOpens
<1>0. PlanTypes'
  BY TimerFields, NoPlanType, OverType, PlannedType, PlanFields
  DEF IInv, TypeOK, PlanTypes, Open, Live
<1>1. SocketTypes'
  BY DEF IInv, TypeOK, SocketTypes, NewestIsCurrent, Open, Live
<1>2. TimerTypes'
  BY TimerFields DEF IInv, TypeOK, TimerTypes, Open, Live
<1>3. CounterTypes'
  BY DEF IInv, TypeOK, CounterTypes, NewestIsCurrent, RetriesSpendSockets, Open, Live
<1>4. RequestTypes' /\ AnswerTypes' /\ FlagTypes'
  BY DEF IInv, TypeOK, RequestTypes, AnswerTypes, FlagTypes, Open, Live
<1>5. TypeOK'
  BY <1>0, <1>1, <1>2, <1>3, <1>4, TypeParts
<1>6. NewestIsCurrent' /\ RetriesSpendSockets'
  BY TimerFields DEF IInv, TypeOK, NewestIsCurrent, RetriesSpendSockets
<1>7. OneLiveSocket'
  BY DEF IInv, TypeOK, OneLiveSocket, NewestIsCurrent
<1>8. PendingOnActiveSocket'
  BY DEF IInv, TypeOK, PendingOnActiveSocket, NewestIsCurrent, Open, Live
<1>9. NonceIsOwn' /\ HandshakeOnActiveSocket' /\ PlannedOnce'
  BY <1>0, TimerFields, NoPlanType, OverType, PlannedType, PlanFields
  DEF IInv, TypeOK, PlanTypes, NonceIsOwn, HandshakeOnActiveSocket, PlannedOnce,
      NewestIsCurrent, Open, Live
<1>10. HostAgrees' /\ HostWasGreeted' /\ ErrorIsAnswer' /\ IdleOnlyWhenRefused'
  BY <1>0, TimerFields, NoPlanType, OverType, PlannedType, PlanFields
  DEF IInv, TypeOK, PlanTypes, HostAgrees, HostWasGreeted, ErrorIsAnswer, IdleOnlyWhenRefused,
      PlannedOnce, NewestIsCurrent, NonceIsOwn, Open, Live, Errors, NonRecoverable
<1> QED
  BY <1>5, <1>6, <1>7, <1>8, <1>9, <1>10 DEF IInv

(* The close of the current socket leaves nothing that refers to it.       *)
LEMMA SocketClosesKeeps ==
  ASSUME IInv, NEW g \in Gens, SocketCloses(g)
  PROVE  IInv'
<1> USE DEF SocketCloses, ActiveSocketCloses, FlushPending, Reconnects, HostAfterClose
<1>0. PlanTypes'
  BY TimerFields, NoPlanType, OverType, PlannedType, PlanFields
  DEF IInv, TypeOK, PlanTypes, Open, Live
<1>1. SocketTypes'
  BY DEF IInv, TypeOK, SocketTypes, NewestIsCurrent, Open, Live
<1>2. TimerTypes'
  BY TimerFields DEF IInv, TypeOK, TimerTypes, Open, Live
<1>3. CounterTypes'
  BY DEF IInv, TypeOK, CounterTypes, NewestIsCurrent, RetriesSpendSockets, Open, Live
<1>4. RequestTypes' /\ AnswerTypes' /\ FlagTypes'
  BY DEF IInv, TypeOK, RequestTypes, AnswerTypes, FlagTypes, Open, Live
<1>5. TypeOK'
  BY <1>0, <1>1, <1>2, <1>3, <1>4, TypeParts
<1>6. NewestIsCurrent' /\ RetriesSpendSockets'
  BY TimerFields DEF IInv, TypeOK, NewestIsCurrent, RetriesSpendSockets
<1>7. OneLiveSocket'
  BY DEF IInv, TypeOK, OneLiveSocket, NewestIsCurrent
<1>8. PendingOnActiveSocket'
  BY DEF IInv, TypeOK, PendingOnActiveSocket, NewestIsCurrent, Open, Live
<1>9. NonceIsOwn' /\ HandshakeOnActiveSocket' /\ PlannedOnce'
  <2>1. CASE ws = g
    <3>1. \A h \in Gens : plan'[h] = plan[h] \/ (h = g /\ plan'[h] = Over)
      BY <2>1 DEF IInv, TypeOK
    <3>2. \A h \in Gens : plan[h].stage = "sent" => h = ws /\ plan'[h] = Over
      BY <2>1 DEF IInv, TypeOK, HandshakeOnActiveSocket
    <3>3. ws' = 0
      BY <2>1
    <3> QED
      BY <2>1, <3>1, <3>2, <3>3, OverType
      DEF IInv, TypeOK, NonceIsOwn, HandshakeOnActiveSocket, PlannedOnce, NewestIsCurrent,
          Open, Live
  <2>2. CASE ws # g
    BY <2>2
    DEF IInv, TypeOK, NonceIsOwn, HandshakeOnActiveSocket, PlannedOnce, Open, Live
  <2> QED BY <2>1, <2>2
<1>10. HostAgrees' /\ HostWasGreeted' /\ ErrorIsAnswer' /\ IdleOnlyWhenRefused'
  BY <1>0, TimerFields, NoPlanType, OverType, PlannedType, PlanFields
  DEF IInv, TypeOK, PlanTypes, HostAgrees, HostWasGreeted, ErrorIsAnswer, IdleOnlyWhenRefused,
      PlannedOnce, NewestIsCurrent, NonceIsOwn, Open, Live, Errors, NonRecoverable
<1> QED
  BY <1>5, <1>6, <1>7, <1>8, <1>9, <1>10 DEF IInv

(* A plan goes on, whether or not its socket is still current.             *)
LEMMA SelectAuthKeeps ==
  ASSUME IInv, NEW g \in Gens, SelectAuth(g)
  PROVE  IInv'
<1> USE DEF SelectAuth
<1>a. plan[g] \in Plans /\ plan' = [plan EXCEPT ![g] = WithAuth(plan[g])]
  BY DEF IInv, TypeOK
<1>b. /\ WithAuth(plan[g]) \in Plans
      /\ WithAuth(plan[g]).stage = "signing" /\ WithAuth(plan[g]).nonce = plan[g].nonce
  BY <1>a, WithAuthType DEF IInv
<1>0. PlanTypes'
  BY <1>a, <1>b DEF IInv, TypeOK, PlanTypes
<1>1. SocketTypes'
  BY DEF IInv, TypeOK, SocketTypes, NewestIsCurrent, Open, Live
<1>2. TimerTypes'
  BY TimerFields DEF IInv, TypeOK, TimerTypes, Open, Live
<1>3. CounterTypes'
  BY DEF IInv, TypeOK, CounterTypes, NewestIsCurrent, RetriesSpendSockets, Open, Live
<1>4. RequestTypes' /\ AnswerTypes' /\ FlagTypes'
  BY DEF IInv, TypeOK, RequestTypes, AnswerTypes, FlagTypes, Open, Live
<1>5. TypeOK'
  BY <1>0, <1>1, <1>2, <1>3, <1>4, TypeParts
<1>6. NewestIsCurrent' /\ RetriesSpendSockets'
  BY TimerFields DEF IInv, TypeOK, NewestIsCurrent, RetriesSpendSockets
<1>7. OneLiveSocket'
  BY DEF IInv, TypeOK, OneLiveSocket, NewestIsCurrent
<1>8. PendingOnActiveSocket'
  BY DEF IInv, TypeOK, PendingOnActiveSocket, NewestIsCurrent, Open, Live
<1>9. NonceIsOwn' /\ HandshakeOnActiveSocket' /\ PlannedOnce'
  BY <1>0, <1>a, <1>b, OverType
  DEF IInv, TypeOK, PlanTypes, NonceIsOwn, HandshakeOnActiveSocket, PlannedOnce,
      NewestIsCurrent, Open, Live
<1>10. HostAgrees' /\ HostWasGreeted' /\ ErrorIsAnswer' /\ IdleOnlyWhenRefused'
  BY <1>0, TimerFields, NoPlanType, OverType, PlannedType, PlanFields
  DEF IInv, TypeOK, PlanTypes, HostAgrees, HostWasGreeted, ErrorIsAnswer, IdleOnlyWhenRefused,
      PlannedOnce, NewestIsCurrent, NonceIsOwn, Open, Live, Errors, NonRecoverable
<1> QED
  BY <1>5, <1>6, <1>7, <1>8, <1>9, <1>10 DEF IInv

(* A plan is sent only on the socket it was made for.                      *)
LEMMA PlanReadyKeeps ==
  ASSUME IInv, NEW g \in Gens, PlanReady(g)
  PROVE  IInv'
<1> USE DEF PlanReady
<1> DEFINE sent == [plan[g] EXCEPT !.stage = "sent"]
<1>a. \/ Open /\ ws = g /\ plan' = [plan EXCEPT ![g] = sent]
      \/ plan' = [plan EXCEPT ![g] = Over]
  OBVIOUS
<1>b. sent \in Plans /\ sent.stage = "sent" /\ sent.nonce = plan[g].nonce
  BY SentType DEF IInv, TypeOK
<1> HIDE DEF sent
<1>0. PlanTypes'
  BY <1>a, <1>b, OverType DEF IInv, TypeOK, PlanTypes
<1>1. SocketTypes'
  BY DEF IInv, TypeOK, SocketTypes, NewestIsCurrent, Open, Live
<1>2. TimerTypes'
  BY TimerFields DEF IInv, TypeOK, TimerTypes, Open, Live
<1>3. CounterTypes'
  BY DEF IInv, TypeOK, CounterTypes, NewestIsCurrent, RetriesSpendSockets, Open, Live
<1>4. RequestTypes' /\ AnswerTypes' /\ FlagTypes'
  BY DEF IInv, TypeOK, RequestTypes, AnswerTypes, FlagTypes, Open, Live
<1>5. TypeOK'
  BY <1>0, <1>1, <1>2, <1>3, <1>4, TypeParts
<1>6. NewestIsCurrent' /\ RetriesSpendSockets'
  BY TimerFields DEF IInv, TypeOK, NewestIsCurrent, RetriesSpendSockets
<1>7. OneLiveSocket'
  BY DEF IInv, TypeOK, OneLiveSocket, NewestIsCurrent
<1>8. PendingOnActiveSocket'
  BY DEF IInv, TypeOK, PendingOnActiveSocket, NewestIsCurrent, Open, Live
<1>9. NonceIsOwn' /\ HandshakeOnActiveSocket' /\ PlannedOnce'
  <2>1. CASE Open /\ ws = g /\ plan' = [plan EXCEPT ![g] = sent]
    BY <1>0, <1>b, <2>1
    DEF IInv, TypeOK, PlanTypes, NonceIsOwn, HandshakeOnActiveSocket, PlannedOnce,
        NewestIsCurrent, Open, Live
  <2>2. CASE plan' = [plan EXCEPT ![g] = Over]
    BY <1>0, <2>2, OverType
    DEF IInv, TypeOK, PlanTypes, NonceIsOwn, HandshakeOnActiveSocket, PlannedOnce,
        NewestIsCurrent, Open, Live
  <2> QED BY <1>a, <2>1, <2>2
<1>10. HostAgrees' /\ HostWasGreeted' /\ ErrorIsAnswer' /\ IdleOnlyWhenRefused'
  BY <1>0, TimerFields, NoPlanType, OverType, PlannedType, PlanFields
  DEF IInv, TypeOK, PlanTypes, HostAgrees, HostWasGreeted, ErrorIsAnswer, IdleOnlyWhenRefused,
      PlannedOnce, NewestIsCurrent, NonceIsOwn, Open, Live, Errors, NonRecoverable
<1> QED
  BY <1>5, <1>6, <1>7, <1>8, <1>9, <1>10 DEF IInv

(* A request is pending only on an open socket.                            *)
LEMMA IssueKeeps ==
  ASSUME IInv, NEW r \in Requests, Issue(r)
  PROVE  IInv'
<1> USE DEF Issue
<1>0. PlanTypes'
  BY TimerFields, NoPlanType, OverType, PlannedType, PlanFields
  DEF IInv, TypeOK, PlanTypes, Open, Live
<1>1. SocketTypes'
  BY DEF IInv, TypeOK, SocketTypes, NewestIsCurrent, Open, Live
<1>2. TimerTypes'
  BY TimerFields DEF IInv, TypeOK, TimerTypes, Open, Live
<1>3. CounterTypes'
  BY DEF IInv, TypeOK, CounterTypes, NewestIsCurrent, RetriesSpendSockets, Open, Live
<1>4. RequestTypes' /\ AnswerTypes' /\ FlagTypes'
  BY DEF IInv, TypeOK, RequestTypes, AnswerTypes, FlagTypes, Open, Live
<1>5. TypeOK'
  BY <1>0, <1>1, <1>2, <1>3, <1>4, TypeParts
<1>6. NewestIsCurrent' /\ RetriesSpendSockets'
  BY TimerFields DEF IInv, TypeOK, NewestIsCurrent, RetriesSpendSockets
<1>7. OneLiveSocket'
  BY DEF IInv, TypeOK, OneLiveSocket, NewestIsCurrent
<1>8. PendingOnActiveSocket'
  BY DEF IInv, TypeOK, PendingOnActiveSocket, NewestIsCurrent, Open, Live
<1>9. NonceIsOwn' /\ HandshakeOnActiveSocket' /\ PlannedOnce'
  BY <1>0, TimerFields, NoPlanType, OverType, PlannedType, PlanFields
  DEF IInv, TypeOK, PlanTypes, NonceIsOwn, HandshakeOnActiveSocket, PlannedOnce,
      NewestIsCurrent, Open, Live
<1>10. HostAgrees' /\ HostWasGreeted' /\ ErrorIsAnswer' /\ IdleOnlyWhenRefused'
  BY <1>0, TimerFields, NoPlanType, OverType, PlannedType, PlanFields
  DEF IInv, TypeOK, PlanTypes, HostAgrees, HostWasGreeted, ErrorIsAnswer, IdleOnlyWhenRefused,
      PlannedOnce, NewestIsCurrent, NonceIsOwn, Open, Live, Errors, NonRecoverable
<1> QED
  BY <1>5, <1>6, <1>7, <1>8, <1>9, <1>10 DEF IInv

(* An answer settles its request.                                          *)
LEMMA AnsweredKeeps ==
  ASSUME IInv, NEW r \in Requests, Answered(r)
  PROVE  IInv'
<1> USE DEF Answered
<1>0. PlanTypes'
  BY TimerFields, NoPlanType, OverType, PlannedType, PlanFields
  DEF IInv, TypeOK, PlanTypes, Open, Live
<1>1. SocketTypes'
  BY DEF IInv, TypeOK, SocketTypes, NewestIsCurrent, Open, Live
<1>2. TimerTypes'
  BY TimerFields DEF IInv, TypeOK, TimerTypes, Open, Live
<1>3. CounterTypes'
  BY DEF IInv, TypeOK, CounterTypes, NewestIsCurrent, RetriesSpendSockets, Open, Live
<1>4. RequestTypes' /\ AnswerTypes' /\ FlagTypes'
  BY DEF IInv, TypeOK, RequestTypes, AnswerTypes, FlagTypes, Open, Live
<1>5. TypeOK'
  BY <1>0, <1>1, <1>2, <1>3, <1>4, TypeParts
<1>6. NewestIsCurrent' /\ RetriesSpendSockets'
  BY TimerFields DEF IInv, TypeOK, NewestIsCurrent, RetriesSpendSockets
<1>7. OneLiveSocket'
  BY DEF IInv, TypeOK, OneLiveSocket, NewestIsCurrent
<1>8. PendingOnActiveSocket'
  BY DEF IInv, TypeOK, PendingOnActiveSocket, NewestIsCurrent, Open, Live
<1>9. NonceIsOwn' /\ HandshakeOnActiveSocket' /\ PlannedOnce'
  BY <1>0, TimerFields, NoPlanType, OverType, PlannedType, PlanFields
  DEF IInv, TypeOK, PlanTypes, NonceIsOwn, HandshakeOnActiveSocket, PlannedOnce,
      NewestIsCurrent, Open, Live
<1>10. HostAgrees' /\ HostWasGreeted' /\ ErrorIsAnswer' /\ IdleOnlyWhenRefused'
  BY <1>0, TimerFields, NoPlanType, OverType, PlannedType, PlanFields
  DEF IInv, TypeOK, PlanTypes, HostAgrees, HostWasGreeted, ErrorIsAnswer, IdleOnlyWhenRefused,
      PlannedOnce, NewestIsCurrent, NonceIsOwn, Open, Live, Errors, NonRecoverable
<1> QED
  BY <1>5, <1>6, <1>7, <1>8, <1>9, <1>10 DEF IInv

(* Stopping leaves nothing that refers to a socket.                        *)
LEMMA StopKeeps ==
  ASSUME IInv, Stop
  PROVE  IInv'
<1> USE DEF Stop, StopSocket, FlushPending
<1>0. PlanTypes'
  BY TimerFields, NoPlanType, OverType, PlannedType, PlanFields
  DEF IInv, TypeOK, PlanTypes, Open, Live
<1>1. SocketTypes'
  BY DEF IInv, TypeOK, SocketTypes, NewestIsCurrent, Open, Live
<1>2. TimerTypes'
  BY TimerFields DEF IInv, TypeOK, TimerTypes, Open, Live
<1>3. CounterTypes'
  BY DEF IInv, TypeOK, CounterTypes, NewestIsCurrent, RetriesSpendSockets, Open, Live
<1>4. RequestTypes' /\ AnswerTypes' /\ FlagTypes'
  BY DEF IInv, TypeOK, RequestTypes, AnswerTypes, FlagTypes, Open, Live
<1>5. TypeOK'
  BY <1>0, <1>1, <1>2, <1>3, <1>4, TypeParts
<1>6. NewestIsCurrent' /\ RetriesSpendSockets'
  BY TimerFields DEF IInv, TypeOK, NewestIsCurrent, RetriesSpendSockets
<1>7. OneLiveSocket'
  BY DEF IInv, TypeOK, OneLiveSocket, NewestIsCurrent
<1>8. PendingOnActiveSocket'
  BY DEF IInv, TypeOK, PendingOnActiveSocket, NewestIsCurrent, Open, Live
<1>9. NonceIsOwn' /\ HandshakeOnActiveSocket' /\ PlannedOnce'
  BY <1>0, TimerFields, NoPlanType, OverType, PlannedType, PlanFields
  DEF IInv, TypeOK, PlanTypes, NonceIsOwn, HandshakeOnActiveSocket, PlannedOnce,
      NewestIsCurrent, Open, Live
<1>10. HostAgrees' /\ HostWasGreeted' /\ ErrorIsAnswer' /\ IdleOnlyWhenRefused'
  BY <1>0, TimerFields, NoPlanType, OverType, PlannedType, PlanFields
  DEF IInv, TypeOK, PlanTypes, HostAgrees, HostWasGreeted, ErrorIsAnswer, IdleOnlyWhenRefused,
      PlannedOnce, NewestIsCurrent, NonceIsOwn, Open, Live, Errors, NonRecoverable
<1> QED
  BY <1>5, <1>6, <1>7, <1>8, <1>9, <1>10 DEF IInv

(* Other tabs touch the stored token alone.                                *)
LEMMA OtherTabKeeps ==
  ASSUME IInv, OtherTab
  PROVE  IInv'
<1> USE DEF OtherTab
<1>0. PlanTypes'
  BY TimerFields, NoPlanType, OverType, PlannedType, PlanFields
  DEF IInv, TypeOK, PlanTypes, Open, Live
<1>1. SocketTypes'
  BY DEF IInv, TypeOK, SocketTypes, NewestIsCurrent, Open, Live
<1>2. TimerTypes'
  BY TimerFields DEF IInv, TypeOK, TimerTypes, Open, Live
<1>3. CounterTypes'
  BY DEF IInv, TypeOK, CounterTypes, NewestIsCurrent, RetriesSpendSockets, Open, Live
<1>4. RequestTypes' /\ AnswerTypes' /\ FlagTypes'
  BY DEF IInv, TypeOK, RequestTypes, AnswerTypes, FlagTypes, Open, Live
<1>5. TypeOK'
  BY <1>0, <1>1, <1>2, <1>3, <1>4, TypeParts
<1>6. NewestIsCurrent' /\ RetriesSpendSockets'
  BY TimerFields DEF IInv, TypeOK, NewestIsCurrent, RetriesSpendSockets
<1>7. OneLiveSocket'
  BY DEF IInv, TypeOK, OneLiveSocket, NewestIsCurrent
<1>8. PendingOnActiveSocket'
  BY DEF IInv, TypeOK, PendingOnActiveSocket, NewestIsCurrent, Open, Live
<1>9. NonceIsOwn' /\ HandshakeOnActiveSocket' /\ PlannedOnce'
  BY <1>0, TimerFields, NoPlanType, OverType, PlannedType, PlanFields
  DEF IInv, TypeOK, PlanTypes, NonceIsOwn, HandshakeOnActiveSocket, PlannedOnce,
      NewestIsCurrent, Open, Live
<1>10. HostAgrees' /\ HostWasGreeted' /\ ErrorIsAnswer' /\ IdleOnlyWhenRefused'
  BY <1>0, TimerFields, NoPlanType, OverType, PlannedType, PlanFields
  DEF IInv, TypeOK, PlanTypes, HostAgrees, HostWasGreeted, ErrorIsAnswer, IdleOnlyWhenRefused,
      PlannedOnce, NewestIsCurrent, NonceIsOwn, Open, Live, Errors, NonRecoverable
<1> QED
  BY <1>5, <1>6, <1>7, <1>8, <1>9, <1>10 DEF IInv

LEMMA StutterKeeps == IInv /\ UNCHANGED vars => IInv'
BY DEF vars, IInv, TypeOK, NewestIsCurrent, RetriesSpendSockets, OneLiveSocket,
       PendingOnActiveSocket, NonceIsOwn, HandshakeOnActiveSocket, PlannedOnce, HostAgrees,
       HostWasGreeted, ErrorIsAnswer, IdleOnlyWhenRefused, Open, Live

LEMMA InitHolds == Init => IInv
<1> SUFFICES ASSUME Init PROVE IInv
  OBVIOUS
<1>1. TypeOK
  <2>1. plan \in [Gens -> Plans] /\ connectTimer \in Timers
    BY TimerFields, NoPlanType DEF Init
  <2>2. /\ sock \in [Gens -> {"none", "connecting", "open", "closing", "closed"}]
        /\ \A g \in Gens : sock[g] = "none" <=> g > connectGeneration
    BY DEF Init
  <2>3. /\ request \in [Requests -> {"new", "pending", "answered", "rejected"}]
        /\ sentOn \in [Requests -> 0 .. MaxConnects]
    BY DEF Init
  <2>4. storedToken \in Tokens /\ ws \in 0 .. MaxConnects /\ mismatchRetries \in 0 .. MaxConnects
        /\ retriesSent \in Nat
        /\ connectGeneration \in 0 .. MaxConnects /\ connectNonce \in 0 .. MaxConnects
    BY DEF Init
  <2> HIDE DEF Tokens, Gens
  <2> QED BY <2>1, <2>2, <2>3, <2>4, Zenon DEF Init, TypeOK
<1>2. NewestIsCurrent /\ RetriesSpendSockets
  BY TimerFields DEF Init, NewestIsCurrent, RetriesSpendSockets
<1>3. NonceIsOwn /\ HandshakeOnActiveSocket /\ PlannedOnce
  BY NoPlanType DEF Init, NonceIsOwn, HandshakeOnActiveSocket, PlannedOnce, Open, Live
<1> QED
  BY <1>1, <1>2, <1>3
  DEF Init, IInv, OneLiveSocket, PendingOnActiveSocket, HostAgrees, HostWasGreeted,
      ErrorIsAnswer, IdleOnlyWhenRefused

LEMMA NextKeeps == IInv /\ [Next]_vars => IInv'
<1> SUFFICES ASSUME IInv, Next PROVE IInv'
  BY StutterKeeps
<1>1. CASE Start \/ FireReconnect \/ FireFallback \/ Challenged
  BY <1>1, StartKeeps, FireReconnectKeeps, FireFallbackKeeps, ChallengedKeeps
<1>2. CASE ConnectAnswer
  BY <1>2, HelloKeeps, RefusedKeeps DEF ConnectAnswer
<1>3. CASE \E g \in Gens : \/ SocketOpens(g) \/ SocketCloses(g)
                          \/ SelectAuth(g) \/ PlanReady(g)
  BY <1>3, SocketOpensKeeps, SocketClosesKeeps, SelectAuthKeeps, PlanReadyKeeps
<1>4. CASE \E r \in Requests : Issue(r) \/ Answered(r)
  BY <1>4, IssueKeeps, AnsweredKeeps
<1>5. CASE Stop \/ OtherTab
  BY <1>5, StopKeeps, OtherTabKeeps
<1> QED
  BY <1>1, <1>2, <1>3, <1>4, <1>5 DEF Next

LEMMA Inductive == Spec => []IInv
BY InitHolds, NextKeeps, PTL DEF Spec

-------------------------------------------------------------------------------
(* The variables of the client keep their types, in particular the count   *)
(* of retries and the states of the sockets created so far.                *)
THEOREM TypeCorrect == Spec => []TypeOK
<1>1. IInv => TypeOK
  BY DEF IInv
<1> QED BY <1>1, Inductive, PTL

(* A request that is pending waits on the client's socket: gateway.ts      *)
(* flushes the table on every way to lose it.                              *)
THEOREM NoRequestForgotten == Spec => []PendingOnActiveSocket
<1>1. IInv => PendingOnActiveSocket
  BY DEF IInv
<1> QED BY <1>1, Inductive, PTL

(* The client never has two live connections, and none after stop().       *)
THEOREM AtMostOneLive == Spec => []OneLiveSocket
<1>1. IInv => OneLiveSocket
  BY DEF IInv
<1> QED BY <1>1, Inductive, PTL

(* connect is sent on the current socket and signs no other socket's       *)
(* nonce, however long the identity and the signature take.                *)
THEOREM HandshakeIsCurrent == Spec => []HandshakeOnActiveSocket
<1>1. IInv => HandshakeOnActiveSocket
  BY DEF IInv
<1> QED BY <1>1, Inductive, PTL

(* The page shows a connection only while the socket that said hello is    *)
(* the current one.                                                        *)
THEOREM HostIsRight == Spec => []HostAgrees
<1>1. IInv => HostAgrees
  BY DEF IInv
<1> QED BY <1>1, Inductive, PTL

(* The client stops reconnecting only after an answer a user must resolve. *)
THEOREM IdleIsRefused == Spec => []IdleOnlyWhenRefused
<1>1. IInv => IdleOnlyWhenRefused
  BY DEF IInv
<1> QED BY <1>1, Inductive, PTL

-------------------------------------------------------------------------------
(* No step presents the stored token a second time.                        *)
LEMMA NextPays ==
  ASSUME IInv, RetryIsPaid, Next
  PROVE  RetryIsPaid'
<1> USE DEF IInv, TypeOK, RetryIsPaid, NewestIsCurrent
<1>1. CASE Start \/ FireReconnect
  BY <1>1, NoPlanType DEF Start, FireReconnect, Connect, ConnectThrows, NonceIsOwn
<1>2. CASE FireFallback \/ Challenged
  <2>1. \A n \in 0 .. MaxConnects : Planned(n).stage = "identity"
    BY PlannedType
  <2> QED
    BY <1>2, <2>1, TimerFields DEF FireFallback, Challenged, SendConnect, Open, Live
<1>3. ASSUME NEW token \in Tokens, NEW throws \in BOOLEAN, Hello(token, throws)
      PROVE  RetryIsPaid'
  BY <1>3, OverType DEF Hello, AwaitsHello, Open, Live
<1>4. ASSUME NEW error \in Errors, NEW hint \in BOOLEAN, Refused(error, hint)
      PROVE  RetryIsPaid'
  BY <1>4, OverType DEF Refused, AwaitsHello, ShouldRetryWithDeviceToken, Open, Live
<1>5. ASSUME NEW g \in Gens, SocketOpens(g) PROVE RetryIsPaid'
  BY <1>5 DEF SocketOpens
<1>6. ASSUME NEW g \in Gens, SocketCloses(g) PROVE RetryIsPaid'
  BY <1>6 DEF SocketCloses, ActiveSocketCloses
<1>7. ASSUME NEW g \in Gens, SelectAuth(g) PROVE RetryIsPaid'
  <2>1. plan[g] \in Plans /\ plan' = [plan EXCEPT ![g] = WithAuth(plan[g])]
    BY <1>7 DEF SelectAuth
  <2>2. WithAuth(plan[g]).device => pendingDeviceTokenRetry
    BY <2>1, WithAuthType
  <2> QED BY <1>7, <2>1, <2>2 DEF SelectAuth
<1>8. ASSUME NEW g \in Gens, PlanReady(g) PROVE RetryIsPaid'
  <2> DEFINE sent == [plan[g] EXCEPT !.stage = "sent"]
  <2>1. CASE Open /\ ws = g
    <3>1. plan' = [plan EXCEPT ![g] = sent]
      BY <1>8, <2>1 DEF PlanReady
    <3>2. sent.stage = "sent" /\ sent.stored = plan[g].stored
      BY SentType
    <3> HIDE DEF sent
    <3> QED BY <1>8, <2>1, <3>1, <3>2 DEF PlanReady, Open, Live
  <2>2. CASE ~(Open /\ ws = g)
    BY <1>8, <2>2, OverType DEF PlanReady
  <2> QED BY <2>1, <2>2
<1>9. CASE \E r \in Requests : Issue(r) \/ Answered(r)
  BY <1>9 DEF Issue, Answered
<1>10. CASE Stop
  BY <1>10, OverType DEF Stop
<1>11. CASE OtherTab
  BY <1>11 DEF OtherTab
<1> QED
  BY <1>1, <1>2, <1>3, <1>4, <1>5, <1>6, <1>7, <1>8, <1>9, <1>10, <1>11
  DEF Next, ConnectAnswer

(* gateway.ts, shouldRetryWithDeviceToken: until the next hello, the stored*)
(* token is presented beside the refused one on one socket at most, for any*)
(* number of reconnects and whatever other tabs do to it.                  *)
THEOREM StoredTokenIsTriedOnce == Spec => []StoredTokenTriedOnce
<1>1. Init => RetryIsPaid
  BY NoPlanType DEF Init, RetryIsPaid
<1>2. IInv /\ RetryIsPaid /\ [Next]_vars => RetryIsPaid'
  BY NextPays DEF vars, RetryIsPaid
<1>3. RetryIsPaid => StoredTokenTriedOnce
  BY DEF RetryIsPaid, StoredTokenTriedOnce
<1> QED BY <1>1, <1>2, <1>3, Inductive, PTL DEF Spec
===============================================================================

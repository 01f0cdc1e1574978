----------------------------- MODULE GatewayClient -----------------------------
(***************************************************************************)
(* GatewayBrowserClient of the web UI: one WebSocket at a time, the        *)
(* connect handshake with its fallback timer, the retry with a stored      *)
(* device token, reconnection, and the table of pending requests.          *)
(*                                                                         *)
(* Every browser task (an event of a socket, a timer, a resumed promise)   *)
(* is a step of its own; the promise reactions that run before the next    *)
(* task belong to the step that settles the promise.  The client runs in a *)
(* secure context, where it has a device identity; elsewhere it never      *)
(* reads a stored token.  MaxConnects and MaxTokens bound the exploration. *)
(***************************************************************************)
EXTENDS Naturals, FiniteSets

CONSTANTS Requests,    \* requests the UI makes once it has a client
          MaxConnects, \* bound on connectGeneration
          MaxTokens,   \* bound on device tokens ever stored
          OtherTabs    \* what other tabs do to the stored token: "store", "clear"

ASSUME ClientAssumption == /\ MaxConnects \in Nat
                           /\ MaxTokens \in Nat
                           /\ OtherTabs \subseteq {"store", "clear"}

VARIABLES
  auth,                        \* settings: a password, or a token and a trusted URL
  closed, ws, connectGeneration, \* ws is a generation, 0 for null
  sock,                        \* readyState of the socket of each generation
  connectTimer,                \* the one timer: reconnect, or fallback of a socket
  connectSent, connectNonce,   \* a nonce is the generation that was sent it
  plan,                        \* the sendConnect of each generation
  request, sentOn,             \* the pending table, with the socket of a request
  pendingConnectError, pendingDeviceTokenRetry, deviceTokenRetryBudgetUsed,
  pendingStartupReconnectDelay,
  storedToken,                 \* localStorage, shared by all tabs; 0 for none
  hostConnected,               \* host.connected, set by onHello and onClose
  lastAnswer,                  \* history: how the last attempt was answered
  mismatchRetries,             \* history: reconnects after a token mismatch and
  retriesSent                  \* retries sent with the stored token, until hello

authVars == <<pendingDeviceTokenRetry, deviceTokenRetryBudgetUsed, storedToken>>
errorVars == <<pendingConnectError, pendingStartupReconnectDelay>>
handshakeVars == <<connectSent, connectNonce>>
requestVars == <<request, sentOn>>
history == <<lastAnswer, mismatchRetries, retriesSent>>
vars == <<auth, closed, ws, connectGeneration, sock, connectTimer, handshakeVars,
          plan, requestVars, authVars, errorVars, hostConnected, history>>

Gens == 1 .. MaxConnects
Tokens == 0 .. MaxTokens
NonRecoverable == {"deviceTokenMismatch", "refused"}
Errors == NonRecoverable \cup {"tokenMismatch", "starting", "unavailable"}
NoTimer == [kind |-> "none", gen |-> 0]
Timers == [kind : {"none", "reconnect", "fallback"}, gen : 0 .. MaxConnects]
NoPlan == [stage |-> "none", nonce |-> 0, stored |-> 0, device |-> FALSE]
Over == [NoPlan EXCEPT !.stage = "over"]
Planned(nonce) == [NoPlan EXCEPT !.stage = "identity", !.nonce = nonce]
Plans == [stage : {"none", "identity", "signing", "sent", "over"},
          nonce : 0 .. MaxConnects, stored : Tokens, device : BOOLEAN]

TypeOK ==
  /\ auth \in {"none", "password", "token", "trustedToken"}
  /\ closed \in BOOLEAN
  /\ ws \in 0 .. MaxConnects
  /\ connectGeneration \in 0 .. MaxConnects
  /\ sock \in [Gens -> {"none", "connecting", "open", "closing", "closed"}]
  /\ \A g \in Gens : sock[g] = "none" <=> g > connectGeneration
  /\ connectTimer \in Timers
  /\ connectSent \in BOOLEAN
  /\ connectNonce \in 0 .. MaxConnects
  /\ plan \in [Gens -> Plans]
  /\ request \in [Requests -> {"new", "pending", "answered", "rejected"}]
  /\ sentOn \in [Requests -> 0 .. MaxConnects]
  /\ pendingConnectError \in Errors \cup {"none"}
  /\ pendingDeviceTokenRetry \in BOOLEAN
  /\ deviceTokenRetryBudgetUsed \in BOOLEAN
  /\ pendingStartupReconnectDelay \in BOOLEAN
  /\ storedToken \in Tokens
  /\ hostConnected \in BOOLEAN
  /\ lastAnswer \in Errors \cup {"none", "hello", "constructor"}
  /\ mismatchRetries \in 0 .. MaxConnects /\ retriesSent \in Nat

Init ==
  /\ auth \in {"none", "password", "token", "trustedToken"}
  /\ closed = FALSE
  /\ ws = 0 /\ connectGeneration = 0
  /\ sock = [g \in Gens |-> "none"]
  /\ connectTimer = NoTimer
  /\ connectSent = FALSE /\ connectNonce = 0
  /\ plan = [g \in Gens |-> NoPlan]
  /\ request = [r \in Requests |-> "new"]
  /\ sentOn = [r \in Requests |-> 0]
  /\ pendingConnectError = "none"
  /\ pendingStartupReconnectDelay = FALSE
  /\ pendingDeviceTokenRetry = FALSE
  /\ deviceTokenRetryBudgetUsed = FALSE
  /\ storedToken \in Tokens \cap {0, 1}
  /\ hostConnected = FALSE
  /\ lastAnswer = "none" /\ mismatchRetries = 0 /\ retriesSent = 0

Live == ~closed /\ ws # 0
Open == Live /\ sock[ws] = "open"

-------------------------------------------------------------------------------
(* Mutant: the socket is opened under the generation of the one before.    *)
ConnectSameGeneration ==
  /\ connectGeneration < MaxConnects
  /\ connectGeneration' = connectGeneration
  /\ ws' = connectGeneration + 1
  /\ sock' = [sock EXCEPT ![connectGeneration + 1] = "connecting"]
  /\ lastAnswer' = "none"
  /\ UNCHANGED <<auth, closed, handshakeVars, plan, requestVars, authVars, errorVars,
                 hostConnected, mismatchRetries, retriesSent>>

(* new WebSocket(url) succeeds ...                                         *)
Connect ==
  /\ connectGeneration < MaxConnects
  /\ connectGeneration' = connectGeneration + 1
  /\ ws' = connectGeneration + 1
  /\ sock' = [sock EXCEPT ![connectGeneration + 1] = "connecting"]
  /\ lastAnswer' = "none"
  /\ UNCHANGED <<auth, closed, handshakeVars, plan, requestVars, authVars, errorVars,
                 hostConnected, mismatchRetries, retriesSent>>

(* Mutant: the table is emptied without rejecting its promises.            *)
KeepPending == request' = request

(* flushPending: every promise in the table is rejected.                   *)
FlushPending ==
  request' = [r \in Requests |->
                IF request[r] = "pending" THEN "rejected" ELSE request[r]]

(* ... or throws, for a URL or a policy the browser refuses.               *)
ConnectThrows ==
  /\ FlushPending
  /\ ws' = 0
  /\ pendingConnectError' = "none"
  /\ pendingDeviceTokenRetry' = FALSE
  /\ pendingStartupReconnectDelay' = FALSE
  /\ hostConnected' = FALSE
  /\ lastAnswer' = "constructor"
  /\ UNCHANGED <<auth, closed, connectGeneration, sock, handshakeVars, plan, sentOn,
                 deviceTokenRetryBudgetUsed, storedToken, mismatchRetries, retriesSent>>

Start == /\ connectGeneration = 0 /\ ~closed /\ lastAnswer = "none"
         /\ Connect \/ ConnectThrows
         /\ UNCHANGED connectTimer

(* connect() returns at once when the client was stopped; stop() clears    *)
(* the timer.                                                              *)
FireReconnect == /\ connectTimer.kind = "reconnect" /\ ~closed
                 /\ connectTimer' = NoTimer
                 /\ Connect \/ ConnectThrows

(* Mutant: queueConnect keeps the nonce of the socket before.              *)
SocketOpensKeepsNonce(g) ==
  /\ sock[g] = "connecting"
  /\ sock' = [sock EXCEPT ![g] = "open"]
  /\ IF Live /\ ws = g
     THEN /\ connectNonce' = connectNonce /\ connectSent' = FALSE
          /\ connectTimer' = [kind |-> "fallback", gen |-> g]
     ELSE UNCHANGED <<handshakeVars, connectTimer>>
  /\ UNCHANGED <<auth, closed, ws, connectGeneration, plan, requestVars, authVars,
                 errorVars, hostConnected, history>>

(* queueConnect, on the open event.                                        *)
SocketOpens(g) ==
  /\ sock[g] = "connecting"
  /\ sock' = [sock EXCEPT ![g] = "open"]
  /\ IF Live /\ ws = g
     THEN /\ connectNonce' = 0 /\ connectSent' = FALSE
          /\ connectTimer' = [kind |-> "fallback", gen |-> g]
     ELSE UNCHANGED <<handshakeVars, connectTimer>>
  /\ UNCHANGED <<auth, closed, ws, connectGeneration, plan, requestVars, authVars,
                 errorVars, hostConnected, history>>

(* sendConnect up to its first await; the plan takes the nonce of now.     *)
SendConnect(g, nonce, timer) ==
  IF Open /\ ws = g /\ ~connectSent
  THEN /\ connectSent' = TRUE
       /\ connectTimer' = NoTimer
       /\ plan' = [plan EXCEPT ![g] = Planned(nonce)]
  ELSE /\ connectTimer' = timer
       /\ UNCHANGED <<connectSent, plan>>

(* handleMessage: a connect.challenge of the active socket.                *)
Challenged ==
  /\ Open
  /\ connectNonce' = ws
  /\ SendConnect(ws, ws, connectTimer)
  /\ UNCHANGED <<auth, closed, ws, connectGeneration, sock, requestVars, authVars,
                 errorVars, hostConnected, history>>

FireFallback ==
  /\ connectTimer.kind = "fallback"
  /\ SendConnect(connectTimer.gen, connectNonce, NoTimer)
  /\ UNCHANGED <<auth, closed, ws, connectGeneration, sock, connectNonce, requestVars,
                 authVars, errorVars, hostConnected, history>>

(* selectConnectAuth: a retry presents the stored token beside the one of  *)
(* the settings.                                                           *)
WithAuth(p) ==
  [p EXCEPT !.stage = "signing", !.stored = storedToken,
            !.device = /\ pendingDeviceTokenRetry
                       /\ auth = "trustedToken"
                       /\ storedToken # 0]

(* buildConnectPlan after loadOrCreateDeviceIdentity: the stored token and *)
(* whether a retry with it is pending are read now.                        *)
SelectAuth(g) ==
  /\ plan[g].stage = "identity"
  /\ plan' = [plan EXCEPT ![g] = WithAuth(@)]
  /\ UNCHANGED <<auth, closed, ws, connectGeneration, sock, connectTimer, handshakeVars,
                 requestVars, authVars, errorVars, hostConnected, history>>

(* sendConnect after its await: the connect request goes out if the socket *)
(* is still the active one and open.                                       *)
PlanReady(g) ==
  /\ plan[g].stage = "signing"
  /\ IF Open /\ ws = g
     THEN /\ plan' = [plan EXCEPT ![g].stage = "sent"]
          /\ pendingDeviceTokenRetry' = (pendingDeviceTokenRetry /\ ~plan[g].device)
          /\ retriesSent' = retriesSent + IF plan[g].device THEN 1 ELSE 0
     ELSE /\ plan' = [plan EXCEPT ![g] = Over]
          /\ UNCHANGED <<pendingDeviceTokenRetry, retriesSent>>
  /\ UNCHANGED <<auth, closed, ws, connectGeneration, sock, connectTimer, handshakeVars,
                 requestVars, deviceTokenRetryBudgetUsed, storedToken, errorVars,
                 hostConnected, lastAnswer, mismatchRetries>>

-------------------------------------------------------------------------------
AwaitsHello == Open /\ plan[ws].stage = "sent"

(* handleConnectHello; token is the device token the answer grants, 0 for  *)
(* none.  An onHello that throws ends in handleConnectFailure.             *)
Hello(token, throws) ==
  /\ AwaitsHello
  /\ plan' = [plan EXCEPT ![ws] = Over]
  /\ pendingDeviceTokenRetry' = FALSE
  /\ deviceTokenRetryBudgetUsed' = FALSE
  /\ pendingStartupReconnectDelay' = FALSE
  /\ storedToken' = IF token = 0 THEN storedToken ELSE token
  /\ hostConnected' = TRUE
  /\ IF throws THEN /\ sock' = [sock EXCEPT ![ws] = "closing"]
                    /\ pendingConnectError' = "none"
               ELSE UNCHANGED <<sock, pendingConnectError>>
  /\ lastAnswer' = "hello"
  /\ mismatchRetries' = 0 /\ retriesSent' = 0
  /\ UNCHANGED <<auth, closed, ws, connectGeneration, connectTimer, handshakeVars,
                 requestVars>>

UsesStored(p) == p.stored # 0 /\ (p.device \/ auth = "none")

(* Mutant: a retry may follow a retry.                                     *)
RetryAlways(p, error, hint) ==
  /\ hint \/ error = "tokenMismatch"
  /\ auth = "trustedToken"
  /\ p.stored # 0

(* shouldRetryWithDeviceToken: hint is the server's advice.                *)
ShouldRetryWithDeviceToken(p, error, hint) ==
  /\ hint \/ error = "tokenMismatch"
  /\ ~deviceTokenRetryBudgetUsed
  /\ ~p.device
  /\ auth = "trustedToken"
  /\ p.stored # 0

(* handleConnectFailure for an error response.                             *)
Refused(error, hint) ==
  /\ AwaitsHello
  /\ LET p == plan[ws]
         retry == ShouldRetryWithDeviceToken(p, error, hint)
     IN /\ pendingDeviceTokenRetry' = (pendingDeviceTokenRetry \/ retry)
        /\ deviceTokenRetryBudgetUsed' = (deviceTokenRetryBudgetUsed \/ retry)
        /\ storedToken' = IF error = "deviceTokenMismatch" /\ UsesStored(p)
                          THEN 0 ELSE storedToken
  /\ pendingConnectError' = error
  /\ pendingStartupReconnectDelay' = (pendingStartupReconnectDelay \/ error = "starting")
  /\ plan' = [plan EXCEPT ![ws] = Over]
  /\ sock' = [sock EXCEPT ![ws] = "closing"]
  /\ lastAnswer' = error
  /\ UNCHANGED <<auth, closed, ws, connectGeneration, connectTimer, handshakeVars,
                 requestVars, hostConnected, mismatchRetries, retriesSent>>

-------------------------------------------------------------------------------
(* Mutant: only a socket that failed without an answer is replaced.        *)
ReconnectsSilentOnly == pendingConnectError = "none" /\ ~pendingStartupReconnectDelay

(* The close handler reconnects after everything that is neither a token   *)
(* mismatch without a retry nor a refusal the user has to resolve.         *)
Reconnects ==
  \/ pendingStartupReconnectDelay
  \/ pendingConnectError = "tokenMismatch" /\ pendingDeviceTokenRetry
  \/ pendingConnectError \notin NonRecoverable \cup {"tokenMismatch"}

(* onClose is not called while the gateway is starting.                    *)
HostAfterClose == hostConnected /\ pendingStartupReconnectDelay

(* A close event of the current socket: scheduleReconnect replaces the     *)
(* timer.                                                                  *)
ActiveSocketCloses ==
  /\ FlushPending
  /\ plan' = [plan EXCEPT ![ws] = IF @.stage = "sent" THEN Over ELSE @]
  /\ ws' = 0
  /\ connectTimer' = IF Reconnects THEN [kind |-> "reconnect", gen |-> 0] ELSE connectTimer
  /\ mismatchRetries' =
       mismatchRetries + IF /\ ~pendingStartupReconnectDelay
                            /\ pendingConnectError = "tokenMismatch" /\ Reconnects
                         THEN 1 ELSE 0
  /\ hostConnected' = HostAfterClose
  /\ pendingConnectError' = "none"
  /\ pendingStartupReconnectDelay' = FALSE

SocketCloses(g) ==
  /\ sock[g] \in {"connecting", "open", "closing"}
  /\ sock' = [sock EXCEPT ![g] = "closed"]
  /\ IF ws = g THEN ActiveSocketCloses
     ELSE UNCHANGED <<request, plan, ws, connectTimer, mismatchRetries, hostConnected, errorVars>>
  /\ UNCHANGED <<auth, closed, connectGeneration, handshakeVars, sentOn, authVars,
                 lastAnswer, retriesSent>>

-------------------------------------------------------------------------------
(* request(): refused at once unless the current socket is open.           *)
Issue(r) ==
  /\ request[r] = "new" /\ (connectGeneration > 0 \/ lastAnswer = "constructor")
  /\ IF Open THEN /\ request' = [request EXCEPT ![r] = "pending"]
                  /\ sentOn' = [sentOn EXCEPT ![r] = ws]
             ELSE /\ request' = [request EXCEPT ![r] = "rejected"]
                  /\ UNCHANGED sentOn
  /\ UNCHANGED <<auth, closed, ws, connectGeneration, sock, connectTimer, handshakeVars,
                 plan, authVars, errorVars, hostConnected, history>>

(* handleMessage: the response to a request, delivered while the socket it *)
(* was sent on is active.                                                  *)
Answered(r) ==
  /\ Open /\ request[r] = "pending" /\ sentOn[r] = ws
  /\ request' = [request EXCEPT ![r] = "answered"]
  /\ UNCHANGED <<auth, closed, ws, connectGeneration, sock, connectTimer, handshakeVars,
                 plan, sentOn, authVars, errorVars, hostConnected, history>>

(* Mutant: ws is set to null before it is closed.                          *)
StopNothing == sock

(* stop(), by connectGateway for a new client or on leaving the page.      *)
StopSocket == [g \in Gens |->
                 IF g = ws /\ sock[g] # "closed" THEN "closing" ELSE sock[g]]

Stop ==
  /\ ~closed /\ (connectGeneration > 0 \/ lastAnswer = "constructor")
  /\ closed' = TRUE
  /\ sock' = StopSocket
  /\ ws' = 0
  /\ connectTimer' = NoTimer
  /\ FlushPending
  /\ plan' = [g \in Gens |->
               IF plan[g].stage = "sent" THEN Over ELSE plan[g]]
  /\ pendingConnectError' = "none"
  /\ pendingStartupReconnectDelay' = FALSE
  /\ pendingDeviceTokenRetry' = FALSE
  /\ deviceTokenRetryBudgetUsed' = FALSE
  /\ hostConnected' = FALSE
  /\ mismatchRetries' = 0 /\ retriesSent' = 0
  /\ UNCHANGED <<auth, connectGeneration, handshakeVars, sentOn, storedToken, lastAnswer>>

(* Another tab is granted a token, or drops the one it was refused with.   *)
OtherTab ==
  /\ \/ "store" \in OtherTabs /\ storedToken' \in (storedToken + 1) .. MaxTokens
     \/ "clear" \in OtherTabs /\ storedToken # 0 /\ storedToken' = 0
  /\ UNCHANGED <<auth, closed, ws, connectGeneration, sock, connectTimer, handshakeVars,
                 plan, requestVars, pendingDeviceTokenRetry, deviceTokenRetryBudgetUsed,
                 errorVars, hostConnected, history>>

ConnectAnswer == \/ \E token \in Tokens, throws \in BOOLEAN : Hello(token, throws)
                 \/ \E error \in Errors, hint \in BOOLEAN : Refused(error, hint)

Next == \/ Start \/ FireReconnect \/ FireFallback \/ Challenged \/ ConnectAnswer
        \/ \E g \in Gens : \/ SocketOpens(g) \/ SocketCloses(g)
                           \/ SelectAuth(g) \/ PlanReady(g)
        \/ \E r \in Requests : Issue(r) \/ Answered(r)
        \/ Stop \/ OtherTab

Spec == Init /\ [][Next]_vars

(* Timers fire and promises resolve; a socket that connects opens or       *)
(* closes, and one told to close does; the gateway answers a request or    *)
(* the connection breaks.  No challenge has to arrive.                     *)
Fairness ==
  /\ WF_vars(Start) /\ WF_vars(FireReconnect) /\ WF_vars(FireFallback)
  /\ WF_vars(ConnectAnswer)
  /\ \A g \in Gens : /\ WF_vars(SelectAuth(g)) /\ WF_vars(PlanReady(g))
                     /\ WF_vars(sock[g] # "open" /\ (SocketOpens(g) \/ SocketCloses(g)))
  /\ \A r \in Requests : WF_vars(Answered(r))

FairSpec == Spec /\ Fairness

-------------------------------------------------------------------------------
(* A promise handed out by request() is never forgotten: while it is       *)
(* pending, the socket it was sent on is the client's socket.              *)
PendingOnActiveSocket ==
  \A r \in Requests : request[r] = "pending" => ws # 0 /\ sentOn[r] = ws

(* There is at most one connection to the gateway, the one the client      *)
(* knows, and none once it was stopped.                                    *)
OneLiveSocket ==
  \A g \in Gens : sock[g] \in {"connecting", "open"} => g = ws /\ ~closed

(* However long signing takes, connect is sent on the socket that is       *)
(* current, and signs a nonce of that socket or none.                      *)
HandshakeOnActiveSocket ==
  \A g \in Gens : plan[g].stage = "sent" => g = ws /\ plan[g].nonce \in {0, g}

(* The UI shows a connection only while the socket that said hello is the  *)
(* current one: every way to lose it reaches onClose.                      *)
HostAgrees == hostConnected => ws # 0 /\ ~closed /\ lastAnswer = "hello"

(* The client gives up reconnecting only after an answer the user has to   *)
(* resolve, and after a token mismatch only if no retry is left.           *)
IdleOnlyWhenRefused ==
  (lastAnswer # "none" \/ connectGeneration > 0) /\ ~closed /\ ws = 0
    /\ connectTimer.kind # "reconnect"
  => lastAnswer \in NonRecoverable \cup {"tokenMismatch", "constructor"}

(* The stored device token is presented beside the refused one only once   *)
(* until the next hello: the budget outlives every socket, whatever close, *)
(* restart or other tab comes between its grant and the connect it pays    *)
(* for.                                                                    *)
StoredTokenTriedOnce == retriesSent <= 1

(* A client that was started connects, gives up for a reason or is         *)
(* stopped, and every request is answered or rejected: nothing waits for   *)
(* ever.                                                                   *)
NeverStuck ==
  /\ []<>(\/ closed \/ hostConnected \/ connectGeneration = MaxConnects
          \/ lastAnswer \in NonRecoverable \cup {"tokenMismatch", "constructor"})
  /\ \A r \in Requests : request[r] = "pending" ~> request[r] \in {"answered", "rejected"}
-------------------------------------------------------------------------------
(* gateway.ts on a token mismatch: "the browser client supports a bounded  *)
(* one-time retry with a cached device token".  So one reconnect answers   *)
(* the mismatches there are before the next hello.                         *)
MismatchRetriedOnce == mismatchRetries <= 1
===============================================================================

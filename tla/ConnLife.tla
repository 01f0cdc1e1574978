------------------------------- MODULE ConnLife -------------------------------
(***************************************************************************)
(* What the chat layer may rely on about gateway connections: a connection *)
(* is accepted, becomes ready after its handshake, may subscribe to the    *)
(* messages of sessions, and is torn down in a fixed order once its read   *)
(* loop has ended.  Gateway.tla implements this specification; ChatRun.tla *)
(* builds on it.  A Conn is one accepted WebSocket: a client that          *)
(* reconnects is another Conn, because connection ids are fresh UUIDs.     *)
(***************************************************************************)
EXTENDS FiniteSets

CONSTANTS Conns,     \* accepted WebSocket connections
          Sessions   \* session keys

ASSUME ConnLifeAssumption == IsFiniteSet(Conns) /\ IsFiniteSet(Sessions)

VARIABLES conn,      \* where each connection is in handleConnection
          msgSubs,   \* SubscriptionHub.msgSubs: session keys per connection
          bcast      \* BroadcastManager.conns

connVars == <<conn, msgSubs, bcast>>

Stages == {"absent", "connecting", "ready", "leaving", "unsubscribed",
           "unregistered", "closed"}

ConnTypeOK == /\ conn \in [Conns -> Stages]
              /\ msgSubs \in [Conns -> SUBSET Sessions]
              /\ bcast \subseteq Conns

ConnInit == /\ conn = [c \in Conns |-> "absent"]
            /\ msgSubs = [c \in Conns |-> {}]
            /\ bcast = {}

-------------------------------------------------------------------------------
(* handleConnection adds the new connection to the broadcast set.          *)
Accept(c) == /\ conn[c] = "absent"
             /\ conn' = [conn EXCEPT ![c] = "connecting"]
             /\ bcast' = bcast \cup {c}
             /\ UNCHANGED msgSubs

(* The connect handshake has succeeded: requests are dispatched from now.  *)
Ready(c) == /\ conn[c] = "connecting"
            /\ conn' = [conn EXCEPT ![c] = "ready"]
            /\ UNCHANGED <<msgSubs, bcast>>

(* sessions.messages.subscribe and .unsubscribe, run by the read loop.     *)
SubscribeMessages(c, s) == /\ conn[c] = "ready"
                           /\ msgSubs' = [msgSubs EXCEPT ![c] = @ \cup {s}]
                           /\ UNCHANGED <<conn, bcast>>

UnsubscribeMessages(c, s) == /\ conn[c] = "ready"
                             /\ msgSubs' = [msgSubs EXCEPT ![c] = @ \ {s}]
                             /\ UNCHANGED <<conn, bcast>>

(* The read loop ends: the peer is gone, or its handshake was refused.     *)
Hangup(c) == /\ conn[c] \in {"connecting", "ready"}
             /\ conn' = [conn EXCEPT ![c] = "leaving"]
             /\ UNCHANGED <<msgSubs, bcast>>

(* The deferred calls of handleConnection, last deferred first.            *)
CleanupConn(c) == /\ conn[c] = "leaving"
                  /\ conn' = [conn EXCEPT ![c] = "unsubscribed"]
                  /\ msgSubs' = [msgSubs EXCEPT ![c] = {}]
                  /\ UNCHANGED bcast

RemoveConn(c) == /\ conn[c] = "unsubscribed"
                 /\ conn' = [conn EXCEPT ![c] = "unregistered"]
                 /\ bcast' = bcast \ {c}
                 /\ UNCHANGED msgSubs

(* Close marks the connection closed, after which nothing is written to    *)
(* it, and cancels its context.                                            *)
Close(c) == /\ conn[c] = "unregistered"
            /\ conn' = [conn EXCEPT ![c] = "closed"]
            /\ UNCHANGED <<msgSubs, bcast>>

(* The steps of handleConnection once its read loop has ended.             *)
TearDown(c) == CleanupConn(c) \/ RemoveConn(c) \/ Close(c)

ConnNext ==
  \E c \in Conns :
     \/ Accept(c) \/ Ready(c) \/ Hangup(c) \/ TearDown(c)
     \/ \E s \in Sessions : SubscribeMessages(c, s) \/ UnsubscribeMessages(c, s)

ConnSpec == ConnInit /\ [][ConnNext]_connVars

-------------------------------------------------------------------------------
(* GetMessageSubscribers: the connections subscribed to a session.         *)
GetMessageSubscribers(s) == {c \in Conns : s \in msgSubs[c]}

(* A write to a connection reaches its socket only before Close.           *)
Open(c) == conn[c] # "closed"
===============================================================================

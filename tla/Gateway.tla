-------------------------------- MODULE Gateway --------------------------------
(***************************************************************************)
(* The connection layer of the gateway: GatewayServer.handleConnection     *)
(* with the three shared structures it registers a connection in, each     *)
(* under a lock of its own: BroadcastManager, SubscriptionHub and          *)
(* PresenceTracker.  One goroutine per connection runs the handshake, then *)
(* the read loop, then its deferred calls; goroutines interleave between   *)
(* any two lock sections.                                                  *)
(***************************************************************************)
EXTENDS Naturals, FiniteSets

CONSTANTS Conns,      \* accepted WebSocket connections
          Sessions,   \* session keys
          NoSnapshot  \* no hello-ok has been built yet

ASSUME GatewayAssumption ==
         /\ IsFiniteSet(Conns) /\ IsFiniteSet(Sessions)
         /\ NoSnapshot \notin [entries : SUBSET Conns, version : Nat]

VARIABLES pc,              \* where each connection is in handleConnection
          bcast,           \* BroadcastManager.conns
          sessionSubs,     \* SubscriptionHub.sessionSubs
          msgSubs,         \* SubscriptionHub.msgSubs
          presence,        \* the keys of PresenceTracker.entries
          presenceVersion, \* PresenceTracker.version
          snapshot         \* presence part of the Snapshot in hello-ok

presenceVars == <<presence, presenceVersion, snapshot>>
hubVars == <<sessionSubs, msgSubs>>
vars == <<pc, bcast, hubVars, presenceVars>>

PCs == {"absent", "handshake", "listed", "greeted", "ready", "leaving",
        "presenceRemoved", "unsubscribed", "unregistered", "closed"}

Snapshots == [entries : SUBSET Conns, version : Nat]

TypeOK == /\ pc \in [Conns -> PCs]
          /\ bcast \subseteq Conns
          /\ sessionSubs \subseteq Conns
          /\ msgSubs \in [Conns -> SUBSET Sessions]
          /\ presence \subseteq Conns
          /\ presenceVersion \in Nat
          /\ snapshot \in [Conns -> Snapshots \cup {NoSnapshot}]

Init == /\ pc = [c \in Conns |-> "absent"]
        /\ bcast = {}
        /\ sessionSubs = {}
        /\ msgSubs = [c \in Conns |-> {}]
        /\ presence = {}
        /\ presenceVersion = 0
        /\ snapshot = [c \in Conns |-> NoSnapshot]

Goto(c, from, to) == /\ pc[c] \in from
                     /\ pc' = [pc EXCEPT ![c] = to]

-------------------------------------------------------------------------------
(* ServeWS upgrades the request; handleConnection adds the connection.     *)
Accept(c) == /\ Goto(c, {"absent"}, "handshake")
             /\ bcast' = bcast \cup {c}
             /\ UNCHANGED <<hubVars, presenceVars>>

(* Mutant: presence is registered before the handshake is answered.        *)
ListPresenceAnnounced(c) ==
  /\ Goto(c, {"handshake"}, "listed")
  /\ presence' = presence \cup {c}
  /\ presenceVersion' = presenceVersion + 1
  /\ snapshot' = [snapshot EXCEPT ![c] = [entries |-> presence', version |-> 0]]
  /\ UNCHANGED <<bcast, hubVars>>

(* HandleConnect accepted the client; BuildSnapshot lists the entries ...  *)
ListPresence(c) ==
  /\ Goto(c, {"handshake"}, "listed")
  /\ snapshot' = [snapshot EXCEPT ![c] = [entries |-> presence, version |-> 0]]
  /\ UNCHANGED <<bcast, hubVars, presence, presenceVersion>>

(* ... and reads the version in a second lock section.  The hello-ok that  *)
(* carries both is then written, or its write fails.                       *)
ReadVersion(c) ==
  /\ Goto(c, {"listed"}, "greeted")
  /\ snapshot' = [snapshot EXCEPT ![c].version = presenceVersion]
  /\ UNCHANGED <<bcast, hubVars, presence, presenceVersion>>

(* presenceTracker.Upsert, after hello-ok has been sent.                   *)
Announce(c) == /\ Goto(c, {"greeted"}, "ready")
               /\ presence' = presence \cup {c}
               /\ presenceVersion' = presenceVersion + 1
               /\ UNCHANGED <<bcast, hubVars, snapshot>>

-------------------------------------------------------------------------------
(* Requests the read loop dispatches.                                      *)
SubscribeSession(c) == /\ pc[c] = "ready"
                       /\ sessionSubs' = sessionSubs \cup {c}
                       /\ UNCHANGED <<pc, bcast, msgSubs, presenceVars>>

UnsubscribeSession(c) == /\ pc[c] = "ready"
                         /\ sessionSubs' = sessionSubs \ {c}
                         /\ UNCHANGED <<pc, bcast, msgSubs, presenceVars>>

(* (Mutant: Dispatch runs each request in a goroutine of its own.)         *)
SubscribeMessagesAsync(c, s) ==
  /\ pc[c] \notin {"absent", "handshake", "listed", "greeted"}
  /\ msgSubs' = [msgSubs EXCEPT ![c] = @ \cup {s}]
  /\ UNCHANGED <<pc, bcast, sessionSubs, presenceVars>>

SubscribeMessages(c, s) ==
  /\ pc[c] = "ready"
  /\ msgSubs' = [msgSubs EXCEPT ![c] = @ \cup {s}]
  /\ UNCHANGED <<pc, bcast, sessionSubs, presenceVars>>

UnsubscribeMessages(c, s) ==
  /\ pc[c] = "ready"
  /\ msgSubs' = [msgSubs EXCEPT ![c] = @ \ {s}]
  /\ UNCHANGED <<pc, bcast, sessionSubs, presenceVars>>

-------------------------------------------------------------------------------
(* The loop breaks: read error, a first message other than connect, a      *)
(* refused handshake, or a hello-ok that could not be written.             *)
LeaveLoop(c) == /\ Goto(c, {"handshake", "greeted", "ready"}, "leaving")
                /\ UNCHANGED <<bcast, hubVars, presenceVars>>

(* Mutants of the deferred calls: the version goes back with the entry;    *)
(* only one of the two maps of the hub is cleaned; a call is forgotten.    *)
RemovePresenceCountsBack(c) == /\ Goto(c, {"leaving"}, "presenceRemoved")
                               /\ presence' = presence \ {c}
                               /\ presenceVersion' = presenceVersion - 1
                               /\ UNCHANGED <<bcast, hubVars, snapshot>>

CleanupConnSessions(c) == /\ Goto(c, {"presenceRemoved"}, "unsubscribed")
                          /\ sessionSubs' = sessionSubs \ {c}
                          /\ UNCHANGED <<bcast, msgSubs, presenceVars>>

CleanupConnMessages(c) == /\ Goto(c, {"presenceRemoved"}, "unsubscribed")
                          /\ msgSubs' = [msgSubs EXCEPT ![c] = {}]
                          /\ UNCHANGED <<bcast, sessionSubs, presenceVars>>

RemoveConnForgets(c) == /\ Goto(c, {"unsubscribed"}, "unregistered")
                        /\ UNCHANGED <<bcast, hubVars, presenceVars>>

(* The deferred calls, last deferred first.  Remove counts a version even  *)
(* for a connection that never announced itself.                           *)
RemovePresence(c) == /\ Goto(c, {"leaving"}, "presenceRemoved")
                     /\ presence' = presence \ {c}
                     /\ presenceVersion' = presenceVersion + 1
                     /\ UNCHANGED <<bcast, hubVars, snapshot>>

CleanupConn(c) == /\ Goto(c, {"presenceRemoved"}, "unsubscribed")
                  /\ sessionSubs' = sessionSubs \ {c}
                  /\ msgSubs' = [msgSubs EXCEPT ![c] = {}]
                  /\ UNCHANGED <<bcast, presenceVars>>

RemoveConn(c) == /\ Goto(c, {"unsubscribed"}, "unregistered")
                 /\ bcast' = bcast \ {c}
                 /\ UNCHANGED <<hubVars, presenceVars>>

Close(c) == /\ Goto(c, {"unregistered"}, "closed")
            /\ UNCHANGED <<bcast, hubVars, presenceVars>>

TearDown(c) == RemovePresence(c) \/ CleanupConn(c) \/ RemoveConn(c) \/ Close(c)

Next ==
  \E c \in Conns :
     \/ Accept(c) \/ ListPresence(c) \/ ReadVersion(c) \/ Announce(c)
     \/ SubscribeSession(c) \/ UnsubscribeSession(c)
     \/ \E s \in Sessions : SubscribeMessages(c, s) \/ UnsubscribeMessages(c, s)
     \/ LeaveLoop(c) \/ TearDown(c)

(* Deferred calls always run: Go executes them when the function returns.  *)
Fairness == \A c \in Conns : WF_vars(TearDown(c))

Spec == Init /\ [][Next]_vars

FairSpec == Spec /\ Fairness

-------------------------------------------------------------------------------
(* A connection is still registered, in some structure, by its own key.    *)
Traced(c) == \/ c \in bcast \cup sessionSubs \cup presence
             \/ msgSubs[c] # {}

(* A closed connection has left nothing behind in the three structures     *)
(* (the deferred calls of handleConnection), and no later request brings   *)
(* it back: broadcasts and presence lists stay free of dead connections.   *)
ClosedLeavesNoTrace == \A c \in Conns : pc[c] = "closed" => ~Traced(c)

(* Whoever other components can find by a subscription can also be reached *)
(* through the broadcast set: the hub is always emptied before the         *)
(* broadcast set, so BroadcastTo never silently drops a live subscriber.   *)
SubscribersReachable ==
  \A c \in Conns : c \in sessionSubs \/ msgSubs[c] # {} => c \in bcast

(* Presence lists exactly the connections whose handshake is complete and  *)
(* whose read loop has not been left behind: none is forgotten and none    *)
(* lingers once its deferred removal has run.                              *)
PresenceAccurate ==
  \A c \in Conns : /\ pc[c] = "ready" => c \in presence
                   /\ c \in presence => pc[c] \in {"ready", "leaving"}

(* A connection that has left its loop ends up closed and untraced.        *)
LeavingEndsClean ==
  \A c \in Conns : pc[c] = "leaving" ~> (pc[c] = "closed" /\ ~Traced(c))

-------------------------------------------------------------------------------
(* Every behaviour is one of ConnLife, which forgets presence and the      *)
(* steps inside the handshake and sees RemovePresence as no step at all.   *)
ConnView ==
  [c \in Conns |->
     CASE pc[c] \in {"handshake", "listed", "greeted"} -> "connecting"
       [] pc[c] \in {"leaving", "presenceRemoved"} -> "leaving"
       [] OTHER -> pc[c]]

Abstract == INSTANCE ConnLife WITH conn <- ConnView

ImplementsConnLife == Abstract!ConnSpec
===============================================================================

----------------------------- MODULE GatewayProofs -----------------------------
(***************************************************************************)
(* Theorems about Gateway: its invariants for any number of connections,   *)
(* and that it implements ConnLife.                                        *)
(***************************************************************************)
EXTENDS Gateway, TLAPS

(* What each of the three structures may hold of a connection, by the      *)
(* stage its goroutine has reached.  This is what makes the invariants of  *)
(* Gateway inductive: they only speak of the last stages.                  *)
RegisteredByStage ==
  \A c \in Conns :
     /\ c \in bcast <=> pc[c] \notin {"absent", "unregistered", "closed"}
     /\ c \in presence => pc[c] \in {"ready", "leaving"}
     /\ pc[c] = "ready" => c \in presence
     /\ c \in sessionSubs \/ msgSubs[c] # {}
           => pc[c] \in {"ready", "leaving", "presenceRemoved"}

(* The version is read into a snapshot that already lists the entries.     *)
ListedHasSnapshot == \A c \in Conns : pc[c] = "listed" => snapshot[c] \in Snapshots

IInv == TypeOK /\ ListedHasSnapshot /\ RegisteredByStage

-------------------------------------------------------------------------------
(* Nothing is registered before the first connection is accepted.          *)
LEMMA InitIInv == Init => IInv
BY DEF Init, IInv, TypeOK, ListedHasSnapshot, RegisteredByStage, PCs

(* Every step keeps the types: a stage is only ever followed by a stage    *)
(* and the structures only ever hold connections of the program.           *)
LEMMA TypeStep == IInv /\ [Next]_vars => TypeOK'
<1> SUFFICES ASSUME TypeOK, ListedHasSnapshot, [Next]_vars PROVE TypeOK'
  BY DEF IInv
<1> USE DEF TypeOK, PCs, Snapshots, hubVars, presenceVars
<1>1. CASE UNCHANGED vars
  BY <1>1 DEF vars
<1>2. ASSUME NEW c \in Conns, Accept(c) PROVE TypeOK'
  BY <1>2 DEF Accept, Goto
<1>3. ASSUME NEW c \in Conns, ListPresence(c) PROVE TypeOK'
  BY <1>3 DEF ListPresence, Goto
<1>4. ASSUME NEW c \in Conns, ReadVersion(c) PROVE TypeOK'
  <2>1. snapshot[c] \in Snapshots
    BY <1>4 DEF ReadVersion, Goto, ListedHasSnapshot
  <2>2. [snapshot[c] EXCEPT !.version = presenceVersion] \in Snapshots
    BY <2>1
  <2>3. QED
    BY <1>4, <2>2 DEF ReadVersion, Goto
<1>5. ASSUME NEW c \in Conns, Announce(c) PROVE TypeOK'
  BY <1>5 DEF Announce, Goto
<1>6. ASSUME NEW c \in Conns, SubscribeSession(c) \/ UnsubscribeSession(c)
      PROVE TypeOK'
  BY <1>6 DEF SubscribeSession, UnsubscribeSession
<1>7. ASSUME NEW c \in Conns, NEW s \in Sessions,
             SubscribeMessages(c, s) \/ UnsubscribeMessages(c, s)
      PROVE TypeOK'
  BY <1>7 DEF SubscribeMessages, UnsubscribeMessages
<1>8. ASSUME NEW c \in Conns, LeaveLoop(c) PROVE TypeOK'
  BY <1>8 DEF LeaveLoop, Goto
<1>9. ASSUME NEW c \in Conns, TearDown(c) PROVE TypeOK'
  BY <1>9 DEF TearDown, RemovePresence, CleanupConn, RemoveConn, Close, Goto
<1>10. QED
  BY <1>1, <1>2, <1>3, <1>4, <1>5, <1>6, <1>7, <1>8, <1>9 DEF Next

(* Every step keeps each connection registered as its stage says: a step   *)
(* moves one connection and touches the entries of that connection only.   *)
LEMMA StageStep == IInv /\ [Next]_vars => ListedHasSnapshot' /\ RegisteredByStage'
<1> DEFINE Stage == ListedHasSnapshot /\ RegisteredByStage
<1> SUFFICES ASSUME TypeOK, Stage, [Next]_vars PROVE Stage'
  BY DEF IInv
<1> USE DEF TypeOK, PCs, Snapshots, ListedHasSnapshot, RegisteredByStage, hubVars,
            presenceVars
<1>1. CASE UNCHANGED vars
  BY <1>1 DEF vars
<1>2. ASSUME NEW c \in Conns, Accept(c) PROVE Stage'
  BY <1>2 DEF Accept, Goto
<1>3. ASSUME NEW c \in Conns, ListPresence(c) PROVE Stage'
  BY <1>3 DEF ListPresence, Goto
<1>4. ASSUME NEW c \in Conns, ReadVersion(c) PROVE Stage'
  BY <1>4 DEF ReadVersion, Goto
<1>5. ASSUME NEW c \in Conns, Announce(c) PROVE Stage'
  BY <1>5 DEF Announce, Goto
<1>6. ASSUME NEW c \in Conns, SubscribeSession(c) \/ UnsubscribeSession(c)
      PROVE Stage'
  BY <1>6 DEF SubscribeSession, UnsubscribeSession
<1>7. ASSUME NEW c \in Conns, NEW s \in Sessions,
             SubscribeMessages(c, s) \/ UnsubscribeMessages(c, s)
      PROVE Stage'
  BY <1>7 DEF SubscribeMessages, UnsubscribeMessages
<1>8. ASSUME NEW c \in Conns, LeaveLoop(c) PROVE Stage'
  BY <1>8 DEF LeaveLoop, Goto
<1>9. ASSUME NEW c \in Conns, TearDown(c) PROVE Stage'
  <2>1. CASE RemovePresence(c)
    BY <2>1 DEF RemovePresence, Goto
  <2>2. CASE CleanupConn(c)
    BY <2>2 DEF CleanupConn, Goto
  <2>3. CASE RemoveConn(c)
    BY <2>3 DEF RemoveConn, Goto
  <2>4. CASE Close(c)
    BY <2>4 DEF Close, Goto
  <2>5. QED
    BY <1>9, <2>1, <2>2, <2>3, <2>4 DEF TearDown
<1>10. QED
  BY <1>1, <1>2, <1>3, <1>4, <1>5, <1>6, <1>7, <1>8, <1>9 DEF Next

(* The inductive invariant holds in every behaviour.                       *)
THEOREM InductiveInvariant == Spec => []IInv
<1>1. IInv /\ [Next]_vars => IInv'
  BY TypeStep, StageStep DEF IInv
<1>2. QED
  BY <1>1, InitIInv, PTL DEF Spec

(* Type correctness of the connection layer.                               *)
THEOREM TypeCorrect == Spec => []TypeOK
BY InductiveInvariant, PTL DEF IInv

-------------------------------------------------------------------------------
(* Whatever order the goroutines run in, a closed connection is in none of *)
(* the three structures (the deferred calls of handleConnection).          *)
THEOREM ClosedIsClean == Spec => []ClosedLeavesNoTrace
<1>1. IInv => ClosedLeavesNoTrace
  BY DEF IInv, RegisteredByStage, ClosedLeavesNoTrace, Traced
<1>2. QED
  BY <1>1, InductiveInvariant, PTL

(* Every subscription found in the hub can be reached through the          *)
(* broadcast set: handleConnection empties the hub first.                  *)
THEOREM SubscribersAreReachable == Spec => []SubscribersReachable
<1>1. IInv => SubscribersReachable
  BY DEF IInv, RegisteredByStage, SubscribersReachable
<1>2. QED
  BY <1>1, InductiveInvariant, PTL

(* The presence list is the set of ready connections, give or take those   *)
(* whose deferred removal has still to run.                                *)
THEOREM PresenceIsAccurate == Spec => []PresenceAccurate
<1>1. IInv => PresenceAccurate
  BY DEF IInv, RegisteredByStage, PresenceAccurate
<1>2. QED
  BY <1>1, InductiveInvariant, PTL

-------------------------------------------------------------------------------
(* The stage ConnLife sees moves as the stage of handleConnection does.    *)
LEMMA ViewOfMove ==
  ASSUME TypeOK, NEW c \in Conns, NEW from, NEW to \in PCs, Goto(c, from, to)
  PROVE  ConnView' = [ConnView EXCEPT ![c] = ConnView'[c]]
BY DEF TypeOK, Goto, ConnView, PCs

(* Each step of the connection layer is a step of ConnLife or none at all. *)
LEMMA StepImplements ==
  TypeOK /\ [Next]_vars => [Abstract!ConnNext]_(Abstract!connVars)
<1> SUFFICES ASSUME TypeOK, [Next]_vars
             PROVE  [Abstract!ConnNext]_(Abstract!connVars)
  OBVIOUS
<1> USE DEF Abstract!ConnNext, Abstract!connVars, hubVars, presenceVars
<1>a. pc \in [Conns -> PCs]
  BY DEF TypeOK
<1>1. CASE UNCHANGED vars
  BY <1>1 DEF vars, ConnView
<1>2. ASSUME NEW c \in Conns, Accept(c) PROVE Abstract!Accept(c)
  <2>1. ConnView[c] = "absent" /\ ConnView'[c] = "connecting"
    BY <1>2, <1>a DEF Accept, Goto, ConnView
  <2>2. ConnView' = [ConnView EXCEPT ![c] = "connecting"]
    BY <1>2, <2>1, ViewOfMove DEF Accept, PCs
  <2>3. QED
    BY <1>2, <2>1, <2>2 DEF Accept, Abstract!Accept
<1>3. ASSUME NEW c \in Conns, ListPresence(c) \/ ReadVersion(c)
      PROVE  UNCHANGED Abstract!connVars
  <2>1. ConnView' = ConnView
    BY <1>3, <1>a DEF ListPresence, ReadVersion, Goto, ConnView
  <2>2. QED
    BY <1>3, <2>1 DEF ListPresence, ReadVersion
<1>4. ASSUME NEW c \in Conns, Announce(c) PROVE Abstract!Ready(c)
  <2>1. ConnView[c] = "connecting" /\ ConnView'[c] = "ready"
    BY <1>4, <1>a DEF Announce, Goto, ConnView
  <2>2. ConnView' = [ConnView EXCEPT ![c] = "ready"]
    BY <1>4, <2>1, ViewOfMove DEF Announce, PCs
  <2>3. QED
    BY <1>4, <2>1, <2>2 DEF Announce, Abstract!Ready
<1>5. ASSUME NEW c \in Conns, SubscribeSession(c) \/ UnsubscribeSession(c)
      PROVE  UNCHANGED Abstract!connVars
  BY <1>5 DEF SubscribeSession, UnsubscribeSession, ConnView
<1>6. ASSUME NEW c \in Conns, NEW s \in Sessions, SubscribeMessages(c, s)
      PROVE  Abstract!SubscribeMessages(c, s)
  <2>1. ConnView' = ConnView /\ ConnView[c] = "ready"
    BY <1>6 DEF SubscribeMessages, ConnView
  <2>2. QED
    BY <1>6, <2>1 DEF SubscribeMessages, Abstract!SubscribeMessages
<1>7. ASSUME NEW c \in Conns, NEW s \in Sessions, UnsubscribeMessages(c, s)
      PROVE  Abstract!UnsubscribeMessages(c, s)
  <2>1. ConnView' = ConnView /\ ConnView[c] = "ready"
    BY <1>7 DEF UnsubscribeMessages, ConnView
  <2>2. QED
    BY <1>7, <2>1 DEF UnsubscribeMessages, Abstract!UnsubscribeMessages
<1>8. ASSUME NEW c \in Conns, LeaveLoop(c) PROVE Abstract!Hangup(c)
  <2>1. ConnView[c] \in {"connecting", "ready"} /\ ConnView'[c] = "leaving"
    BY <1>8, <1>a DEF LeaveLoop, Goto, ConnView
  <2>2. ConnView' = [ConnView EXCEPT ![c] = "leaving"]
    BY <1>8, <2>1, ViewOfMove DEF LeaveLoop, PCs
  <2>3. QED
    BY <1>8, <2>1, <2>2 DEF LeaveLoop, Abstract!Hangup
<1>9. ASSUME NEW c \in Conns, RemovePresence(c)
      PROVE  UNCHANGED Abstract!connVars
  <2>1. ConnView' = ConnView
    BY <1>9, <1>a DEF RemovePresence, Goto, ConnView
  <2>2. QED
    BY <1>9, <2>1 DEF RemovePresence
<1>10. ASSUME NEW c \in Conns, CleanupConn(c) PROVE Abstract!CleanupConn(c)
  <2>1. ConnView[c] = "leaving" /\ ConnView'[c] = "unsubscribed"
    BY <1>10, <1>a DEF CleanupConn, Goto, ConnView
  <2>2. ConnView' = [ConnView EXCEPT ![c] = "unsubscribed"]
    BY <1>10, <2>1, ViewOfMove DEF CleanupConn, PCs
  <2>3. QED
    BY <1>10, <2>1, <2>2 DEF CleanupConn, Abstract!CleanupConn
<1>11. ASSUME NEW c \in Conns, RemoveConn(c) PROVE Abstract!RemoveConn(c)
  <2>1. ConnView[c] = "unsubscribed" /\ ConnView'[c] = "unregistered"
    BY <1>11, <1>a DEF RemoveConn, Goto, ConnView
  <2>2. ConnView' = [ConnView EXCEPT ![c] = "unregistered"]
    BY <1>11, <2>1, ViewOfMove DEF RemoveConn, PCs
  <2>3. QED
    BY <1>11, <2>1, <2>2 DEF RemoveConn, Abstract!RemoveConn
<1>12. ASSUME NEW c \in Conns, Close(c) PROVE Abstract!Close(c)
  <2>1. ConnView[c] = "unregistered" /\ ConnView'[c] = "closed"
    BY <1>12, <1>a DEF Close, Goto, ConnView
  <2>2. ConnView' = [ConnView EXCEPT ![c] = "closed"]
    BY <1>12, <2>1, ViewOfMove DEF Close, PCs
  <2>3. QED
    BY <1>12, <2>1, <2>2 DEF Close, Abstract!Close
<1>13. QED
  BY <1>1, <1>2, <1>3, <1>4, <1>5, <1>6, <1>7, <1>8, <1>9, <1>10, <1>11, <1>12
  DEF Next, TearDown, Abstract!TearDown

(* The connection layer implements ConnLife: what the chat layer assumes   *)
(* of connections is what handleConnection provides.                       *)
THEOREM Implementation == Spec => ImplementsConnLife
<1>1. Init => Abstract!ConnInit
  BY DEF Init, Abstract!ConnInit, ConnView
<1>2. QED
  BY <1>1, StepImplements, TypeCorrect, PTL
  DEF Spec, ImplementsConnLife, Abstract!ConnSpec
===============================================================================

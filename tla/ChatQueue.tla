------------------------------- MODULE ChatQueue -------------------------------
(***************************************************************************)
(* The composer queue of the web UI: chat messages that wait for their     *)
(* turn, are sent with chat.send, acknowledged, retried after a reconnect, *)
(* kept per session when the user looks at another one, and mirrored in    *)
(* the session storage of the tab.                                         *)
(*                                                                         *)
(* JavaScript runs one task at a time: a step is a task with the promise   *)
(* reactions it triggers, and ends with the save of the visible queue that *)
(* handleUpdated makes.  The gateway (external) accepts or refuses a send, *)
(* runs it, and acknowledges it; the end of a run may overtake the         *)
(* acknowledgement.  MaxFaults bounds refusals, disconnects, replacements, *)
(* reloads and ends that overtake, and with them the sends of one message. *)
(***************************************************************************)
EXTENDS Naturals, Sequences, FiniteSets, SequencesExt, Picking

CONSTANTS MaxMessages, \* bound on the messages the user submits
          Sessions,    \* session keys
          NoRun,       \* null, for chatRunId
          MaxFaults

(* Messages are named in the order they are submitted: ids are fresh.      *)
Items == 1 .. MaxMessages

ASSUME QueueAssumption == /\ MaxMessages \in Nat /\ MaxFaults \in Nat
                          /\ IsFiniteSet(Sessions)
                          /\ NoRun \notin Items \X Nat

VARIABLES
  sessionKey, connected,  \* host.sessionKey, host.connected
  ui,                     \* the queues and the run state of the host, see TypeOK
  stored,                 \* the queues in session storage
  idleCheck,              \* a refresh that will flush the queue of this session
  accepted, running,      \* external: the runs the gateway has started, and
                          \* those that go on
  home,                   \* the session each message was submitted in
  settled,                \* history: what happened to messages
  faults                  \* bound: refusals and lost connections so far

gatewayVars == <<accepted, running>>
vars == <<sessionKey, connected, ui, stored, idleCheck, gatewayVars, home, settled, faults>>

(* The run of a message is named by the message and the send it was.       *)
Runs == Items \X (Nat \ {0})
States == {"queued", "sending", "waiting", "failed"}
Entries == [id : Items, state : States]
Origins == {"submit", "flush", "retry", "reconnect"}
Fates == {"acked", "removed", "refused", "left", "dropped", "restored", "elsewhere",
          "overtaken"}
Flights == [id : Items, session : Sessions, att : Nat \ {0}, origin : Origins,
            rest : Seq(Sessions)]

Unique(q) == \A k, l \in DOMAIN q : q[k].id = q[l].id => k = l

(* ui.queue[s] is chatQueue for the visible session and chatQueueBySession *)
(* for the others; a flight is a chat.send that has not come back.  No     *)
(* message is twice in a queue, and none is stored as being sent.          *)
TypeOK ==
  /\ sessionKey \in Sessions /\ connected \in BOOLEAN
  /\ ui \in [queue : [Sessions -> Seq(Entries)], flights : SUBSET Flights,
             attempts : [Items -> Nat], sending : BOOLEAN, run : Runs \cup {NoRun}]
  /\ stored \in [Sessions -> Seq({e \in Entries : e.state # "sending"})]
  /\ \A s \in Sessions : Unique(ui.queue[s]) /\ Unique(stored[s])
  /\ idleCheck \in SUBSET Sessions
  /\ accepted \in SUBSET Runs /\ running \in SUBSET accepted
  /\ home \in Seq(Sessions) /\ Len(home) <= MaxMessages
  /\ settled \in [Fates -> SUBSET Items]
  /\ faults \in 0 .. MaxFaults

Init ==
  /\ sessionKey \in Sessions /\ connected = FALSE
  /\ ui = [queue |-> [s \in Sessions |-> <<>>], flights |-> {},
           attempts |-> [i \in Items |-> 0], sending |-> FALSE, run |-> NoRun]
  /\ stored = [s \in Sessions |-> <<>>]
  /\ idleCheck = {}
  /\ accepted = {} /\ running = {}
  /\ home = <<>>
  /\ settled = [fate \in Fates |-> {}]
  /\ faults = 0

-------------------------------------------------------------------------------
Submitted == DOMAIN home
IdsIn(q) == {q[k].id : k \in DOMAIN q}
SendingIn(q) == {q[k].id : k \in {l \in DOMAIN q : q[l].state = "sending"}}
InFlight(i) == \E f \in ui.flights : f.id = i
Mark(q, i, state) == [k \in DOMAIN q |-> IF q[k].id = i THEN [q[k] EXCEPT !.state = state] ELSE q[k]]
Without(q, i) == Pick(q, {k \in DOMAIN q : q[k].id # i})
Flushable(e) == e.state \in {"queued", "waiting"}
FirstOf(q, Test(_)) == SelectInSeq(q, Test)
Busy(u) == u.sending \/ u.run # NoRun

(* Mutant: it keeps them.                                                  *)
SerializeAll(q) == q

(* serializeQueueItem drops what is being sent.                            *)
Serialize(q) == Pick(q, {k \in DOMAIN q : q[k].state # "sending"})

(* handleUpdated: the visible queue is saved after every change of it.     *)
Saved == stored' = [stored EXCEPT ![sessionKey'] = Serialize(ui'.queue[sessionKey'])]

(* sendQueuedChatMessage up to its request, for a message in the queue of  *)
(* s; offline it only waits.                                               *)
Send(u, i, s, origin, rest) ==
  [u EXCEPT !.queue[s] = Mark(@, i, "sending"),
            !.attempts[i] = @ + 1,
            !.sending = TRUE,
            !.flights = @ \cup {[id |-> i, session |-> s, att |-> u.attempts[i] + 1,
                                 origin |-> origin, rest |-> rest]}]

(* Mutant: the newest message is sent first.                               *)
FlushNewest(u) ==
  LET q == u.queue[sessionKey]
      k == SelectLastInSeq(q, Flushable)
  IN IF Busy(u) \/ k = 0 THEN u ELSE Send(u, q[k].id, sessionKey, "flush", <<>>)

(* flushChatQueue, while connected.                                        *)
Flush(u) ==
  LET q == u.queue[sessionKey]
      k == FirstOf(q, Flushable)
  IN IF Busy(u) \/ k = 0 THEN u ELSE Send(u, q[k].id, sessionKey, "flush", <<>>)

(* retryReconnectableQueuedChatSends over the sessions left.               *)
RetryLoop(u, rest) ==
  LET First(s) == FirstOf(u.queue[s], LAMBDA e : e.state = "waiting")
      k == FirstOf(rest, LAMBDA s : First(s) # 0)
  IN IF k # 0
     THEN Send(u, u.queue[rest[k]][First(rest[k])].id, rest[k], "reconnect",
               SubSeq(rest, k + 1, Len(rest)))
     ELSE IF u.run = NoRun THEN Flush(u) ELSE u

(* What runs after sendQueuedChatMessage has returned, by its caller.      *)
Continue(u, f, sent) ==
  CASE f.origin = "submit" ->
         IF sent /\ sessionKey = f.session /\ u.run = NoRun THEN Flush(u) ELSE u
    [] f.origin = "flush" -> IF sent THEN Flush(u) ELSE u
    [] f.origin = "retry" -> IF u.run = NoRun THEN Flush(u) ELSE u
    [] f.origin = "reconnect" -> IF u.run = NoRun THEN RetryLoop(u, f.rest) ELSE u

Land(u, f) == [u EXCEPT !.flights = @ \ {f}, !.sending = FALSE]

-------------------------------------------------------------------------------
(* handleSendChat: the message joins the visible queue; it is sent at once *)
(* unless the chat is busy.                                                *)
Submit(i) ==
  /\ i = Len(home) + 1
  /\ home' = Append(home, sessionKey)
  /\ LET Joined(state) ==
           [ui EXCEPT !.queue[sessionKey] = Append(@, [id |-> i, state |-> state])]
     IN ui' = IF Busy(ui) THEN Joined("queued")
              ELSE IF connected THEN Send(Joined("queued"), i, sessionKey, "submit", <<>>)
              ELSE Joined("waiting")
  /\ UNCHANGED <<sessionKey, connected, idleCheck, gatewayVars, settled, faults>>
  /\ Saved

(* retryQueuedChatMessage, offered for a message that failed: it is sent   *)
(* whether or not the chat is busy.                                        *)
Retry(i) ==
  /\ [id |-> i, state |-> "failed"] \in ToSet(ui.queue[sessionKey])
  /\ ui' = IF connected THEN Send(ui, i, sessionKey, "retry", <<>>)
           ELSE [ui EXCEPT !.queue[sessionKey] = Mark(@, i, "waiting")]
  /\ UNCHANGED <<sessionKey, connected, idleCheck, gatewayVars, home, settled, faults>>
  /\ Saved

(* removeQueuedMessage                                                     *)
Discard(i) ==
  /\ i \in IdsIn(ui.queue[sessionKey])
  /\ ui' = [ui EXCEPT !.queue[sessionKey] = Without(@, i)]
  /\ settled' = [settled EXCEPT !.removed = @ \cup {i}]
  /\ UNCHANGED <<sessionKey, connected, idleCheck, gatewayVars, home, faults>>
  /\ Saved

(* resetChatStateForSessionSwitch: the queue in storage, if there is one,  *)
(* takes precedence over the one in memory.  What is being sent then is    *)
(* not in storage when its session is left; what storage brings back       *)
(* although it was acknowledged or is in flight, and what it does not have,*)
(* counts as restored.                                                     *)
SwitchSession(s) ==
  /\ s # sessionKey
  /\ sessionKey' = s
  /\ ui' = [ui EXCEPT !.queue[s] = IF stored[s] # <<>> THEN stored[s] ELSE @,
                      !.run = NoRun]
  /\ idleCheck' = IF ui'.queue[s] # <<>> THEN {s} ELSE {}
  /\ settled' =
       [settled EXCEPT
          !.left = {i \in @ : home[i] # s} \cup SendingIn(ui.queue[sessionKey]),
          !.restored =
             IF stored[s] = <<>> THEN @
             ELSE @ \cup {i \in IdsIn(stored[s]) : i \in settled.acked \/ InFlight(i)}
                    \cup (IdsIn(ui.queue[s]) \ IdsIn(stored[s]))]
  /\ UNCHANGED <<connected, gatewayVars, home, faults>>
  /\ Saved

(* flushChatQueueAfterIdleSessionReconciliation: the sessions list names   *)
(* the session as idle (the gateway of this repository never says that a   *)
(* run is active).                                                         *)
IdleCheck ==
  /\ connected /\ idleCheck # {}
  /\ idleCheck' = {}
  /\ UNCHANGED <<sessionKey, connected, gatewayVars, home, settled, faults>>
  /\ ui' = IF sessionKey \in idleCheck THEN Flush(ui) ELSE ui
  /\ Saved

-------------------------------------------------------------------------------
Fault == faults < MaxFaults /\ faults' = faults + 1

(* External: chat.send is accepted and the run starts.                     *)
Accept(f) ==
  /\ connected /\ f \in ui.flights /\ <<f.id, f.att>> \notin accepted
  /\ accepted' = accepted \cup {<<f.id, f.att>>}
  /\ running' = running \cup {<<f.id, f.att>>}
  /\ UNCHANGED <<sessionKey, connected, ui, stored, idleCheck, home, settled, faults>>

(* sendQueuedChatMessage after the acknowledgement.                        *)
Acked(f) ==
  /\ connected /\ f \in ui.flights /\ <<f.id, f.att>> \in accepted
  /\ settled' = [settled EXCEPT !.acked = @ \cup {f.id},
                                !.elsewhere = IF f.session = sessionKey THEN @
                                              ELSE @ \cup {f.id}]
  /\ UNCHANGED <<sessionKey, connected, idleCheck, gatewayVars, home, faults>>
  /\ LET u == [Land(ui, f) EXCEPT !.queue[f.session] = Without(@, f.id),
                                  !.run = IF sessionKey = f.session
                                          THEN <<f.id, f.att>> ELSE @]
     IN ui' = Continue(u, f, TRUE)
  /\ Saved

(* ... and after an error response, which is not one to retry.             *)
Refused(f) ==
  /\ connected /\ f \in ui.flights /\ <<f.id, f.att>> \notin accepted
  /\ Fault
  /\ settled' = [settled EXCEPT !.refused = @ \cup {f.id}]
  /\ UNCHANGED <<sessionKey, connected, idleCheck, gatewayVars, home>>
  /\ LET u == [Land(ui, f) EXCEPT !.queue[f.session] = Mark(@, f.id, "failed")]
     IN ui' = Continue(u, f, FALSE)
  /\ Saved

(* handleChatEvent: a run of the visible session is adopted by its first   *)
(* event when no other run is known.                                       *)
Adopts(r) == ui.run = NoRun /\ home[r[1]] = sessionKey

RunEvent(r) ==
  /\ connected /\ r \in running /\ Adopts(r)
  /\ ui' = [ui EXCEPT !.run = r]
  /\ UNCHANGED <<sessionKey, connected, stored, idleCheck, gatewayVars, home, settled, faults>>

(* Mutant: the run is cleared and the queue left for the next message.     *)
AfterRunQuiet(u) == [u EXCEPT !.run = NoRun]

(* A terminal event of the active run clears it; handleTerminalChatEvent   *)
(* then flushes the queue.                                                 *)
AfterRun(u) == Flush([u EXCEPT !.run = NoRun])

RunEnds(r) ==
  /\ connected /\ r \in running
  /\ running' = running \ {r}
  /\ IF \E f \in ui.flights : <<f.id, f.att>> = r
     THEN Fault /\ settled' = [settled EXCEPT !.overtaken = @ \cup {r[1]}]
     ELSE UNCHANGED <<settled, faults>>
  /\ UNCHANGED <<sessionKey, connected, idleCheck, accepted, home>>
  /\ ui' = IF ui.run = r \/ Adopts(r) THEN AfterRun(ui) ELSE ui
  /\ Saved

-------------------------------------------------------------------------------
(* External: the runs of a connection end with it, and nobody hears of it. *)
RunsCancelled == running' = {} /\ UNCHANGED accepted

(* Mutant: rejected sends keep their mark.                                 *)
FlightsForgotten(state) == [ui EXCEPT !.flights = {}, !.sending = FALSE]

(* Every send that has not come back is rejected; its message is marked.   *)
FlightsRejected(state) ==
  [ui EXCEPT !.flights = {}, !.sending = FALSE,
             !.queue = [s \in Sessions |->
               [k \in DOMAIN ui.queue[s] |->
                 LET e == ui.queue[s][k]
                 IN IF \E f \in ui.flights : f.id = e.id /\ f.session = s
                    THEN [e EXCEPT !.state = state] ELSE e]]]

(* onClose: markQueuedChatSendsWaitingForReconnect, and the rejections of  *)
(* flushPending, which isRecoverableChatSendError takes as recoverable.    *)
Disconnect ==
  /\ connected /\ Fault
  /\ connected' = FALSE
  /\ ui' = FlightsRejected("waiting")
  /\ RunsCancelled
  /\ UNCHANGED <<sessionKey, idleCheck, home, settled>>
  /\ Saved

(* connectGateway makes a new client and stops the old one, whose          *)
(* rejections are not recoverable ("gateway client stopped").              *)
ReplaceClient ==
  /\ connected /\ Fault
  /\ connected' = FALSE
  /\ ui' = FlightsRejected("failed")
  /\ RunsCancelled
  /\ UNCHANGED <<sessionKey, idleCheck, home, settled>>
  /\ Saved

(* Mutant: the run of before the reconnect is taken as active.             *)
RunRemembered(u) == u

RunForgotten(u) == [u EXCEPT !.run = NoRun]

(* onHello: the run of before is given up, what waits for the connection   *)
(* is retried, and the chat tab refreshes.                                 *)
Hello ==
  /\ ~connected
  /\ connected' = TRUE
  /\ UNCHANGED <<sessionKey, gatewayVars, home, settled, faults>>
  /\ LET u == RunForgotten(ui)
         waits == \E s \in Sessions : FirstOf(u.queue[s], LAMBDA e : e.state = "waiting") # 0
         others == SetToSeq({s \in Sessions : s # sessionKey /\ u.queue[s] # <<>>})
     IN ui' = IF waits THEN RetryLoop(u, <<sessionKey>> \o others) ELSE u
  /\ idleCheck' = IF ui'.queue[sessionKey] # <<>> THEN {sessionKey} ELSE {}
  /\ Saved

(* The page is loaded again: what the visible session has in flight is     *)
(* dropped on purpose, and with it what was in flight when its session was *)
(* left; the rest comes back from session storage.                         *)
Reload ==
  /\ Fault
  /\ connected' = FALSE
  /\ ui' = [ui EXCEPT !.queue = [s \in Sessions |-> IF s = sessionKey THEN stored[s] ELSE <<>>],
                      !.flights = {}, !.sending = FALSE, !.run = NoRun]
  /\ RunsCancelled
  /\ idleCheck' = {}
  /\ settled' = [settled EXCEPT
                   !.dropped = @ \cup {f.id : f \in {g \in ui.flights : g.session = sessionKey}}
                                 \cup settled.left,
                   !.left = {}]
  /\ UNCHANGED <<sessionKey, home>>
  /\ Saved

Gateway == \/ \E f \in ui.flights : Accept(f) \/ Acked(f) \/ Refused(f)
           \/ \E r \in running : RunEvent(r) \/ RunEnds(r)

User == \/ \E i \in Items : Submit(i) \/ Retry(i) \/ Discard(i)
        \/ \E s \in Sessions : SwitchSession(s)

Next == Gateway \/ User \/ IdleCheck \/ Disconnect \/ ReplaceClient \/ Hello \/ Reload

Spec == Init /\ [][Next]_vars

(* The client reconnects, a refresh of the chat tab comes back, and the    *)
(* gateway answers every send and ends every run: messages and attempts    *)
(* are finitely many, so none of them can be passed over for ever.         *)
Answer == \E f \in ui.flights : Accept(f) \/ Acked(f)
AnyRunEnds == \E r \in running : RunEnds(r)

Fairness == /\ WF_vars(Hello) /\ WF_vars(IdleCheck)
            /\ WF_vars(Answer) /\ WF_vars(AnyRunEnds)

FairSpec == Spec /\ Fairness

-------------------------------------------------------------------------------
(* Whatever is removed from under a send, no message is left marked as     *)
(* being sent without a request that will come back: it would be skipped   *)
(* by every flush for ever.                                                *)
SendingIsInFlight ==
  \A s \in Sessions : \A k \in DOMAIN ui.queue[s] :
    ui.queue[s][k].state = "sending"
      => \E f \in ui.flights : f.id = ui.queue[s][k].id /\ f.session = s

(* A message is never sent by two requests at a time, and never again once *)
(* it was acknowledged.                                                    *)
SentOnce ==
  \A f \in ui.flights : /\ f.id \notin settled.acked
                        /\ \A g \in ui.flights : g.id = f.id => g = f

(* It is sent twice in one way only: a session was opened whose queue in   *)
(* storage still had the message, when it was in flight or acknowledged.   *)
SentAgainOnlyByRestore ==
  \A f \in ui.flights : f.id \notin settled.restored =>
    /\ f.id \notin settled.acked
    /\ \A g \in ui.flights : g.id = f.id => g = f

(* A message leaves the composer only when it was acknowledged or given    *)
(* up, until then it is queued or stored; but for a reload, which forgets  *)
(* what was in flight when it was last stored, and a restore, which        *)
(* forgets what storage does not have.                                     *)
Kept(i) == i \in IdsIn(ui.queue[home[i]]) \cup IdsIn(stored[home[i]])

LostOnlyByRestore ==
  \A i \in Submitted \ (settled.restored \cup settled.dropped) :
    i \in settled.acked \cup settled.removed \/ Kept(i)

(* Neither lost nor stuck nor sent again: a message of the composer waits, *)
(* or one request has it, until it was acknowledged or given up, whatever  *)
(* happens to its session or its connection meanwhile; a reload and a      *)
(* restore aside.                                                          *)
KeptAndSentOnce == SendingIsInFlight /\ LostOnlyByRestore /\ SentAgainOnlyByRestore

(* run-lifecycle.ts: once the terminal event of a run cleared the local    *)
(* run, the composer does not snap back to it, but for a run that ended    *)
(* before its send was acknowledged.                                       *)
SnapsBackOnlyToOvertaken ==
  connected /\ ui.run # NoRun =>
    ui.run \in running \/ ui.run[1] \in settled.overtaken

(* A message waiting in the visible queue is acknowledged, fails or is     *)
(* removed in the end; only one the gateway refused holds up the others,   *)
(* or one acknowledged too late or while another session was visible.      *)
QueueDrains ==
  \A i \in Items :
    (\E e \in ToSet(ui.queue[sessionKey]) : e.id = i /\ Flushable(e))
    ~> \/ \A e \in ToSet(ui.queue[sessionKey]) : e.id = i => e.state = "failed"
       \/ settled.refused \cup settled.elsewhere \cup settled.overtaken # {}

(* A flush never lets a message overtake one that waits before it in the   *)
(* queue of its session; a reconnect, which sends first what was being     *)
(* sent, only one that was never tried.  The user's own sends may.         *)
SentInOrder ==
  \A s \in Sessions : \A k, l \in DOMAIN ui.queue[s] :
    k < l /\ ui.queue[s][l].state = "sending" /\ Flushable(ui.queue[s][k])
    => \E f \in ui.flights :
         /\ f.id = ui.queue[s][l].id
         /\ \/ f.origin \in {"submit", "retry"}
            \/ f.origin = "reconnect" /\ ui.queue[s][k].state = "queued"
===============================================================================

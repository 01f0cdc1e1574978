-------------------------------- MODULE ChatRun --------------------------------
(***************************************************************************)
(* The life of a chat run: chat.send starts a goroutine that streams one   *)
(* agent query to the connection that asked and to the other subscribers   *)
(* of the session; chat.abort, from any connection, and the disconnection  *)
(* of the origin cancel its context.  RunTracker is what chat.abort can    *)
(* find.  Run ids are wall-clock milliseconds: a Run is one goroutine, its *)
(* id is the value of clock when chat.send was handled.                    *)
(***************************************************************************)
EXTENDS ConnLife, Naturals, Sequences

CONSTANTS Runs,       \* goroutines started by chat.send
          MaxClock,   \* bound on the milliseconds that pass
          MaxEvents,  \* bound on the delta and tool events of one run
          NoRun,      \* no entry in the tracker
          NoRequest   \* the run has not been started

Ids == 1 .. MaxClock

Requests == [conn : Conns, session : Sessions, id : Ids]

ASSUME ChatRunAssumption == /\ IsFiniteSet(Runs)
                            /\ MaxClock \in Nat \ {0}
                            /\ MaxEvents \in Nat
                            /\ NoRun \notin Runs
                            /\ NoRequest \notin Requests

VARIABLES busy,      \* the request the read loop of a connection is handling
          toCancel,  \* the entries its chat.abort has still to cancel
          clock,     \* time.Now() in milliseconds
          tracker,   \* RunTracker.runs
          request,   \* what the run was started with
          cancelled, \* runs whose runCancel has been called
          phase,     \* where each run is in its goroutine
          events,    \* delta and tool events the run's stream has produced
          content,   \* runs with some answer text
          writing,   \* the event ChatStreamAdapter is about to send, if any
          relay,     \* the event it last sent to the origin, and to whom it has
                     \* still to send it
          seen,      \* the states of the chat events written to each socket
          history    \* messages of the run that were persisted

loopVars == <<busy, toCancel>>
trackVars == <<clock, tracker, request>>
streamVars == <<phase, events, content, history>>
sendVars == <<writing, relay, seen>>
chatVars == <<loopVars, trackVars, cancelled, streamVars, sendVars>>
vars == <<connVars, chatVars>>

Phases == {"unused", "asked", "loaded", "streaming", "eof", "checking",
           "saving", "failed", "replyAborted", "replyError", "ended", "done"}

States == {"delta", "final", "error", "aborted"}

Terminal == States \ {"delta"}

TypeOK == /\ ConnTypeOK
          /\ busy \in [Conns -> {"idle", "send", "abort"}]
          /\ toCancel \in [Conns -> SUBSET Runs]
          /\ clock \in Ids
          /\ tracker \in [Ids -> Runs \cup {NoRun}]
          /\ request \in [Runs -> Requests \cup {NoRequest}]
          /\ cancelled \subseteq Runs
          /\ phase \in [Runs -> Phases]
          /\ events \in [Runs -> 0 .. MaxEvents]
          /\ content \subseteq Runs
          /\ writing \in [Runs -> States \cup {"none"}]
          /\ relay \in [Runs -> [state : States, to : SUBSET Conns]]
          /\ seen \in [Conns -> [Runs -> Seq(States)]]
          /\ history \subseteq Runs \X {"user", "assistant"}

Init == /\ ConnInit
        /\ busy = [c \in Conns |-> "idle"]
        /\ toCancel = [c \in Conns |-> {}]
        /\ clock = 1
        /\ tracker = [i \in Ids |-> NoRun]
        /\ request = [r \in Runs |-> NoRequest]
        /\ cancelled = {}
        /\ phase = [r \in Runs |-> "unused"]
        /\ events = [r \in Runs |-> 0]
        /\ content = {}
        /\ writing = [r \in Runs |-> "none"]
        /\ relay = [r \in Runs |-> [state |-> "delta", to |-> {}]]
        /\ seen = [c \in Conns |-> [r \in Runs |-> <<>>]]
        /\ history = {}

Origin(r) == request[r].conn

(* Mutant: runCtx derived from context.Background().                       *)
CtxDoneOnAbort(r) == r \in cancelled

(* runCtx is derived from the context of the origin's connection.          *)
CtxDone(r) == r \in cancelled \/ conn[Origin(r)] = "closed"

-------------------------------------------------------------------------------
(* Requests.  The read loop of a connection handles one at a time.         *)
Serving(c) == conn[c] = "ready" /\ busy[c] = "idle"

ChatSend(c, s, r) ==
  /\ Serving(c)
  /\ phase[r] = "unused"
  /\ request' = [request EXCEPT ![r] = [conn |-> c, session |-> s, id |-> clock]]
  /\ tracker' = [tracker EXCEPT ![clock] = r]
  /\ phase' = [phase EXCEPT ![r] = "asked"]
  /\ busy' = [busy EXCEPT ![c] = "send"]
  /\ UNCHANGED <<connVars, toCancel, clock, cancelled, events, content, history,
                 sendVars>>

Abort(c, entries) ==
  /\ Serving(c)
  /\ busy' = [busy EXCEPT ![c] = "abort"]
  /\ toCancel' = [toCancel EXCEPT ![c] = entries]
  /\ UNCHANGED <<connVars, trackVars, cancelled, streamVars, sendVars>>

Tracked == {tracker[i] : i \in Ids} \ {NoRun}

(* chat.abort with a runId looks up one entry, with a session key all of   *)
(* the session's; the entries are cancelled outside the tracker's lock.    *)
AbortRun(c, i) == Abort(c, {tracker[i]} \ {NoRun})

AbortSession(c, s) == Abort(c, {r \in Tracked : request[r].session = s})

(* (Mutant: chat.abort takes the entry out, too.)                          *)
CancelEntryUnregisters(c, r) ==
  /\ r \in toCancel[c]
  /\ cancelled' = cancelled \cup {r}
  /\ toCancel' = [toCancel EXCEPT ![c] = @ \ {r}]
  /\ tracker' = [tracker EXCEPT ![request[r].id] = NoRun]
  /\ UNCHANGED <<connVars, busy, clock, request, streamVars, sendVars>>

CancelEntry(c, r) ==
  /\ r \in toCancel[c]
  /\ cancelled' = cancelled \cup {r}
  /\ toCancel' = [toCancel EXCEPT ![c] = @ \ {r}]
  /\ UNCHANGED <<connVars, busy, trackVars, streamVars, sendVars>>

(* The response is written: the goroutine of a chat.send already runs.     *)
Respond(c) == /\ busy[c] # "idle"
              /\ toCancel[c] = {}
              /\ busy' = [busy EXCEPT ![c] = "idle"]
              /\ UNCHANGED <<connVars, toCancel, trackVars, cancelled, streamVars,
                             sendVars>>

Tick == /\ clock < MaxClock
        /\ clock' = clock + 1
        /\ UNCHANGED <<connVars, loopVars, tracker, request, cancelled, streamVars,
                       sendVars>>

-------------------------------------------------------------------------------
(* Mutant: handleSSEEvent without its look at the context.                 *)
WriteAlways(r, state) == writing' = [writing EXCEPT ![r] = state]

(* ChatStreamAdapter.Write drops an event once the run's context is done;  *)
(* otherwise it goes to the origin, then to the session's subscribers.     *)
Write(r, state) ==
  writing' = IF CtxDone(r) THEN writing ELSE [writing EXCEPT ![r] = state]

(* The write to one connection: nothing once the connection is closed.     *)
Deliver(c, r, state) ==
  seen' = IF Open(c) THEN [seen EXCEPT ![c][r] = Append(@, state)] ELSE seen

(* Mutant: the event is forgotten before it is relayed.                    *)
SendOriginForgets(r) ==
  /\ writing[r] # "none"
  /\ Deliver(Origin(r), r, writing[r])
  /\ writing' = [writing EXCEPT ![r] = "none"]
  /\ relay' = [relay EXCEPT ![r] =
                 [state |-> writing'[r],
                  to |-> GetMessageSubscribers(request[r].session) \ {Origin(r)}]]
  /\ UNCHANGED <<connVars, loopVars, trackVars, cancelled, streamVars>>

(* SendEvent to the origin, then GetMessageSubscribers.                    *)
SendOrigin(r) ==
  /\ writing[r] # "none"
  /\ Deliver(Origin(r), r, writing[r])
  /\ relay' = [relay EXCEPT ![r] =
                 [state |-> writing[r],
                  to |-> GetMessageSubscribers(request[r].session) \ {Origin(r)}]]
  /\ writing' = [writing EXCEPT ![r] = "none"]
  /\ UNCHANGED <<connVars, loopVars, trackVars, cancelled, streamVars>>

(* BroadcastTo one subscriber: nothing if it has left the broadcast set.   *)
Relay(r, c) ==
  /\ c \in relay[r].to
  /\ IF c \in bcast THEN Deliver(c, r, relay[r].state) ELSE UNCHANGED seen
  /\ relay' = [relay EXCEPT ![r].to = @ \ {c}]
  /\ UNCHANGED <<connVars, loopVars, trackVars, cancelled, streamVars, writing>>

(* The goroutine goes on when the event it wrote has been sent everywhere. *)
Between(r, from, to) == /\ phase[r] = from
                        /\ writing[r] = "none"
                        /\ relay[r].to = {}
                        /\ phase' = [phase EXCEPT ![r] = to]
                        /\ UNCHANGED <<connVars, loopVars, trackVars, cancelled,
                                       relay, seen>>

-------------------------------------------------------------------------------
(* QueryStream.  Its database calls fail once the context is done, and may *)
(* fail before; a failed lookup of the session ends the query, a failed    *)
(* write of a message is only logged.                                      *)
Persist(r, role) ==
  \/ UNCHANGED history
  \/ ~CtxDone(r) /\ history' = history \cup {<<r, role>>}

SessionMissing(r) == /\ Between(r, "asked", "failed")
                     /\ UNCHANGED <<events, content, history, writing>>

SaveQuestion(r) == /\ Between(r, "asked", "loaded")
                   /\ ~CtxDone(r)
                   /\ Persist(r, "user")
                   /\ UNCHANGED <<events, content, writing>>

(* Refused by the firewall or by the injection check: an SSE error and an  *)
(* error result.                                                           *)
BlockInput(r) == /\ Between(r, "loaded", "failed")
                 /\ Write(r, "error")
                 /\ UNCHANGED <<events, content, history>>

(* Mutant: QueryStream returns nil when it has no model.                   *)
NoModelNoError(r) == /\ Between(r, "loaded", "ended")
                     /\ UNCHANGED <<events, content, history, writing>>

(* The chat model or the agent cannot be built: an error result only.      *)
NoModel(r) == /\ Between(r, "loaded", "failed")
              /\ UNCHANGED <<events, content, history, writing>>

StartStream(r) == /\ Between(r, "loaded", "streaming")
                  /\ UNCHANGED <<events, content, history, writing>>

(* A delta of answer text, or an event of a tool call (no answer text).    *)
StreamEvent(r, text) ==
  /\ events[r] < MaxEvents
  /\ Between(r, "streaming", "streaming")
  /\ events' = [events EXCEPT ![r] = @ + 1]
  /\ content' = IF text THEN content \cup {r} ELSE content
  /\ Write(r, "delta")
  /\ UNCHANGED history

(* Mutant: the receive loop goes on after an error.                        *)
RecvErrorGoesOn(r) == /\ Between(r, "streaming", "streaming")
                      /\ Write(r, "error")
                      /\ UNCHANGED <<events, content, history>>

(* agent.Stream or Recv returns an error: an SSE error and an error result.*)
RecvError(r) == /\ Between(r, "streaming", "failed")
                /\ Write(r, "error")
                /\ UNCHANGED <<events, content, history>>

RecvEOF(r) == /\ Between(r, "streaming", "eof")
              /\ UNCHANGED <<events, content, history, writing>>

WriteDone(r) == /\ Between(r, "eof", "checking")
                /\ Write(r, "final")
                /\ UNCHANGED <<events, content, history>>

(* Mutant: QueryStream does not return when the firewall blocks its answer.*)
BlockOutputGoesOn(r) == /\ Between(r, "checking", "saving")
                        /\ Write(r, "error")
                        /\ UNCHANGED <<events, content, history>>

(* The firewall looks at the answer after it has been sent.                *)
BlockOutput(r) == /\ Between(r, "checking", "failed")
                  /\ Write(r, "error")
                  /\ UNCHANGED <<events, content, history>>

PassOutput(r) == /\ Between(r, "checking", "saving")
                 /\ UNCHANGED <<events, content, history, writing>>

SaveAnswer(r) == /\ Between(r, "saving", "ended")
                 /\ r \in content \/ UNCHANGED history
                 /\ Persist(r, "assistant")
                 /\ UNCHANGED <<events, content, writing>>

-------------------------------------------------------------------------------
(* The goroutine of handleChatSend after QueryStream has failed: it looks  *)
(* at the context once, then tells the origin, and only the origin.        *)
ClassifyFailure(r) ==
  /\ Between(r, "failed", IF CtxDone(r) THEN "replyAborted" ELSE "replyError")
  /\ UNCHANGED <<events, content, history, writing>>

ReplyFailure(r) ==
  /\ phase[r] \in {"replyAborted", "replyError"}
  /\ Deliver(Origin(r), r,
             IF phase[r] = "replyAborted" THEN "aborted" ELSE "error")
  /\ phase' = [phase EXCEPT ![r] = "ended"]
  /\ UNCHANGED <<connVars, loopVars, trackVars, cancelled, events, content, history,
                 writing, relay>>

(* The deferred Unregister deletes whatever entry has the run's id.        *)
Unregister(r) ==
  /\ phase[r] = "ended"
  /\ phase' = [phase EXCEPT ![r] = "done"]
  /\ tracker' = [tracker EXCEPT ![request[r].id] = NoRun]
  /\ UNCHANGED <<connVars, loopVars, clock, request, cancelled, events, content,
                 history, sendVars>>

-------------------------------------------------------------------------------
(* Connections; the read loop notices nothing while it handles a request.  *)
Disconnect(c) == busy[c] = "idle" /\ Hangup(c)

Subscribe(c, s) == busy[c] = "idle" /\ SubscribeMessages(c, s)

Unsubscribe(c, s) == busy[c] = "idle" /\ UnsubscribeMessages(c, s)

Connection(c) == /\ \/ Accept(c) \/ Ready(c) \/ Disconnect(c) \/ TearDown(c)
                    \/ \E s \in Sessions : Subscribe(c, s) \/ Unsubscribe(c, s)
                 /\ UNCHANGED chatVars

Requesting(c) == \/ \E s \in Sessions : \/ \E r \in Runs : ChatSend(c, s, r)
                                        \/ AbortSession(c, s)
                 \/ \E i \in Ids : AbortRun(c, i)

Handling(c) == Respond(c) \/ \E r \in Runs : CancelEntry(c, r)

Sending(r) == SendOrigin(r) \/ \E c \in Conns : Relay(r, c)

Querying(r) ==
  \/ SessionMissing(r) \/ SaveQuestion(r)
  \/ BlockInput(r) \/ NoModel(r) \/ StartStream(r)
  \/ WriteDone(r) \/ BlockOutput(r) \/ PassOutput(r) \/ SaveAnswer(r)
  \/ ClassifyFailure(r) \/ ReplyFailure(r) \/ Unregister(r)

Streaming(r) == \/ \E text \in BOOLEAN : StreamEvent(r, text)
                \/ RecvError(r) \/ RecvEOF(r)

Next == \/ \E c \in Conns : Connection(c) \/ Requesting(c) \/ Handling(c)
        \/ \E r \in Runs : Sending(r) \/ Querying(r) \/ Streaming(r)
        \/ Tick

Spec == Init /\ [][Next]_vars

(* Handlers and goroutines are not suspended for ever, and a connection    *)
(* that has left its loop is torn down.  Nothing bounds how long the model *)
(* service may keep a stream open, so Recv is owed an answer only once the *)
(* context it was called with is done.                                     *)
Running(r) == Sending(r) \/ Querying(r) \/ (RecvError(r) /\ CtxDone(r))

Fairness == /\ \A c \in Conns : /\ WF_vars(TearDown(c) /\ UNCHANGED chatVars)
                                 /\ WF_vars(Handling(c))
            /\ \A r \in Runs : WF_vars(Running(r))

FairSpec == Spec /\ Fairness

-------------------------------------------------------------------------------
Started(r) == request[r] # NoRequest

Live(r) == phase[r] \notin {"unused", "done"}

Told(c, r, states) == \E i \in DOMAIN seen[c][r] : seen[c][r][i] \in states

(* Another run was given the same millisecond as its id.                   *)
SharesId(r) == \E q \in Runs \ {r} : Started(q) /\ request[q].id = request[r].id

(* chat.abort never reports a run that has ended or has another id than it *)
(* was asked for, and finds every live run that shares its id with no other*)
(* run: registration precedes the goroutine, and Unregister is its last    *)
(* step.                                                                   *)
TrackerMatchesRuns ==
  /\ \A i \in Ids :
       tracker[i] # NoRun => Live(tracker[i]) /\ request[tracker[i]].id = i
  /\ \A r \in Runs : Live(r) /\ ~SharesId(r) => tracker[request[r].id] = r

(* A run that nobody interrupted has told its origin how it ended, whatever*)
(* part of the query failed: the browser never waits for ever on it.       *)
UninterruptedRunAnswered ==
  \A r \in Runs :
     phase[r] = "done" /\ ~CtxDone(r) => Told(Origin(r), r, Terminal)

(* No answer is in the history unless the origin was shown it as the final *)
(* state of the run, and shown nothing else of the run after that: saving  *)
(* is conditional on a context that was still good when "done" was sent.   *)
SavedAnswerWasFinal ==
  \A r \in Runs :
     <<r, "assistant">> \in history
        => LET view == seen[Origin(r)][r]
           IN  view # <<>> /\ view[Len(view)] = "final"

(* What any connection is told of a run, in order: deltas, then at most one*)
(* final, then at most two errors or an error and an abort.  The second    *)
(* error and the abort come from handleChatSend: for the origin only.      *)
Follows == [delta |-> States, final |-> {"error", "aborted"},
            error |-> {"error", "aborted"}, aborted |-> {}]

StoryInOrder ==
  \A c \in Conns, r \in Runs :
     LET view == seen[c][r]
         Count(state) == Cardinality({i \in DOMAIN view : view[i] = state})
     IN  /\ \A i \in 1 .. Len(view) - 1 : view[i + 1] \in Follows[view[i]]
         /\ Count("error") + Count("aborted") <= 2
         /\ Started(r) /\ c # Origin(r) => Count("error") + Count("aborted") <= 1

(* Once a run is cancelled and the event in the adapter's hands, if any,   *)
(* has gone out, the adapter never takes up another: subscribers hear no   *)
(* more of the run and the origin only hears how it ended.                 *)
StaysQuiet(r) ==
  /\ Started(r) /\ CtxDone(r)
  /\ writing[r] = "none" /\ relay[r].to = {}
  => /\ writing'[r] = "none" /\ relay'[r].to = {}
     /\ \A c \in Conns :
          \/ seen'[c][r] = seen[c][r]
          \/ /\ c = Origin(r)
             /\ \E state \in {"aborted", "error"} :
                   seen'[c][r] = Append(seen[c][r], state)

QuietAfterCancel == [][\A r \in Runs : StaysQuiet(r)]_vars

(* chat.abort ends the runs it cancels, and a connection that goes away    *)
(* takes its runs with it: none keeps running for nobody.                  *)
CutRunsEnd ==
  \A r \in Runs :
     Started(r) /\ (r \in cancelled \/ conn[Origin(r)] = "leaving") ~> ~Live(r)

===============================================================================

----------------------------- MODULE ChatRunProofs -----------------------------
(***************************************************************************)
(* Theorems about ChatRun, for any number of connections, sessions and     *)
(* runs: what chat.abort can find, that a run nobody interrupts is         *)
(* answered, that a saved answer is one its origin was shown, in what      *)
(* order every connection is told of a run, and that a cancelled run is    *)
(* quiet.                                                                  *)
(***************************************************************************)
EXTENDS ChatRun, FiniteSetTheorems, TLAPS

(* A run has a request from the moment chat.send accepts it.               *)
RequestInv == \A r \in Runs : phase[r] = "unused" <=> request[r] = NoRequest

(* Where the adapter may still have an event to send, and to whom.         *)
SendInv ==
  \A r \in Runs :
     /\ writing[r] # "none" => phase[r] \in {"streaming", "checking", "failed"}
     /\ phase[r] = "checking" => writing[r] \in {"none", "final"}
     /\ phase[r] = "unused" => relay[r].to = {}
     /\ Started(r) => Origin(r) \notin relay[r].to

(* The origin's view of the run ends with the final event.                 *)
Shown(r) == LET view == seen[Origin(r)][r]
            IN  view # <<>> /\ view[Len(view)] = "final"

(* As long as nothing cancels the run, the final event is on its way or    *)
(* shown while the answer is checked and saved; an answer is only saved by *)
(* the last step of the query; and a query that has ended has been         *)
(* answered.                                                               *)
Answered(r) ==
  /\ phase[r] \in {"checking", "saving"} /\ ~CtxDone(r)
        => writing[r] = "final" \/ Shown(r)
  /\ <<r, "assistant">> \in history => phase[r] \in {"ended", "done"} /\ Shown(r)
  /\ phase[r] \in {"ended", "done"} /\ ~CtxDone(r)
        => Told(Origin(r), r, Terminal)

AnswerInv == \A r \in Runs : Answered(r)

IInv == TypeOK /\ RequestInv /\ TrackerMatchesRuns /\ SendInv /\ AnswerInv

-------------------------------------------------------------------------------
(* Before the first connection nothing has been started, sent or saved.    *)
LEMMA InitIInv == Init => IInv
<1> SUFFICES ASSUME Init PROVE IInv
  OBVIOUS
<1> USE ChatRunAssumption DEF Init, ConnInit
<1>1. TypeOK
  BY DEF TypeOK, ConnTypeOK, Stages, Ids, Phases, States
<1>2. RequestInv /\ TrackerMatchesRuns
  BY DEF RequestInv, TrackerMatchesRuns, Live
<1>3. SendInv /\ AnswerInv
  BY DEF SendInv, AnswerInv, Answered, Started
<1>4. QED
  BY <1>1, <1>2, <1>3 DEF IInv

(* Writing to a socket leaves every view a sequence of states and changes  *)
(* only the view one connection has of one run, by one more state at most. *)
LEMMA DeliverView ==
  ASSUME seen \in [Conns -> [Runs -> Seq(States)]],
         NEW c \in Conns, NEW r \in Runs, NEW state \in States,
         Deliver(c, r, state)
  PROVE  /\ seen' \in [Conns -> [Runs -> Seq(States)]]
         /\ \A d \in Conns, q \in Runs : <<d, q>> # <<c, r>> => seen'[d][q] = seen[d][q]
         /\ seen'[c][r] = IF Open(c) THEN Append(seen[c][r], state) ELSE seen[c][r]
<1> DEFINE view == Append(seen[c][r], state)
<1>1. view \in Seq(States)
  OBVIOUS
<1> HIDE DEF view
<1>2. [seen[c] EXCEPT ![r] = view] \in [Runs -> Seq(States)]
  BY <1>1
<1>3. CASE Open(c)
  <2>1. seen' = [seen EXCEPT ![c] = [seen[c] EXCEPT ![r] = view]]
    BY <1>3 DEF Deliver, view
  <2>2. QED
    BY <2>1, <1>2, <1>3 DEF view
<1>4. CASE ~Open(c)
  BY <1>4 DEF Deliver
<1>5. QED
  BY <1>3, <1>4

(* So any view is as it was, or is the one written to.                     *)
LEMMA DeliverOther ==
  ASSUME seen \in [Conns -> [Runs -> Seq(States)]],
         NEW c \in Conns, NEW r \in Runs, NEW state \in States,
         Deliver(c, r, state), NEW d \in Conns, NEW q \in Runs
  PROVE  \/ seen'[d][q] = seen[d][q]
         \/ d = c /\ q = r /\ seen'[d][q] = Append(seen[d][q], state)
<1>1. CASE <<d, q>> = <<c, r>>
  BY <1>1, DeliverView
<1>2. CASE <<d, q>> # <<c, r>>
  BY <1>2, DeliverView
<1>3. QED
  BY <1>1, <1>2

(* Connection steps keep the types.                                        *)
LEMMA ConnectionTypes ==
  ASSUME ConnTypeOK, NEW c \in Conns, Connection(c)
  PROVE  ConnTypeOK'
<1> USE DEF ConnTypeOK, Stages
<1>1. CASE Accept(c)
  BY <1>1 DEF Accept
<1>2. CASE Ready(c)
  BY <1>2 DEF Ready
<1>3. CASE Disconnect(c)
  BY <1>3 DEF Disconnect, Hangup
<1>4. CASE TearDown(c)
  BY <1>4 DEF TearDown, CleanupConn, RemoveConn, Close
<1>5. ASSUME NEW s \in Sessions, Subscribe(c, s) PROVE ConnTypeOK'
  BY <1>5 DEF Subscribe, SubscribeMessages
<1>6. ASSUME NEW s \in Sessions, Unsubscribe(c, s) PROVE ConnTypeOK'
  BY <1>6 DEF Unsubscribe, UnsubscribeMessages
<1>7. QED
  BY <1>1, <1>2, <1>3, <1>4, <1>5, <1>6 DEF Connection

(* The query steps of a run keep the types.                                *)
LEMMA QueryTypes ==
  ASSUME TypeOK, RequestInv, NEW r \in Runs, Querying(r) \/ Streaming(r)
  PROVE  TypeOK'
<1> USE ChatRunAssumption
    DEF TypeOK, ConnTypeOK, Phases, States, Ids, connVars, loopVars, trackVars,
        streamVars, sendVars, chatVars
<1>1. ASSUME SessionMissing(r) \/ NoModel(r) \/ StartStream(r) \/ RecvEOF(r)
             \/ PassOutput(r) \/ ClassifyFailure(r)
      PROVE  TypeOK'
  BY <1>1 DEF SessionMissing, NoModel, StartStream, RecvEOF, PassOutput,
              ClassifyFailure, Between
<1>2. ASSUME BlockInput(r) \/ RecvError(r) \/ WriteDone(r) \/ BlockOutput(r)
      PROVE  TypeOK'
  BY <1>2 DEF BlockInput, RecvError, WriteDone, BlockOutput, Write, Between
<1>3. ASSUME SaveQuestion(r) \/ SaveAnswer(r) PROVE TypeOK'
  <2>1. history' \subseteq Runs \X {"user", "assistant"}
    BY <1>3 DEF SaveQuestion, SaveAnswer, Persist
  <2>2. QED
    BY <1>3, <2>1 DEF SaveQuestion, SaveAnswer, Between
<1>4. ASSUME ReplyFailure(r) PROVE TypeOK'
  <2>1. seen' \in [Conns -> [Runs -> Seq(States)]]
    <3>1. Started(r) => Origin(r) \in Conns
      BY DEF Started, Origin, Requests
    <3>2. QED
      BY <1>4, <3>1, RequestInv, DeliverView DEF ReplyFailure, RequestInv, Started
  <2>2. QED
    BY <1>4, <2>1 DEF ReplyFailure
<1>5. ASSUME Unregister(r) PROVE TypeOK'
  BY <1>5 DEF Unregister
<1>6. ASSUME NEW text \in BOOLEAN, StreamEvent(r, text) PROVE TypeOK'
  BY <1>6 DEF StreamEvent, Write, Between
<1>7. QED
  BY <1>1, <1>2, <1>3, <1>4, <1>5, <1>6 DEF Querying, Streaming

(* Every step keeps the types.                                             *)
LEMMA TypeStep == IInv /\ [Next]_vars => TypeOK'
<1> SUFFICES ASSUME TypeOK, RequestInv, SendInv, [Next]_vars PROVE TypeOK'
  BY DEF IInv
<1> USE ChatRunAssumption
    DEF TypeOK, ConnTypeOK, Phases, States, Ids, connVars, loopVars, trackVars,
        streamVars, sendVars, chatVars
<1>1. CASE UNCHANGED vars
  BY <1>1 DEF vars
<1>2. ASSUME NEW c \in Conns, Connection(c) PROVE TypeOK'
  <2>1. ConnTypeOK'
    BY <1>2, ConnectionTypes
  <2>2. QED
    BY <1>2, <2>1 DEF Connection
<1>3. ASSUME NEW c \in Conns, NEW s \in Sessions, NEW r \in Runs, ChatSend(c, s, r)
      PROVE  TypeOK'
  BY <1>3 DEF ChatSend, Requests
<1>4. ASSUME NEW c \in Conns, NEW entries \in SUBSET Runs, Abort(c, entries)
      PROVE  TypeOK'
  BY <1>4 DEF Abort
<1>5. ASSUME NEW c \in Conns, Requesting(c) PROVE TypeOK'
  <2>1. ASSUME NEW s \in Sessions, AbortSession(c, s) PROVE TypeOK'
    BY <2>1, <1>4 DEF AbortSession, Tracked
  <2>2. ASSUME NEW i \in Ids, AbortRun(c, i) PROVE TypeOK'
    BY <2>2, <1>4 DEF AbortRun
  <2>3. QED
    BY <1>3, <1>5, <2>1, <2>2 DEF Requesting
<1>6. ASSUME NEW c \in Conns, Handling(c) PROVE TypeOK'
  <2>1. ASSUME Respond(c) PROVE TypeOK'
    BY <2>1 DEF Respond
  <2>2. ASSUME NEW r \in Runs, CancelEntry(c, r) PROVE TypeOK'
    BY <2>2 DEF CancelEntry
  <2>3. QED
    BY <1>6, <2>1, <2>2 DEF Handling
<1>7. ASSUME NEW r \in Runs, Sending(r) PROVE TypeOK'
  <2>o. writing[r] # "none" => Origin(r) \in Conns
    BY DEF SendInv, RequestInv, Origin, Requests
  <2>1. ASSUME SendOrigin(r) PROVE TypeOK'
    <3>1. seen' \in [Conns -> [Runs -> Seq(States)]]
      <4>1. writing[r] \in States
        BY <2>1 DEF SendOrigin
      <4>2. Deliver(Origin(r), r, writing[r]) /\ Origin(r) \in Conns
        BY <2>1, <2>o DEF SendOrigin
      <4>3. QED
        BY <4>1, <4>2, DeliverView
    <3>2. relay' \in [Runs -> [state : States, to : SUBSET Conns]]
      BY <2>1 DEF SendOrigin, GetMessageSubscribers
    <3>3. QED
      BY <2>1, <3>1, <3>2 DEF SendOrigin
  <2>2. ASSUME NEW c \in Conns, Relay(r, c) PROVE TypeOK'
    <3>1. seen' \in [Conns -> [Runs -> Seq(States)]]
      <4>1. relay[r].state \in States
        OBVIOUS
      <4>2. QED
        BY <2>2, <4>1, DeliverView DEF Relay
    <3>2. relay' \in [Runs -> [state : States, to : SUBSET Conns]]
      BY <2>2 DEF Relay
    <3>3. QED
      BY <2>2, <3>1, <3>2 DEF Relay
  <2>3. QED
    BY <1>7, <2>1, <2>2 DEF Sending
<1>8. ASSUME NEW r \in Runs, Querying(r) \/ Streaming(r) PROVE TypeOK'
  BY <1>8, QueryTypes
<1>9. CASE Tick
  BY <1>9 DEF Tick
<1>10. QED
  BY <1>1, <1>2, <1>5, <1>6, <1>7, <1>8, <1>9 DEF Next

-------------------------------------------------------------------------------
(* How a step can move a run: chat.send starts it, its own query moves it  *)
(* between two stages in the middle of its life, Unregister ends it.       *)
LEMMA PhaseMoves ==
  ASSUME [Next]_vars
  PROVE  \/ UNCHANGED <<phase, request, tracker>>
         \/ \E c \in Conns, s \in Sessions, r \in Runs : ChatSend(c, s, r)
         \/ \E r \in Runs :
              /\ phase[r] \notin {"unused", "ended", "done"}
              /\ \E to \in Phases \ {"unused", "done"} :
                   phase' = [phase EXCEPT ![r] = to]
              /\ UNCHANGED <<request, tracker>>
         \/ \E r \in Runs : Unregister(r)
<1> USE DEF connVars, loopVars, trackVars, streamVars, sendVars, chatVars, Phases
<1>1. CASE UNCHANGED vars
  BY <1>1 DEF vars
<1>2. ASSUME NEW c \in Conns, Connection(c)
      PROVE  UNCHANGED <<phase, request, tracker>>
  BY <1>2 DEF Connection
<1>3. ASSUME NEW c \in Conns, Handling(c)
      PROVE  UNCHANGED <<phase, request, tracker>>
  BY <1>3 DEF Handling, Respond, CancelEntry
<1>4. ASSUME NEW c \in Conns, Requesting(c)
      PROVE  \/ UNCHANGED <<phase, request, tracker>>
             \/ \E s \in Sessions, r \in Runs : ChatSend(c, s, r)
  BY <1>4 DEF Requesting, AbortSession, AbortRun, Abort
<1>5. ASSUME NEW r \in Runs, Sending(r)
      PROVE  UNCHANGED <<phase, request, tracker>>
  BY <1>5 DEF Sending, SendOrigin, Relay
<1>6. ASSUME NEW r \in Runs, Querying(r) \/ Streaming(r), ~Unregister(r)
      PROVE  /\ phase[r] \notin {"unused", "ended", "done"}
             /\ \E to \in Phases \ {"unused", "done"} :
                  phase' = [phase EXCEPT ![r] = to]
             /\ UNCHANGED <<request, tracker>>
  BY <1>6 DEF Querying, Streaming, SessionMissing, SaveQuestion, BlockInput, NoModel,
              StartStream, WriteDone, BlockOutput, PassOutput, SaveAnswer,
              ClassifyFailure, ReplyFailure, StreamEvent, RecvError, RecvEOF, Between
<1>7. CASE Tick
  BY <1>7 DEF Tick
<1>8. QED
  BY <1>1, <1>2, <1>3, <1>4, <1>5, <1>6, <1>7 DEF Next

(* A run's entry is put in before its goroutine starts and taken out as    *)
(* the goroutine ends; only a run with the same id can touch it otherwise. *)
LEMMA TrackerStep ==
  ASSUME IInv, [Next]_vars PROVE RequestInv' /\ TrackerMatchesRuns'
<1> USE ChatRunAssumption DEF Live, Phases, SharesId, Started
<1>0. /\ RequestInv /\ TrackerMatchesRuns
      /\ clock \in Ids
      /\ tracker \in [Ids -> Runs \cup {NoRun}]
      /\ request \in [Runs -> Requests \cup {NoRequest}]
      /\ phase \in [Runs -> Phases]
  BY DEF IInv, TypeOK
<1> USE DEF RequestInv, TrackerMatchesRuns
<1>1. CASE UNCHANGED <<phase, request, tracker>>
  BY <1>0, <1>1
<1>2. ASSUME NEW c \in Conns, NEW s \in Sessions, NEW r \in Runs, ChatSend(c, s, r)
      PROVE  RequestInv' /\ TrackerMatchesRuns'
  <2> DEFINE new == [conn |-> c, session |-> s, id |-> clock]
  <2>1. new \in Requests /\ new # NoRequest /\ new.id = clock
    BY <1>0 DEF Requests
  <2>2. /\ request' = [request EXCEPT ![r] = new]
        /\ tracker' = [tracker EXCEPT ![clock] = r]
        /\ phase' = [phase EXCEPT ![r] = "asked"]
        /\ phase[r] = "unused"
    BY <1>2 DEF ChatSend
  <2> HIDE DEF new
  <2>3. RequestInv'
    BY <1>0, <2>1, <2>2
  <2>4. ASSUME NEW i \in Ids, tracker'[i] # NoRun
        PROVE  Live(tracker[i])' /\ request'[tracker'[i]].id = i
    <3>1. CASE i = clock
      <4>1. tracker'[i] = r /\ phase'[r] = "asked" /\ request'[r] = new
        BY <1>0, <2>2, <3>1
      <4>2. QED
        BY <2>1, <3>1, <4>1
    <3>2. CASE i # clock
      <4>1. tracker'[i] = tracker[i] /\ tracker[i] \in Runs
        BY <1>0, <2>2, <2>4, <3>2
      <4>2. Live(tracker[i]) /\ request[tracker[i]].id = i /\ tracker[i] # r
        BY <1>0, <2>2, <2>4, <4>1
      <4>3. QED
        BY <1>0, <2>2, <4>1, <4>2
    <3>3. QED
      BY <3>1, <3>2
  <2>5. ASSUME NEW q \in Runs, Live(q)', ~SharesId(q)'
        PROVE  tracker'[request'[q].id] = q
    <3>1. CASE q = r
      <4>1. request'[q] = new
        BY <1>0, <2>2, <3>1
      <4>2. QED
        BY <1>0, <2>1, <2>2, <3>1, <4>1
    <3>2. CASE q # r
      <4>1. request'[q] = request[q] /\ Live(q) /\ ~SharesId(q)
        BY <1>0, <3>2, <2>1, <2>2, <2>5
      <4>2. request[q].id # clock
        BY <1>0, <3>2, <2>1, <2>2, <2>5
      <4>3. request[q].id \in Ids
        BY <1>0, <4>1 DEF Requests
      <4>4. QED
        BY <1>0, <4>1, <4>2, <4>3, <2>2
    <3>3. QED
      BY <3>1, <3>2
  <2>6. TrackerMatchesRuns'
    BY <2>4, <2>5
  <2>7. QED
    BY <2>3, <2>6
<1>3. ASSUME NEW r \in Runs, NEW to \in Phases \ {"unused", "done"},
             phase[r] \notin {"unused", "ended", "done"},
             phase' = [phase EXCEPT ![r] = to], UNCHANGED <<request, tracker>>
      PROVE  RequestInv' /\ TrackerMatchesRuns'
  BY <1>0, <1>3
<1>4. ASSUME NEW r \in Runs, Unregister(r)
      PROVE  RequestInv' /\ TrackerMatchesRuns'
  <2>1. /\ phase[r] = "ended"
        /\ phase' = [phase EXCEPT ![r] = "done"]
        /\ tracker' = [tracker EXCEPT ![request[r].id] = NoRun]
        /\ request' = request
    BY <1>4 DEF Unregister
  <2>2. request[r].id \in Ids
    BY <1>0, <2>1 DEF Requests
  <2>3. \A i \in Ids : tracker[i] = r => i = request[r].id
    BY <1>0
  <2>4. RequestInv'
    BY <1>0, <2>1
  <2>5. ASSUME NEW i \in Ids, tracker'[i] # NoRun
        PROVE  Live(tracker[i])' /\ request'[tracker'[i]].id = i
    <3>1. tracker'[i] = tracker[i] /\ tracker[i] # r /\ tracker[i] \in Runs
      BY <1>0, <2>1, <2>2, <2>3, <2>5
    <3>2. QED
      BY <1>0, <2>1, <3>1, <2>5
  <2>6. ASSUME NEW q \in Runs, Live(q)', ~SharesId(q)'
        PROVE  tracker'[request'[q].id] = q
    <3>1. q # r /\ Live(q) /\ ~SharesId(q) /\ request[q].id # request[r].id
      BY <1>0, <2>1, <2>6
    <3>2. request[q].id \in Ids
      BY <1>0, <3>1 DEF Requests
    <3>3. QED
      BY <1>0, <2>1, <2>2, <3>1, <3>2
  <2>7. TrackerMatchesRuns'
    BY <2>5, <2>6
  <2>8. QED
    BY <2>4, <2>7
<1>5. CASE \E r \in Runs :
             /\ phase[r] \notin {"unused", "ended", "done"}
             /\ \E to \in Phases \ {"unused", "done"} :
                  phase' = [phase EXCEPT ![r] = to]
             /\ UNCHANGED <<request, tracker>>
  <2>1. PICK r \in Runs, to \in Phases \ {"unused", "done"} :
               /\ phase[r] \notin {"unused", "ended", "done"}
               /\ phase' = [phase EXCEPT ![r] = to]
               /\ UNCHANGED <<request, tracker>>
    BY <1>5
  <2>2. QED
    BY <2>1, <1>3
<1> HIDE DEF RequestInv, TrackerMatchesRuns
<1>6. QED
  BY <1>1, <1>2, <1>4, <1>5, PhaseMoves

(* The adapter has an event in hand only where the stream or the firewall  *)
(* produced one, and never owes the origin a second copy.                  *)
LEMMA SendStep == IInv /\ [Next]_vars => SendInv'
<1> SUFFICES ASSUME TypeOK, RequestInv, SendInv, [Next]_vars PROVE SendInv'
  BY DEF IInv
<1> USE DEF RequestInv, SendInv, Started, Origin, TypeOK, Phases, States, connVars,
            loopVars, trackVars, streamVars, sendVars, chatVars
<1>1. ASSUME UNCHANGED <<phase, request, writing, relay>> PROVE SendInv'
  BY <1>1
<1>2. CASE UNCHANGED vars
  BY <1>1, <1>2 DEF vars
<1>3. ASSUME NEW c \in Conns, Connection(c) \/ Handling(c) PROVE SendInv'
  BY <1>1, <1>3 DEF Connection, Handling, Respond, CancelEntry
<1>4. ASSUME NEW c \in Conns, Requesting(c) PROVE SendInv'
  <2>1. ASSUME NEW s \in Sessions, NEW r \in Runs, ChatSend(c, s, r) PROVE SendInv'
    BY <2>1 DEF ChatSend
  <2>2. ASSUME NEW entries, Abort(c, entries) PROVE SendInv'
    BY <1>1, <2>2 DEF Abort
  <2>3. QED
    BY <1>4, <2>1, <2>2 DEF Requesting, AbortSession, AbortRun
<1>5. ASSUME NEW r \in Runs, SendOrigin(r) PROVE SendInv'
  BY <1>5 DEF SendOrigin
<1>6. ASSUME NEW r \in Runs, NEW c \in Conns, Relay(r, c) PROVE SendInv'
  BY <1>6 DEF Relay
<1>7. ASSUME NEW r \in Runs, NEW from, NEW to, Between(r, from, to),
             phase[r] # "unused", to \in Phases \ {"unused"},
             \/ UNCHANGED writing
             \/ Write(r, "final") /\ to = "checking"
             \/ Write(r, "error") /\ to = "failed"
             \/ Write(r, "delta") /\ to = "streaming"
      PROVE  SendInv'
  BY <1>7 DEF Between, Write
<1>8. ASSUME NEW r \in Runs, Querying(r) \/ Streaming(r) PROVE SendInv'
  <2>1. CASE ReplyFailure(r) \/ Unregister(r)
    BY <2>1 DEF ReplyFailure, Unregister
  <2>2. CASE ~(ReplyFailure(r) \/ Unregister(r))
    <3>1. PICK from \in Phases, to \in Phases \ {"unused"} :
                 /\ Between(r, from, to)
                 /\ phase[r] # "unused"
                 /\ \/ UNCHANGED writing
                    \/ Write(r, "final") /\ to = "checking"
                    \/ Write(r, "error") /\ to = "failed"
                    \/ Write(r, "delta") /\ to = "streaming"
      <4>1. ASSUME NEW from, NEW to, Between(r, from, to) PROVE phase[r] = from
        BY <4>1 DEF Between
      <4>2. QED
        BY <1>8, <2>2, <4>1
           DEF Querying, Streaming, SessionMissing, SaveQuestion, BlockInput, NoModel,
               StartStream, WriteDone, BlockOutput, PassOutput, SaveAnswer,
               ClassifyFailure, StreamEvent, RecvError, RecvEOF
    <3>2. QED
      BY <3>1, <1>7
  <2>3. QED
    BY <2>1, <2>2
<1>9. CASE Tick
  BY <1>1, <1>9 DEF Tick
<1>10. QED
  BY <1>2, <1>3, <1>4, <1>5, <1>6, <1>8, <1>9 DEF Next, Sending

(* Once a run has started, its request is fixed and a context that is done *)
(* stays done.                                                             *)
LEMMA CtxStable ==
  ASSUME IInv, [Next]_vars, NEW r \in Runs, phase[r] # "unused"
  PROVE  request'[r] = request[r] /\ (CtxDone(r) => CtxDone(r)')
<1>0. /\ conn \in [Conns -> Stages]
      /\ Origin(r) \in Conns
      /\ request \in [Runs -> Requests \cup {NoRequest}]
  BY DEF IInv, TypeOK, ConnTypeOK, RequestInv, Origin, Requests
<1>1. request'[r] = request[r]
  BY <1>0, PhaseMoves DEF ChatSend, Unregister
<1>2. cancelled \subseteq cancelled'
  BY DEF Next, vars, Connection, Requesting, ChatSend, AbortSession, AbortRun, Abort,
         Handling, Respond, CancelEntry, Sending, SendOrigin, Relay, Querying,
         Streaming, SessionMissing, SaveQuestion, BlockInput, NoModel, StartStream,
         WriteDone, BlockOutput, PassOutput, SaveAnswer, ClassifyFailure, ReplyFailure,
         Unregister, StreamEvent, RecvError, RecvEOF, Between, Tick, chatVars
<1>3. conn' = conn \/ \E c \in Conns : Connection(c)
  BY DEF Next, vars, Requesting, ChatSend, AbortSession, AbortRun, Abort,
         Handling, Respond, CancelEntry, Sending, SendOrigin, Relay, Querying,
         Streaming, SessionMissing, SaveQuestion, BlockInput, NoModel, StartStream,
         WriteDone, BlockOutput, PassOutput, SaveAnswer, ClassifyFailure, ReplyFailure,
         Unregister, StreamEvent, RecvError, RecvEOF, Between, Tick, connVars
<1>4. ASSUME NEW c \in Conns, Connection(c), conn[Origin(r)] = "closed"
      PROVE  conn'[Origin(r)] = "closed"
  BY <1>0, <1>4
     DEF Connection, Accept, Ready, Disconnect, Hangup, TearDown, CleanupConn,
         RemoveConn, Close, Subscribe, SubscribeMessages, Unsubscribe,
         UnsubscribeMessages
<1>5. QED
  BY <1>1, <1>2, <1>3, <1>4 DEF CtxDone, Origin

(* A step that leaves a run's stage, the event in hand, what its origin    *)
(* has seen and its saved answer alone cannot make it unanswered.          *)
LEMMA AnswerFrame ==
  ASSUME IInv, [Next]_vars, NEW r \in Runs,
         phase'[r] = phase[r], writing'[r] = writing[r],
         Started(r) => seen'[Origin(r)][r] = seen[Origin(r)][r],
         <<r, "assistant">> \in history' => <<r, "assistant">> \in history
  PROVE  Answered(r)'
<1>1. CASE phase[r] = "unused"
  BY <1>1 DEF IInv, AnswerInv, Answered
<1>2. CASE phase[r] # "unused"
  <2>1. request'[r] = request[r] /\ (CtxDone(r) => CtxDone(r)')
    BY <1>2, CtxStable
  <2>2. seen'[Origin(r)][r] = seen[Origin(r)][r]
    BY <1>2 DEF IInv, RequestInv, Started
  <2>3. /\ Shown(r) => Shown(r)'
        /\ Told(Origin(r), r, Terminal) => Told(Origin(r), r, Terminal)'
    BY <2>1, <2>2 DEF Shown, Told, Origin
  <2>4. QED
    BY <2>1, <2>3 DEF IInv, AnswerInv, Answered
<1>3. QED
  BY <1>1, <1>2

(* The last event of a view was told.                                      *)
LEMMA LastIsTold ==
  ASSUME NEW c, NEW r, NEW states, NEW view \in Seq(States), seen[c][r] = view,
         view # <<>>, view[Len(view)] \in states
  PROVE  Told(c, r, states)
<1>1. Len(view) \in DOMAIN view
  OBVIOUS
<1>2. QED
  BY <1>1 DEF Told

(* A run's own query keeps it answered.                                    *)
LEMMA QueryAnswers ==
  ASSUME IInv, [Next]_vars, NEW r \in Runs, Querying(r) \/ Streaming(r)
  PROVE  Answered(r)'
<1> USE DEF IInv
<1>1. /\ phase \in [Runs -> Phases]
      /\ writing \in [Runs -> States \cup {"none"}]
      /\ seen \in [Conns -> [Runs -> Seq(States)]]
      /\ Answered(r)
  BY DEF TypeOK, AnswerInv
<1>2. phase[r] # "unused" => Origin(r) \in Conns
  BY DEF TypeOK, RequestInv, Origin, Requests
<1>3. Shown(r) /\ Origin(r) \in Conns => Told(Origin(r), r, Terminal)
  BY <1>1, LastIsTold DEF Shown, Terminal, States
<1>4. ASSUME NEW from, NEW to, Between(r, from, to)
      PROVE  /\ phase[r] = from /\ phase'[r] = to /\ writing[r] = "none"
             /\ CtxDone(r)' <=> CtxDone(r)
             /\ Shown(r)' <=> Shown(r)
             /\ Told(Origin(r), r, Terminal)' <=> Told(Origin(r), r, Terminal)
  BY <1>1, <1>4
     DEF Between, connVars, trackVars, CtxDone, Shown, Told, Origin
<1>5. ASSUME NEW from, NEW to, Between(r, from, to), from \notin {"ended", "done"},
             to \notin {"checking", "saving", "ended", "done"},
             <<r, "assistant">> \in history' => <<r, "assistant">> \in history
      PROVE  Answered(r)'
  BY <1>1, <1>4, <1>5 DEF Answered
<1>6. CASE SessionMissing(r) \/ BlockInput(r) \/ NoModel(r) \/ StartStream(r)
           \/ BlockOutput(r) \/ ClassifyFailure(r) \/ RecvError(r) \/ RecvEOF(r)
  BY <1>5, <1>6
     DEF SessionMissing, BlockInput, NoModel, StartStream, BlockOutput, ClassifyFailure,
         RecvError, RecvEOF
<1>7. CASE SaveQuestion(r)
  <2>1. <<r, "assistant">> \in history' => <<r, "assistant">> \in history
    BY <1>7 DEF SaveQuestion, Persist
  <2>2. QED
    BY <1>5, <1>7, <2>1 DEF SaveQuestion
<1>8. CASE WriteDone(r)
  <2>1. ~CtxDone(r) => writing'[r] = "final"
    BY <1>1, <1>8 DEF WriteDone, Write
  <2>2. history' = history /\ phase[r] = "eof" /\ phase'[r] = "checking"
    BY <1>4, <1>8 DEF WriteDone
  <2>3. CtxDone(r)' <=> CtxDone(r)
    BY <1>4, <1>8 DEF WriteDone
  <2>4. QED
    BY <1>1, <2>1, <2>2, <2>3 DEF Answered
<1>9. CASE PassOutput(r)
  <2>1. history' = history /\ phase[r] = "checking" /\ phase'[r] = "saving"
        /\ writing[r] = "none"
    BY <1>4, <1>9 DEF PassOutput
  <2>2. (CtxDone(r)' <=> CtxDone(r)) /\ (Shown(r)' <=> Shown(r))
    BY <1>4, <1>9 DEF PassOutput
  <2>3. QED
    BY <1>1, <2>1, <2>2 DEF Answered
<1>10. CASE SaveAnswer(r)
  <2>1. phase[r] = "saving" /\ phase'[r] = "ended" /\ writing[r] = "none"
    BY <1>4, <1>10 DEF SaveAnswer
  <2>2. /\ CtxDone(r)' <=> CtxDone(r)
        /\ Shown(r)' <=> Shown(r)
        /\ Told(Origin(r), r, Terminal)' <=> Told(Origin(r), r, Terminal)
    BY <1>4, <1>10 DEF SaveAnswer
  <2>3. ~CtxDone(r) => Shown(r)
    BY <1>1, <2>1 DEF Answered
  <2>4. <<r, "assistant">> \in history' => ~CtxDone(r)
    BY <1>1, <1>10, <2>1 DEF SaveAnswer, Persist, Answered
  <2>5. QED
    BY <1>2, <1>3, <2>1, <2>2, <2>3, <2>4 DEF Answered
<1>11. CASE ReplyFailure(r)
  <2> DEFINE state == IF phase[r] = "replyAborted" THEN "aborted" ELSE "error"
  <2>1. /\ phase[r] \in {"replyAborted", "replyError"} /\ phase'[r] = "ended"
        /\ history' = history /\ cancelled' = cancelled
        /\ conn' = conn /\ request' = request
        /\ Deliver(Origin(r), r, state) /\ Origin(r) \in Conns
    BY <1>1, <1>2, <1>11 DEF ReplyFailure, connVars, trackVars
  <2>2. state \in States /\ state \in Terminal
    BY DEF States, Terminal
  <2> HIDE DEF state
  <2>3. ~CtxDone(r) => seen'[Origin(r)][r] = Append(seen[Origin(r)][r], state)
    BY <1>1, <2>1, <2>2, DeliverView DEF CtxDone, Open
  <2>4. ~CtxDone(r) => Told(Origin(r), r, Terminal)'
    <3>1. ASSUME ~CtxDone(r)
          PROVE  \E i \in DOMAIN seen'[Origin(r)][r] : seen'[Origin(r)][r][i] \in Terminal
      <4> DEFINE old == seen[Origin(r)][r]
      <4>1. old \in Seq(States)
        BY <1>1, <2>1
      <4>2. seen'[Origin(r)][r] = Append(old, state)
        BY <2>3, <3>1
      <4> HIDE DEF old
      <4>3. /\ Len(old) + 1 \in DOMAIN Append(old, state)
            /\ Append(old, state)[Len(old) + 1] = state
        BY <4>1, <2>2
      <4>4. QED
        BY <4>2, <4>3, <2>2
    <3>2. QED
      BY <3>1, <2>1 DEF Told, Origin
  <2>5. CtxDone(r)' <=> CtxDone(r)
    BY <2>1 DEF CtxDone, Origin
  <2>6. QED
    BY <1>1, <2>1, <2>4, <2>5 DEF Answered
<1>12. CASE Unregister(r)
  <2>1. /\ phase[r] = "ended" /\ phase'[r] = "done" /\ history' = history
        /\ cancelled' = cancelled /\ conn' = conn /\ request' = request /\ seen' = seen
    BY <1>1, <1>12 DEF Unregister, connVars, sendVars
  <2>2. QED
    BY <1>1, <2>1 DEF Answered, CtxDone, Origin, Shown, Told
<1>13. CASE \E text \in BOOLEAN : StreamEvent(r, text)
  BY <1>5, <1>13 DEF StreamEvent
<1>14. QED
  BY <1>6, <1>7, <1>8, <1>9, <1>10, <1>11, <1>12, <1>13 DEF Querying, Streaming

(* Sending to the origin is what shows it the final event; relaying to a   *)
(* subscriber shows the origin nothing.                                    *)
LEMMA SendAnswers ==
  ASSUME IInv, [Next]_vars, NEW r \in Runs, Sending(r) PROVE Answered(r)'
<1>1. /\ relay \in [Runs -> [state : States, to : SUBSET Conns]]
      /\ writing \in [Runs -> States \cup {"none"}]
      /\ seen \in [Conns -> [Runs -> Seq(States)]]
      /\ SendInv /\ RequestInv /\ Answered(r)
  BY DEF IInv, TypeOK, AnswerInv
<1>2. Started(r) => Origin(r) \in Conns
  BY DEF IInv, TypeOK, RequestInv, Origin, Requests, Started
<1>3. CASE SendOrigin(r)
  <2>1. /\ writing[r] \in States /\ writing'[r] = "none"
        /\ phase' = phase /\ history' = history /\ cancelled' = cancelled
        /\ conn' = conn /\ request' = request
        /\ Deliver(Origin(r), r, writing[r])
        /\ phase[r] \in {"streaming", "checking", "failed"}
        /\ phase[r] = "checking" => writing[r] = "final"
    BY <1>1, <1>3
       DEF SendOrigin, SendInv, connVars, trackVars, streamVars
  <2>2. Origin(r) \in Conns
    BY <1>1, <1>2, <2>1 DEF RequestInv, Started
  <2>3. ~CtxDone(r) => seen'[Origin(r)][r] = Append(seen[Origin(r)][r], writing[r])
    BY <1>1, <2>1, <2>2, DeliverView DEF CtxDone, Open
  <2>4. ASSUME phase[r] = "checking", ~CtxDone(r) PROVE Shown(r)'
    <3> DEFINE old == seen[Origin(r)][r]
    <3>1. old \in Seq(States)
      BY <1>1, <2>2
    <3>2. seen'[Origin(r)][r] = Append(old, "final")
      BY <2>1, <2>3, <2>4
    <3> HIDE DEF old
    <3>3. /\ Append(old, "final") # <<>>
          /\ Append(old, "final")[Len(Append(old, "final"))] = "final"
      BY <3>1 DEF States
    <3>4. QED
      BY <2>1, <3>2, <3>3 DEF Shown, Origin
  <2>5. CtxDone(r)' <=> CtxDone(r)
    BY <2>1 DEF CtxDone, Origin
  <2>6. QED
    BY <1>1, <2>1, <2>4, <2>5 DEF Answered
<1>4. ASSUME NEW c \in Conns, Relay(r, c) PROVE Answered(r)'
  <2>1. /\ c \in relay[r].to /\ relay[r].state \in States
        /\ phase' = phase /\ history' = history /\ writing' = writing
        /\ Deliver(c, r, relay[r].state) \/ seen' = seen
    BY <1>1, <1>4 DEF Relay, connVars, trackVars, streamVars
  <2>2. Started(r) => Origin(r) # c
    BY <1>1, <2>1 DEF SendInv
  <2>3. Started(r) => seen'[Origin(r)][r] = seen[Origin(r)][r]
    BY <1>1, <1>2, <2>1, <2>2, DeliverView
  <2>4. QED
    BY <2>1, <2>3, AnswerFrame
<1>5. QED
  BY <1>3, <1>4 DEF Sending

(* A step of one run leaves the stage, the event in hand, the views and the*)
(* saved answer of every other run alone.                                  *)
LEMMA OtherRuns ==
  ASSUME IInv, NEW r \in Runs, Sending(r) \/ Querying(r) \/ Streaming(r),
         NEW q \in Runs, q # r
  PROVE  /\ phase'[q] = phase[q] /\ writing'[q] = writing[q]
         /\ Started(q) => seen'[Origin(q)][q] = seen[Origin(q)][q]
         /\ <<q, "assistant">> \in history' => <<q, "assistant">> \in history
<1>1. /\ relay \in [Runs -> [state : States, to : SUBSET Conns]]
      /\ writing \in [Runs -> States \cup {"none"}]
      /\ phase \in [Runs -> Phases]
      /\ seen \in [Conns -> [Runs -> Seq(States)]]
      /\ SendInv /\ RequestInv
  BY DEF IInv, TypeOK
<1>2. \A p \in Runs : Started(p) => Origin(p) \in Conns
  BY DEF IInv, TypeOK, RequestInv, Origin, Requests, Started
<1>3. CASE SendOrigin(r)
  <2>1. /\ writing[r] \in States /\ Deliver(Origin(r), r, writing[r])
        /\ phase' = phase /\ history' = history /\ writing'[q] = writing[q]
        /\ writing[r] # "none"
    BY <1>1, <1>3 DEF SendOrigin, streamVars
  <2>2. Origin(r) \in Conns
    BY <1>1, <1>2, <2>1 DEF SendInv, RequestInv, Started
  <2>3. QED
    BY <1>1, <1>2, <2>1, <2>2, DeliverView
<1>4. ASSUME NEW c \in Conns, Relay(r, c)
      PROVE  /\ phase'[q] = phase[q] /\ writing'[q] = writing[q]
             /\ Started(q) => seen'[Origin(q)][q] = seen[Origin(q)][q]
             /\ history' = history
  <2>1. /\ relay[r].state \in States
        /\ phase' = phase /\ history' = history /\ writing' = writing
        /\ Deliver(c, r, relay[r].state) \/ seen' = seen
    BY <1>1, <1>4 DEF Relay, streamVars
  <2>2. QED
    BY <1>1, <1>2, <2>1, DeliverView
<1>5. CASE ReplyFailure(r)
  <2>1. PICK state \in States : Deliver(Origin(r), r, state)
    BY <1>5 DEF ReplyFailure, States
  <2>2. /\ history' = history /\ writing' = writing /\ phase'[q] = phase[q]
        /\ Origin(r) \in Conns
    BY <1>1, <1>2, <1>5 DEF ReplyFailure, RequestInv, Started
  <2>3. QED
    BY <1>1, <1>2, <2>1, <2>2, DeliverView
<1>6. CASE Unregister(r)
  BY <1>1, <1>6 DEF Unregister, sendVars
<1>7. ASSUME Querying(r) \/ Streaming(r), ~ReplyFailure(r), ~Unregister(r)
      PROVE  /\ phase'[q] = phase[q] /\ writing'[q] = writing[q] /\ seen' = seen
             /\ <<q, "assistant">> \in history' => <<q, "assistant">> \in history
  BY <1>1, <1>7
     DEF Querying, Streaming, SessionMissing, SaveQuestion, BlockInput, NoModel,
         StartStream, WriteDone, BlockOutput, PassOutput, SaveAnswer, ClassifyFailure,
         StreamEvent, RecvError, RecvEOF, Between, Write, Persist
<1>8. QED
  BY <1>3, <1>4, <1>5, <1>6, <1>7 DEF Sending

(* Every step keeps every run answered.                                    *)
LEMMA AnswerStep == IInv /\ [Next]_vars => AnswerInv'
<1> SUFFICES ASSUME IInv, [Next]_vars, NEW r \in Runs PROVE Answered(r)'
  BY DEF AnswerInv
<1> USE DEF connVars, loopVars, trackVars, streamVars, sendVars, chatVars
<1>1. ASSUME UNCHANGED <<phase, writing, seen, history>> PROVE Answered(r)'
  BY <1>1, AnswerFrame
<1>2. CASE UNCHANGED vars
  BY <1>1, <1>2 DEF vars
<1>3. ASSUME NEW c \in Conns, Connection(c) \/ Handling(c) PROVE Answered(r)'
  BY <1>1, <1>3 DEF Connection, Handling, Respond, CancelEntry
<1>4. ASSUME NEW c \in Conns, Requesting(c) PROVE Answered(r)'
  <2>1. ASSUME NEW s \in Sessions, NEW q \in Runs, ChatSend(c, s, q)
        PROVE  Answered(r)'
    <3>1. /\ phase' = [phase EXCEPT ![q] = "asked"] /\ phase[q] = "unused"
          /\ UNCHANGED <<writing, seen, history>>
      BY <2>1 DEF ChatSend
    <3>2. CASE r = q
      BY <3>1, <3>2 DEF IInv, TypeOK, AnswerInv, Answered
    <3>3. CASE r # q
      BY <3>1, <3>3, AnswerFrame DEF IInv, TypeOK
    <3>4. QED
      BY <3>2, <3>3
  <2>2. ASSUME NEW entries, Abort(c, entries) PROVE Answered(r)'
    BY <1>1, <2>2 DEF Abort
  <2>3. QED
    BY <1>4, <2>1, <2>2 DEF Requesting, AbortSession, AbortRun
<1>5. ASSUME NEW q \in Runs, Sending(q) \/ Querying(q) \/ Streaming(q)
      PROVE  Answered(r)'
  <2>1. CASE q = r
    BY <1>5, <2>1, SendAnswers, QueryAnswers
  <2>2. CASE q # r
    BY <1>5, <2>2, OtherRuns, AnswerFrame
  <2>3. QED
    BY <2>1, <2>2
<1>6. CASE Tick
  BY <1>1, <1>6 DEF Tick
<1>7. QED
  BY <1>2, <1>3, <1>4, <1>5, <1>6 DEF Next

-------------------------------------------------------------------------------
(* The conjunction is an invariant for all values of the constants.        *)
THEOREM InductiveInvariant == Spec => []IInv
<1>1. IInv /\ [Next]_vars => IInv'
  BY TypeStep, TrackerStep, SendStep, AnswerStep DEF IInv
<1>2. QED
  BY InitIInv, <1>1, PTL DEF Spec

(* The variables of the chat layer keep their types.                       *)
THEOREM TypeCorrect == Spec => []TypeOK
<1>1. IInv => TypeOK
  BY DEF IInv
<1>2. QED
  BY InductiveInvariant, <1>1, PTL

(* RunTracker: no entry outlives its run or stands under another id, and a *)
(* live run that shares its id with no other run is found under it.        *)
THEOREM TrackerIsAccurate == Spec => []TrackerMatchesRuns
<1>1. IInv => TrackerMatchesRuns
  BY DEF IInv
<1>2. QED
  BY InductiveInvariant, <1>1, PTL

(* A run that is not cancelled and whose origin has not gone never ends    *)
(* without a final, error or aborted event at its origin, whichever of the *)
(* database, the firewall, the model or the stream fails on the way.       *)
THEOREM UninterruptedIsAnswered == Spec => []UninterruptedRunAnswered
<1>1. IInv => UninterruptedRunAnswered
  BY DEF IInv, AnswerInv, Answered, UninterruptedRunAnswered
<1>2. QED
  BY InductiveInvariant, <1>1, PTL

(* The history never holds an answer its origin has not been shown as final*)
(* or has been told was wrong since.                                       *)
THEOREM SavedAnswerIsFinal == Spec => []SavedAnswerWasFinal
<1>1. IInv => SavedAnswerWasFinal
  BY DEF IInv, AnswerInv, Answered, Shown, SavedAnswerWasFinal
<1>2. QED
  BY InductiveInvariant, <1>1, PTL
-------------------------------------------------------------------------------
(* What a connection is told of a run, by the run's stage.                 *)
Troubles == {"error", "aborted"}

(* The event of the run that is still to reach a connection, if any.       *)
Coming(c, r) == ({writing[r]} \ {"none"})
                \cup {e \in {relay[r].state} : c \in relay[r].to}

(* The one event the adapter can have in hand at a stage.                  *)
Due(r) == CASE phase[r] = "streaming" -> {"delta"}
            [] phase[r] = "checking"  -> {"final"}
            [] phase[r] = "failed"    -> {"error"}
            [] OTHER                  -> {}

(* Whatever comes after a final is trouble, and so is whatever comes after *)
(* trouble.                                                                *)
Ordered(view) ==
  \A i, j \in DOMAIN view : i < j /\ view[i] # "delta" => view[j] \in Troubles

(* No event of the given states but among the last n.                      *)
Clear(view, n, states) == \A i \in 1 .. Len(view) - n : view[i] \notin states

(* A run has at most one final, which is still to come while the answer is *)
(* being sent; at most one error of the query, still to come while it is   *)
(* being sent; and the reply of handleChatSend, for the origin alone.      *)
StoryOf(c, r) ==
  LET view == seen[c][r]
  IN  /\ Ordered(view)
      /\ phase[r] \in {"unused", "asked", "loaded", "streaming", "eof"}
           => Clear(view, 0, Terminal)
      /\ phase[r] \in {"checking", "saving"} => Clear(view, 0, Troubles)
      /\ phase[r] \in {"failed", "replyAborted", "replyError"}
           => Clear(view, 1, Troubles) /\ Clear(view, 0, {"aborted"})
      /\ phase[r] \in {"ended", "done"}
           => /\ Clear(view, 1, {"aborted"})
              /\ Clear(view, IF c = Origin(r) THEN 2 ELSE 1, Troubles)
      /\ \A e \in Coming(c, r) :
           e \in Due(r) /\ Clear(view, 0, IF e = "error" THEN Troubles
                                        ELSE IF e = "final" THEN Terminal ELSE {})

StoryInv == /\ \A r \in Runs : writing[r] # "none" => relay[r].to = {}
            /\ \A c \in Conns, r \in Runs : StoryOf(c, r)

(* Fewer states, and fewer places, are clearer.                            *)
LEMMA ClearMore ==
  ASSUME NEW view \in Seq(States), NEW m \in Nat, NEW n \in Nat, m <= n,
         NEW S, NEW T, T \subseteq S, Clear(view, m, S)
  PROVE  Clear(view, n, T)
BY DEF Clear

(* What one more event does to a view.                                     *)
LEMMA AppendClear ==
  ASSUME NEW view \in Seq(States), NEW e \in States
  PROVE  /\ Append(view, e) \in Seq(States)
         /\ \A n \in Nat : \A S : Clear(view, n, S) => Clear(Append(view, e), n + 1, S)
         /\ \A S : Clear(view, 0, S) /\ e \notin S => Clear(Append(view, e), 0, S)
         /\ Ordered(view) /\ (e \in Troubles \/ Clear(view, 0, Terminal))
              => Ordered(Append(view, e))
<1> DEFINE new == Append(view, e)
<1>1. /\ new \in Seq(States) /\ Len(new) = Len(view) + 1 /\ new[Len(view) + 1] = e
      /\ \A i \in 1 .. Len(view) : new[i] = view[i]
      /\ Len(view) \in Nat /\ DOMAIN view = 1 .. Len(view)
      /\ DOMAIN new = 1 .. Len(view) + 1
      /\ \A i \in DOMAIN view : view[i] \in States
  OBVIOUS
<1> HIDE DEF new
<1>2. ASSUME NEW n \in Nat, NEW S, Clear(view, n, S) PROVE Clear(new, n + 1, S)
  BY <1>1, <1>2 DEF Clear
<1>3. ASSUME NEW S, Clear(view, 0, S), e \notin S PROVE Clear(new, 0, S)
  BY <1>1, <1>3 DEF Clear
<1>4. ASSUME Ordered(view), e \in Troubles \/ Clear(view, 0, Terminal)
      PROVE  Ordered(new)
  <2> SUFFICES ASSUME NEW i \in DOMAIN new, NEW j \in DOMAIN new, i < j,
                      new[i] # "delta"
               PROVE  new[j] \in Troubles
    BY DEF Ordered
  <2>1. i \in DOMAIN view /\ new[i] = view[i]
    BY <1>1
  <2>2. CASE j \in DOMAIN view
    BY <1>1, <1>4, <2>1, <2>2 DEF Ordered
  <2>3. CASE j = Len(view) + 1
    <3>1. ~Clear(view, 0, Terminal)
      BY <1>1, <2>1 DEF Clear, Terminal
    <3>2. QED
      BY <1>1, <1>4, <2>3, <3>1
  <2>4. QED
    BY <1>1, <2>2, <2>3
<1>5. QED
  BY <1>1, <1>2, <1>3, <1>4 DEF new

(* The story of a run at a connection is not touched by a step that leaves *)
(* the run's stage and event, and what that connection has seen, alone.    *)
LEMMA StoryFrame ==
  ASSUME IInv, [Next]_vars, NEW c \in Conns, NEW r \in Runs, StoryOf(c, r),
         phase'[r] = phase[r], writing'[r] = writing[r], relay'[r] = relay[r],
         seen'[c][r] = seen[c][r]
  PROVE  StoryOf(c, r)'
<1>1. phase[r] \in {"ended", "done"} => Origin(r)' = Origin(r)
  BY CtxStable DEF Origin
<1>2. QED
  BY <1>1 DEF StoryOf, Coming, Due

(* How the query of a run moves it on, once the event before has gone out, *)
(* and the event it hands to the adapter.                                  *)
Silent == {<<"asked", "failed">>, <<"asked", "loaded">>, <<"loaded", "failed">>,
           <<"loaded", "streaming">>, <<"streaming", "eof">>, <<"checking", "saving">>,
           <<"saving", "ended">>, <<"failed", "replyAborted">>,
           <<"failed", "replyError">>}

Spoken == {<<"streaming", "streaming", "delta">>, <<"eof", "checking", "final">>,
          <<"loaded", "failed", "error">>, <<"streaming", "failed", "error">>,
          <<"checking", "failed", "error">>}

LEMMA QueryMoves ==
  ASSUME TypeOK, NEW r \in Runs, Querying(r) \/ Streaming(r),
         ~ReplyFailure(r), ~Unregister(r)
  PROVE  /\ writing[r] = "none" /\ relay[r].to = {}
         /\ relay' = relay /\ seen' = seen /\ request' = request
         /\ \/ /\ <<phase[r], phase'[r]>> \in Silent
               /\ writing' = writing
            \/ \E e \in States : /\ <<phase[r], phase'[r], e>> \in Spoken
                                 /\ Write(r, e)
<1>1. phase \in [Runs -> Phases]
  BY DEF TypeOK
<1>2. ASSUME NEW from, NEW to, Between(r, from, to)
      PROVE  /\ writing[r] = "none" /\ relay[r].to = {}
             /\ relay' = relay /\ seen' = seen /\ request' = request
             /\ phase[r] = from /\ phase'[r] = to
  BY <1>1, <1>2 DEF Between, trackVars
<1>3. CASE \/ SessionMissing(r) \/ SaveQuestion(r) \/ NoModel(r) \/ StartStream(r)
           \/ PassOutput(r) \/ SaveAnswer(r) \/ ClassifyFailure(r) \/ RecvEOF(r)
  <2>1. /\ writing[r] = "none" /\ relay[r].to = {} /\ writing' = writing
        /\ relay' = relay /\ seen' = seen /\ request' = request
    BY <1>2, <1>3 DEF SessionMissing, SaveQuestion, NoModel, StartStream, PassOutput,
                      SaveAnswer, ClassifyFailure, RecvEOF
  <2>2. <<phase[r], phase'[r]>> \in Silent
    BY <1>2, <1>3 DEF SessionMissing, SaveQuestion, NoModel, StartStream, PassOutput,
                      SaveAnswer, ClassifyFailure, RecvEOF, Silent
  <2>3. QED
    BY <2>1, <2>2
<1>4. CASE BlockInput(r)
  BY <1>2, <1>4 DEF BlockInput, Spoken, States
<1>5. CASE WriteDone(r)
  BY <1>2, <1>5 DEF WriteDone, Spoken, States
<1>6. CASE BlockOutput(r)
  BY <1>2, <1>6 DEF BlockOutput, Spoken, States
<1>7. CASE RecvError(r)
  BY <1>2, <1>7 DEF RecvError, Spoken, States
<1>8. CASE \E text \in BOOLEAN : StreamEvent(r, text)
  BY <1>2, <1>8 DEF StreamEvent, Spoken, States
<1>9. QED
  BY <1>3, <1>4, <1>5, <1>6, <1>7, <1>8 DEF Querying, Streaming

(* The query of a run keeps its story at every connection.                 *)
LEMMA StoryQuery ==
  ASSUME IInv, [Next]_vars, NEW c \in Conns, NEW r \in Runs, StoryOf(c, r),
         Querying(r) \/ Streaming(r)
  PROVE  StoryOf(c, r)'
<1>1. /\ writing \in [Runs -> States \cup {"none"}]
      /\ relay \in [Runs -> [state : States, to : SUBSET Conns]]
      /\ phase \in [Runs -> Phases]
      /\ seen \in [Conns -> [Runs -> Seq(States)]]
      /\ SendInv /\ RequestInv /\ TypeOK
  BY DEF IInv, TypeOK
<1> DEFINE view == seen[c][r]
           next == seen'[c][r]
<1>2. view \in Seq(States)
  BY <1>1
<1> HIDE DEF view, next
<1>3. CASE ReplyFailure(r)
  <2> DEFINE e == IF phase[r] = "replyAborted" THEN "aborted" ELSE "error"
  <2>1. /\ phase[r] \in {"replyAborted", "replyError"} /\ phase'[r] = "ended"
        /\ Deliver(Origin(r), r, e) /\ e \in Troubles /\ e \in States
        /\ writing' = writing /\ relay' = relay /\ Origin(r)' = Origin(r)
        /\ Origin(r) \in Conns
    BY <1>1, <1>3 DEF ReplyFailure, Troubles, States, trackVars, Origin, TypeOK,
                      RequestInv, Requests
  <2> HIDE DEF e
  <2>2. Coming(c, r) = {}
    BY <2>1 DEF StoryOf, Due
  <2>3. Coming(c, r)' = {}
    BY <2>1, <2>2 DEF Coming
  <2>4. next = view \/ (c = Origin(r) /\ next = Append(view, e))
    BY <1>1, <2>1, DeliverOther DEF next, view
  <2>5. /\ Ordered(view) /\ Clear(view, 1, Troubles) /\ Clear(view, 0, {"aborted"})
    BY <2>1 DEF StoryOf, view
  <2>6. Clear(view, 1, {"aborted"}) /\ Clear(view, 2, Troubles)
    BY <1>2, <2>5, ClearMore
  <2>7. /\ Ordered(next) /\ Clear(next, 1, {"aborted"})
        /\ Clear(next, IF c = Origin(r) THEN 2 ELSE 1, Troubles)
    <3>1. CASE next = view
      BY <2>5, <2>6, <3>1
    <3>2. CASE c = Origin(r) /\ next = Append(view, e)
      <4>1. Ordered(next) /\ Clear(next, 0 + 1, {"aborted"}) /\ Clear(next, 1 + 1, Troubles)
        BY <1>2, <2>1, <2>5, <3>2, AppendClear
      <4>2. QED
        BY <3>2, <4>1
    <3>3. QED
      BY <2>4, <3>1, <3>2
  <2>8. QED
    BY <2>1, <2>3, <2>7 DEF StoryOf, next
<1>4. CASE Unregister(r)
  <2>1. /\ phase[r] = "ended" /\ phase'[r] = "done" /\ next = view
        /\ writing' = writing /\ relay' = relay /\ Origin(r)' = Origin(r)
    BY <1>1, <1>4 DEF Unregister, sendVars, Origin, next, view
  <2>2. Coming(c, r)' = Coming(c, r) /\ Due(r) = {}
    BY <2>1 DEF Coming, Due
  <2>3. QED
    BY <2>1, <2>2 DEF StoryOf, next, view
<1>5. CASE ~ReplyFailure(r) /\ ~Unregister(r)
  <2>1. /\ writing[r] = "none" /\ relay[r].to = {}
        /\ relay' = relay /\ next = view /\ Origin(r)' = Origin(r)
        /\ \/ /\ <<phase[r], phase'[r]>> \in Silent
              /\ writing' = writing
           \/ \E e \in States : /\ <<phase[r], phase'[r], e>> \in Spoken
                                /\ Write(r, e)
    BY <1>1, <1>5, QueryMoves DEF Origin, next, view
  <2>2. /\ Clear(view, 0, Terminal) => Clear(view, 0, Troubles)
        /\ Clear(view, 0, Troubles) => /\ Clear(view, 1, Troubles)
                                       /\ Clear(view, 0, {"aborted"})
        /\ Clear(view, 0, {"aborted"}) => Clear(view, 1, {"aborted"})
        /\ Clear(view, 1, Troubles) => Clear(view, 2, Troubles)
        /\ Clear(view, 0, {})
    BY <1>2, ClearMore DEF Clear, Terminal, Troubles, States
  <2>3. CASE <<phase[r], phase'[r]>> \in Silent /\ writing' = writing
    <3>1. Coming(c, r)' = {}
      BY <2>1, <2>3 DEF Coming
    <3>2. QED
      BY <2>1, <2>2, <2>3, <3>1 DEF StoryOf, Silent, next, view
  <2>4. ASSUME NEW e \in States, <<phase[r], phase'[r], e>> \in Spoken, Write(r, e)
        PROVE  StoryOf(c, r)'
    <3>1. Coming(c, r)' \subseteq {e}
      BY <1>1, <2>1, <2>4 DEF Coming, Write
    <3>2. e \in Due(r)'
      BY <2>4 DEF Due, Spoken
    <3>3. Clear(view, 0, IF e = "error" THEN Troubles
                         ELSE IF e = "final" THEN Terminal ELSE {})
      BY <2>2, <2>4 DEF StoryOf, Spoken, view
    <3>4. QED
      BY <2>1, <2>2, <2>4, <3>1, <3>2, <3>3 DEF StoryOf, Spoken, next, view
  <2>5. QED
    BY <2>1, <2>3, <2>4
<1>6. QED
  BY <1>3, <1>4, <1>5

(* Sending a run's event on keeps its story at every connection: each one  *)
(* is told only what was still to come for it.                             *)
LEMMA StorySend ==
  ASSUME IInv, [Next]_vars, StoryInv, NEW c \in Conns, NEW r \in Runs, Sending(r)
  PROVE  StoryOf(c, r)'
<1>1. /\ writing \in [Runs -> States \cup {"none"}]
      /\ relay \in [Runs -> [state : States, to : SUBSET Conns]]
      /\ seen \in [Conns -> [Runs -> Seq(States)]]
      /\ SendInv /\ RequestInv /\ StoryOf(c, r)
      /\ writing[r] # "none" => relay[r].to = {}
  BY DEF IInv, TypeOK, StoryInv
<1> DEFINE view == seen[c][r]
           next == seen'[c][r]
<1>2. view \in Seq(States)
  BY <1>1
<1> HIDE DEF view, next
(* The event is now known to have been to come, and comes no more if told. *)
<1>3. ASSUME phase' = phase, Origin(r)' = Origin(r),
             Coming(c, r)' \subseteq Coming(c, r), next = view
      PROVE  StoryOf(c, r)'
  BY <1>1, <1>3 DEF StoryOf, Due, next, view
<1>4. ASSUME NEW e \in States, phase' = phase, Origin(r)' = Origin(r),
             e \in Coming(c, r), Coming(c, r)' = {}, next = Append(view, e)
      PROVE  StoryOf(c, r)'
  <2>1. /\ e \in Due(r) /\ Ordered(view)
        /\ Clear(view, 0, IF e = "error" THEN Troubles
                          ELSE IF e = "final" THEN Terminal ELSE {})
    BY <1>1, <1>4 DEF StoryOf, view
  <2>2. CASE e = "delta"
    <3>1. phase[r] = "streaming"
      BY <2>1, <2>2 DEF Due
    <3>2. Clear(view, 0, Terminal) /\ e \notin Terminal
      BY <1>1, <2>2, <3>1 DEF StoryOf, view, Terminal
    <3>3. Ordered(next) /\ Clear(next, 0, Terminal)
      BY <1>2, <1>4, <2>1, <3>2, AppendClear
    <3>4. QED
      BY <1>4, <3>1, <3>3 DEF StoryOf, next
  <2>3. CASE e = "final"
    <3>1. phase[r] = "checking"
      BY <2>1, <2>3 DEF Due
    <3>2. Clear(view, 0, Terminal) /\ Clear(view, 0, Troubles) /\ e \notin Troubles
      BY <1>1, <2>1, <2>3, <3>1 DEF StoryOf, view, Troubles
    <3>3. Ordered(next) /\ Clear(next, 0, Troubles)
      BY <1>2, <1>4, <2>1, <3>2, AppendClear
    <3>4. QED
      BY <1>4, <3>1, <3>3 DEF StoryOf, next
  <2>4. CASE e = "error"
    <3>1. phase[r] = "failed"
      BY <2>1, <2>4 DEF Due
    <3>2. /\ Clear(view, 0, Troubles) /\ Clear(view, 0, {"aborted"})
          /\ e \notin {"aborted"} /\ e \in Troubles
      BY <1>1, <2>1, <2>4, <3>1 DEF StoryOf, view, Troubles
    <3>3. Ordered(next) /\ Clear(next, 0 + 1, Troubles) /\ Clear(next, 0, {"aborted"})
      BY <1>2, <1>4, <2>1, <3>2, AppendClear
    <3>4. QED
      BY <1>4, <3>1, <3>3 DEF StoryOf, next
  <2>5. QED
    BY <2>1, <2>2, <2>3, <2>4 DEF Due
<1>5. CASE SendOrigin(r)
  <2>1. /\ writing[r] \in States /\ writing'[r] = "none" /\ phase' = phase
        /\ Origin(r)' = Origin(r) /\ Origin(r) \in Conns
        /\ Deliver(Origin(r), r, writing[r])
        /\ relay'[r].state = writing[r] /\ Origin(r) \notin relay'[r].to
        /\ relay[r].to = {}
    BY <1>1, <1>5 DEF SendOrigin, streamVars, trackVars, Origin, IInv, TypeOK,
                      SendInv, RequestInv, Requests
  <2>2. writing[r] \in Coming(c, r) /\ Coming(c, r)' \subseteq {writing[r]}
    BY <2>1 DEF Coming, States
  <2>3. c = Origin(r) => Coming(c, r)' = {}
    BY <2>1 DEF Coming
  <2>4. next = view \/ (c = Origin(r) /\ next = Append(view, writing[r]))
    BY <1>1, <2>1, DeliverOther DEF next, view
  <2>5. CASE next = view
    BY <1>3, <2>1, <2>2, <2>5
  <2>6. CASE c = Origin(r) /\ next = Append(view, writing[r])
    BY <1>4, <2>1, <2>2, <2>3, <2>6
  <2>7. QED
    BY <2>4, <2>5, <2>6
<1>6. ASSUME NEW d \in Conns, Relay(r, d) PROVE StoryOf(c, r)'
  <2>1. /\ writing' = writing /\ phase' = phase /\ Origin(r)' = Origin(r)
        /\ relay[r].state \in States /\ d \in relay[r].to
        /\ relay'[r].state = relay[r].state /\ relay'[r].to = relay[r].to \ {d}
        /\ writing[r] = "none"
        /\ Deliver(d, r, relay[r].state) \/ seen' = seen
    BY <1>1, <1>6 DEF Relay, streamVars, trackVars, Origin
  <2>2. Coming(c, r)' \subseteq Coming(c, r)
    BY <2>1 DEF Coming
  <2>3. c = d => relay[r].state \in Coming(c, r) /\ Coming(c, r)' = {}
    BY <2>1 DEF Coming
  <2>4. next = view \/ (c = d /\ next = Append(view, relay[r].state))
    BY <1>1, <2>1, DeliverOther DEF next, view
  <2>5. CASE next = view
    BY <1>3, <2>1, <2>2, <2>5
  <2>6. CASE c = d /\ next = Append(view, relay[r].state)
    BY <1>4, <2>1, <2>3, <2>6
  <2>7. QED
    BY <2>4, <2>5, <2>6
<1>7. QED
  BY <1>5, <1>6 DEF Sending

(* A step of one run leaves the story of every other run alone.            *)
LEMMA OtherStories ==
  ASSUME IInv, NEW q \in Runs, Sending(q) \/ Querying(q) \/ Streaming(q),
         NEW r \in Runs, r # q
  PROVE  /\ phase'[r] = phase[r] /\ writing'[r] = writing[r] /\ relay'[r] = relay[r]
         /\ \A c \in Conns : seen'[c][r] = seen[c][r]
<1>1. /\ writing \in [Runs -> States \cup {"none"}]
      /\ relay \in [Runs -> [state : States, to : SUBSET Conns]]
      /\ phase \in [Runs -> Phases]
      /\ seen \in [Conns -> [Runs -> Seq(States)]]
      /\ SendInv /\ RequestInv /\ TypeOK
  BY DEF IInv, TypeOK
<1>2. phase[q] # "unused" => Origin(q) \in Conns
  BY DEF IInv, TypeOK, RequestInv, Origin, Requests
<1>3. phase'[r] = phase[r] /\ writing'[r] = writing[r]
  BY OtherRuns
<1>4. CASE SendOrigin(q)
  <2>1. /\ writing[q] \in States /\ Deliver(Origin(q), q, writing[q])
        /\ relay'[r] = relay[r] /\ Origin(q) \in Conns
    BY <1>1, <1>2, <1>4 DEF SendOrigin, SendInv
  <2>2. QED
    BY <1>1, <1>3, <2>1, DeliverOther
<1>5. ASSUME NEW d \in Conns, Relay(q, d)
      PROVE  relay'[r] = relay[r] /\ \A c \in Conns : seen'[c][r] = seen[c][r]
  <2>1. relay[q].state \in States
    BY <1>1
  <2>2. QED
    BY <1>1, <1>5, <2>1, DeliverOther DEF Relay
<1>6. CASE ReplyFailure(q)
  <2>1. PICK e \in States : Deliver(Origin(q), q, e)
    BY <1>6 DEF ReplyFailure, States
  <2>2. relay' = relay /\ Origin(q) \in Conns
    BY <1>2, <1>6 DEF ReplyFailure
  <2>3. QED
    BY <1>1, <1>3, <2>1, <2>2, DeliverOther
<1>7. CASE Unregister(q)
  BY <1>3, <1>7 DEF Unregister, sendVars
<1>8. CASE (Querying(q) \/ Streaming(q)) /\ ~ReplyFailure(q) /\ ~Unregister(q)
  BY <1>1, <1>3, <1>8, QueryMoves
<1>9. QED
  BY <1>3, <1>4, <1>5, <1>6, <1>7, <1>8 DEF Sending

(* A run that is being started has no event to come and has told nothing.  *)
LEMMA StoryStarts ==
  ASSUME IInv, StoryInv, NEW c \in Conns, NEW s \in Sessions, NEW r \in Runs,
         ChatSend(c, s, r)
  PROVE  StoryInv'
<1>1. /\ phase' = [phase EXCEPT ![r] = "asked"] /\ phase[r] = "unused"
      /\ phase \in [Runs -> Phases]
      /\ request' = [request EXCEPT ![r] = [conn |-> c, session |-> s, id |-> clock]]
      /\ request \in [Runs -> Requests \cup {NoRequest}]
      /\ writing' = writing /\ relay' = relay /\ seen' = seen
  BY DEF IInv, TypeOK, ChatSend, sendVars
<1>2. ASSUME NEW d \in Conns, NEW q \in Runs PROVE StoryOf(d, q)'
  <2>1. StoryOf(d, q)
    BY DEF StoryInv
  <2>2. CASE q = r
    BY <1>1, <2>1, <2>2 DEF StoryOf, Due, Coming
  <2>3. CASE q # r
    <3>1. phase'[q] = phase[q] /\ Origin(q)' = Origin(q)
      BY <1>1, <2>3 DEF Origin
    <3>2. QED
      BY <1>1, <2>1, <3>1 DEF StoryOf, Due, Coming
  <2>4. QED
    BY <2>2, <2>3
<1>3. QED
  BY <1>1, <1>2 DEF StoryInv

(* Every step keeps the stories.                                           *)
LEMMA StoryStep == IInv /\ StoryInv /\ [Next]_vars => StoryInv'
<1> SUFFICES ASSUME IInv, StoryInv, [Next]_vars PROVE StoryInv'
  OBVIOUS
<1> USE DEF connVars, loopVars, trackVars, streamVars, sendVars, chatVars
<1>0. /\ \A r \in Runs : writing[r] # "none" => relay[r].to = {}
      /\ \A c \in Conns, r \in Runs : StoryOf(c, r)
      /\ TypeOK
  BY DEF StoryInv, IInv
<1>1. ASSUME UNCHANGED <<phase, writing, relay, seen>> PROVE StoryInv'
  <2>1. \A c \in Conns, r \in Runs : StoryOf(c, r)'
    BY <1>0, <1>1, StoryFrame
  <2>2. QED
    BY <1>0, <1>1, <2>1 DEF StoryInv
<1>2. CASE UNCHANGED vars
  BY <1>1, <1>2 DEF vars
<1>3. ASSUME NEW c \in Conns, Connection(c) \/ Handling(c) PROVE StoryInv'
  BY <1>1, <1>3 DEF Connection, Handling, Respond, CancelEntry
<1>4. ASSUME NEW c \in Conns, Requesting(c) PROVE StoryInv'
  <2>1. ASSUME NEW entries, Abort(c, entries) PROVE StoryInv'
    BY <1>1, <2>1 DEF Abort
  <2>2. QED
    BY <1>4, <2>1, StoryStarts DEF Requesting, AbortSession, AbortRun
<1>5. ASSUME NEW q \in Runs, Sending(q) \/ Querying(q) \/ Streaming(q)
      PROVE  StoryInv'
  <2>1. ASSUME NEW c \in Conns, NEW r \in Runs PROVE StoryOf(c, r)'
    <3>1. CASE r = q
      BY <1>0, <1>5, <3>1, StorySend, StoryQuery
    <3>2. CASE r # q
      BY <1>0, <1>5, <3>2, OtherStories, StoryFrame
    <3>3. QED
      BY <3>1, <3>2
  <2>2. ASSUME NEW r \in Runs, writing'[r] # "none" PROVE relay'[r].to = {}
    <3>1. CASE r # q
      BY <1>0, <1>5, <2>2, <3>1, OtherStories
    <3>2. CASE r = q /\ SendOrigin(q)
      BY <1>0, <2>2, <3>2 DEF SendOrigin, TypeOK
    <3>3. ASSUME NEW d \in Conns, r = q, Relay(q, d) PROVE relay'[r].to = {}
      BY <1>0, <2>2, <3>3 DEF Relay, TypeOK
    <3>4. CASE r = q /\ (ReplyFailure(q) \/ Unregister(q))
      BY <1>0, <2>2, <3>4 DEF ReplyFailure, Unregister
    <3>5. CASE r = q /\ (Querying(q) \/ Streaming(q)) /\ ~ReplyFailure(q)
               /\ ~Unregister(q)
      BY <1>0, <3>5, QueryMoves
    <3>6. QED
      BY <1>5, <3>1, <3>2, <3>3, <3>4, <3>5 DEF Sending
  <2>3. QED
    BY <2>1, <2>2 DEF StoryInv
<1>6. CASE Tick
  BY <1>1, <1>6 DEF Tick
<1>7. QED
  BY <1>2, <1>3, <1>4, <1>5, <1>6 DEF Next

(* The stories are kept for all values of the constants.                   *)
THEOREM StoryInvariant == Spec => []StoryInv
<1>1. Init => StoryInv
  <2>1. ASSUME Init, NEW c \in Conns, NEW r \in Runs PROVE StoryOf(c, r)
    BY <2>1 DEF Init, StoryOf, Coming, Due, Ordered, Clear
  <2>2. QED
    BY <2>1 DEF StoryInv, Init
<1>2. QED
  BY <1>1, StoryStep, InductiveInvariant, PTL DEF Spec

(* In a view whose troubles are among the last n events, with an abort at  *)
(* most as the last one, there are no more than n of them (n = 1 or 2).    *)
LEMMA CountTroubles ==
  ASSUME NEW view \in Seq(States), NEW n \in {1, 2},
         Clear(view, n, Troubles), Clear(view, 1, {"aborted"})
  PROVE  Cardinality({i \in DOMAIN view : view[i] = "error"})
         + Cardinality({i \in DOMAIN view : view[i] = "aborted"}) <= n
<1> DEFINE last == Len(view)
           errors == {i \in DOMAIN view : view[i] = "error"}
           aborts == {i \in DOMAIN view : view[i] = "aborted"}
<1>1. last \in Nat /\ DOMAIN view = 1 .. last
  OBVIOUS
<1>2. aborts \subseteq {last}
  BY <1>1 DEF Clear
<1>3. errors \subseteq {i \in {last, last - 1} : i > last - n}
  BY <1>1 DEF Clear, Troubles
<1>4. errors \cap aborts = {}
  OBVIOUS
<1> HIDE DEF last, errors, aborts
<1>5. IsFiniteSet({last, last - 1}) /\ Cardinality({last, last - 1}) = 2
      /\ IsFiniteSet({last}) /\ Cardinality({last}) = 1
  <2>1. IsFiniteSet({last}) /\ Cardinality({last}) = 1
    BY FS_Singleton
  <2>2. {last, last - 1} = {last} \cup {last - 1} /\ last - 1 \notin {last}
    BY <1>1
  <2>3. /\ IsFiniteSet({last} \cup {last - 1})
        /\ Cardinality({last} \cup {last - 1}) = 2
    <3>1. IsFiniteSet({last}) /\ Cardinality({last}) = 1 /\ last - 1 \notin {last}
      BY <2>1, <2>2
    <3>2. Cardinality({last} \cup {last - 1}) = Cardinality({last}) + 1
      BY <3>1, FS_AddElement, Zenon
    <3>3. IsFiniteSet({last} \cup {last - 1})
      BY <3>1, FS_AddElement, Zenon
    <3>4. QED
      BY <3>1, <3>2, <3>3
  <2>4. QED
    BY <2>1, <2>2, <2>3
<1>6. errors \cup aborts \subseteq {i \in {last, last - 1} : i > last - n}
  BY <1>1, <1>2, <1>3
<1>7. /\ n = 1 => {i \in {last, last - 1} : i > last - n} = {last}
      /\ n = 2 => {i \in {last, last - 1} : i > last - n} = {last, last - 1}
  BY <1>1
<1>8. IsFiniteSet(errors \cup aborts) /\ Cardinality(errors \cup aborts) <= n
  BY <1>5, <1>6, <1>7, FS_Subset
<1>9. IsFiniteSet(errors) /\ IsFiniteSet(aborts)
  BY <1>8, FS_Subset
<1>10. Cardinality(errors \cup aborts) = Cardinality(errors) + Cardinality(aborts)
  <2>1. Cardinality({}) = 0
    BY FS_EmptySet
  <2>2. /\ Cardinality(errors) \in Nat /\ Cardinality(aborts) \in Nat
        /\ Cardinality(errors \cup aborts) = Cardinality(errors) + Cardinality(aborts)
             - Cardinality(errors \cap aborts)
    BY <1>9, FS_Union, FS_CardinalityType
  <2>3. Cardinality(errors \cap aborts) = 0
    BY <1>4, <2>1
  <2>4. QED
    BY <2>2, <2>3
<1>11. QED
  BY <1>8, <1>10 DEF errors, aborts

(* ChatStreamAdapter and handleChatSend together tell a run's story in one *)
(* order to every connection, whenever it subscribed and whatever fails:   *)
(* deltas, one final at most, and then one error of the query at most; the *)
(* reply of handleChatSend comes last, and to the origin alone.            *)
THEOREM StoryIsInOrder == Spec => []StoryInOrder
<1>1. IInv /\ StoryInv => StoryInOrder
  <2> SUFFICES ASSUME IInv, StoryInv, NEW c \in Conns, NEW r \in Runs
               PROVE  LET view == seen[c][r]
                          Count(state) ==
                            Cardinality({i \in DOMAIN view : view[i] = state})
                      IN  /\ \A i \in 1 .. Len(view) - 1 :
                               view[i + 1] \in Follows[view[i]]
                          /\ Count("error") + Count("aborted") <= 2
                          /\ Started(r) /\ c # Origin(r)
                               => Count("error") + Count("aborted") <= 1
    BY DEF StoryInOrder
  <2> DEFINE view == seen[c][r]
             Count(state) == Cardinality({i \in DOMAIN view : view[i] = state})
  <2>1. /\ view \in Seq(States) /\ StoryOf(c, r) /\ phase[r] \in Phases
    BY DEF IInv, TypeOK, StoryInv
  <2>2. Ordered(view) /\ Clear(view, 1, {"aborted"}) /\ Clear(view, 2, Troubles)
        /\ (c # Origin(r) => Clear(view, 1, Troubles))
    <3> HIDE DEF view
    <3>1. /\ Clear(view, 0, Terminal) => Clear(view, 0, Troubles)
          /\ Clear(view, 0, Troubles) => /\ Clear(view, 1, Troubles)
                                         /\ Clear(view, 0, {"aborted"})
          /\ Clear(view, 0, {"aborted"}) => Clear(view, 1, {"aborted"})
          /\ Clear(view, 1, Troubles) => Clear(view, 2, Troubles)
      BY <2>1, ClearMore DEF Terminal, Troubles, States
    <3>2. QED
      BY <2>1, <3>1 DEF StoryOf, Phases, view
  <2>3. ASSUME NEW i \in 1 .. Len(view) - 1 PROVE view[i + 1] \in Follows[view[i]]
    <3>1. /\ i \in DOMAIN view /\ i + 1 \in DOMAIN view /\ i < i + 1
          /\ view[i] \in States /\ view[i + 1] \in States
      BY <2>1
    <3>2. view[i] # "delta" => view[i + 1] \in Troubles
      BY <2>2, <3>1 DEF Ordered
    <3>3. view[i] # "aborted"
      BY <2>2, <3>1 DEF Clear
    <3> HIDE DEF view
    <3>4. QED
      BY <3>1, <3>2, <3>3 DEF Follows, States, Troubles
  <2> HIDE DEF view
  <2>4. Count("error") + Count("aborted") <= 2
    BY <2>1, <2>2, CountTroubles
  <2>5. c # Origin(r) => Count("error") + Count("aborted") <= 1
    BY <2>1, <2>2, CountTroubles
  <2>6. QED
    BY <2>3, <2>4, <2>5 DEF view
<1>2. QED
  BY <1>1, InductiveInvariant, StoryInvariant, PTL
-------------------------------------------------------------------------------
(* The adapter drops what a cancelled run writes, so a run that is quiet   *)
(* and cancelled stays quiet until handleChatSend tells its origin how it  *)
(* ended.                                                                  *)
LEMMA QuietStep ==
  ASSUME IInv, [Next]_vars, NEW r \in Runs PROVE StaysQuiet(r)
<1> SUFFICES ASSUME Started(r), CtxDone(r), writing[r] = "none", relay[r].to = {}
             PROVE  /\ writing'[r] = "none" /\ relay'[r].to = {}
                    /\ \A c \in Conns :
                         \/ seen'[c][r] = seen[c][r]
                         \/ /\ c = Origin(r)
                            /\ \E state \in {"aborted", "error"} :
                                  seen'[c][r] = Append(seen[c][r], state)
  BY DEF StaysQuiet
<1>0. /\ TypeOK /\ phase[r] # "unused" /\ Origin(r) \in Conns
      /\ seen \in [Conns -> [Runs -> Seq(States)]]
  BY DEF IInv, TypeOK, RequestInv, Started, Origin, Requests
<1>1. CASE UNCHANGED sendVars
  BY <1>1 DEF sendVars
<1>2. CASE Tick \/ UNCHANGED vars
  BY <1>1, <1>2 DEF Tick, vars, chatVars
<1>3. ASSUME NEW c \in Conns, Connection(c) \/ Handling(c) \/ Requesting(c)
      PROVE  UNCHANGED sendVars
  BY <1>3 DEF Connection, Handling, Respond, CancelEntry, Requesting, ChatSend,
              AbortSession, AbortRun, Abort, chatVars
<1>4. ASSUME NEW q \in Runs, Sending(q) \/ Querying(q) \/ Streaming(q), q # r
      PROVE  /\ writing'[r] = writing[r] /\ relay'[r] = relay[r]
             /\ \A c \in Conns : seen'[c][r] = seen[c][r]
  BY <1>4, OtherStories
<1>5. CASE Sending(r)
  BY <1>5 DEF Sending, SendOrigin, Relay
<1>6. CASE ReplyFailure(r)
  <2>1. PICK state \in {"aborted", "error"} : Deliver(Origin(r), r, state)
    BY <1>6 DEF ReplyFailure
  <2>2. writing' = writing /\ relay' = relay /\ state \in States
    BY <1>6 DEF ReplyFailure, States
  <2>3. \A c \in Conns : \/ seen'[c][r] = seen[c][r]
                         \/ c = Origin(r) /\ seen'[c][r] = Append(seen[c][r], state)
    BY <1>0, <2>1, <2>2, DeliverOther
  <2>4. QED
    BY <2>2, <2>3
<1>7. CASE Unregister(r)
  BY <1>1, <1>7 DEF Unregister
<1>8. CASE (Querying(r) \/ Streaming(r)) /\ ~ReplyFailure(r) /\ ~Unregister(r)
  BY <1>0, <1>8, QueryMoves DEF Write
<1>9. QED
  BY <1>1, <1>2, <1>3, <1>4, <1>5, <1>6, <1>7, <1>8 DEF Next

(* ChatStreamAdapter.Write looks at the run's context before every event,  *)
(* so nothing of the stream follows a cancellation but the event that was  *)
(* already being sent.                                                     *)
THEOREM QuietOnceCancelled == Spec => QuietAfterCancel
<1>1. IInv /\ [Next]_vars => [\A r \in Runs : StaysQuiet(r)]_vars
  BY QuietStep
<1>2. QED
  BY <1>1, InductiveInvariant, PTL DEF Spec, QuietAfterCancel

===============================================================================

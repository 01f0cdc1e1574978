------------------------------- MODULE ChatScreen ------------------------------
(***************************************************************************)
(* The conversation on the screen of the web UI (chatMessages, chatStream  *)
(* and chatRunId of the host), put together from three sources that race:  *)
(* the messages the tab appends itself when a chat.send is acknowledged,   *)
(* the chat events of the runs, and the transcripts chat.history returns,  *)
(* while the user looks at other sessions, clears one, aborts a run and    *)
(* loses the connection.  What waits to be sent is ChatQueue's.            *)
(*                                                                         *)
(* The gateway reads and answers the requests of a connection one after    *)
(* the other; its runs write to the same socket between any two steps of   *)
(* that (ChatRun models them in detail).  Texts differ, so a message is    *)
(* named by its run and its part: the question, the answer (never empty),  *)
(* the part of an answer on the screen when its run failed, the notice of  *)
(* what failed in the stream, that the query failed.  The clocks of the    *)
(* tab and the gateway agree.  Tools are not modelled.  Budgets are the    *)
(* bounds of a behaviour, which keeps to one of them: messages sent,       *)
(* deltas of an answer, transcripts asked for, and faults (connections and *)
(* rows that are lost, reads that fail, runs that fail or are aborted).    *)
(***************************************************************************)
EXTENDS Naturals, Sequences, FiniteSets, SequencesExt, Picking

CONSTANTS Sessions,  \* session keys
          MaxSends,  \* bound on the messages the user sends
          Budgets,   \* bounds of a behaviour, see BudgetAssumption
          None       \* null, for chatRunId, chatStream and the load in flight

Runs == 1 .. MaxSends
Parts == {"question", "answer", "partial", "notice", "failure"}

ASSUME BudgetAssumption ==
  /\ MaxSends \in Nat
  /\ Budgets \subseteq [sends : 0 .. MaxSends, deltas : Nat, loads : Nat, faults : Nat]
  /\ None \notin Runs

VARIABLES
  sessionKey, connected, \* host.sessionKey, host.connected
  screen,                \* chatMessages
  runId, stream,         \* chatRunId; chatStream, as the deltas it is made of
  sending,               \* chatSending
  load,                  \* the latest history request while it is in flight
  version,               \* chatHistoryRequestVersions
  pipe,                  \* requests of the tab the gateway has not answered
  wire,                  \* answers and events on their way to the tab
  db,                    \* the stored messages of each session, oldest first
  phase, deltas,         \* how far each run is, and the deltas it has sent
  cancelled,             \* runs whose context is done
  home,                  \* the session each run was sent in
  seen, fresh, late, lent, \* history, see TypeOK
  budget, faults         \* bounds: the budget of the behaviour, faults so far

browser == <<screen, runId, stream, sending, load, version>>
gateway == <<db, phase, deltas, cancelled, lent>>
history == <<seen, fresh, late>>
vars == <<sessionKey, connected, browser, pipe, wire, gateway, home, history, budget, faults>>

Stored == [run : Runs, part : Parts]
Shown == [run : Runs, part : Parts, under : Sessions]
Phases == {"none", "started", "asked", "final", "failing", "ended"}

(* A message on the screen names the session it is of, wherever it shows.  *)
(* Messages are compared by role and text, not by identity.                *)
Sig(m) == [run |-> m.run, part |-> m.part]
Sigs(msgs) == {Sig(m) : m \in ToSet(msgs)}
Under(msgs, s) == [k \in DOMAIN msgs |->
                     [run |-> msgs[k].run, part |-> msgs[k].part, under |-> s]]
Text(r, n) == [k \in 1 .. n |-> <<r, k>>]

(* What the tab sends, what the gateway answers, and what its runs send.   *)
Sent == DOMAIN home
Requests == [op : {"send", "abort"}, run : Sent] \cup [op : {"reset"}, key : Sessions]
            \cup [op : {"history"}, key : Sessions, version : Nat]
Answers == [op : {"acked"}, run : Sent] \cup [op : {"refused", "cleared"}]
           \cup [op : {"transcript"}, version : Nat, msgs : Seq(Shown)]
Events == [op : {"event"}, run : Sent, state : {"delta"}, count : Nat \ {0}]
          \cup [op : {"event"}, run : Sent, state : {"final"}]
          \cup [op : {"event"}, run : Sent, state : {"aborted", "error"}, part : Parts]

(* fresh holds what was put on the screen since the last transcript was    *)
(* asked for, late what came while one was in flight; seen counts the      *)
(* deltas of a run that have come; lent[s] is what the gateway has returned*)
(* for s of the messages of other sessions.                                *)
TypeOK ==
  /\ sessionKey \in Sessions /\ connected \in BOOLEAN
  /\ screen \in Seq(Shown)
  /\ runId \in Sent \cup {None}
  /\ stream \in Seq(Runs \X (Nat \ {0})) \cup {None}
  /\ sending \in BOOLEAN
  /\ version \in Nat
  /\ load \in [version : {version}, key : Sessions, before : Seq(Shown),
               run : Sent \cup {None}, shared : BOOLEAN] \cup {None}
  /\ pipe \in Seq(Requests \cup Answers)
  /\ \A k \in DOMAIN pipe : pipe[k] \in Answers => k = 1
  /\ wire \in Seq(Answers \cup Events)
  /\ db \in [Sessions -> Seq(Stored)]
  /\ phase \in [Runs -> Phases] /\ deltas \in [Runs -> Nat]
  /\ cancelled \subseteq Runs
  /\ home \in Seq(Sessions) /\ Len(home) <= MaxSends
  /\ seen \in [Runs -> Nat] /\ fresh \subseteq Stored /\ late \subseteq Stored
  /\ lent \in [Sessions -> SUBSET Stored]
  /\ budget \in Budgets /\ faults \in Nat

Init ==
  /\ budget \in Budgets
  /\ sessionKey \in Sessions /\ connected = TRUE
  /\ screen = <<>> /\ runId = None /\ stream = None /\ sending = FALSE
  /\ load = None /\ version = 0
  /\ pipe = <<>> /\ wire = <<>>
  /\ db = [s \in Sessions |-> <<>>]
  /\ phase = [r \in Runs |-> "none"]
  /\ deltas = [r \in Runs |-> 0]
  /\ cancelled = {}
  /\ home = <<>>
  /\ seen = [r \in Runs |-> 0] /\ fresh = {} /\ late = {}
  /\ lent = [s \in Sessions |-> {}]
  /\ faults = 0

-------------------------------------------------------------------------------
(* The screen.                                                             *)

(* A message more makes an array that a load in flight no longer shares: a *)
(* second load joins one only while it does.                               *)
Assign(msgs) == /\ screen' = msgs
                /\ load' = IF load = None \/ msgs = screen THEN load
                           ELSE [load EXCEPT !.shared = FALSE]

Append1(m) == /\ Assign(Append(screen, m))
              /\ fresh' = fresh \cup {Sig(m)}
              /\ late' = IF load = None THEN late ELSE late \cup {Sig(m)}
AppendAll(ms) == /\ Assign(screen \o ms)
                 /\ fresh' = fresh \cup Sigs(ms)
                 /\ late' = IF load = None THEN late ELSE late \cup Sigs(ms)

Message(r, part) == [run |-> r, part |-> part, under |-> home[r]]

(* What has been streamed of the answer and is not on the screen.          *)
LastUser(msgs) == SelectLastInSeq(msgs, LAMBDA m : m.part = "question")
Replaced(msgs) ==
  \E k \in LastUser(msgs) + 1 .. Len(msgs) :
     msgs[k].run = stream[1][1] /\ msgs[k].part \in {"answer", "partial"}
Visible == stream \notin {None, <<>>}
Materialized == IF Visible /\ ~Replaced(screen)
                THEN <<Message(stream[1][1], "partial")>> ELSE <<>>

-------------------------------------------------------------------------------
(* Loading the transcript.                                                 *)

Ask(s, msgs, run) ==
  /\ version' = version + 1
  /\ load' = [version |-> version + 1, key |-> s, before |-> msgs,
              run |-> run, shared |-> TRUE]
  /\ pipe' = Append(pipe, [op |-> "history", key |-> s, version |-> version + 1])
  /\ fresh' = {}

Joinable == load # None /\ load.shared

(* The refresh button, a command that refreshes, the refresh after hello:  *)
(* a load for the same messages in flight is joined.                       *)
LoadChatHistory ==
  /\ connected /\ version < budget.loads
  /\ ~Joinable
  /\ Ask(sessionKey, screen, runId)
  /\ UNCHANGED <<sessionKey, connected, screen, runId, stream, sending, wire, gateway,
                 home, seen, late, faults, budget>>

(* What the screen had that a transcript lacks is kept only as a tail: the *)
(* last message in both must be the last of the transcript, and all after  *)
(* it new.                                                                 *)
PreserveTail(msgs, before) ==
  LET last == SelectLastInSeq(before, LAMBDA m : Sig(m) \in Sigs(msgs))
      tail == SubSeq(before, last + 1, Len(before))
  IN IF msgs = <<>> THEN before
     ELSE IF last = 0 \/ Sig(before[last]) # Sig(Last(msgs)) THEN msgs
     ELSE msgs \o tail

(* Mutant: the answer of the gateway replaces what came meanwhile.         *)
LateForgotten(msgs, before) == <<>>

(* Mutant: what came meanwhile is not looked up in the transcript.         *)
LateUnseen(msgs, before) ==
  IF IsPrefix(before, screen) THEN SubSeq(screen, Len(before) + 1, Len(screen)) ELSE <<>>

(* What was appended while the request was in flight is kept, unless the   *)
(* transcript has it with a time at least its own.  The final of the       *)
(* gateway carries no time, so an answer is never recognised.              *)
Stamped(m) == m.part # "answer"
LateTail(msgs, before) ==
  IF IsPrefix(before, screen)
  THEN Pick(screen, {k \in Len(before) + 1 .. Len(screen) :
                       ~(Stamped(screen[k]) /\ Sig(screen[k]) \in Sigs(msgs))})
  ELSE <<>>

ShouldApply(v) == load # None /\ v = version /\ load.key = sessionKey

(* The stream is dropped with what a transcript has of it, unless another  *)
(* run has begun since the request.                                        *)
ApplyHistory(msgs, v) ==
  IF ShouldApply(v)
  THEN LET now == PreserveTail(msgs, load.before) \o LateTail(msgs, load.before) IN
       /\ screen' = now /\ load' = None
       /\ stream' = IF (runId = None \/ runId = load.run) /\ (~Visible \/ Replaced(now))
                    THEN None ELSE stream
       /\ UNCHANGED <<runId, sending, version, history>>
  ELSE UNCHANGED <<browser, history>>

-------------------------------------------------------------------------------
(* What the user does.                                                     *)

(* A message is sent when nothing is being sent and no run is shown; it    *)
(* appears on the screen when it is acknowledged.                          *)
Send(r) ==
  /\ connected /\ ~sending /\ runId = None
  /\ r = Len(home) + 1 /\ r <= budget.sends
  /\ home' = Append(home, sessionKey)
  /\ sending' = TRUE
  /\ pipe' = Append(pipe, [op |-> "send", run |-> r])
  /\ UNCHANGED <<sessionKey, connected, screen, runId, stream, load, version, wire,
                 gateway, history, faults, budget>>

AbortRun ==
  /\ connected /\ runId # None
  /\ faults < budget.faults /\ faults' = faults + 1
  /\ pipe' = Append(pipe, [op |-> "abort", run |-> runId])
  /\ UNCHANGED <<sessionKey, connected, browser, wire, gateway, home, history, budget>>

(* The /clear command waits while the chat is busy; one at a time is a     *)
(* bound.                                                                  *)
Clear ==
  /\ connected /\ ~sending /\ runId = None /\ version < budget.loads
  /\ \A m \in ToSet(pipe \o wire) : m.op \notin {"reset", "cleared"}
  /\ pipe' = Append(pipe, [op |-> "reset", key |-> sessionKey])
  /\ UNCHANGED <<sessionKey, connected, browser, wire, gateway, home, history, faults,
                 budget>>

SwitchChatSession(s) ==
  /\ s # sessionKey
  /\ sessionKey' = s
  /\ screen' = <<>> /\ runId' = None /\ stream' = None
  /\ IF connected
     THEN version < budget.loads /\ Ask(s, <<>>, None)
     ELSE load' = load /\ fresh' = {} /\ UNCHANGED <<version, pipe>>
  /\ late' = {}
  /\ UNCHANGED <<connected, sending, wire, gateway, home, seen, faults, budget>>

-------------------------------------------------------------------------------
(* What the tab does with what arrives.                                    *)

(* Mutant: it goes to whichever session is selected.                       *)
AcknowledgedAnywhere(r) ==
  /\ sending' = FALSE
  /\ Append1(Message(r, "question"))
  /\ runId' = r
  /\ stream' = IF runId = r /\ stream # None THEN stream ELSE <<>>
  /\ UNCHANGED <<sessionKey, version, pipe, seen>>

(* The acknowledgement of a send: the question goes on the screen if its   *)
(* session is still the selected one, and so does its run, whose first     *)
(* deltas may have come before.                                            *)
Acknowledged(r) ==
  /\ sending' = FALSE
  /\ IF sessionKey = home[r]
     THEN /\ Append1(Message(r, "question"))
          /\ runId' = r
          /\ stream' = IF runId = r /\ stream # None THEN stream ELSE <<>>
     ELSE UNCHANGED <<screen, runId, stream, load, fresh, late>>
  /\ UNCHANGED <<sessionKey, version, pipe, seen>>

(* Mutant: the snapshot is not looked at once there is a text.             *)
ResolveDeltaBlind(r, n) == IF stream = None THEN Text(r, n) ELSE Append(stream, <<r, n>>)

(* The text streamed so far after one more delta: it is appended to what   *)
(* there is if that is the text before it, else taken from the snapshot.   *)
ResolveDelta(r, n) ==
  IF stream = None \/ stream # Text(r, n - 1) THEN Text(r, n) ELSE Append(stream, <<r, n>>)

Forget == runId' = None /\ stream' = None

(* An event is for the selected session or for the run shown; the first    *)
(* event of a run is enough to show it.                                    *)
Event(m) ==
  LET r == m.run
      matches == home[r] = sessionKey
      shown == IF runId = None THEN r ELSE runId
      hadRun == runId # None
  IN
  /\ seen' = [seen EXCEPT ![r] = IF m.state = "delta" THEN m.count ELSE 0]
  /\ IF ~matches /\ runId # r
     THEN UNCHANGED <<screen, runId, stream, load, fresh, late>>
     ELSE IF shown # r
     THEN /\ IF m.state = "final" THEN Append1(Message(r, "answer"))
                                  ELSE UNCHANGED <<screen, load, fresh, late>>
          /\ UNCHANGED <<runId, stream>>
     ELSE CASE m.state = "delta" ->
                 /\ runId' = r /\ stream' = ResolveDelta(r, m.count)
                 /\ UNCHANGED <<screen, load, fresh, late>>
            [] m.state = "final" -> Append1(Message(r, "answer")) /\ Forget
            [] m.state = "aborted" -> AppendAll(Materialized) /\ Forget
            [] m.state = "error" ->
                 /\ AppendAll(IF hadRun THEN Append(Materialized, Message(r, m.part))
                                        ELSE <<>>)
                 /\ Forget
  /\ UNCHANGED <<sessionKey, sending, version, pipe>>

(* The answer to /clear empties the screen, whichever session it now       *)
(* shows, and loads that session again.                                    *)
Cleared ==
  /\ screen' = <<>> /\ Forget
  /\ Ask(sessionKey, <<>>, None)
  /\ late' = {}
  /\ UNCHANGED <<sessionKey, sending, seen>>

Receive ==
  /\ wire # <<>>
  /\ LET m == Head(wire) IN
     \/ m.op = "acked" /\ Acknowledged(m.run)
     \/ m.op = "event" /\ Event(m)
     \/ m.op = "transcript" /\ ApplyHistory(m.msgs, m.version)
                            /\ UNCHANGED <<sessionKey, pipe>>
     \/ m.op = "cleared" /\ Cleared
     \/ m.op = "refused" /\ sending' = FALSE
                         /\ UNCHANGED <<sessionKey, screen, runId, stream, load, version,
                                        pipe, history>>
  /\ wire' = Tail(wire)
  /\ UNCHANGED <<connected, gateway, home, faults, budget>>

(* The socket closes: what is on its way is lost, requests are rejected,   *)
(* the runs of the connection are cancelled.                               *)
Disconnect ==
  /\ connected /\ faults < budget.faults /\ faults' = faults + 1
  /\ connected' = FALSE
  /\ sending' = FALSE /\ load' = None
  /\ pipe' = <<>> /\ wire' = <<>>
  /\ cancelled' = cancelled \cup {r \in Runs : phase[r] \notin {"none", "ended"}}
  /\ UNCHANGED <<sessionKey, screen, runId, stream, version, db, phase, deltas, lent, home,
                 history, budget>>

(* hello-ok: the run shown will never end, it is dropped.                  *)
Hello ==
  /\ ~connected
  /\ connected' = TRUE
  /\ Forget
  /\ UNCHANGED <<sessionKey, screen, sending, load, version, pipe, wire, gateway, home,
                 history, faults, budget>>

-------------------------------------------------------------------------------
(* The gateway: the read loop takes a request, does it and answers, before *)
(* it takes the next one.                                                  *)

Fails == faults < budget.faults /\ faults' = faults + 1

(* Mutant: what comes behind the request is answered first.                *)
AnswerBehind(m) == pipe' = Append(Tail(pipe), m)

(* The answer takes the place of the request until it is written.          *)
AnswerWith(m) == pipe' = <<m>> \o Tail(pipe)

HandleChatSend(r) ==
  \/ /\ phase' = [phase EXCEPT ![r] = "started"]
     /\ AnswerWith([op |-> "acked", run |-> r])
     /\ UNCHANGED <<db, deltas, cancelled, lent, faults>>
  \/ Fails /\ AnswerWith([op |-> "refused"]) /\ UNCHANGED gateway

HandleChatAbort(r) ==
  /\ cancelled' = IF phase[r] \in {"none", "ended"} THEN cancelled ELSE cancelled \cup {r}
  /\ pipe' = Tail(pipe)
  /\ UNCHANGED <<db, phase, deltas, lent, faults>>

(* A reset that fails may have deleted the messages; the tab only says so. *)
HandleReset(s) ==
  /\ \/ /\ AnswerWith([op |-> "cleared"]) /\ faults' = faults
        /\ db' = [db EXCEPT ![s] = <<>>]
     \/ /\ Fails /\ pipe' = Tail(pipe)
        /\ db' \in {db, [db EXCEPT ![s] = <<>>]}
  /\ UNCHANGED <<phase, deltas, cancelled, lent>>

(* The rows come oldest first and are turned round.  Nothing is returned   *)
(* when they cannot be read, those of another session when the one asked   *)
(* for cannot be looked up.                                                *)
HandleChatHistory(s, v) ==
  \/ /\ AnswerWith([op |-> "transcript", version |-> v, msgs |-> Under(Reverse(db[s]), s)])
     /\ UNCHANGED <<gateway, faults>>
  \/ /\ AnswerWith([op |-> "transcript", version |-> v, msgs |-> <<>>])
     /\ Fails /\ UNCHANGED gateway
  \/ \E other \in Sessions \ {s} :
       /\ AnswerWith([op |-> "transcript", version |-> v,
                      msgs |-> Under(Reverse(db[other]), other)])
       /\ lent' = [lent EXCEPT ![s] = @ \cup ToSet(db[other])]
       /\ Fails /\ UNCHANGED <<db, phase, deltas, cancelled>>

Handle ==
  /\ pipe # <<>>
  /\ LET q == Head(pipe) IN
     \/ q.op = "send" /\ HandleChatSend(q.run)
     \/ q.op = "abort" /\ HandleChatAbort(q.run)
     \/ q.op = "reset" /\ HandleReset(q.key)
     \/ q.op = "history" /\ HandleChatHistory(q.key, q.version)
  /\ UNCHANGED <<sessionKey, connected, browser, wire, home, history, budget>>

Respond ==
  /\ pipe # <<>> /\ Head(pipe).op \in {"acked", "refused", "cleared", "transcript"}
  /\ wire' = Append(wire, Head(pipe)) /\ pipe' = Tail(pipe)
  /\ UNCHANGED <<sessionKey, connected, browser, gateway, home, history, faults, budget>>

(* A run.  A cancelled one sends no event but the last; what is stored may *)
(* get lost, and does once the context is done.                            *)
SendEvent(m) == wire' = IF connected THEN Append(wire, m) ELSE wire
WriteEvent(r, m) == IF r \in cancelled THEN wire' = wire ELSE SendEvent(m)
FaultUnlessCancelled(r) == IF r \in cancelled THEN faults' = faults ELSE Fails
Store(r, part) ==
  \/ /\ r \notin cancelled /\ faults' = faults
     /\ db' = [db EXCEPT ![home[r]] = Append(@, [run |-> r, part |-> part])]
  \/ /\ UNCHANGED db
     /\ FaultUnlessCancelled(r)
Between(r, from, to) == phase[r] = from /\ phase' = [phase EXCEPT ![r] = to]

SaveQuestion(r) ==
  /\ r \notin cancelled
  /\ Between(r, "started", "asked") /\ Store(r, "question")
  /\ UNCHANGED <<wire, deltas>>

HandleDelta(r) ==
  /\ phase[r] = "asked" /\ deltas[r] < budget.deltas
  /\ deltas' = [deltas EXCEPT ![r] = @ + 1]
  /\ WriteEvent(r, [op |-> "event", run |-> r, state |-> "delta", count |-> deltas[r] + 1])
  /\ UNCHANGED <<db, phase, faults>>

HandleDone(r) ==
  /\ deltas[r] > 0 /\ Between(r, "asked", "final")
  /\ deltas' = [deltas EXCEPT ![r] = 0]
  /\ WriteEvent(r, [op |-> "event", run |-> r, state |-> "final"])
  /\ UNCHANGED <<db, faults>>

SaveAnswer(r) ==
  /\ Between(r, "final", "ended") /\ Store(r, "answer")
  /\ UNCHANGED <<wire, deltas>>

(* The firewall refuses the question or, after it was sent, the answer; or *)
(* the model fails.                                                        *)
HandleError(r) ==
  /\ Between(r, "asked", "failing") \/ Between(r, "final", "failing")
  /\ deltas' = [deltas EXCEPT ![r] = 0]
  /\ WriteEvent(r, [op |-> "event", run |-> r, state |-> "error", part |-> "notice"])
  /\ FaultUnlessCancelled(r)
  /\ UNCHANGED db

(* The query has failed, in the stream or before it.                       *)
RunFails(r) ==
  /\ phase[r] \in {"started", "asked", "failing"}
  /\ phase' = [phase EXCEPT ![r] = "ended"]
  /\ deltas' = [deltas EXCEPT ![r] = 0]
  /\ SendEvent([op |-> "event", run |-> r, part |-> "failure",
                state |-> IF r \in cancelled THEN "aborted" ELSE "error"])
  /\ IF phase[r] = "failing" THEN faults' = faults ELSE FaultUnlessCancelled(r)
  /\ UNCHANGED db

Run(r) ==
  /\ \/ SaveQuestion(r) \/ HandleDelta(r) \/ HandleDone(r) \/ SaveAnswer(r)
     \/ HandleError(r) \/ RunFails(r)
  /\ UNCHANGED <<sessionKey, connected, browser, pipe, cancelled, lent, home, history,
                 budget>>

User == \/ LoadChatHistory \/ AbortRun \/ Clear
        \/ \E r \in Runs : Send(r)
        \/ \E s \in Sessions : SwitchChatSession(s)

Next == \/ User \/ Receive \/ Disconnect \/ Hello
        \/ Handle \/ Respond
        \/ \E r \in Runs : Run(r)

Spec == Init /\ [][Next]_vars

-------------------------------------------------------------------------------
(* What is on the screen is of the session selected, or came with a        *)
(* transcript the gateway returned for it (handleChatHistory falls back to *)
(* another session): whatever else comes late, an answer to a request made *)
(* under another session, an acknowledgement, an event, a load begun       *)
(* before it was selected, leaves no message there, and never the run of   *)
(* another session.                                                        *)
Belongs(m, s, others) == m.under = s \/ Sig(m) \in others[s]

OnlyForThisSession ==
  /\ \A k \in DOMAIN screen : Belongs(screen[k], sessionKey, lent)
  /\ runId # None => home[runId] = sessionKey

(* What was put on the screen since the last transcript was asked for      *)
(* stays there, or its stored copy does, when that transcript or an older  *)
(* one comes in, whatever they hold; but for /clear and another session.   *)
NewMessagesStay == fresh \subseteq Sigs(screen)

(* A message is on the screen twice in one way only: its answer came while *)
(* a transcript that has it stored was on its way.                         *)
DoubledOnlyWhenLate ==
  \A k, l \in DOMAIN screen :
     k < l /\ Sig(screen[k]) = Sig(screen[l])
     => screen[k].part = "answer" /\ Sig(screen[k]) \in late

(* The text streamed is all the gateway has sent of the answer of the run  *)
(* shown, although the tab looked away, dropped it or took it up midway.   *)
StreamIsTheRuns ==
  Visible => runId # None /\ stream = Text(runId, seen[runId])

===============================================================================

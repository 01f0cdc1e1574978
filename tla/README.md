# VanPanel backend: verification development

VanPanel is a server panel with an AI agent: a Go backend (`src/internal`,
`src/pkg`) and a browser client (`src/webui`).  A browser talks to the backend
over one WebSocket, the *gateway*; a chat message starts an agent query whose
answer is streamed to everybody who follows the session.  This directory holds
TLA+ models of that system, the TLC configurations that check them and TLAPS
proofs about them.  `PROJECT.json` maps every definition to the lines it
translates and lists the hazards the properties are for.

## 1. Inventory

State, operations and interactions of the parts; the last column is what makes
the part correct.

| Part | State | Operations | Interacts with | Hard behaviour | Correct when |
|---|---|---|---|---|---|
| Gateway connections (`gateway/server.go`, `connection.go`, `broadcaster.go`, `subscription_hub.go`, `presence.go`, `handshake.go`) | a goroutine per connection; broadcast set, two subscription maps, presence map and version, a lock each | upgrade, handshake, dispatch, subscribe, announce, deferred teardown | all that sends events; browser | any two lock sections interleave; a connection may end anywhere | nothing of a closed connection stays behind; a subscriber is reachable; presence is accurate |
| Chat runs (`gateway/rpc/chat.go`, `run_tracker.go`, `gateway/adapter/chat_stream.go`, `agent/service/service.go`, `agent_stream.go`) | run tracker; a context, an adapter and a goroutine per run; history | chat.send, chat.abort, stream events, failures, save | connections, hub, agent persistence, model service | abort and disconnection race every step; failure everywhere | a run is abortable, ends when cancelled, tells how it ended, stores what it showed |
| RPC dispatch and the other methods (`gateway/dispatcher.go`, `gateway/rpc/*.go`) | method table; sessions in the database | sessions, compaction, configuration, skills, cron ... | services | check-then-create, edits against runs | no duplicate session, no lost message |
| Gateway authentication (`gateway/auth.go`, `pkg/jwt`, `middleware`) | token blacklist, rate counters | verify, refresh, revoke | handshake, HTTP API | counters shared between requests | a revoked token stays refused |
| Cron scheduler (`cron/`) | job and run rows, `running` set of the manager, task queue | tick, execute, create, update, delete, run now | agent service, database, asynq | three writers of a row without a transaction; time-outs; restarts | due jobs run, not twice at once, deleted ones not at all; every run is closed |
| Tool safety (`agent/service/safe_tool.go`, `approval_store.go`, `agent/runtime`, `guard`, `risk`, `pipeline`) | approvals with expiry, behaviour windows | classify, ask, approve, deny, run in a capsule | agent, gateway | approval races expiry | no refused call runs |
| Tool manager and MCP hub (`agent/tool/mcp`, `agent/hub`) | clients, tool list, server table | install, toggle, reload, call | agent | reload against calls in flight | tools in use are those configured |
| Skills, nudge, insight, search, memory | files, per-session counters | record, review, write | agent | concurrent reviews | an entry is written once |
| Agent persistence (`agent/dao`, `config_service.go`) | sessions, messages, configuration | CRUD | chat runs | calls fail with their context | -- |
| HTTP agent API (`agent/api`, `pkg/sse`) | a stream per request | query over SSE | agent service | as a chat run, without abort | as a chat run |
| Terminal and SSH (`terminal`, `pkg/terminal`, `pkg/ssh`) | sessions, pumps | open, resize, reap | WebSocket | reaper against use | no orphan shell |
| Files and shares, system administration, start-up, libraries | rows and files | CRUD | database | share counters; retry | -- |
| Browser gateway client (`webui/src/ui/gateway.ts`) | socket, its generation, one timer, pending requests, device token in local storage | connect, challenge, answer, close, reconnect, stop, request | gateway, other tabs | one timer with two uses; awaits in the handshake; events of replaced sockets | one live socket; every request settles; it never gives up silently |
| Browser chat state (`app-chat.ts`, `app-gateway.ts`, `app-render.helpers.ts`, `chat/composer-persistence.ts`, `controllers/chat.ts`) | queue per session, in memory and in session storage; flags of what is sent and what runs | submit, send, retry, remove, switch, reload, flush | gateway client, events of runs | events before acknowledgements; lost answers; two copies of a queue | no message lost or sent twice; order; the queue drains |
| Configuration editing (`controllers/config.ts`, `gateway/rpc/config.go`, `config_service.go`) | draft, original, base hash per tab; override table; runtime configuration | load, edit, reset, save, apply | gateway, database, agent service | refresh against edits; two tabs; half-done saves | no edit lost; the runtime follows the table |
| Other browser state and views (`webui/src/ui`) | one controller per page | request and show | gateway client | -- | -- |

## 2. Modules

    ConnLife       what a component that sends events may assume of connections
    Gateway        the connection layer in full                (implements ConnLife)
    GatewayProofs  theorems about Gateway
    ChatRun        chat runs, on top of ConnLife                (EXTENDS ConnLife)
    ChatRunProofs  theorems about ChatRun
    CronScheduler  scheduled jobs: manager, task queue, edits, database rows
    CronProofs     theorems about CronScheduler
    GatewayClient  the browser's end of the gateway connection
    GatewayClientProofs  theorems about GatewayClient
    ChatQueue      the composer queue of the browser
    ChatQueueProofs  theorems about ChatQueue
    Picking, PickingProofs  Array.prototype.filter without recursion, and what it
                   returns; used by ChatQueue and ChatScreen
    ChatScreen     the conversation on the browser's screen, with the gateway's side
    ChatScreenProofs  theorems about ChatScreen
    ConfigDraft    configuration edited in several tabs, with the gateway's side
    ConfigDraftProofs  theorems about ConfigDraft
    MCGateway, MCChatRun, MCCron, MCGatewayClient, MCChatQueue, MCChatScreen,
    MCConfigDraft  instances for TLC

Gateway and ChatRun meet in ConnLife.  It has the four facts a chat run depends
on: whether a connection is open, who subscribes to a session, who is in the
broadcast set, and in which order a teardown empties them.  `Gateway` is shown
to implement it (`ImplementsConnLife`, model-checked and proved), so `ChatRun`
can take its steps instead of those of the whole handshake.

### Gateway and the code

`pc[c]` is the position of the goroutine of connection `c` in
`handleConnection`.  One action is one lock section: `Accept` is
`broadcaster.Add`, `ListPresence` and `ReadVersion` are the two reads in
`BuildSnapshot`, `Announce` is `presenceTracker.Upsert` after hello-ok, the
subscription actions are requests the read loop dispatches, and `TearDown` is
the deferred calls in the order Go runs them: `presence.Remove`,
`hub.CleanupConn`, `broadcaster.Remove`, `conn.Close`.  `LeaveLoop` is every way
out of the loop: a read error, a first frame other than connect, a refused
handshake, a hello-ok that could not be written.  Payloads, frames and
authentication are abstracted into these outcomes.

### ChatRun and the code

A run is one goroutine of `handleChatSend`; `request[r]` is what its `RunEntry`
holds, its id the value of `clock` (wall-clock milliseconds) when the request
was handled, `tracker` the map of `RunTracker`.  `phase[r]` is the position in
`QueryStream` and, after it has returned, in the goroutine's own code:

    asked -> loaded -> streaming -> eof -> checking -> saving -> ended -> done
       \________\__________\________________\-> failed -> reply... -> ended

`writing[r]`/`relay[r]` is the event in the adapter's hands: to the origin
first, then to each subscriber the hub named.  `Between` says that the goroutine
goes on only when its write has returned.  `CtxDone` is the context of the run:
cancelled by chat.abort (`CancelEntry`) or closed with the connection of its
origin.  A failure of the query is one of `SessionMissing`, `BlockInput`,
`NoModel`, `RecvError`, `BlockOutput`; `ClassifyFailure` reads the context once
and `ReplyFailure` tells the origin.

`seen[c][r]` is what was handed to the socket of `c` before it was closed.
Whether the peer reads it is outside the model.

Reductions, each of which only drops interleavings that no property tells
apart: reading the clock, `ensureSession` and `Register` are one step of
`ChatSend`; `SendEvent` to the origin and `GetMessageSubscribers` are one step
of `SendOrigin`; the parallel tools of a model turn write through one writer
(the races between them are planned as a module of their own); delta and tool
events are both "delta" since no property looks at their text.  Database calls
fail when the context is done and may fail before: a lookup of the session ends
the query, a write of a message is only logged (`Persist`).

### CronScheduler and the code

`table[j]` is the row of a job, `due` what is left of the slice in `tick`,
`running` the manager's map, and `exec[e]` an execution of `ExecuteJob`, whether
by a goroutine of the manager or by a worker of the queue:

    reading -> logging -> working -> rescheduling -> closing -> deleting -> returning -> ended
    reading -> returning   (the job is disabled)
    reading -> erring -> ended   (the job is gone, or the read failed)

Each arrow is one database statement (`GetJob`, `CreateRun`, `UpdateNextRun`,
`UpdateRun`, `DeleteJob`) or the payload (`Work`); every statement may fail.
`ReadForEdit` and `SaveEdit` are the two statements of `UpdateJob`, with every
other writer in between.  `Tick`, `SkipRunning` and `Spawn` are the manager's
loop, `TakeTask` a worker's; `FinishSpawned` is the deferred `running.Delete`,
`FinishTask` and `FailTask` what the handler's result makes of the task.
`Restart` is a stop of the process anywhere: memory is lost, rows and queue stay.

`failed` (executions that lost a write or were cut off), `log` (the status of the
run row of the latest execution of each goroutine or worker) and `saved` (the row
the last edit stored) are history or output; no action reads them.

External, modelled from how the code uses it: gorm's `Save` updates the row and,
if that matched none, inserts it over its primary key; an insert replaces a zero
value by the default in the column's tag (`Inserted`); asynq delivers a task at
least once and tries a failed one again.  Left out: `state_json` and the other
columns that decide nothing here; `Reload`, which is a tick at another moment,
and ticks are not tied to the clock; the ten seconds the SQL looks ahead, which
the filter of `LoadDueJobs` takes back.  A context that has expired is a
statement that fails.  Cron expressions are those that match every so many
minutes.

### GatewayClient and the code

Sockets are numbered by `connectGeneration`; `ws` is the current one (0 for
null), `sock[g]` the readyState of each, since events of a socket that was
replaced still arrive.  `plan[g]` follows `sendConnect` through its awaits:

    none -> identity -> signing -> sent -> over
            (SendConnect) (SelectAuth) (PlanReady)  (Hello, Refused, close, stop)

`connectTimer` is one field with two uses, as in the code.  A browser task (an
event of a socket, a timer, a resumed promise) is one step with the promise
reactions that run before the next task.  `Refused` is `handleConnectFailure`
for an error answer, with the errors grouped by what the code tells apart;
`Hello` may be followed by an `onHello` that throws.  `OtherTab` writes the
device token all tabs share, and drops it.  `lastAnswer`, `mismatchRetries` and
`retriesSent` (reconnects after a mismatch, and retries that presented the stored
token, since the last hello) are history.  The storage of the token is external:
`device-auth.ts` names a store that this repository's own build resolves to a stub
(`webui/stubs/shared/device-auth-store.ts`) which keeps nothing; it is modelled as
`gateway.ts` and its tests use it.
Abstracted: delays (a timer fires when it fires), time stamps, sequence gaps,
listeners; a client outside a secure context never reads a stored token.

### ChatQueue and the code

`ui.queue[s]` is `chatQueue` for the visible session and `chatQueueBySession`
for the others, `stored` the copy in session storage that `handleUpdated` makes
of the visible one.  A *flight* is a `sendQueuedChatMessage` that awaits its
request; its `origin` says which caller goes on when it returns (`Continue`:
`sendChatMessageNow`, `flushChatQueue`, `retryQueuedChatMessage`, the reconnect
loop with the sessions it has left).  `Disconnect` and `ReplaceClient` are the
rejections of all flights, which the code takes as recoverable and as failures.
The gateway is external: it accepts or refuses a send, runs it, and ends it,
possibly before the acknowledgement is handled (`settled.overtaken`).
A run is named by its message and the number of the send it belongs to.
`settled` is history: among others, what a restore from storage brought back or
forgot (`restored`), what was in flight when its session was left (`left`), and
what a reload has dropped with it (`dropped`).  Left out: slash commands,
steering, attachments, abort, texts.

### ChatScreen and the code

`screen`, `runId` and `stream` are `chatMessages`, `chatRunId` and `chatStream`
of the host; `load` is the latest chat.history request while it is in flight,
with what `loadChatHistoryUncached` remembers of the moment it was made (the
session, the messages, the run shown), and `version` numbers the requests.
`pipe` holds the requests the gateway has not answered: its read loop takes one
after the other (`Handle`), and writes the answer (`Respond`) to the socket,
`wire`, on which the events of the runs lie between the answers.  The goroutine
of a run writes its rows and events as ChatRun models in detail; here it is
reduced to what reaches the database and the origin:

    started -> asked -> final -> ended
       |         |________|-> failing -> ended      (a notice, then the failure)
       |_________|---------------------> ended

`Acknowledged`, `Event`, `ApplyHistory` and `Cleared` are what the tab does with
an answer or event, each a whole handler: `Event` is `handleChatEvent`, with
`ResolveDelta` for the text of a delta and `Materialized` for the streamed text
an aborted or failed run leaves on the screen; `ApplyHistory` is the part after
the await in `loadChatHistoryUncached`, with `PreserveTail` and `LateTail` for the
messages the transcript lacks.  A transcript is newest first, as chat.history
returns it, and empty or another session's when the gateway could not read
(`HandleChatHistory`).  The rows of another session keep its name on the screen
(`under`), and `lent[s]` remembers which of them the gateway has returned as the
transcript of `s`.  `fresh`, `late`, `seen` and `lent` are history.

Assumed: texts differ, so that a message is named by its run and its part; the
clocks of tab and gateway agree; answers are not empty.  Left out: tools and what
reloads the transcript after them, `sessions.changed`, paging, attachments, steering;
one /clear at a time.  The queue in front of a send is ChatQueue's: here `Send` is
a send that starts.

### ConfigDraft and the code

`tab[t]` holds the fields of `ConfigState` that decide something; `open[t]` the
requests of its connection, served one after the other, the oldest first;
`db` the override table and `runtime` what `ReloadConfig` replaces.  On the
gateway every upsert and every reading of the table is a step, any statement
may fail, and a request begun goes on after its connection broke (`orphans`).
A hash stands for the masked configuration it is computed from.  `took`,
`startHash`, `rebased`, `unsaved` and `disturbed` are history: a key counts as
unsaved from an edit made while nothing was being saved until a submit takes it
along; a submit that fails gives it back, a further edit of it counts anew.  Left out:
the raw editor, the plugin allow-list, schema and validation; a tab is taken
from its first snapshot.

## 3. Runs

The bounds are the smallest at which every hazard named can happen; each is a
CONSTANT.

| Run | Instance | Shows |
|---|---|---|
| `gateway` | 2 connections, 2 sessions, fairness | teardown in every interleaving leaves nothing (`ClosedLeavesNoTrace`, `LeavingEndsClean`), the hub names nobody outside the broadcast set (`SubscribersReachable`), presence is accurate, ConnLife is implemented. Two connections are enough: no lock section involves more than the caller's own entry and the whole map. |
| `chatrun` | 1 run, 2 connections, 1 event, fairness | an origin and a subscriber against every failure, abort and disconnection: the run is answered, what is saved was shown, cancelled it is quiet, aborted or orphaned it ends. The second connection subscribes, leaves and aborts; a run has three kinds of events besides its one delta, enough for an order to be wrong. |
| `chatrun_pair` | 2 runs, 1 connection, 2 clock values | runs with one id and with two: the tracker. |
| `cron` | 1 job, fairness, and one of four budgets: 2 goroutines, "at" or "every", clock to 2, 1 restart; 1 goroutine and 1 worker, "at" or "every", clock to 1, 1 queued run, 1 restart; 1 goroutine and 1 editor, "every" or staggered "cron", clock to 1, 1 restart; 2 goroutines and 1 worker, "at", clock to 1, 1 queued run | `running` is right, runs are closed, a one-shot job is run once, an edit that was saved survives every overlap with an execution and a deletion (`EditsSurvive`), and a due job is executed although reads and writes fail, edits change it and the process restarts (`DueJobsRun`). Two goroutines are needed for a job to be taken twice, and the clock then has a time before, at and after the due time of every schedule; with a worker or an edit in play what matters is the overlap, for which the due time is enough. |
| `gatewayclient` | 1 request, 3 sockets, 1 device token, other tabs that store and drop one, fairness | one live socket, no forgotten request, no stale handshake, the stored token tried once after a mismatch (`StoredTokenTriedOnce`), no silent end. Three sockets are a mismatch, its retry and what follows; all that is compared between sockets is "current" and "not". |
| `chatqueue` | 2 messages, 2 sessions, 1 fault, fairness | a message is lost or doubled only by the restore of a stored queue; order; draining. Two messages are needed for an order, two sessions for a queue out of sight; a fault is a refusal, a lost connection, a replaced client, a reload or an end that overtakes. The sends of a message are not bounded by themselves: each but the first few takes a fault, a restore or a retry after a fault. |
| `chatscreen` | 2 sessions (symmetric), three budgets of messages, deltas, transcripts and faults: 2-2-2-0, 2-1-1-1, 1-2-3-1 | the screen shows only what is for the session selected (its own messages, and what the gateway returned as its transcript), keeps what is new, doubles only late answers, streams whole texts. Two messages are needed for a run of a session out of sight, three transcripts for one that was asked for twice and outdated; a fault is a lost connection, an unread row, a failed run or an abort. The larger budgets 2-1-2-1, 2-2-1-1 and 1-2-3-2 were explored once, without an error; they take too long to repeat. |
| `configdraft` | 2 tabs and 2 keys (symmetric, no key being secret), 2 values, 4 user actions, 2 open requests per tab, 1 fault | edits survive refreshes, a submit names its start, the runtime follows the table. Four actions are two edits and two submits, or an edit, two loads and a submit, in any distribution over the tabs. Two faults were explored once, without an error. |
| `cron_expired`, `gatewayclient_tabs`, `chatqueue_resend`, `config_mask` | as small as the counterexample allows | violated on purpose: section 6. |

`CHECK_DEADLOCK FALSE` is set for the gateway and for chat runs, which stop for
good when the last connection has closed, and for the browser's modules, which
stop when the user does; the scheduler never stops, and its runs
check for deadlock.  Symmetry is used in runs without liveness only.

## 4. Fairness

`Gateway!FairSpec`: deferred calls run once the function has left its loop.
`ChatRun!FairSpec`: goroutines and handlers are scheduled; a connection that
left its loop is torn down; `Recv` returns once the context it was called with
is done (`Running` has `RecvError(r) /\ CtxDone(r)`, not `StreamEvent`,
`RecvEOF` or `RecvError` alone: nothing bounds how long a model service keeps a
stream open).  What this takes from the environment: socket writes return, that
is, a peer that neither reads nor closes is excluded (the code sets no write
deadline; `broadcaster.go:60`, listed as a hazard), tools honour their context,
the Go scheduler is fair.  No fairness is assumed of requests, ticks of the
clock or disconnections.

`CronScheduler!FairSpec`: the manager ticks and takes what it has loaded; an
execution goes on, since every statement and payload returns by the deadline of
its context.  Strong fairness of `ReadSucceeds` per job says that a database
which is asked again and again does answer once; without it every execution may
fail at its first read, and nothing in the code could make a job run.  No
fairness is assumed of the queue's workers, of requests or of the clock.

`GatewayClient!FairSpec`: timers fire, promises resolve, a connecting or closing
socket opens or closes (the browser sees to that), and a request is answered or
its connection breaks.  The last is an assumption about the gateway: the client
has no time-out of its own.  No challenge has to arrive; the fallback timer is
there for that.  That promises resolve excludes a `buildConnectPlan` that rejects
(the browser's key store or WebCrypto failing): nothing in `sendConnect` catches
it (`gateway.ts:885`), so the socket would stay open without a connect request,
until the gateway closes it.  `ChatQueue!FairSpec`: the client reconnects (`NeverStuck` of
GatewayClient), a refresh comes back, the gateway answers sends and ends runs.
`QueueDrains` speaks of the visible session and names the three cases in which
the code holds a queue back.  ChatScreen and ConfigDraft have no liveness and no
fairness.

Some safety properties have exceptions, where the code does on purpose, or always,
what the property would forbid; they say nothing about these cases, and neither
does any other property.  `UnsavedIsDirty` excepts edits made while a submit is under
way, which the load after it discards (`controllers/config.ts:243`).
`SubmitNamesItsStart` excepts a draft that was reset, or that a submit marked as
clean, since its snapshot (`rebased`).  `RuntimeFollowsDb` excepts, through
`disturbed`, overlapping reloads, overrides that could not be read and sets that
failed half-way (`rpc/config.go:269`, `:544`, `:580`): what it does check is a
reload against the upserts of another connection.  `OnlyForThisSession` admits the rows
chat.history itself gave as the transcript of the session selected (section 6).

## 5. Proofs

`GatewayProofs`, `ChatRunProofs` and `GatewayClientProofs` hold for every finite
set of connections, sessions, runs and requests and every value of the bounds
(`GatewayAssumption`, `ConnLifeAssumption`, `ChatRunAssumption`,
`ClientAssumption` are all they assume).  ConfigDraftProofs holds for any tabs,
keys and values (`ConfigAssumption`, `HashAssumption`), ChatScreenProofs for any
sessions and budgets (`BudgetAssumption`), ChatQueueProofs for any messages,
faults and finite set of sessions (`QueueAssumption`), the proofs of the
scheduler for any jobs and schedules (`CronAssumption`).

*Gateway.*  `IInv` adds to `TypeOK` and the three safety invariants where each
structure may hold a connection: the broadcast set exactly between accept and
removal, subscriptions only while ready or until the hub's cleanup, presence
between announcement and removal.  Without it `ClosedLeavesNoTrace` is not
inductive: nothing would keep a connection that is closing from being in the
structure a deferred call has already emptied.  `Implementation` maps the
initial states, then each action to an action of ConnLife or to a stutter
(`RemovePresence`, the presence steps of the handshake).

*ChatRun.*  `IInv == TypeOK /\ RequestInv /\ TrackerMatchesRuns /\ SendInv /\
AnswerInv`.
`RequestInv`: a run has a request exactly when it is not "unused", and runs to
be cancelled were started.  `SendInv`: an event in the adapter's hands belongs to
a phase that can have written it, and is sent on before the goroutine moves.
`AnswerInv` carries the history of an answer across the phases: in "checking" the
final event was written or the context was done, in "saving" it is the last
thing the origin was told, unless the context was done, in which case nothing
will be persisted.  The property to prove speaks of a run whose answer was saved;
the reason lies two phases earlier and is only reachable through the monotonicity
of `CtxDone` (lemma `CtxStable`).  Each action has a lemma that says which of the
five parts it can disturb (`TrackerStep`, `SendStep`, `QueryAnswers`,
`SendAnswers`, `OtherRuns` ...).

`StoryInOrder` counts what a connection was told, which no step can be asked
about by itself.  `StoryInv` says instead, for each connection, which event may
still come (`Coming`, from the event in the adapter's hands, which must fit the
phase: `Due`) and
what may stand where in a view: at most one final, nothing but troubles after it,
no error but among the last two events, no abort but as the last.  Every step of a
query is one of a few moves (`Silent`, `Spoken`), none of which makes an event
come a second time, and every send takes away one that was still to come.  That a
view with its troubles among the last n events has no more than n is a counting
argument about positions, without induction.  `QuietAfterCancel` is an action
property: `StaysQuiet` is shown of every action in turn, with the part of
`StoryInv` that nothing is relayed while an event is still to be written.

*CronScheduler.*  For any finite sets of jobs, goroutines and workers, any valid
schedules (`CronAssumption`), `IInv` is the conjunction of the types, the four
safety properties of the passing runs and two strengthenings.  `RowInv` says
which steps of an execution have read a row.  `OneShotInv` gives the reason for
`OneShotRunsOnce`: an execution whose row is `Clean` (nobody has edited the job)
agrees with the table on deleteAfterRun; when it holds the row no longer, it has
deleted the job or lost a write.  A second goroutine that reads the same job is
therefore impossible: by `RunningMatchesExecutions` the first is at its end, so
the job is deleted and the read does not find it (`ReadKeepsOneShot`).  All other
steps are `TameStep`s, for which one lemma suffices.  Here `OneShotRunsOnce`
depends on `RunningMatchesExecutions`, and neither is inductive without `RowInv`.
`DueJobsRun` is liveness and stays with TLC.

*GatewayClient.*  The five safety properties about the socket are parts of one
`IInv`; none is inductive by itself.  What connects them: the current socket is
the newest (`NewestIsCurrent`), so an event of another one is recognised; no plan
holds another socket's nonce and an open socket does not find one
(`NonceIsOwn`); a socket gets one plan (`PlannedOnce`), so a plan whose answer
came is over for good; and the host was greeted, or an error is remembered, only
if the answer to that plan came (`HostWasGreeted`, `ErrorIsAnswer`).
`IdleOnlyWhenRefused` then follows at the close event, where the remembered error
is the last answer.  Each action has a lemma with a step for each part it can
disturb.

`StoredTokenTriedOnce` needs a second invariant, `RetryIsPaid`: a retry that is
pending was paid from the budget when it was granted and has not been sent; once
sent, it stays paid until the next hello; and a plan that presents the stored
token on the current socket is the pending retry, because `SelectAuth` and
`PlanReady` belong to one socket and nothing grants a retry in between.  It
assumes nothing of other tabs: if one drops the token, the plan presents nothing
and nothing is sent, if one stores another, it is the one tried.  The *number of
reconnects* after a mismatch is not bounded in the same way:
`MismatchRetriedOnce` is violated (run `gatewayclient_tabs`, section 6).

*ConfigDraft.*  From `HashAssumption` (null is not the hash of a configuration),
all four invariants.  `IInv` says what a tab's queue of requests may look like:
only the oldest is being served, the busy flag of a button is held by one submit
or by the load it awaits, and a draft not reset since its snapshot is bound to
it (`Bound`).  `SubmitNamesItsStart` is part of it.  `Pending`
gives the reason for `UnsavedIsDirty`: the keys that count
as unsaved or were taken along differ from what the draft started from, and of
two submits under way only the first has taken any, so when a submit returns and
marks the draft clean, nothing is left; that in turn needs the queue of `IInv`.
`Followed` is the reason for `RuntimeFollowsDb`: a reload has read what the
table still holds for every key it has passed, and while memory and table differ
a submit is at work.  Every step of the gateway is an instance of one lemma each
(`ServedKeeps`, `Served`, `ServedFollowed`).  The first attempt at `Pending`
found a fault in an earlier form of the history variables that needs six user
actions, two more than the run explores.

*ChatScreen.*  All invariants.  `OnlyForThisSession` is not
inductive because a transcript may come for a session left long ago; `IInv` adds
that the load in flight is for the selected session (`LoadInv`) and that a
transcript carrying the current version is of the session of that load, or has
the rows the gateway lent it (`lent`, which only grows), while
those of an older version, whatever is in them, are never applied (`AnswersInv`);
a new request makes all that is on its way outdated at once (`AnswersOutdated`).
`NewMessagesStay` needs the other half of `LoadInv`: the screen is what it was when
the load began, followed by what is fresh, so the condition of `LateTail` on the
unchanged beginning always holds when a transcript is applied and the tail it
keeps is all that came meanwhile.  `StreamIsTheRuns` uses that the snapshot in a
delta is the whole text, whence `ResolveDelta` is right after any gap.  `LateTail`
picks positions (`Pick`) instead of filtering with SelectSeq, which is defined by
recursion; `PickProperties` says that every position picked is there, once, by an
argument over the least number with enough positions up to it.

`DoubledOnlyWhenLate` has an invariant of its own, `OnceInv`, which stands on `IInv`.
A part of a run (its question, answer, partial answer, notice, failure) is named
once for the whole system, and each message on its way is given what it can
bring of them (`Brings`) and what it settles for good (`Settles`: it puts it on the
screen, or nothing can any more).  A part is *out* once its run has gone far
enough (`Since`), which never changes back (`GoesOn`).  `Shows` says that what
is on the screen is out and nothing on the wire or in the pipe brings it;
`Way` keeps that true: of two messages on the wire, and of the wire before the
pipe, the later one never brings what the earlier one settles (`Clean`).  That a
send is acknowledged once comes from `Sends` (its run has not begun, and no other
request sends it), that a transcript has no part twice from `Rows` (a question is
stored when its run leaves "started", an answer when it ends).  `PartialInv`
is the case of a run that fails while its answer streams: what is streamed is
not on the screen as a partial answer already.  What remains are transcripts:
`LateInv` says that all the screen has beyond the beginning of the load in
flight is `late`; `AppliedOnce` shows that what the screen has twice after
`PreserveTail` and `LateTail` was there twice before, or is an answer kept
from the late tail (only an answer has no time stamp, `Stamped`) that the
transcript has as well.  TLC checked `OnceInv` on the configuration of
`chatscreen` before it was proved.

*ChatQueue.*  All four invariants, from one `IInv`.  Its first part (`UiOK`) is
about the record of the host as a parameter, because one task makes up to three
changes of it (a send comes back, its message is marked or removed, the next one
is sent): the lemmas `SendKeeps`, `ShrinkKeeps`, `MarkedKeeps` and `JoinKeeps`
take a record to the next, and `FlushSends`, `RetrySends` and `ContinueSends` say
that whatever a caller does afterwards is one send at most, of a message that
nothing it must not overtake stands before.  The parts: a message is queued and
in flight in the session it was submitted in (`Homes`); one that is being sent
has a flight whose origin allows what stands before it (`SendingOK`, the
strengthening of `SentInOrder`: a flight remembers who began it, and a later
removal or mark can only take something away from before it); a message no
restore has touched has one flight, while it is marked, or none, and is gone from
every queue once acknowledged (`Once`); an accepted send that has not come back
belongs to a run that goes on, or was overtaken (`Numbered`, which the
acknowledgement needs for `SnapsBackOnlyToOvertaken`).  `StoredOK` and `KeptOK`
are about the two copies of a queue: the visible queue is stored as it is but for
what is being sent, and a message of a hidden session is in storage, or was being
sent when its session was left and is still in memory.  Without the second half
`KeptAndSentOnce` is not inductive: nothing would say what is left when that
session is opened again or the page is reloaded.

Two stronger forms of `KeptAndSentOnce` failed on the way.  The queue in memory of
a hidden session need not have what storage has (after a reload it is empty), and
a message in flight when its session was left is not in storage either, even
after its send has been refused or rejected: a reload then loses it.  So the
property exempts what was being sent when its session was last left, and only
once the page has been reloaded.

*Model-checked only:* liveness under fairness (`LeavingEndsClean`, `CutRunsEnd`,
`DueJobsRun`, `NeverStuck`, `QueueDrains`), which like everything with ENABLED is
beyond the prover.  Every invariant and every action property of a passing run
is a theorem.

## 6. Findings

Four runs end in a counterexample; each is a statement of the repository that
the code does not keep.  `PROJECT.json` quotes them.

* `cron_expired` -- an expired one-shot job is due at every tick
  (`cron_service.go:966` with `cron_dao.go:193`).
* `gatewayclient_tabs` -- another tab drops the stored device token
  (`clearDeviceAuthToken`, `gateway.ts:858`) between the grant of the retry and the
  attempt it pays for.  `selectConnectAuth` finds no token, so `sendConnect`
  (`gateway.ts:889`) does not take the retry back, and the close handler
  (`gateway.ts:568`) reconnects after every further mismatch, although the comment at
  `gateway.ts:111-114` promises one bounded retry.  The token is still tried once at
  most (`StoredTokenTriedOnce`); it is the reconnects that have no bound.  The run
  needs a store that keeps tokens (section 2).
* `chatqueue_resend` -- a message that was stored while it waited, and was sent
  since, comes back when its session is opened again and is sent a second time
  (`composer-persistence.ts:474`).
* `config_mask` -- the masked text shown for a secret is stored over the secret
  when the form is saved (`rpc/config.go:70` and `:248`).

More disagreements are steps of the models that no run singles out:

* `ChatSend`: run ids are wall-clock milliseconds and a second entry replaces the
  first; of two runs in one millisecond the first can no longer be aborted
  (`chat.go:70`, against `run_tracker.go:18`).  `TrackerMatchesRuns` says what
  holds instead: every run with an id of its own is in the tracker, for as long as
  it runs.
* `ListPresence`, `ReadVersion`: entries and version of the presence snapshot are
  read in two lock sections; one version can stand for two lists
  (`handshake.go:85`, against `presence.go:9`).
* `Write`: a run aborted between the end of its stream and its done event is
  never answered (`chat_stream.go:86`).
* `ReplyFailure`: failures and aborts are told to the origin only (`chat.go:104`),
  not to the subscribers that saw the run begin.
* `SkipRunning`, `Spawn`: a tick that overlaps with the end of an execution runs
  the job again at once (`cron_manager.go:155`).
* `UpdateNextRun`: an execution overwrites the next run of a schedule that was
  saved while it worked (`cron_service.go:747`).
* `Inserted`: the column enabled is declared with `default:true`
  (`model/cron.go:43`), and gorm replaces a zero value by the default where it
  inserts a row, so a job created as disabled is stored as enabled.
* `SaveEdit`: an update of a job that was deleted meanwhile brings it back
  (`cron_dao.go:73`), as enabled.
* `Refused`: the token dropped is the stored one, not the one
  that was refused (`gateway.ts:858`).
* `Acked`: an acknowledgement handled after the end of its run makes the run
  active again (`app-chat.ts:1104`, against `run-lifecycle.ts:24-27`); and a
  refused send leaves what waits behind it without a trigger (`app-chat.ts:1131`).
* `SwitchSession`, `Reload`: what is being sent when its session is left is not in
  storage, and what becomes of it while the session is hidden is not stored
  either; a refused or rejected message that would wait there to be sent again is
  lost if the page is loaded again first (`composer-persistence.ts:189`,
  `app-lifecycle.ts:231`).
* `RetryLoop`: after a reconnect, waiting messages of hidden sessions keep waiting
  once the first one resent has become the active run (`app-chat.ts:1663`).
* `ReplaceClient`, `Retry`: a send cut off by a replaced client is shown as failed
  though it may have run; sent again it runs twice, since the gateway does not
  look at the idempotency key.
* `HandleChatHistory`: chat.history answers newest first (`chat.go:242`, under a
  comment that says chronological order): a transcript shows an answer above its
  question.
* `HandleChatHistory`: when the session asked for cannot be looked up, chat.history
  answers with the rows of the most recent session (`chat.go:215-225`, "backward
  compatibility"), and the browser shows them under the session that was asked for:
  messages of another conversation are on the screen.  No text of the repository
  says they should not be, so no run singles this out; `OnlyForThisSession` says that
  there is no other way for them to get there.
* `Cleared`: the answer to /clear empties the screen of whichever session is
  selected by then (`app-chat.ts:1969`).
* `Stamped`, `LateTail`: the final event carries no time, so an answer that came
  while a transcript holding it was on its way is shown twice
  (`controllers/chat.ts:250`).
* `PreserveTail`: it looks for the last message of the transcript, which is the
  oldest one since the order is reversed, so the tail it should keep is mostly
  dropped (`controllers/chat.ts:268`).
* `Upsert`: config.set does not look at `baseHash`, and a key removed from the
  form stays stored (`rpc/config.go:248-274`).
* `Reset`: after a refresh of a dirty draft it puts the old original under the new
  hash (`controllers/config.ts:446`).  `SubmitReturns`: edits made during a save
  are replaced by the load that follows (`controllers/config.ts:243`).
* `ReadOverride`: a row that cannot be read is taken as not overridden, and the
  agent silently runs with the default (`rpc/config.go:580`); two reloads at once
  may leave it with a stale configuration.

## 7. Plan

1. *Done:* ConnLife, Gateway, ChatRun, CronScheduler, GatewayClient, ChatQueue,
   ConfigDraft and ChatScreen with their proofs.
2. `ChatStreamAdapter`: parallel tools writing through one adapter, sequence
   numbers against the order of the events, the tool blocks of the final
   message.
3. `Sessions`: `ensureSession`, reset and compaction of a history against the
   runs that write to it.
4. `BroadcastStall`: the lock of the broadcast set, the mutex of a connection
   and a peer that stops reading.
5. ChatQueue and ChatScreen on top of GatewayClient and ChatRun: the gateway's side of a send
   and the end of a connection taken from those modules.
6. Approval; ToolManager and Hub; Nudge; Terminal; retry, rate limiter.
7. The tool streams of the browser, beside ChatScreen.

## 8. Not modelled

CRUD of the administration tables, files, classifiers over text, start-up
wiring: sequential or pure I/O; `PROJECT.json` gives the reason for each part.

The larger part of the TypeScript, well over two thirds of its lines, is
rendering (`app-render.ts`, `views/`, `grouped-render.ts`), translations, styles,
icons and formatting, or controllers that send one request and store the answer.
There is no state machine in it to check.  The Go backend, which carries the
protocols, is where most modules are; on the browser's side the models cover the
four places where events really interleave: the connection, the composer queue,
the conversation on the screen and the configuration draft.  A map that covers only a few percent of the
TypeScript is therefore the honest measure, and widening line ranges would not
make it a better one.

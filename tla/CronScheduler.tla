----------------------------- MODULE CronScheduler -----------------------------
(***************************************************************************)
(* The scheduled jobs of internal/cron.  Three kinds of writers share the  *)
(* rows of the job table without a transaction: the goroutines the manager *)
(* starts at its ticks, the workers of the task queue (asynq) that run a   *)
(* job on demand, and the requests that create, edit and delete jobs.      *)
(* One action is one database statement.  Budgets are the bounds of a      *)
(* behaviour, which keeps to one of them: the goroutines, workers and      *)
(* connections that take part and the schedules that jobs are given, the   *)
(* clock, the tasks of a job that wait in the queue, and restarts.         *)
(***************************************************************************)
EXTENDS Naturals, FiniteSets

CONSTANTS Jobs,        \* job ids (uuids: each is created once)
          Schedules,   \* the CronSchedules jobs are given
          Goroutines,  \* goroutines of the manager that may run at once
          Workers,     \* workers of the task queue
          Editors,     \* connections that may edit jobs at once
          Budgets,     \* bounds of a behaviour, see CronAssumption
          Never,       \* a next_run_at of NULL
          None         \* no row, no edit

Execs == Goroutines \cup Workers

Times == Nat \cup {Never}

ScheduleOK(s) ==
  \/ s.kind = "at" /\ s.at \in Nat
  \/ s.kind = "every" /\ s.period \in Nat \ {0} /\ s.anchor \in Nat
  \/ s.kind = "cron" /\ s.period \in Nat \ {0} /\ s.stagger \in Nat

(* A row of cl_agent_cron_jobs.  What a job does and the state_json shown  *)
(* to the user (last status, durations, errors) decide nothing here.       *)
Rows == [alive : BOOLEAN, enabled : BOOLEAN, deleteAfterRun : BOOLEAN,
         schedule : Schedules, nextRun : Times]

ASSUME CronAssumption ==
         /\ \A s \in Schedules : ScheduleOK(s)
         /\ IsFiniteSet(Jobs) /\ IsFiniteSet(Execs)
         /\ Goroutines \cap Workers = {}
         /\ Budgets \subseteq [actors : SUBSET (Execs \cup Editors),
                                schedules : SUBSET Schedules,
                                time : Nat, queued : Nat, restarts : Nat]
         /\ Never \notin Nat
         /\ None \notin Rows
         /\ None \notin [job : Jobs, row : Rows]

VARIABLES now,      \* time.Now()
          table,    \* the job rows
          due,      \* jobs the manager's tick has loaded and not yet looked at
          running,  \* Manager.running
          exec,     \* each execution: where it is in ExecuteJob, its job and the
                    \* row it read
          failed,   \* executions that lost a database write or were cut off
          log,      \* the status of the run row of each execution
          queue,    \* tasks waiting per job
          edit,     \* the row each UpdateJob has read and patched
          saved,    \* the row the last UpdateJob of a job has stored (history)
          budget,   \* bounds: the budget of the behaviour
          restarts  \* bounds: the restarts so far

execVars == <<exec, failed, log>>
vars == <<now, table, due, running, execVars, queue, edit, saved, budget, restarts>>

Steps == {"idle", "reading", "logging", "working", "rescheduling", "closing",
          "deleting", "returning", "erring", "ended"}

TypeOK == /\ now \in Nat
          /\ table \in [Jobs -> Rows \cup {None}]
          /\ due \subseteq Jobs
          /\ running \subseteq Jobs
          /\ exec \in [Execs -> [pc : Steps, job : Jobs \cup {None},
                                 row : Rows \cup {None}]]
          /\ failed \subseteq Execs
          /\ log \in [Execs -> {"none", "running", "finished"}]
          /\ queue \in [Jobs -> Nat]
          /\ edit \in [Editors -> [job : Jobs, row : Rows] \cup {None}]
          /\ saved \in [Jobs -> Rows \cup {None}]
          /\ budget \in Budgets /\ restarts \in Nat

Init == /\ now = 0
        /\ table = [j \in Jobs |-> None]
        /\ due = {}
        /\ running = {}
        /\ exec = [e \in Execs |-> [pc |-> "idle", job |-> None, row |-> None]]
        /\ failed = {}
        /\ log = [e \in Execs |-> "none"]
        /\ queue = [j \in Jobs |-> 0]
        /\ edit = [u \in Editors |-> None]
        /\ saved = [j \in Jobs |-> None]
        /\ budget \in Budgets /\ restarts = 0

-------------------------------------------------------------------------------
(* computeNextRun.  The cron expressions are those that match every so     *)
(* many minutes; the stagger is random.                                    *)
NextMultiple(origin, period, t) == origin + ((t - origin) \div period + 1) * period

NextRuns(s, t) ==
  CASE s.kind = "at"    -> IF s.at >= t THEN {s.at} ELSE {Never}
    [] s.kind = "every" -> IF s.anchor = 0 THEN {t + s.period}
                           ELSE IF t < s.anchor THEN {s.anchor}
                           ELSE {NextMultiple(s.anchor, s.period, t)}
    [] s.kind = "cron"  -> {NextMultiple(0, s.period, t)}
                           \cup {NextMultiple(0, s.period, t) + k : k \in 1 .. s.stagger - 1}

(* GetJob finds a row that is not soft-deleted.                            *)
Found(j) == table[j] # None /\ table[j].alive

(* LoadEnabledJobs and the filter of LoadDueJobs.                          *)
Due(j) == /\ Found(j)
          /\ table[j].enabled
          /\ table[j].nextRun = Never \/ table[j].nextRun <= now

-------------------------------------------------------------------------------
(* Requests.  Where gorm inserts a row it replaces the zero value of a     *)
(* column by the column's default: a job is inserted as enabled.           *)
Inserted(row) == [row EXCEPT !.enabled = TRUE]

CreateJob(j, s, enabled, deleteAfterRun) ==
  /\ table[j] = None
  /\ \E n \in NextRuns(s, now) :
       table' = [table EXCEPT ![j] = Inserted(
                   [alive |-> TRUE, enabled |-> enabled, schedule |-> s,
                    deleteAfterRun |-> deleteAfterRun, nextRun |-> n])]
  /\ UNCHANGED <<now, due, running, execVars, queue, edit, saved, budget, restarts>>

DeleteJob(j) ==
  /\ Found(j)
  /\ table' = [table EXCEPT ![j].alive = FALSE]
  /\ UNCHANGED <<now, due, running, execVars, queue, edit, saved, budget, restarts>>

(* UpdateJob reads the row and patches its copy; a new schedule gets a new *)
(* next run, anything else leaves the next run as read.                    *)
Rescheduled(row) == UNION {{[row EXCEPT !.schedule = s, !.nextRun = n] :
                              n \in NextRuns(s, now)} : s \in budget.schedules}

ReadForEdit(u, j) ==
  /\ u \in budget.actors
  /\ edit[u] = None
  /\ Found(j)
  /\ \E row \in {table[j]} \cup Rescheduled(table[j]), b, d \in BOOLEAN :
       edit' = [edit EXCEPT ![u] =
                  [job |-> j, row |-> [row EXCEPT !.enabled = b, !.deleteAfterRun = d]]]
  /\ UNCHANGED <<now, table, due, running, execVars, queue, saved, budget, restarts>>

(* Save updates every column; if the row was deleted since and nothing was *)
(* updated, gorm inserts the row instead, over the deleted one.            *)
SaveEdit(u) ==
  /\ edit[u] # None
  /\ LET j == edit[u].job
         row == IF Found(j) THEN edit[u].row ELSE Inserted(edit[u].row)
     IN  /\ table' = [table EXCEPT ![j] = row]
         /\ saved' = [saved EXCEPT ![j] = row]
  /\ edit' = [edit EXCEPT ![u] = None]
  /\ UNCHANGED <<now, due, running, execVars, queue, budget, restarts>>

LoseEdit(u) ==
  /\ edit[u] # None
  /\ edit' = [edit EXCEPT ![u] = None]
  /\ UNCHANGED <<now, table, due, running, execVars, queue, saved, budget, restarts>>

RunJob(j) ==
  /\ Found(j)
  /\ table[j].enabled
  /\ queue[j] < budget.queued
  /\ queue' = [queue EXCEPT ![j] = @ + 1]
  /\ UNCHANGED <<now, table, due, running, execVars, edit, saved, budget, restarts>>

-------------------------------------------------------------------------------
(* The manager.  A tick, of the ticker or of Reload, loads the due jobs in *)
(* one query, then takes them one by one, starting a goroutine for those   *)
(* that are not in running.                                                *)
Tick ==
  /\ due = {}
  /\ due' = {j \in Jobs : Due(j)}
  /\ UNCHANGED <<now, table, running, execVars, queue, edit, saved, budget, restarts>>

SkipRunning(j) ==
  /\ j \in due \cap running
  /\ due' = due \ {j}
  /\ UNCHANGED <<now, table, running, execVars, queue, edit, saved, budget, restarts>>

Begin(e, j) ==
  /\ exec[e].pc \in {"idle", "ended"}
  /\ exec' = [exec EXCEPT ![e] = [pc |-> "reading", job |-> j, row |-> None]]
  /\ failed' = failed \ {e}
  /\ log' = [log EXCEPT ![e] = "none"]

Spawn(g, j) ==
  /\ j \in due \ running /\ g \in budget.actors
  /\ due' = due \ {j}
  /\ running' = running \cup {j}
  /\ Begin(g, j)
  /\ UNCHANGED <<now, table, queue, edit, saved, budget, restarts>>

(* A worker takes a task: nothing asks whether the job is running.         *)
TakeTask(w, j) ==
  /\ queue[j] > 0 /\ w \in budget.actors
  /\ queue' = [queue EXCEPT ![j] = @ - 1]
  /\ Begin(w, j)
  /\ UNCHANGED <<now, table, due, running, edit, saved, budget, restarts>>

-------------------------------------------------------------------------------
(* ExecuteJob.  Any of its reads and writes may fail, as all do once its   *)
(* context is done (five minutes after the start, or when the process is   *)
(* stopping); a failed write is logged and the execution goes on.          *)
Goto(e, from, to) == /\ exec[e].pc = from
                     /\ exec' = [exec EXCEPT ![e].pc = to]

Rest == <<now, due, queue, edit, saved, budget, restarts>>

Lost(e) == /\ failed' = failed \cup {e}
           /\ UNCHANGED <<table, log>>

(* (Mutant: GetJob finds soft-deleted rows, too.)                          *)
ReadSucceedsUnscoped(e) ==
  /\ exec[e].pc = "reading"
  /\ table[exec[e].job] # None /\ table[exec[e].job].enabled
  /\ exec' = [exec EXCEPT ![e].pc = "logging", ![e].row = table[exec[e].job]]
  /\ UNCHANGED <<table, running, failed, log, Rest>>

ReadSucceeds(e) ==
  /\ exec[e].pc = "reading"
  /\ Found(exec[e].job) /\ table[exec[e].job].enabled
  /\ exec' = [exec EXCEPT ![e].pc = "logging", ![e].row = table[exec[e].job]]
  /\ UNCHANGED <<table, running, failed, log, Rest>>

(* Not enabled: nothing to do, and no error.                               *)
ReadDisabled(e) ==
  /\ Goto(e, "reading", "returning")
  /\ Found(exec[e].job) /\ ~table[exec[e].job].enabled
  /\ UNCHANGED <<table, running, failed, log, Rest>>

ReadFails(e) ==
  /\ Goto(e, "reading", "erring")
  /\ UNCHANGED <<table, running, failed, log, Rest>>

CreateRun(e) ==
  /\ Goto(e, "logging", "working")
  /\ \/ /\ log' = [log EXCEPT ![e] = "running"]
        /\ UNCHANGED <<table, failed>>
     \/ Lost(e)
  /\ UNCHANGED <<running, Rest>>

(* executePayload, which may end in any status, and computeNextRun for the *)
(* schedule that was read before it.                                       *)
Work(e) ==
  /\ exec[e].pc = "working"
  /\ \E n \in NextRuns(exec[e].row.schedule, now) :
       exec' = [exec EXCEPT ![e].pc = "rescheduling", ![e].row.nextRun = n]
  /\ UNCHANGED <<table, running, failed, log, Rest>>

(* Mutant: the whole row is saved, as UpdateJob does.                      *)
UpdateNextRunSave(e) ==
  /\ Goto(e, "rescheduling", "closing")
  /\ \/ /\ table' = IF Found(exec[e].job)
                    THEN [table EXCEPT ![exec[e].job] = exec[e].row]
                    ELSE table
        /\ UNCHANGED <<log, failed>>
     \/ Lost(e)
  /\ UNCHANGED <<running, Rest>>

UpdateNextRun(e) ==
  /\ Goto(e, "rescheduling", "closing")
  /\ \/ /\ table' = IF Found(exec[e].job)
                    THEN [table EXCEPT ![exec[e].job].nextRun = exec[e].row.nextRun]
                    ELSE table
        /\ UNCHANGED <<log, failed>>
     \/ Lost(e)
  /\ UNCHANGED <<running, Rest>>

(* Mutant: the run row is not closed when the job is gone.                 *)
UpdateRunOfJob(e) ==
  /\ Goto(e, "closing", "deleting")
  /\ \/ /\ log' = IF Found(exec[e].job) THEN [log EXCEPT ![e] = "finished"] ELSE log
        /\ UNCHANGED <<table, failed>>
     \/ Lost(e)
  /\ UNCHANGED <<running, Rest>>

UpdateRun(e) ==
  /\ Goto(e, "closing", "deleting")
  /\ \/ /\ log' = [log EXCEPT ![e] = "finished"]
        /\ UNCHANGED <<table, failed>>
     \/ Lost(e)
  /\ UNCHANGED <<running, Rest>>

KeepJob(e) ==
  /\ Goto(e, "deleting", "returning")
  /\ ~exec[e].row.deleteAfterRun
  /\ UNCHANGED <<table, running, failed, log, Rest>>

DeleteAfterRun(e) ==
  /\ Goto(e, "deleting", "returning")
  /\ exec[e].row.deleteAfterRun
  /\ \/ /\ table' = IF Found(exec[e].job)
                    THEN [table EXCEPT ![exec[e].job].alive = FALSE]
                    ELSE table
        /\ UNCHANGED <<log, failed>>
     \/ Lost(e)
  /\ UNCHANGED <<running, Rest>>

(* Mutant: running.Delete is not deferred, and an error returns before it. *)
FinishSpawnedOnSuccess(g) ==
  /\ \E from \in {"returning", "erring"} :
       /\ Goto(g, from, "ended")
       /\ running' = IF from = "erring" THEN running ELSE running \ {exec[g].job}
  /\ UNCHANGED <<table, failed, log, Rest>>

(* The goroutine's deferred running.Delete.                                *)
FinishSpawned(g) ==
  /\ \E from \in {"returning", "erring"} : Goto(g, from, "ended")
  /\ running' = running \ {exec[g].job}
  /\ UNCHANGED <<table, failed, log, Rest>>

(* Mutant: the queue is told twice that the task is done.                  *)
FinishTaskTwice(w) ==
  /\ Goto(w, "returning", "ended")
  /\ queue' = [queue EXCEPT ![exec[w].job] = @ - 1]
  /\ UNCHANGED <<now, table, due, running, failed, log, edit, saved, budget, restarts>>

(* The handler's result: nil acknowledges the task, an error has it tried  *)
(* again until its retries are used up.                                    *)
FinishTask(w) ==
  /\ Goto(w, "returning", "ended")
  /\ UNCHANGED <<table, running, failed, log, Rest>>

FailTask(w) ==
  /\ Goto(w, "erring", "ended")
  /\ queue' = queue \/ queue' = [queue EXCEPT ![exec[w].job] = @ + 1]
  /\ UNCHANGED <<now, table, due, running, failed, log, edit, saved, budget, restarts>>

-------------------------------------------------------------------------------
Active(e) == exec[e].pc \notin {"idle", "ended"}

Advance ==
  /\ now < budget.time
  /\ now' = now + 1
  /\ UNCHANGED <<table, due, running, execVars, queue, edit, saved, budget, restarts>>

(* The process is killed and started again.  The tables and the queue are  *)
(* kept; a task that was being worked on may be delivered again.           *)
Restart ==
  /\ restarts < budget.restarts
  /\ restarts' = restarts + 1
  /\ due' = {}
  /\ running' = {}
  /\ exec' = [e \in Execs |-> IF Active(e) THEN [exec[e] EXCEPT !.pc = "ended"]
                              ELSE exec[e]]
  /\ failed' = failed \cup {e \in Execs : Active(e)}
  /\ edit' = [u \in Editors |-> None]
  /\ \E again \in SUBSET {w \in Workers : Active(w)} :
       queue' = [j \in Jobs |-> queue[j] + Cardinality({w \in again : exec[w].job = j})]
  /\ UNCHANGED <<now, table, log, saved, budget>>

Execute(e) ==
  \/ ReadSucceeds(e) \/ ReadDisabled(e) \/ ReadFails(e) \/ CreateRun(e) \/ Work(e)
  \/ UpdateNextRun(e) \/ UpdateRun(e) \/ KeepJob(e) \/ DeleteAfterRun(e)

Finish(e) == \/ e \in Goroutines /\ FinishSpawned(e)
             \/ e \in Workers /\ (FinishTask(e) \/ FailTask(e))

Take(j) == SkipRunning(j) \/ \E g \in Goroutines : Spawn(g, j)

Request(j) ==
  \/ \E s \in budget.schedules, b, d \in BOOLEAN : CreateJob(j, s, b, d)
  \/ DeleteJob(j)
  \/ RunJob(j)
  \/ \E u \in Editors : ReadForEdit(u, j)

Next == \/ \E j \in Jobs : Request(j) \/ Take(j) \/ \E w \in Workers : TakeTask(w, j)
        \/ \E u \in Editors : SaveEdit(u) \/ LoseEdit(u)
        \/ \E e \in Execs : Execute(e) \/ Finish(e)
        \/ Tick \/ Advance \/ Restart

Spec == Init /\ [][Next]_vars

(* The manager keeps ticking and takes what it loaded; executions go on    *)
(* (a payload has five minutes); a database read that is tried again and   *)
(* again succeeds at last.                                                 *)
Fairness == /\ WF_vars(Tick)
            /\ \A j \in Jobs :
                 /\ WF_vars(Take(j))
                 /\ SF_vars(\E g \in Goroutines : exec[g].job = j /\ ReadSucceeds(g))
            /\ \A e \in Execs : WF_vars(Execute(e) \/ Finish(e))

FairSpec == Spec /\ Fairness

-------------------------------------------------------------------------------
(* The manager never executes a job twice at once, and never leaves a job  *)
(* marked as running that it does not execute: a mark that stayed would    *)
(* keep the job from ever running again.                                   *)
RunningMatchesExecutions ==
  \A j \in Jobs :
     LET mine == {g \in Goroutines : Active(g) /\ exec[g].job = j}
     IN  /\ j \in running <=> mine # {}
         /\ \A g, h \in mine : g = h

(* A run row says "running" only while its execution has still to close it,*)
(* unless the execution lost a write or was cut off.                       *)
RunsAreClosed ==
  \A e \in Execs :
     log[e] = "running" /\ exec[e].pc \notin {"working", "rescheduling", "closing"}
        => e \in failed

(* The execution read an enabled job and has done what the job is for.     *)
Worked(e) == /\ exec[e].row # None
             /\ exec[e].pc \in {"rescheduling", "closing", "deleting", "returning",
                                "ended"}

(* A job that is to be deleted after its run is run once by the manager,   *)
(* although the due list may be older than the end of its run: unless that *)
(* run lost a write, or somebody edited the job.                           *)
OneShotRunsOnce ==
  \A g, h \in Goroutines :
     /\ g # h
     /\ Worked(g) /\ Worked(h)
     /\ exec[g].job = exec[h].job
     /\ exec[g].row.deleteAfterRun
     => saved[exec[g].job] # None \/ failed \cap {g, h} # {}

(* What a user has set by an edit stays until the next edit: an execution  *)
(* that read the row before it writes none of it back.                     *)
EditsSurvive ==
  \A j \in Jobs :
     saved[j] # None
        => /\ table[j].enabled = saved[j].enabled
           /\ table[j].deleteAfterRun = saved[j].deleteAfterRun
           /\ table[j].schedule = saved[j].schedule

(* An enabled job whose time has come is executed by the manager, unless   *)
(* its row changes first.                                                  *)
DueJobsRun ==
  \A j \in Jobs :
     Due(j) ~> \/ ~Due(j)
               \/ \E g \in Goroutines : exec[g].job = j /\ exec[g].pc = "working"

-------------------------------------------------------------------------------
(* cron_service.go on an "at" job whose time has passed: it "has expired   *)
(* and is no longer scheduled".  No tick takes up such a job.              *)
ExpiredJobsRest ==
  \A j \in due : table[j].nextRun = Never => table[j].schedule.kind # "at"
===============================================================================

------------------------------- MODULE CronProofs ------------------------------
(***************************************************************************)
(* Theorems about CronScheduler, for any finite sets of jobs, goroutines   *)
(* and workers and any schedules.  The invariant is in six parts: types,   *)
(* which steps of an execution have read a row, the three safety           *)
(* properties, and OneShotInv, the reason why a job that is deleted after  *)
(* its run does not run again.                                             *)
(***************************************************************************)
EXTENDS CronScheduler, FiniteSetTheorems, TLAPS

HoldingSteps == {"logging", "working", "rescheduling", "closing", "deleting"}

RowInv == \A e \in Execs : /\ exec[e].pc # "idle" => exec[e].job \in Jobs
                           /\ exec[e].pc \in HoldingSteps => exec[e].row # None

EditInv == (\A j \in Jobs : saved[j] # None => table[j] # None) /\ EditsSurvive

(* An execution that has a row agrees with the table on deleteAfterRun; one*)
(* that has one and holds it no longer has deleted the job; and two        *)
(* goroutines never both have one of the same job.                         *)
Clean(e) == exec[e].row # None /\ saved[exec[e].job] = None

OneShotInv ==
  /\ \A e \in Execs :
       Clean(e) => /\ exec[e].job \in Jobs
                   /\ table[exec[e].job] # None
                   /\ exec[e].row.deleteAfterRun = table[exec[e].job].deleteAfterRun
  /\ \A e \in Execs :
       /\ Clean(e) /\ e \notin failed /\ exec[e].row.deleteAfterRun
       /\ exec[e].pc \notin HoldingSteps
       => ~table[exec[e].job].alive
  /\ \A g, h \in Goroutines :
       /\ g # h /\ exec[g].job = exec[h].job
       /\ Clean(g) /\ Clean(h) /\ exec[g].row.deleteAfterRun
       => g \in failed \/ h \in failed

IInv == /\ TypeOK /\ RowInv /\ RunningMatchesExecutions /\ RunsAreClosed
        /\ EditInv /\ OneShotInv

-------------------------------------------------------------------------------
(* computeNextRun returns a time or NULL.                                  *)
LEMMA NextRunsType ==
  ASSUME NEW s \in Schedules, NEW t \in Nat
  PROVE  NextRuns(s, t) \subseteq Times
<1>1. ScheduleOK(s)
  BY CronAssumption
<1>2. CASE s.kind = "at"
  BY <1>1, <1>2 DEF NextRuns, Times, ScheduleOK
<1>3. ASSUME NEW o \in Nat, NEW p \in Nat \ {0}, o <= t
      PROVE  NextMultiple(o, p, t) \in Nat
  <2> DEFINE q == (t - o) \div p + 1
  <2>1. q \in Nat
    BY <1>3, SMT
  <2>2. q * p \in Nat
    BY <2>1, SMT
  <2> QED
    BY <2>2, SMT DEF NextMultiple
<1>4. CASE s.kind = "every"
  <2>1. s.period \in Nat \ {0} /\ s.anchor \in Nat
    BY <1>1, <1>4 DEF ScheduleOK
  <2>2. ~(t < s.anchor) => NextMultiple(s.anchor, s.period, t) \in Nat
    BY <1>3, <2>1
  <2> QED
    BY <2>1, <2>2, <1>4 DEF NextRuns, Times
<1>5. CASE s.kind = "cron"
  <2>1. s.period \in Nat \ {0} /\ s.stagger \in Nat
    BY <1>1, <1>5 DEF ScheduleOK
  <2>2. NextMultiple(0, s.period, t) \in Nat
    BY <1>3, <2>1
  <2>3. NextRuns(s, t) = {NextMultiple(0, s.period, t)} \cup
          {NextMultiple(0, s.period, t) + k : k \in 1 .. s.stagger - 1}
    BY <1>5 DEF NextRuns
  <2> HIDE DEF NextMultiple
  <2> QED
    BY <2>1, <2>2, <2>3 DEF Times
<1> QED
  BY <1>1, <1>2, <1>4, <1>5 DEF ScheduleOK

(* The schedules a behaviour uses are schedules.                           *)
LEMMA SchedulesUsed == TypeOK => budget.schedules \subseteq Schedules
  BY CronAssumption DEF TypeOK

(* UpdateJob's copy of a row is a row.                                     *)
LEMMA RescheduledType ==
  ASSUME NEW row \in Rows, now \in Nat, TypeOK
  PROVE  Rescheduled(row) \subseteq Rows
<1> SUFFICES ASSUME NEW r \in Rescheduled(row)
             PROVE  r \in Rows
  OBVIOUS
<1>1. ASSUME NEW s \in Schedules, NEW n \in NextRuns(s, now)
      PROVE  [row EXCEPT !.schedule = s, !.nextRun = n] \in Rows
  <2>1. n \in Times
    BY <1>1, NextRunsType
  <2> QED
    BY <2>1 DEF Rows
<1>2. PICK s \in budget.schedules : \E n \in NextRuns(s, now) :
        r = [row EXCEPT !.schedule = s, !.nextRun = n]
  BY Zenon DEF Rescheduled
<1> QED
  BY <1>1, <1>2, SchedulesUsed

(* A row that is inserted is a row, and differs in no more than enabled.   *)
LEMMA InsertedType ==
  ASSUME NEW row \in Rows
  PROVE  /\ Inserted(row) \in Rows
         /\ Inserted(row).deleteAfterRun = row.deleteAfterRun
BY DEF Inserted, Rows

(* What SaveEdit writes.                                                   *)
LEMMA SavedRow ==
  ASSUME TypeOK, NEW u \in Editors, SaveEdit(u)
  PROVE  \E j \in Jobs, row \in Rows : /\ table' = [table EXCEPT ![j] = row]
                                       /\ saved' = [saved EXCEPT ![j] = row]
<1>1. edit[u].job \in Jobs /\ edit[u].row \in Rows
  BY DEF SaveEdit, TypeOK
<1> DEFINE row == IF Found(edit[u].job) THEN edit[u].row ELSE Inserted(edit[u].row)
<1>2. row \in Rows
  BY <1>1, InsertedType
<1>3. /\ table' = [table EXCEPT ![edit[u].job] = row]
      /\ saved' = [saved EXCEPT ![edit[u].job] = row]
  BY DEF SaveEdit
<1> HIDE DEF row
<1> QED
  BY <1>1, <1>2, <1>3

LEMMA InitIInv == Init => IInv
BY CronAssumption DEF Init, IInv, TypeOK, RowInv, RunningMatchesExecutions, RunsAreClosed,
   EditInv, EditsSurvive, OneShotInv, Clean, HoldingSteps, Active, Steps, Execs

-------------------------------------------------------------------------------
(* Every step keeps the types.                                             *)
LEMMA TypeStep == IInv /\ [Next]_vars => TypeOK'
<1> SUFFICES ASSUME IInv, [Next]_vars PROVE TypeOK'
  OBVIOUS
<1> USE DEF IInv, Rest, execVars
<1> DEFINE Recs == [pc : Steps, job : Jobs \cup {None}, row : Rows \cup {None}]
<1>0. now \in Nat /\ exec \in [Execs -> Recs] /\ table \in [Jobs -> Rows \cup {None}]
  BY DEF TypeOK
<1>1. CASE UNCHANGED vars
  BY <1>1 DEF TypeOK, vars
<1>2. ASSUME NEW j \in Jobs, Request(j)
      PROVE  TypeOK'
  <2>1. ASSUME NEW s \in Schedules, NEW b \in BOOLEAN, NEW d \in BOOLEAN,
               CreateJob(j, s, b, d)
        PROVE  TypeOK'
    <3>1. PICK n \in NextRuns(s, now) :
            table' = [table EXCEPT ![j] = Inserted(
                        [alive |-> TRUE, enabled |-> b, schedule |-> s,
                         deleteAfterRun |-> d, nextRun |-> n])]
      BY <2>1 DEF CreateJob
    <3>2. n \in Times
      BY <3>1, <1>0, NextRunsType
    <3>3. [alive |-> TRUE, enabled |-> b, schedule |-> s,
           deleteAfterRun |-> d, nextRun |-> n] \in Rows
      BY <3>2 DEF Rows
    <3>4. table' \in [Jobs -> Rows \cup {None}]
      BY <3>1, <3>3, <1>0, InsertedType
    <3> QED
      BY <2>1, <3>4 DEF CreateJob, TypeOK
  <2>2. CASE DeleteJob(j)
    <3>1. table[j] \in Rows
      BY <2>2, <1>0 DEF DeleteJob, Found
    <3>2. [table[j] EXCEPT !.alive = FALSE] \in Rows
      BY <3>1 DEF Rows
    <3> QED
      BY <2>2, <3>2 DEF DeleteJob, TypeOK
  <2>3. CASE RunJob(j)
    BY <2>3 DEF RunJob, TypeOK
  <2>4. ASSUME NEW u \in Editors, ReadForEdit(u, j)
        PROVE  TypeOK'
    <3>1. table[j] \in Rows
      BY <2>4, <1>0 DEF ReadForEdit, Found
    <3>2. PICK row \in {table[j]} \cup Rescheduled(table[j]) : \E b, d \in BOOLEAN :
            edit' = [edit EXCEPT ![u] =
              [job |-> j, row |-> [row EXCEPT !.enabled = b, !.deleteAfterRun = d]]]
      BY <2>4 DEF ReadForEdit
    <3>3. row \in Rows
      BY <3>1, <3>2, <1>0, RescheduledType
    <3>4. ASSUME NEW b \in BOOLEAN, NEW d \in BOOLEAN
          PROVE  [row EXCEPT !.enabled = b, !.deleteAfterRun = d] \in Rows
      BY <3>3 DEF Rows
    <3>5. edit' \in [Editors -> [job : Jobs, row : Rows] \cup {None}]
      <4>1. PICK b \in BOOLEAN, d \in BOOLEAN :
              edit' = [edit EXCEPT ![u] =
                [job |-> j, row |-> [row EXCEPT !.enabled = b, !.deleteAfterRun = d]]]
        BY <3>2
      <4>2. [row EXCEPT !.enabled = b, !.deleteAfterRun = d] \in Rows
        BY <3>4
      <4> QED
        BY <4>1, <4>2 DEF TypeOK
    <3> QED
      BY <2>4, <3>5 DEF ReadForEdit, TypeOK
  <2> QED
    BY <1>2, <2>1, <2>2, <2>3, <2>4, SchedulesUsed DEF Request
<1>3. ASSUME NEW j \in Jobs, Take(j) \/ \E w \in Workers : TakeTask(w, j)
      PROVE  TypeOK'
  BY <1>3 DEF Take, SkipRunning, Spawn, TakeTask, Begin, TypeOK, Steps, Execs
<1>4. ASSUME NEW u \in Editors, SaveEdit(u) \/ LoseEdit(u)
      PROVE  TypeOK'
  <2>1. CASE SaveEdit(u)
    <3>1. PICK j \in Jobs, row \in Rows : /\ table' = [table EXCEPT ![j] = row]
                                         /\ saved' = [saved EXCEPT ![j] = row]
      BY <2>1, SavedRow
    <3> QED
      BY <2>1, <3>1 DEF SaveEdit, TypeOK
  <2>2. CASE LoseEdit(u)
    BY <2>2 DEF LoseEdit, TypeOK
  <2> QED
    BY <1>4, <2>1, <2>2
<1>5. ASSUME NEW e \in Execs, Execute(e)
      PROVE  TypeOK'
  <2>1. CASE ReadSucceeds(e)
    <3>1. table[exec[e].job] \in Rows
      BY <2>1, <1>0 DEF ReadSucceeds, Found, RowInv
    <3>2. exec' \in [Execs -> Recs]
      BY <2>1, <3>1, <1>0 DEF ReadSucceeds, Steps
    <3> QED
      BY <2>1, <3>2 DEF ReadSucceeds, TypeOK
  <2>2. CASE ReadDisabled(e) \/ ReadFails(e) \/ KeepJob(e)
    BY <2>2 DEF ReadDisabled, ReadFails, KeepJob, Goto, TypeOK, Steps
  <2>3. CASE CreateRun(e) \/ UpdateRun(e)
    BY <2>3 DEF CreateRun, UpdateRun, Lost, Goto, TypeOK, Steps
  <2>4. CASE Work(e)
    <3>1. exec[e].row \in Rows
      BY <2>4, <1>0 DEF Work, RowInv, HoldingSteps
    <3>2. PICK n \in NextRuns(exec[e].row.schedule, now) :
            exec' = [exec EXCEPT ![e].pc = "rescheduling", ![e].row.nextRun = n]
      BY <2>4 DEF Work
    <3>3. n \in Times
      BY <3>1, <3>2, <1>0, NextRunsType DEF Rows
    <3>4. [exec[e].row EXCEPT !.nextRun = n] \in Rows
      BY <3>1, <3>3 DEF Rows
    <3>5. exec' \in [Execs -> Recs]
      BY <3>2, <3>4, <1>0 DEF Steps
    <3> QED
      BY <2>4, <3>5 DEF Work, TypeOK
  <2>5. CASE UpdateNextRun(e)
    <3>1. exec[e].row.nextRun \in Times
      BY <2>5, <1>0 DEF UpdateNextRun, Goto, RowInv, HoldingSteps, Rows
    <3>2. ASSUME Found(exec[e].job)
          PROVE  [table EXCEPT ![exec[e].job].nextRun = exec[e].row.nextRun]
                    \in [Jobs -> Rows \cup {None}]
      <4>1. CASE exec[e].job \in Jobs
        <5>1. table[exec[e].job] \in Rows
          BY <3>2, <4>1, <1>0 DEF Found
        <5>2. [table[exec[e].job] EXCEPT !.nextRun = exec[e].row.nextRun] \in Rows
          BY <5>1, <3>1 DEF Rows
        <5> QED
          BY <5>2, <1>0
      <4>2. CASE exec[e].job \notin Jobs
        BY <4>2, <1>0
      <4> QED
        BY <4>1, <4>2
    <3>3. table' \in [Jobs -> Rows \cup {None}]
      BY <2>5, <3>2, <1>0 DEF UpdateNextRun, Lost
    <3> QED
      BY <2>5, <3>3 DEF UpdateNextRun, Lost, Goto, TypeOK, Steps
  <2>6. CASE DeleteAfterRun(e)
    <3>1. ASSUME Found(exec[e].job)
          PROVE  [table EXCEPT ![exec[e].job].alive = FALSE] \in [Jobs -> Rows \cup {None}]
      <4>1. CASE exec[e].job \in Jobs
        <5>1. table[exec[e].job] \in Rows
          BY <3>1, <4>1, <1>0 DEF Found
        <5>2. [table[exec[e].job] EXCEPT !.alive = FALSE] \in Rows
          BY <5>1 DEF Rows
        <5> QED
          BY <5>2, <1>0
      <4>2. CASE exec[e].job \notin Jobs
        BY <4>2, <1>0
      <4> QED
        BY <4>1, <4>2
    <3>2. table' \in [Jobs -> Rows \cup {None}]
      BY <2>6, <3>1, <1>0 DEF DeleteAfterRun, Lost
    <3> QED
      BY <2>6, <3>2 DEF DeleteAfterRun, Lost, Goto, TypeOK, Steps
  <2> QED
    BY <1>5, <2>1, <2>2, <2>3, <2>4, <2>5, <2>6 DEF Execute
<1>6. ASSUME NEW e \in Execs, Finish(e)
      PROVE  TypeOK'
  BY <1>6 DEF Finish, FinishSpawned, FinishTask, FailTask, Goto, TypeOK, Steps
<1>7. CASE Tick \/ Advance
  BY <1>7 DEF Tick, Advance, TypeOK
<1>8. CASE Restart
  <2>1. PICK again \in SUBSET {w \in Workers : Active(w)} :
          queue' = [j \in Jobs |->
                      queue[j] + Cardinality({w \in again : exec[w].job = j})]
    BY <1>8 DEF Restart
  <2>2. IsFiniteSet(again)
    BY CronAssumption, FS_Subset DEF Execs
  <2>3. \A j \in Jobs : Cardinality({w \in again : exec[w].job = j}) \in Nat
    BY <2>2, FS_Subset, FS_CardinalityType
  <2>4. queue' \in [Jobs -> Nat]
    BY <2>1, <2>3 DEF TypeOK
  <2>5. exec' \in [Execs -> Recs]
    BY <1>8, <1>0 DEF Restart, Steps
  <2>6. restarts' \in Nat
    BY <1>8 DEF Restart, TypeOK
  <2> QED
    BY <1>8, <2>4, <2>5, <2>6 DEF Restart, TypeOK
<1> QED
  BY <1>1, <1>2, <1>3, <1>4, <1>5, <1>6, <1>7, <1>8 DEF Next

-------------------------------------------------------------------------------
(* What a step is to the executions.                                       *)
LEMMA StepKinds ==
  ASSUME [Next]_vars
  PROVE  \/ UNCHANGED <<exec, running, failed, log>>
         \/ \E j \in Jobs : \/ \E g \in Goroutines : Spawn(g, j)
                           \/ \E w \in Workers : TakeTask(w, j)
         \/ \E e \in Execs : Execute(e)
         \/ \E e \in Execs : Finish(e)
         \/ Restart
<1>1. ASSUME NEW j \in Jobs, Request(j) \/ SkipRunning(j)
      PROVE  UNCHANGED <<exec, running, failed, log>>
  BY <1>1 DEF Request, CreateJob, DeleteJob, RunJob, ReadForEdit, SkipRunning, execVars
<1>2. ASSUME NEW u \in Editors, SaveEdit(u) \/ LoseEdit(u)
      PROVE  UNCHANGED <<exec, running, failed, log>>
  BY <1>2 DEF SaveEdit, LoseEdit, execVars
<1>3. UNCHANGED vars \/ Tick \/ Advance => UNCHANGED <<exec, running, failed, log>>
  BY DEF vars, Tick, Advance, execVars
<1> QED
  BY <1>1, <1>2, <1>3, Zenon DEF Next, Take

(* An execution that is past the read of its row has a job and a row.      *)
LEMMA RowStep == IInv /\ [Next]_vars => RowInv'
<1> SUFFICES ASSUME IInv, [Next]_vars PROVE RowInv'
  OBVIOUS
<1> USE DEF IInv, TypeOK, RowInv, HoldingSteps
<1>0. exec \in [Execs -> [pc : Steps, job : Jobs \cup {None}, row : Rows \cup {None}]]
  OBVIOUS
<1>1. CASE UNCHANGED <<exec, running, failed, log>>
  BY <1>1
<1>2. ASSUME NEW j \in Jobs, NEW e \in Execs, Begin(e, j)
      PROVE  RowInv'
  BY <1>2 DEF Begin
<1>3. ASSUME NEW e \in Execs, Execute(e)
      PROVE  RowInv'
  <2>1. CASE ReadSucceeds(e)
    BY <2>1 DEF ReadSucceeds, Found
  <2>2. CASE Work(e)
    <3>1. exec[e].row \in Rows
      BY <2>2 DEF Work
    <3>2. PICK n \in NextRuns(exec[e].row.schedule, now) :
            exec' = [exec EXCEPT ![e].pc = "rescheduling", ![e].row.nextRun = n]
      BY <2>2 DEF Work
    <3>3. [exec[e].row EXCEPT !.nextRun = n] # None
      <4>1. n \in Times
        BY <3>1, <3>2, NextRunsType DEF Rows
      <4>2. [exec[e].row EXCEPT !.nextRun = n] \in Rows
        BY <3>1, <4>1 DEF Rows
      <4> QED
        BY <4>2, CronAssumption
    <3> QED
      BY <2>2, <3>2, <3>3 DEF Work
  <2>3. CASE ~ReadSucceeds(e) /\ ~Work(e)
    <3>1. PICK from, to \in Steps : /\ Goto(e, from, to) /\ from # "idle"
                                    /\ to \in HoldingSteps => from \in HoldingSteps
      BY <1>3, <2>3 DEF Execute, ReadDisabled, ReadFails, CreateRun, UpdateNextRun,
         UpdateRun, KeepJob, DeleteAfterRun, Steps
    <3>2. exec[e].pc = from /\ exec' = [exec EXCEPT ![e].pc = to]
      BY <3>1 DEF Goto
    <3>3. /\ exec'[e].pc = to /\ exec'[e].job = exec[e].job /\ exec'[e].row = exec[e].row
          /\ \A x \in Execs : x # e => exec'[x] = exec[x]
      BY <3>2, <1>0
    <3>4. /\ exec[e].job \in Jobs
          /\ to \in HoldingSteps => exec[e].row # None
      BY <3>1, <3>2
    <3>5. \A x \in Execs : /\ exec'[x].pc # "idle" => exec'[x].job \in Jobs
                           /\ exec'[x].pc \in HoldingSteps => exec'[x].row # None
      BY <3>3, <3>4
    <3> QED
      BY <3>5
  <2> QED
    BY <2>1, <2>2, <2>3
<1>4. ASSUME NEW e \in Execs, Finish(e)
      PROVE  RowInv'
  BY <1>4 DEF Finish, FinishSpawned, FinishTask, FailTask, Goto
<1>5. CASE Restart
  BY <1>5 DEF Restart, Active
<1> QED
  BY <1>1, <1>2, <1>3, <1>4, <1>5, StepKinds DEF Spawn, TakeTask, Execs

(* Every step keeps the manager's marks right.  A mark is set where a      *)
(* goroutine starts and removed where it ends, whatever happens between.   *)
LEMMA RunningStep == IInv /\ [Next]_vars => RunningMatchesExecutions'
<1> SUFFICES ASSUME IInv, [Next]_vars PROVE RunningMatchesExecutions'
  OBVIOUS
<1> USE DEF IInv, TypeOK, RunningMatchesExecutions, Active
<1>1. CASE UNCHANGED <<exec, running, failed, log>>
  BY <1>1
<1>2. ASSUME NEW j \in Jobs, NEW g \in Goroutines, Spawn(g, j)
      PROVE  RunningMatchesExecutions'
  BY <1>2 DEF Spawn, Begin, Execs
<1>3. ASSUME NEW j \in Jobs, NEW w \in Workers, TakeTask(w, j)
      PROVE  RunningMatchesExecutions'
  BY <1>3, CronAssumption DEF TakeTask, Begin, Execs
<1>4. ASSUME NEW e \in Execs, Execute(e)
      PROVE  RunningMatchesExecutions'
  <2>1. /\ running' = running
        /\ \A g \in Execs : exec'[g].job = exec[g].job /\ (Active(g)' <=> Active(g))
    BY <1>4 DEF Execute, ReadSucceeds, ReadDisabled, ReadFails, CreateRun, Work,
       UpdateNextRun, UpdateRun, KeepJob, DeleteAfterRun, Goto
  <2> QED
    BY <2>1 DEF Execs
<1>5. ASSUME NEW g \in Goroutines, FinishSpawned(g)
      PROVE  RunningMatchesExecutions'
  <2>1. /\ Active(g) /\ ~Active(g)' /\ running' = running \ {exec[g].job}
        /\ \A h \in Goroutines : /\ exec'[h].job = exec[h].job
                                 /\ h # g => (Active(h)' <=> Active(h))
    BY <1>5 DEF FinishSpawned, Goto, Execs
  <2>2. \A h \in Goroutines : Active(h) /\ exec[h].job = exec[g].job => h = g
    BY <2>1 DEF RowInv, Execs
  <2> QED
    BY <2>1, <2>2
<1>6. ASSUME NEW w \in Workers, FinishTask(w) \/ FailTask(w)
      PROVE  RunningMatchesExecutions'
  <2>1. running' = running /\ \A h \in Goroutines : exec'[h] = exec[h]
    BY <1>6, CronAssumption DEF FinishTask, FailTask, Goto, Execs, Rest
  <2> QED
    BY <2>1
<1>7. CASE Restart
  <2>1. running' = {} /\ \A g \in Goroutines : exec'[g].pc \in {"idle", "ended"}
    BY <1>7 DEF Restart, Execs
  <2> QED
    BY <2>1
<1> QED
  BY <1>1, <1>2, <1>3, <1>4, <1>5, <1>6, <1>7, StepKinds DEF Finish

(* Every step keeps the promise of the run rows.                           *)
LEMMA LogStep == IInv /\ [Next]_vars => RunsAreClosed'
<1> SUFFICES ASSUME IInv, [Next]_vars PROVE RunsAreClosed'
  OBVIOUS
<1> USE DEF IInv, TypeOK, RunsAreClosed
<1>1. CASE UNCHANGED <<exec, running, failed, log>>
  BY <1>1
<1>2. ASSUME NEW j \in Jobs, NEW e \in Execs, Begin(e, j)
      PROVE  RunsAreClosed'
  BY <1>2 DEF Begin
<1>3. ASSUME NEW e \in Execs, Execute(e)
      PROVE  RunsAreClosed'
  BY <1>3 DEF Execute, ReadSucceeds, ReadDisabled, ReadFails, CreateRun, Work,
     UpdateNextRun, UpdateRun, KeepJob, DeleteAfterRun, Goto, Lost
<1>4. ASSUME NEW e \in Execs, Finish(e)
      PROVE  RunsAreClosed'
  BY <1>4 DEF Finish, FinishSpawned, FinishTask, FailTask, Goto
<1>5. CASE Restart
  BY <1>5 DEF Restart, Active
<1> QED
  BY <1>1, <1>2, <1>3, <1>4, <1>5, StepKinds DEF Spawn, TakeTask, Execs
-------------------------------------------------------------------------------
(* What a step is to the job rows.                                         *)
LEMMA TableKinds ==
  ASSUME TypeOK, [Next]_vars
  PROVE  \/ UNCHANGED <<table, saved>>
         \/ \E j \in Jobs, s \in Schedules, b, d \in BOOLEAN : CreateJob(j, s, b, d)
         \/ \E j \in Jobs : DeleteJob(j)
         \/ \E u \in Editors : SaveEdit(u)
         \/ \E e \in Execs : UpdateNextRun(e) \/ DeleteAfterRun(e)
<1>1. ASSUME NEW j \in Jobs, \/ RunJob(j) \/ Take(j)
                             \/ \E u \in Editors : ReadForEdit(u, j)
                             \/ \E w \in Workers : TakeTask(w, j)
      PROVE  UNCHANGED <<table, saved>>
  BY <1>1 DEF RunJob, Take, SkipRunning, Spawn, ReadForEdit, TakeTask
<1>2. ASSUME NEW u \in Editors, LoseEdit(u)
      PROVE  UNCHANGED <<table, saved>>
  BY <1>2 DEF LoseEdit
<1>3. ASSUME NEW e \in Execs, \/ ReadSucceeds(e) \/ ReadDisabled(e) \/ ReadFails(e)
                              \/ CreateRun(e) \/ Work(e) \/ UpdateRun(e) \/ KeepJob(e)
                              \/ Finish(e)
      PROVE  UNCHANGED <<table, saved>>
  BY <1>3 DEF ReadSucceeds, ReadDisabled, ReadFails, CreateRun, Work, UpdateRun, KeepJob,
     Finish, FinishSpawned, FinishTask, FailTask, Lost, Rest
<1>4. UNCHANGED vars \/ Tick \/ Advance \/ Restart => UNCHANGED <<table, saved>>
  BY DEF vars, Tick, Advance, Restart
<1>5. ASSUME NEW j \in Jobs, \E s \in budget.schedules, b, d \in BOOLEAN : CreateJob(j, s, b, d)
      PROVE  \E s \in Schedules, b, d \in BOOLEAN : CreateJob(j, s, b, d)
  BY <1>5, SchedulesUsed, Zenon
<1> QED
  BY <1>1, <1>2, <1>3, <1>4, <1>5, Zenon DEF Next, Request, Execute

(* An edit that was saved stays as it is.  The statements of an execution  *)
(* write single columns that no edit sets, and no job is created twice.    *)
LEMMA EditStep == IInv /\ [Next]_vars => EditInv'
<1> SUFFICES ASSUME IInv, [Next]_vars PROVE EditInv'
  OBVIOUS
<1> USE DEF IInv, TypeOK, EditInv, EditsSurvive, Rest
<1>0. \A r \in Rows : r # None
  BY CronAssumption
<1>1. CASE UNCHANGED <<table, saved>>
  BY <1>1
<1>2. ASSUME NEW j \in Jobs, NEW s \in Schedules, NEW b \in BOOLEAN, NEW d \in BOOLEAN,
             CreateJob(j, s, b, d)
      PROVE  EditInv'
  <2>1. /\ saved' = saved /\ saved[j] = None
        /\ \A i \in Jobs : i # j => table'[i] = table[i]
    BY <1>2 DEF CreateJob
  <2> QED
    BY <2>1
<1>3. ASSUME NEW u \in Editors, SaveEdit(u)
      PROVE  EditInv'
  <2>1. PICK j \in Jobs, row \in Rows : /\ table' = [table EXCEPT ![j] = row]
                                       /\ saved' = [saved EXCEPT ![j] = row]
    BY <1>3, SavedRow
  <2> QED
    BY <1>0, <2>1
<1>4. ASSUME NEW j \in Jobs, Found(j), saved' = saved,
             \/ table' = [table EXCEPT ![j].alive = FALSE]
             \/ \E n \in Times : table' = [table EXCEPT ![j].nextRun = n]
      PROVE  EditInv'
  <2>1. table[j] \in Rows
    BY <1>4 DEF Found
  <2>2. /\ table'[j].enabled = table[j].enabled
        /\ table'[j].deleteAfterRun = table[j].deleteAfterRun
        /\ table'[j].schedule = table[j].schedule
        /\ \A i \in Jobs : i # j => table'[i] = table[i]
    BY <1>4, <2>1 DEF Rows
  <2>3. table'[j] \in Rows
    <3>1. CASE table' = [table EXCEPT ![j].alive = FALSE]
      <4>1. [table[j] EXCEPT !.alive = FALSE] \in Rows
        BY <2>1 DEF Rows
      <4> QED
        BY <3>1, <4>1
    <3>2. ASSUME NEW n \in Times, table' = [table EXCEPT ![j].nextRun = n]
          PROVE  table'[j] \in Rows
      <4>1. [table[j] EXCEPT !.nextRun = n] \in Rows
        BY <2>1 DEF Rows
      <4> QED
        BY <3>2, <4>1
    <3> QED
      BY <1>4, <3>1, <3>2
  <2> QED
    BY <1>0, <1>4, <2>2, <2>3
<1>5. ASSUME NEW e \in Execs, UpdateNextRun(e) \/ DeleteAfterRun(e), table' # table
      PROVE  EditInv'
  <2>1. exec[e].job \in Jobs /\ exec[e].row \in Rows
    BY <1>5 DEF UpdateNextRun, DeleteAfterRun, Goto, RowInv, HoldingSteps
  <2>2. Found(exec[e].job) /\ saved' = saved
    BY <1>5 DEF UpdateNextRun, DeleteAfterRun, Lost
  <2>3. exec[e].row.nextRun \in Times
    BY <2>1 DEF Rows
  <2>4. \/ table' = [table EXCEPT ![exec[e].job].alive = FALSE]
        \/ table' = [table EXCEPT ![exec[e].job].nextRun = exec[e].row.nextRun]
    BY <1>5 DEF UpdateNextRun, DeleteAfterRun, Lost
  <2> QED
    BY <1>4, <2>1, <2>2, <2>3, <2>4
<1>6. ASSUME NEW j \in Jobs, DeleteJob(j)
      PROVE  EditInv'
  <2>1. /\ Found(j) /\ saved' = saved
        /\ table' = [table EXCEPT ![j].alive = FALSE]
    BY <1>6 DEF DeleteJob
  <2> QED
    BY <1>4, <2>1
<1>7. ASSUME NEW e \in Execs, UpdateNextRun(e) \/ DeleteAfterRun(e)
      PROVE  saved' = saved
  BY <1>7 DEF UpdateNextRun, DeleteAfterRun
<1> QED
  BY <1>1, <1>2, <1>3, <1>5, <1>6, <1>7, TableKinds, Zenon
-------------------------------------------------------------------------------
(* OneShotInv is kept by every step that gives no execution a row, edits   *)
(* no job, brings none back, and lets an execution let go of its row only  *)
(* when the job is deleted, is to be kept, or the execution has failed.    *)
TameStep ==
  /\ saved' = saved /\ failed \subseteq failed'
  /\ \A e \in Execs :
       /\ exec'[e].job = exec[e].job
       /\ exec'[e].row # None => exec[e].row # None
       /\ Clean(e) => /\ exec'[e].row.deleteAfterRun = exec[e].row.deleteAfterRun
                      /\ exec[e].pc \in HoldingSteps /\ exec'[e].pc \notin HoldingSteps
                           => \/ e \in failed' \/ ~exec[e].row.deleteAfterRun
                              \/ ~table'[exec[e].job].alive
  /\ \A j \in Jobs :
       table[j] # None => /\ table'[j] # None
                          /\ table'[j].deleteAfterRun = table[j].deleteAfterRun
                          /\ ~table[j].alive => ~table'[j].alive

LEMMA TameKeepsOneShot == OneShotInv /\ TameStep => OneShotInv'
<1> SUFFICES ASSUME OneShotInv, TameStep PROVE OneShotInv'
  OBVIOUS
<1> USE DEF TameStep
<1>1. ASSUME NEW e \in Execs, Clean(e)'
      PROVE  /\ Clean(e) /\ exec[e].job \in Jobs /\ table[exec[e].job] # None
             /\ exec'[e].job = exec[e].job
             /\ exec'[e].row.deleteAfterRun = exec[e].row.deleteAfterRun
             /\ exec[e].row.deleteAfterRun = table[exec[e].job].deleteAfterRun
  <2>1. Clean(e)
    BY <1>1 DEF Clean
  <2> QED
    BY <2>1 DEF OneShotInv
<1>2. ASSUME NEW e \in Execs, Clean(e)'
      PROVE  /\ exec'[e].job \in Jobs
             /\ table'[exec'[e].job] # None
             /\ exec'[e].row.deleteAfterRun = table'[exec'[e].job].deleteAfterRun
  BY <1>1, <1>2
<1>3. ASSUME NEW e \in Execs, Clean(e)', e \notin failed', exec'[e].row.deleteAfterRun,
             exec'[e].pc \notin HoldingSteps
      PROVE  ~table'[exec'[e].job].alive
  <2>1. /\ Clean(e) /\ exec[e].job \in Jobs /\ table[exec[e].job] # None
        /\ exec'[e].job = exec[e].job /\ exec[e].row.deleteAfterRun /\ e \notin failed
    BY <1>1, <1>3
  <2>2. CASE exec[e].pc \in HoldingSteps
    BY <1>3, <2>1, <2>2
  <2>3. CASE exec[e].pc \notin HoldingSteps
    <3>1. ~table[exec[e].job].alive
      BY <2>1, <2>3 DEF OneShotInv
    <3> QED
      BY <2>1, <3>1
  <2> QED
    BY <2>2, <2>3
<1>4. ASSUME NEW g \in Goroutines, NEW h \in Goroutines, g # h,
             exec'[g].job = exec'[h].job, Clean(g)', Clean(h)',
             exec'[g].row.deleteAfterRun
      PROVE  g \in failed' \/ h \in failed'
  <2>1. g \in Execs /\ h \in Execs
    BY DEF Execs
  <2>2. /\ Clean(g) /\ Clean(h) /\ exec[g].row.deleteAfterRun
        /\ exec[g].job = exec[h].job
    BY <1>1, <1>4, <2>1
  <2>3. g \in failed \/ h \in failed
    BY <1>4, <2>2 DEF OneShotInv
  <2> QED
    BY <2>3
<1> QED
  BY <1>2, <1>3, <1>4 DEF OneShotInv

(* An execution that reads a one-shot job which another goroutine has read *)
(* before it finds that one at its end, and without the deletion it made   *)
(* or lost.                                                                *)
LEMMA ReadKeepsOneShot ==
  ASSUME IInv, NEW e \in Execs, ReadSucceeds(e)
  PROVE  OneShotInv'
<1> USE DEF IInv, TypeOK, Rest
<1> DEFINE j == exec[e].job
<1>1. j \in Jobs /\ Found(j) /\ exec[e].pc = "reading"
  BY DEF ReadSucceeds, RowInv
<1>2. /\ exec'[e].job = j /\ exec'[e].row = table[j] /\ exec'[e].pc = "logging"
      /\ \A x \in Execs : x # e => exec'[x] = exec[x]
      /\ UNCHANGED <<table, saved, failed>>
  BY DEF ReadSucceeds
<1>3. \A x \in Execs : x # e => (Clean(x)' <=> Clean(x))
  BY <1>2 DEF Clean
<1>4. ASSUME NEW x \in Goroutines, e \in Goroutines, x # e, exec[x].job = j, Clean(x),
             table[j].deleteAfterRun
      PROVE  x \in failed
  <2>1. x \in Execs
    BY DEF Execs
  <2>2. exec[x].row.deleteAfterRun
    BY <1>4, <2>1 DEF OneShotInv
  <2>3. ~Active(x)
    BY <1>1, <1>4 DEF RunningMatchesExecutions, Active
  <2>4. exec[x].pc \notin HoldingSteps
    BY <2>3 DEF Active, HoldingSteps
  <2> QED
    BY <1>1, <1>4, <2>1, <2>2, <2>4 DEF OneShotInv, Found
<1>5. ASSUME NEW x \in Execs, Clean(x)'
      PROVE  /\ exec'[x].job \in Jobs
             /\ table'[exec'[x].job] # None
             /\ exec'[x].row.deleteAfterRun = table'[exec'[x].job].deleteAfterRun
  <2>1. CASE x = e
    BY <1>1, <1>2, <2>1 DEF Found
  <2>2. CASE x # e
    BY <1>2, <1>3, <1>5, <2>2 DEF OneShotInv
  <2> QED
    BY <2>1, <2>2
<1>6. ASSUME NEW x \in Execs, Clean(x)', x \notin failed', exec'[x].row.deleteAfterRun,
             exec'[x].pc \notin HoldingSteps
      PROVE  ~table'[exec'[x].job].alive
  <2>1. x # e
    BY <1>2, <1>6 DEF HoldingSteps
  <2> QED
    BY <1>2, <1>3, <1>6, <2>1 DEF OneShotInv
<1>7. ASSUME NEW g \in Goroutines, NEW h \in Goroutines, g # h,
             exec'[g].job = exec'[h].job, Clean(g)', Clean(h)',
             exec'[g].row.deleteAfterRun
      PROVE  g \in failed' \/ h \in failed'
  <2>1. g \in Execs /\ h \in Execs
    BY DEF Execs
  <2>2. CASE g = e
    BY <1>2, <1>3, <1>4, <1>7, <2>1, <2>2
  <2>3. CASE h = e
    <3>1. exec[g].job = j /\ Clean(g) /\ exec[g].row.deleteAfterRun
      BY <1>2, <1>3, <1>7, <2>1, <2>3
    <3>2. table[j].deleteAfterRun
      BY <3>1, <2>1 DEF OneShotInv
    <3> QED
      BY <1>2, <1>4, <1>7, <2>3, <3>1, <3>2
  <2>4. CASE g # e /\ h # e
    BY <1>2, <1>3, <1>7, <2>1, <2>4 DEF OneShotInv
  <2> QED
    BY <2>2, <2>3, <2>4
<1> QED
  BY <1>5, <1>6, <1>7 DEF OneShotInv

(* Every step keeps OneShotInv.                                            *)
LEMMA OneShotStep == IInv /\ [Next]_vars => OneShotInv'
<1> SUFFICES ASSUME IInv, [Next]_vars PROVE OneShotInv'
  OBVIOUS
<1> USE DEF IInv, TypeOK, Rest
<1>0. /\ \A r \in Rows : r # None
      /\ \A e \in Execs : exec[e].pc \in HoldingSteps =>
                             exec[e].job \in Jobs /\ exec[e].row \in Rows
  BY CronAssumption DEF RowInv, HoldingSteps
(* Requests.                                                               *)
<1>1. ASSUME NEW j \in Jobs, NEW s \in Schedules, NEW b \in BOOLEAN, NEW d \in BOOLEAN,
             CreateJob(j, s, b, d)
      PROVE  TameStep
  BY <1>1 DEF CreateJob, TameStep, execVars
<1>2. ASSUME NEW j \in Jobs, DeleteJob(j)
      PROVE  TameStep
  <2>1. /\ table[j] \in Rows /\ UNCHANGED <<exec, failed, saved>>
        /\ table' = [table EXCEPT ![j].alive = FALSE]
    BY <1>2 DEF DeleteJob, Found, execVars
  <2>2. [table[j] EXCEPT !.alive = FALSE] \in Rows
    BY <2>1 DEF Rows
  <2>3. table'[j].deleteAfterRun = table[j].deleteAfterRun /\ ~table'[j].alive
    BY <2>1 DEF Rows
  <2> QED
    BY <1>0, <2>1, <2>2, <2>3 DEF TameStep
<1>3. ASSUME NEW u \in Editors, SaveEdit(u)
      PROVE  OneShotInv'
  <2>1. UNCHANGED <<exec, failed>>
    BY <1>3 DEF SaveEdit, execVars
  <2>2. PICK j \in Jobs, row \in Rows : /\ table' = [table EXCEPT ![j] = row]
                                       /\ saved' = [saved EXCEPT ![j] = row]
    BY <1>3, SavedRow
  <2>3. ASSUME NEW e \in Execs, Clean(e)'
        PROVE  /\ Clean(e) /\ exec'[e] = exec[e] /\ exec[e].job \in Jobs
               /\ table'[exec[e].job] = table[exec[e].job]
    <3>1. exec[e].job # j /\ Clean(e)
      BY <1>0, <2>1, <2>2, <2>3 DEF Clean
    <3>2. exec[e].job \in Jobs
      BY <3>1 DEF OneShotInv
    <3> QED
      BY <2>1, <2>2, <3>1, <3>2
  <2>4. \A e \in Execs : e \in failed <=> e \in failed'
    BY <2>1
  <2>5. \A g \in Goroutines : g \in Execs
    BY DEF Execs
  <2> QED
    BY <2>3, <2>4, <2>5 DEF OneShotInv
(* The start of an execution, which has no row yet.                        *)
<1>4. ASSUME NEW j \in Jobs, NEW e \in Execs, Begin(e, j), UNCHANGED <<table, saved>>
      PROVE  OneShotInv'
  <2>1. exec'[e].row = None /\ \A x \in Execs : x # e => exec'[x] = exec[x]
    BY <1>4 DEF Begin
  <2>2. failed' = failed \ {e} /\ UNCHANGED <<table, saved>>
    BY <1>4 DEF Begin
  <2>3. ASSUME NEW x \in Execs, Clean(x)'
        PROVE  Clean(x) /\ exec'[x] = exec[x] /\ (x \in failed <=> x \in failed')
    BY <2>1, <2>2, <2>3 DEF Clean
  <2>4. \A g \in Goroutines : g \in Execs
    BY DEF Execs
  <2> QED
    BY <2>2, <2>3, <2>4 DEF OneShotInv
(* The steps of an execution after its read.                               *)
<1>5. ASSUME NEW e \in Execs, Execute(e), ~ReadSucceeds(e)
      PROVE  TameStep
  <2>1. ASSUME UNCHANGED <<table, saved>>, failed \subseteq failed',
               NEW from, NEW to, Goto(e, from, to),
               \/ to \in HoldingSteps
               \/ from \notin HoldingSteps
               \/ ~exec[e].row.deleteAfterRun
               \/ e \in failed'
        PROVE  TameStep
    <3>1. /\ exec'[e].pc = to /\ exec[e].pc = from
          /\ exec'[e].job = exec[e].job /\ exec'[e].row = exec[e].row
          /\ \A x \in Execs : x # e => exec'[x] = exec[x]
      BY <2>1 DEF Goto
    <3> QED
      BY <2>1, <3>1 DEF TameStep
  <2>2. CASE ReadDisabled(e) \/ ReadFails(e)
    BY <2>1, <2>2 DEF ReadDisabled, ReadFails, HoldingSteps
  <2>3. CASE CreateRun(e) \/ UpdateRun(e)
    BY <2>1, <2>3 DEF CreateRun, UpdateRun, Lost, HoldingSteps
  <2>4. CASE KeepJob(e)
    BY <2>1, <2>4 DEF KeepJob
  <2>5. CASE Work(e)
    <3>1. PICK n : exec' = [exec EXCEPT ![e].pc = "rescheduling", ![e].row.nextRun = n]
      BY <2>5 DEF Work
    <3>2. exec[e].row \in Rows
      BY <1>0, <2>5 DEF Work, HoldingSteps
    <3>3. /\ exec'[e].job = exec[e].job /\ exec'[e].pc = "rescheduling"
          /\ exec'[e].row.deleteAfterRun = exec[e].row.deleteAfterRun
          /\ \A x \in Execs : x # e => exec'[x] = exec[x]
      BY <3>1, <3>2 DEF Rows
    <3>4. UNCHANGED <<table, saved, failed>>
      BY <2>5 DEF Work
    <3> QED
      BY <1>0, <3>2, <3>3, <3>4 DEF TameStep, HoldingSteps
  <2>6. CASE UpdateNextRun(e)
    <3>1. /\ exec[e].job \in Jobs /\ exec[e].row.nextRun \in Times
          /\ Goto(e, "rescheduling", "closing")
      BY <1>0, <2>6 DEF UpdateNextRun, Goto, HoldingSteps, Rows
    <3>2. CASE UNCHANGED table
      BY <2>1, <2>6, <3>1, <3>2 DEF UpdateNextRun, Lost, HoldingSteps
    <3>3. CASE ~UNCHANGED table
      <4>1. /\ table' = [table EXCEPT ![exec[e].job].nextRun = exec[e].row.nextRun]
            /\ table[exec[e].job] \in Rows /\ UNCHANGED <<failed, saved>>
        BY <2>6, <3>1, <3>3 DEF UpdateNextRun, Lost, Found
      <4>2. [table[exec[e].job] EXCEPT !.nextRun = exec[e].row.nextRun] \in Rows
        BY <3>1, <4>1 DEF Rows
      <4>3. /\ table'[exec[e].job] # None
            /\ table'[exec[e].job].deleteAfterRun = table[exec[e].job].deleteAfterRun
            /\ table'[exec[e].job].alive = table[exec[e].job].alive
            /\ \A j \in Jobs : j # exec[e].job => table'[j] = table[j]
        BY <1>0, <3>1, <4>1, <4>2 DEF Rows
      <4>4. /\ exec'[e].pc = "closing"
            /\ exec'[e].job = exec[e].job /\ exec'[e].row = exec[e].row
            /\ \A x \in Execs : x # e => exec'[x] = exec[x]
        BY <3>1 DEF Goto
      <4> QED
        BY <4>1, <4>3, <4>4 DEF TameStep, HoldingSteps
    <3> QED
      BY <3>2, <3>3
  <2>7. CASE DeleteAfterRun(e)
    <3>1. exec[e].job \in Jobs /\ Goto(e, "deleting", "returning")
      BY <1>0, <2>7 DEF DeleteAfterRun, Goto, HoldingSteps
    <3>2. CASE Lost(e)
      BY <2>1, <2>7, <3>1, <3>2 DEF DeleteAfterRun, Lost
    <3>3. CASE ~Lost(e)
      <4>1. /\ UNCHANGED <<failed, saved>>
            /\ table' = IF Found(exec[e].job)
                        THEN [table EXCEPT ![exec[e].job].alive = FALSE]
                        ELSE table
        BY <2>7, <3>3 DEF DeleteAfterRun
      <4>2. Clean(e) => table[exec[e].job] # None
        BY DEF OneShotInv
      <4>3. /\ \A j \in Jobs :
                 table[j] # None
                   => /\ table'[j] # None
                      /\ table'[j].deleteAfterRun = table[j].deleteAfterRun
                      /\ ~table[j].alive => ~table'[j].alive
            /\ Clean(e) => ~table'[exec[e].job].alive
        <5>1. CASE ~Found(exec[e].job)
          BY <4>1, <4>2, <5>1 DEF Found
        <5>2. CASE Found(exec[e].job)
          <6>1. table[exec[e].job] \in Rows
            BY <3>1, <5>2 DEF Found
          <6>2. [table[exec[e].job] EXCEPT !.alive = FALSE] \in Rows
            BY <6>1 DEF Rows
          <6>3. /\ table'[exec[e].job] # None
                /\ table'[exec[e].job].deleteAfterRun = table[exec[e].job].deleteAfterRun
                /\ ~table'[exec[e].job].alive
                /\ \A j \in Jobs : j # exec[e].job => table'[j] = table[j]
            BY <1>0, <3>1, <4>1, <5>2, <6>1, <6>2 DEF Rows
          <6> QED
            BY <6>3
        <5> QED
          BY <5>1, <5>2
      <4>4. /\ exec'[e].job = exec[e].job /\ exec'[e].row = exec[e].row
            /\ \A x \in Execs : x # e => exec'[x] = exec[x]
        BY <3>1 DEF Goto
      <4> QED
        BY <4>1, <4>3, <4>4 DEF TameStep
    <3> QED
      BY <3>2, <3>3
  <2> QED
    BY <1>5, <2>2, <2>3, <2>4, <2>5, <2>6, <2>7 DEF Execute
<1>6. ASSUME NEW e \in Execs, Finish(e)
      PROVE  TameStep
  <2>1. PICK from \in {"returning", "erring"} : Goto(e, from, "ended")
    BY <1>6 DEF Finish, FinishSpawned, FinishTask, FailTask
  <2>2. UNCHANGED <<table, saved, failed>>
    BY <1>6 DEF Finish, FinishSpawned, FinishTask, FailTask
  <2>3. /\ exec[e].pc \notin HoldingSteps
        /\ exec'[e].job = exec[e].job /\ exec'[e].row = exec[e].row
        /\ \A x \in Execs : x # e => exec'[x] = exec[x]
    BY <2>1 DEF Goto, HoldingSteps
  <2> QED
    BY <2>2, <2>3 DEF TameStep
<1>7. ASSUME Restart
      PROVE  TameStep
  BY <1>7 DEF Restart, TameStep, Active, HoldingSteps
<1>8. CASE UNCHANGED <<exec, failed, table, saved>>
  BY <1>8 DEF OneShotInv, Clean
<1>9. \/ UNCHANGED <<exec, failed, table, saved>>
      \/ \E j \in Jobs, s \in Schedules, b, d \in BOOLEAN : CreateJob(j, s, b, d)
      \/ \E j \in Jobs : DeleteJob(j)
      \/ \E u \in Editors : SaveEdit(u)
      \/ \E j \in Jobs, e \in Execs : Begin(e, j) /\ UNCHANGED <<table, saved>>
      \/ \E e \in Execs : Execute(e) \/ Finish(e)
      \/ Restart
  <2>1. ASSUME NEW j \in Jobs, \/ \E g \in Goroutines : Spawn(g, j)
                               \/ \E w \in Workers : TakeTask(w, j)
        PROVE  \E e \in Execs : Begin(e, j) /\ UNCHANGED <<table, saved>>
    BY <2>1 DEF Spawn, TakeTask, Execs
  <2>2. ASSUME NEW e \in Execs, UpdateNextRun(e) \/ DeleteAfterRun(e)
        PROVE  Execute(e)
    BY <2>2 DEF Execute
  <2> QED
    BY <2>1, <2>2, StepKinds, TableKinds, Zenon
<1> QED
  <2> HIDE DEF IInv, TypeOK, Rest
  <2>1. TameStep => OneShotInv'
    BY TameKeepsOneShot DEF IInv
  <2>2. \A e \in Execs : ReadSucceeds(e) => OneShotInv'
    BY ReadKeepsOneShot
  <2> QED
    BY <1>1, <1>2, <1>3, <1>4, <1>5, <1>6, <1>7, <1>8, <1>9, <2>1, <2>2, Zenon

-------------------------------------------------------------------------------
(* The conjunction is inductive, hence invariant.                          *)
THEOREM InductiveInvariant == Spec => []IInv
<1>1. Init => IInv
  BY InitIInv
<1>2. IInv /\ [Next]_vars => IInv'
  BY TypeStep, RowStep, RunningStep, LogStep, EditStep, OneShotStep DEF IInv
<1> QED
  BY <1>1, <1>2, PTL DEF Spec

(* Every reachable state has the types that TypeOK states.                 *)
THEOREM TypeCorrect == Spec => []TypeOK
<1>1. IInv => TypeOK
  BY DEF IInv
<1> QED
  BY <1>1, InductiveInvariant, PTL

(* cron_manager.go, triggerDueJobs: however ticks, failures and restarts   *)
(* interleave, a job is marked in the running map exactly while one        *)
(* goroutine executes it, and never two do.                                *)
THEOREM MarksMatch == Spec => []RunningMatchesExecutions
<1>1. IInv => RunningMatchesExecutions
  BY DEF IInv
<1> QED
  BY <1>1, InductiveInvariant, PTL

(* cron_service.go, ExecuteJob: a run row is left "running" only by an     *)
(* execution that lost a write or was cut off.                             *)
THEOREM RunsGetClosed == Spec => []RunsAreClosed
<1>1. IInv => RunsAreClosed
  BY DEF IInv
<1> QED
  BY <1>1, InductiveInvariant, PTL

(* cron_service.go, UpdateJob and ExecuteJob: what an edit has set stays,  *)
(* however many executions overlap with it.                                *)
THEOREM EditsAreKept == Spec => []EditsSurvive
<1>1. IInv => EditsSurvive
  BY DEF IInv, EditInv
<1> QED
  BY <1>1, InductiveInvariant, PTL

(* cron_service.go, DeleteAfterRun: the manager works on a job that is     *)
(* deleted after its run once, although it may take it from a list it      *)
(* loaded before that run ended.                                           *)
THEOREM OneShotIsOnce == Spec => []OneShotRunsOnce
<1>1. IInv => OneShotRunsOnce
  <2> SUFFICES ASSUME IInv, NEW g \in Goroutines, NEW h \in Goroutines, g # h,
                      Worked(g), Worked(h), exec[g].job = exec[h].job,
                      exec[g].row.deleteAfterRun, saved[exec[g].job] = None
               PROVE  failed \cap {g, h} # {}
    BY DEF OneShotRunsOnce
  <2>1. Clean(g) /\ Clean(h)
    BY DEF Clean, Worked
  <2> QED
    BY <2>1 DEF IInv, OneShotInv
<1> QED
  BY <1>1, InductiveInvariant, PTL
===============================================================================

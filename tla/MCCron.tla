--------------------------------- MODULE MCCron --------------------------------
(* Instances of CronScheduler for TLC: schedules and budgets.              *)
EXTENDS CronScheduler

At(t) == [kind |-> "at", at |-> t]
Every(period, anchor) == [kind |-> "every", period |-> period, anchor |-> anchor]
Cron(period, stagger) == [kind |-> "cron", period |-> period, stagger |-> stagger]

OneShot == {At(1)}
Fixed == {At(1), Every(2, 1)}
Periodic == {Every(1, 0), Cron(2, 2)}
AllSchedules == Fixed \cup Periodic

Budget(actors, schedules, time, queued, again) ==
  [actors |-> actors, schedules |-> schedules, time |-> time, queued |-> queued,
   restarts |-> again]

(* Two goroutines; a goroutine and a worker; a goroutine and an edit; each *)
(* with a restart; and two goroutines and a worker on a job for one time.  *)
OneOf(S) == {CHOOSE x \in S : TRUE}
Sizes == {Budget(Goroutines, Fixed, 2, 0, 1),
          Budget(OneOf(Goroutines) \cup Workers, Fixed, 1, 1, 1),
          Budget(OneOf(Goroutines) \cup Editors, Periodic, 1, 0, 1),
          Budget(Goroutines \cup Workers, OneShot, 1, 1, 0)}

(* One goroutine, and no fault.                                            *)
Quiet == {Budget(Goroutines, OneShot, 2, 0, 0)}
================================================================================

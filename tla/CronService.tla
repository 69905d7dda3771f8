----------------------------- MODULE CronService -----------------------------
(***************************************************************************)
(* CronService: src/cron/service.ts with the schedules of scheduler.ts and *)
(* the store of store.ts.  One timer serves all jobs; a check that it      *)
(* starts walks over the jobs that are due, one await after the other,     *)
(* while commands change the same store.  Every save writes the store as   *)
(* it was when the save was called, so that two saves in flight may land   *)
(* in either order.  The process may crash at any point and start again    *)
(* from the file.                                                          *)
(***************************************************************************)
EXTENDS Naturals, FiniteSets, FiniteSetsExt

CONSTANTS
  Jobs,         \* the jobs that may be added, each once
  Sched,        \* Sched[j]: "at" a time, "every" so often, or "cron", here
                \*   the times that the expression names, maybe none
  Mode,         \* Mode[j]: "main", "isolated", or "heartbeat"
  Ops,          \* the commands that may be under way at a time
  Interval,     \* checkIntervalMs
  MaxTime,      \* bounds the clock
  MaxCrashes,   \* bounds the crashes
  MaxPending,   \* bounds what /cron run adds to pendingHeartbeat
  MaySaveFail,  \* whether the save of a check may fail
  None          \* undefined, null

ASSUME CronServiceAssumption ==
  /\ Sched \in [Jobs -> [kind : {"at", "every"}, n : Nat]
                        \cup [kind : {"cron"}, times : SUBSET (Nat \ {0})]]
  /\ Mode \in [Jobs -> {"main", "isolated", "heartbeat"}]
  /\ Interval \in Nat \ {0} /\ MaxTime \in Nat \ {0} /\ MaxCrashes \in Nat /\ MaxPending \in Nat
  /\ MaySaveFail \in BOOLEAN
  /\ None \notin Nat /\ None \notin Jobs

VARIABLES
  store,      \* this.store: every job's state, nextRunAtMs and lastRunAtMs
  disk,       \* the store's file
  timer,      \* when the timer fires
  now,        \* Date.now()
  loop,       \* start() or check(), whichever runs, and how far it is
  op,         \* the commands under way
  pending,    \* pendingHeartbeat, as how often it holds each job
  listening,  \* whether the bridge handles events and commands
  crashes,
  owed,       \* ghost: the jobs that came due while no process was up, and
              \*   that nobody was asked to run since
  taken,      \* ghost: the run of each job that a check fired last
  twice       \* ghost: the jobs of which a check fired a run once more

vars == <<store, disk, timer, now, loop, op, pending, listening, crashes, owed, taken, twice>>

\* "new" was never added; "on" and "off" are job.enabled.
NewJob == [state |-> "new", next |-> None, last |-> None]

Stored(st, j)  == st[j].state \in {"on", "off"}
HasNext(st, j) == st[j].state = "on" /\ st[j].next # None
Due(st)        == {j \in Jobs : HasNext(st, j) /\ st[j].next <= now}

\* kind: no process, start() or check() or neither; left: the runs it has
\* still to fire, as <<job, time>>; step: what it awaits, for the job cur;
\* saved: the store it saves; at: when it began.
Loop(kind, step, left, cur, saved) ==
  [kind |-> kind, step |-> step, left |-> left, cur |-> cur, saved |-> saved, at |-> now]

Resting(kind) == [kind |-> kind, step |-> "next", left |-> {}, cur |-> None, saved |-> None, at |-> 0]

Command(step, cur, saved, arms) == [step |-> step, cur |-> cur, saved |-> saved, arms |-> arms]

NoCommand == Command("none", None, None, FALSE)

-----------------------------------------------------------------------------
(* scheduler.ts.                                                           *)

\* calculateNextRun.  An expression that is invalid, or names no later time, has
\* no next run.
NextRun(j, t) ==
  LET later == {u \in Sched[j].times : u > t}
  IN  IF Sched[j].kind = "at" THEN (IF Sched[j].n > t THEN Sched[j].n ELSE None)
      ELSE IF Sched[j].kind = "every" THEN t + Sched[j].n
      ELSE IF later = {} THEN None ELSE Min(later)

\* findMissedRuns.
MissedRuns(j, last) ==
  IF Sched[j].kind = "cron" /\ last # None
  THEN {t \in Sched[j].times : last < t /\ t < now} ELSE {}

\* Faulty variant: what is left of a removed job is scheduled too.
RescheduledEvenIfGone(j, t) == [store EXCEPT ![j].next = NextRun(j, t), ![j].last = t]

\* scheduleNextRun.  updateJob finds no job that was removed.
Rescheduled(j, t) ==
  IF Stored(store, j) THEN [store EXCEPT ![j].next = NextRun(j, t), ![j].last = t] ELSE store

-----------------------------------------------------------------------------
(* Steps the operations share.                                             *)

Init ==
  /\ store     = [j \in Jobs |-> NewJob]
  /\ disk      = [j \in Jobs |-> NewJob]
  /\ timer     = None
  /\ now       = 1
  /\ loop      = Resting("down")
  /\ op        = [o \in Ops |-> NoCommand]
  /\ pending   = [j \in Jobs |-> 0]
  /\ listening = FALSE
  /\ crashes   = 0
  /\ owed      = {}
  /\ taken     = [j \in Jobs |-> None]
  /\ twice     = {}

\* nextWakeAtMs and armTimer.
ArmTimer ==
  LET nexts == {store[j].next : j \in {j \in Jobs : HasNext(store, j)}}
      wake  == Min(nexts)
  IN  timer' = IF nexts = {} THEN None
               ELSE Min({IF wake > now THEN wake ELSE now, now + Interval})

\* queueDueJob, once the record of an isolated run is written.
Fire(j) ==
  \/ /\ Mode[j] = "heartbeat"
     /\ pending' = [pending EXCEPT ![j] = @ + 1]
     /\ owed' = owed \ {j}
  \/ /\ Mode[j] # "heartbeat"
     /\ owed' = IF listening THEN owed \ {j} ELSE owed
     /\ UNCHANGED pending

-----------------------------------------------------------------------------
(* start().                                                                *)

\* The jobs among js that missed a run while the process was down.
MissedOf(js) == {j \in js : MissedRuns(j, disk[j].last) # {}}

\* Faulty variant: the stored next run is kept.
BootKeepingNext ==
  /\ loop.kind = "down"
  /\ LET on     == {j \in Jobs : disk[j].state = "on"}
         missed == MissedOf(on)
     IN  /\ store' = [j \in Jobs |-> IF j \in missed
                                     THEN [disk[j] EXCEPT !.last = Max(MissedRuns(j, disk[j].last))]
                                     ELSE disk[j]]
         /\ loop' = Loop("boot", "saving", {<<j, store'[j].last>> : j \in missed}, None, store')
  /\ owed' = owed \cup {j \in Jobs : HasNext(disk, j) /\ disk[j].next < now}
  /\ UNCHANGED <<disk, timer, now, op, pending, listening, crashes, taken, twice>>

\* Every enabled job is scheduled anew from the clock.
Boot ==
  /\ loop.kind = "down"
  /\ LET on     == {j \in Jobs : disk[j].state = "on"}
         missed == MissedOf(on)
         lastOf(j) == IF j \in missed THEN Max(MissedRuns(j, disk[j].last)) ELSE disk[j].last
     IN  /\ store' = [j \in Jobs |-> IF j \in on
                                     THEN [disk[j] EXCEPT !.next = NextRun(j, now), !.last = lastOf(j)]
                                     ELSE disk[j]]
         /\ loop' = Loop("boot", "saving", {<<j, store'[j].last>> : j \in missed}, None, store')
  /\ owed' = owed \cup {j \in Jobs : HasNext(disk, j) /\ disk[j].next < now}
  /\ UNCHANGED <<disk, timer, now, op, pending, listening, crashes, taken, twice>>

\* startBridge registers its listeners some awaits after start() returned.
Listen ==
  /\ loop.kind \in {"idle", "check"} /\ ~listening
  /\ listening' = TRUE
  /\ UNCHANGED <<store, disk, timer, now, loop, op, pending, crashes, owed, taken, twice>>

-----------------------------------------------------------------------------
(* The timer and check().                                                  *)

StartCheck ==
  /\ loop.kind = "idle"
  /\ loop' = Loop("check", "next", {<<j, store[j].next>> : j \in Due(store)}, None, None)

\* While a check runs another one returns at once, without arming the timer.
TimerFires ==
  /\ timer # None /\ timer <= now
  /\ timer' = None
  /\ StartCheck \/ (loop.kind = "check" /\ UNCHANGED loop)
  /\ UNCHANGED <<store, disk, now, op, pending, listening, crashes, owed, taken, twice>>

\* The loop of start() schedules from the clock, that of check() from the
\* time the check began.
From == IF loop.kind = "check" THEN loop.at ELSE now

\* The loop, at its next run: an isolated job first writes its run record.
LoopNext(j, t) ==
  /\ loop.step = "next" /\ <<j, t>> \in loop.left
  /\ \/ /\ Mode[j] = "isolated"
        /\ loop' = [loop EXCEPT !.step = "append", !.left = @ \ {<<j, t>>}, !.cur = j]
        /\ UNCHANGED <<store, pending, owed>>
     \/ /\ Mode[j] # "isolated"
        /\ Fire(j)
        /\ store' = Rescheduled(j, From)
        /\ loop' = [loop EXCEPT !.step = "saving", !.left = @ \ {<<j, t>>}, !.saved = store']
  /\ \/ /\ loop.kind = "check"
        /\ taken' = [taken EXCEPT ![j] = t]
        /\ twice' = IF taken[j] = t THEN twice \cup {j} ELSE twice
     \/ loop.kind = "boot" /\ UNCHANGED <<taken, twice>>
  /\ UNCHANGED <<disk, timer, now, op, listening, crashes>>

LoopAppended ==
  /\ loop.step = "append"
  /\ Fire(loop.cur)
  /\ store' = Rescheduled(loop.cur, From)
  /\ loop' = [loop EXCEPT !.step = "saving", !.cur = None, !.saved = store']
  /\ UNCHANGED <<disk, timer, now, op, listening, crashes, taken, twice>>

LoopSaved ==
  /\ loop.step = "saving"
  /\ disk' = loop.saved
  /\ loop' = [loop EXCEPT !.step = "next", !.saved = None]
  /\ UNCHANGED <<store, timer, now, op, pending, listening, crashes, owed, taken, twice>>

\* Faulty variant: check() arms the timer only when it succeeds.
CheckSaveFailsUnarmed ==
  /\ MaySaveFail
  /\ loop.kind = "check" /\ loop.step = "saving"
  /\ loop' = Resting("idle")
  /\ UNCHANGED <<store, disk, timer, now, op, pending, listening, crashes, owed, taken, twice>>

\* A failed save ends a check, and the jobs it had left remain due.
CheckSaveFails ==
  /\ MaySaveFail
  /\ loop.kind = "check" /\ loop.step = "saving"
  /\ loop' = Resting("idle")
  /\ ArmTimer
  /\ UNCHANGED <<store, disk, now, op, pending, listening, crashes, owed, taken, twice>>

LoopEnds ==
  /\ loop.kind \in {"boot", "check"} /\ loop.step = "next" /\ loop.left = {}
  /\ loop' = Resting("idle")
  /\ ArmTimer
  /\ UNCHANGED <<store, disk, now, op, pending, listening, crashes, owed, taken, twice>>

-----------------------------------------------------------------------------
(* The commands: add, remove, enable, run, and the markComplete of a run.  *)

\* A command changes the store and saves it.
Change(o, st, arms) ==
  /\ listening /\ op[o] = NoCommand
  /\ store' = st
  /\ op' = [op EXCEPT ![o] = Command("saving", None, st, arms)]
  /\ UNCHANGED <<disk, timer, now, loop, pending, listening, crashes, owed, taken, twice>>

Add(o, j) ==
  /\ store[j].state = "new"
  /\ Change(o, [store EXCEPT ![j] = [state |-> "on", next |-> NextRun(j, now), last |-> None]], TRUE)

Remove(o, j) ==
  /\ Stored(store, j)
  /\ Change(o, [store EXCEPT ![j] = [NewJob EXCEPT !.state = "removed"]], TRUE)

\* Faulty variant: enabling leaves nextRunAtMs as disabling left it.
EnableKeepingNext(o, j) ==
  /\ Stored(store, j)
  /\ Change(o, [store EXCEPT ![j].state = "on"], TRUE)

\* Faulty variant: enabling does not arm the timer.
EnableWithoutArming(o, j) ==
  /\ Stored(store, j)
  /\ Change(o, [store EXCEPT ![j].state = "on", ![j].next = NextRun(j, now)], FALSE)

Enable(o, j) ==
  /\ Stored(store, j)
  /\ Change(o, [store EXCEPT ![j].state = "on", ![j].next = NextRun(j, now)], TRUE)

Disable(o, j) ==
  /\ Stored(store, j)
  /\ Change(o, [store EXCEPT ![j].state = "off", ![j].next = None], TRUE)

\* A status is written to the job, which this model leaves out, and saved.
MarkComplete(o) == Change(o, store, FALSE)

Run(o, j) ==
  /\ listening /\ op[o] = NoCommand /\ Stored(store, j)
  /\ \/ /\ Mode[j] = "isolated"
        /\ op' = [op EXCEPT ![o] = Command("append", j, None, TRUE)]
        /\ UNCHANGED <<store, pending, owed>>
     \/ /\ Mode[j] # "isolated" /\ pending[j] < MaxPending
        /\ Fire(j)
        /\ store' = Rescheduled(j, now)
        /\ op' = [op EXCEPT ![o] = Command("saving", None, store', TRUE)]
  /\ UNCHANGED <<disk, timer, now, loop, listening, crashes, taken, twice>>

RunAppended(o) ==
  /\ op[o].step = "append"
  /\ Fire(op[o].cur)
  /\ store' = Rescheduled(op[o].cur, now)
  /\ op' = [op EXCEPT ![o] = Command("saving", None, store', TRUE)]
  /\ UNCHANGED <<disk, timer, now, loop, listening, crashes, taken, twice>>

Saved(o) ==
  /\ op[o].step = "saving"
  /\ disk' = op[o].saved
  /\ op' = [op EXCEPT ![o] = NoCommand]
  /\ IF op[o].arms THEN ArmTimer ELSE UNCHANGED timer
  /\ UNCHANGED <<store, now, loop, pending, listening, crashes, owed, taken, twice>>

\* A user's message: triggerHeartbeat.
FlushPendingHeartbeat ==
  /\ listening /\ \E j \in Jobs : pending[j] > 0
  /\ pending' = [j \in Jobs |-> 0]
  /\ UNCHANGED <<store, disk, timer, now, loop, op, listening, crashes, owed, taken, twice>>

-----------------------------------------------------------------------------
Tick ==
  /\ now < MaxTime
  /\ now' = now + 1
  /\ UNCHANGED <<store, disk, timer, loop, op, pending, listening, crashes, owed, taken, twice>>

\* Only the file survives; a write that was under way has landed or has not.
\* A command whose save fails ends the process too: nothing catches it.
Crash ==
  /\ loop.kind # "down" /\ crashes < MaxCrashes
  /\ crashes'   = crashes + 1
  /\ store'     = [j \in Jobs |-> NewJob]
  /\ timer'     = None
  /\ loop'      = Resting("down")
  /\ op'        = [o \in Ops |-> NoCommand]
  /\ pending'   = [j \in Jobs |-> 0]
  /\ listening' = FALSE
  /\ UNCHANGED <<disk, now, owed, taken, twice>>

LoopStep == (\E r \in loop.left : LoopNext(r[1], r[2])) \/ LoopAppended \/ LoopSaved \/ LoopEnds

OpStep(o) == RunAppended(o) \/ Saved(o)

Next ==
  \/ Boot \/ Listen \/ TimerFires \/ LoopStep \/ CheckSaveFails
  \/ \E o \in Ops : OpStep(o) \/ MarkComplete(o)
  \/ \E o \in Ops, j \in Jobs :
       Add(o, j) \/ Remove(o, j) \/ Enable(o, j) \/ Disable(o, j) \/ Run(o, j)
  \/ FlushPendingHeartbeat \/ Tick \/ Crash

Spec == Init /\ [][Next]_vars

\* Timers fire and file operations return.
Fairness ==
  /\ WF_vars(TimerFires) /\ WF_vars(LoopStep)
  /\ \A o \in Ops : WF_vars(OpStep(o))

FairSpec == Spec /\ Fairness

-----------------------------------------------------------------------------
(* Properties.                                                             *)

Times   == Nat \cup {None}
JobType == [state : {"new", "on", "off", "removed"}, next : Times, last : Times]

\* A job that is not stored has no next run.
StoreType ==
  {st \in [Jobs -> JobType] : \A j \in Jobs : ~Stored(st, j) => st[j].next = None}

LoopType ==
  [kind : {"down", "boot", "idle", "check"}, step : {"next", "append", "saving"},
   left : SUBSET (Jobs \X Nat), cur : Jobs \cup {None}, saved : StoreType \cup {None}, at : Nat]

CommandType ==
  [step : {"none", "append", "saving"}, cur : Jobs \cup {None},
   saved : StoreType \cup {None}, arms : BOOLEAN]

\* Types: in particular nothing schedules a job that was removed, in memory,
\* in the file or in a save under way.
TypeOK ==
  /\ store \in StoreType /\ disk \in StoreType
  /\ timer \in Times /\ now \in 1 .. MaxTime
  /\ loop \in LoopType
  /\ op \in [Ops -> CommandType]
  /\ pending \in [Jobs -> Nat]
  /\ listening \in BOOLEAN
  /\ crashes \in 0 .. MaxCrashes
  /\ owed \in SUBSET Jobs /\ twice \in SUBSET Jobs
  /\ taken \in [Jobs -> Times]

\* No lost wake-up: when neither a loop nor a command that will arm the timer
\* is under way, the timer is set and no later than the next run of any
\* enabled job, although a check that finds another one running returns
\* without arming it.
EnabledIsArmed ==
  (loop.kind = "idle" /\ \A o \in Ops : ~op[o].arms) =>
    \A j \in Jobs : HasNext(store, j) =>
      timer # None /\ (timer <= store[j].next \/ timer <= now)

\* A job of "every 0m", which parseScheduleArg takes: whenever it is scheduled it
\* is due at once, so that the timer never rests.
Endless == {j \in Jobs : Sched[j].kind = "every" /\ Sched[j].n = 0}

\* No check fires a run that one fired before, with commands on the same job,
\* a save that fails and a crash before the save between any two steps.
FiresOnce == twice \subseteq Endless

\* An enabled job that has a run to come is scheduled, through any order of the
\* commands, a check and a restart.
NeverRunsOut ==
  loop.kind # "down" =>
    \A j \in Jobs : store[j].state = "on" /\ NextRun(j, now) # None => store[j].next # None

\* What is awaited is there: the store a save writes, the job of a record.
AwaitsAreWhole ==
  /\ loop.step = "saving" => loop.saved \in StoreType
  /\ loop.step = "append" => loop.cur \in Jobs
  /\ loop.kind \in {"down", "idle"} => loop.step = "next" /\ loop.left = {}
  /\ \A o \in Ops : /\ op[o].step = "saving" => op[o].saved \in StoreType
                    /\ op[o].step = "append" => op[o].cur \in Jobs

\* The runs a check has still to fire are later than those that were fired,
\* and so is the next run of every job, save the one whose record is awaited.
FiredBefore(j, t) == j \in Endless \/ (taken[j] # None => taken[j] < t)

RunsMoveOn ==
  /\ \A j \in Jobs : taken[j] # None => taken[j] <= now
  /\ \A j \in Jobs : HasNext(store, j) =>
       FiredBefore(j, store[j].next) \/ (loop.kind = "check" /\ loop.step = "append" /\ loop.cur = j)
  /\ loop.kind = "check" =>
       /\ loop.at <= now
       /\ \A r \in loop.left : r[2] <= loop.at /\ FiredBefore(r[1], r[2])
       /\ \A r, s \in loop.left : r[1] = s[1] => r = s
       /\ loop.step = "append" =>
            /\ taken[loop.cur] # None => taken[loop.cur] <= loop.at
            /\ \A r \in loop.left : r[1] # loop.cur

\* The inductive invariant of the proofs.
IInv ==
  /\ TypeOK /\ AwaitsAreWhole
  /\ EnabledIsArmed /\ NeverRunsOut
  /\ RunsMoveOn /\ FiresOnce

\* A run that is due is taken up, or the job is removed, disabled or scheduled
\* anew by a command, unless the process goes down before.  A job that is always
\* due keeps no other from its turn.
DueIsFired ==
  \A j \in Jobs \ Endless :
    (loop.kind \in {"idle", "check"} /\ j \in Due(store))
      ~> (j \notin Due(store) \/ loop.kind = "down")

-----------------------------------------------------------------------------
(* What the comments say and the code does not do.                         *)

\* service.ts:81-82 and 94: start() misses no run, it emits events for those
\* that came due meanwhile, so that the bridge owes none when it is ready.
RestartMissesNothing == [][Listen => owed = {}]_vars
=============================================================================

---------------------------- MODULE CommandLane ----------------------------
(***************************************************************************)
(* One lane of src/bridge/command-queue.ts; lanes share nothing.           *)
(*                                                                         *)
(* The lane is driven by nested calls, not by a scheduler: drainLane calls *)
(* pump, pump calls a task up to the task's first await, and the task may  *)
(* call back into the lane, where the draining flag decides whether a      *)
(* second pump starts.  The call stack is therefore part of the state and  *)
(* an action is the code between two calls or returns.                     *)
(***************************************************************************)
EXTENDS Naturals, Sequences, FiniteSets

CONSTANTS
  Tasks,    \* the tasks callers may enqueue, each once
  Limits,   \* the arguments of setLaneConcurrency
  None      \* no task

ASSUME CommandLaneAssumption == Limits \subseteq Nat /\ None \notin Tasks

VARIABLES
  queue,          \* state.queue
  active,         \* state.active
  maxConcurrent,  \* state.maxConcurrent
  draining,       \* state.draining
  stack,          \* the calls in progress, the innermost last
  status          \* where every task is

vars == <<queue, active, maxConcurrent, draining, stack, status>>

\* A pump called by drainLane settles no task; a pump called when task t
\* ended is followed by t's resolve or reject.
Pump(t) == [kind |-> "pump", task |-> t]
Call(t) == [kind |-> "task", task |-> t]

Frame == [kind : {"pump"}, task : Tasks \cup {None}] \cup [kind : {"task"}, task : Tasks]

Statuses == {"new", "queued", "called", "awaited", "ended", "settled", "cleared"}

Top == stack[Len(stack)]
Below == SubSeq(stack, 1, Len(stack) - 1)

\* Code outside the module runs: from the event loop or inside a task.
CallersTurn == stack # <<>> => Top.kind = "task"

Init ==
  /\ queue = <<>>
  /\ active = 0
  /\ maxConcurrent = 1
  /\ draining = FALSE
  /\ stack = <<>>
  /\ status = [t \in Tasks |-> "new"]

DrainLane ==
  /\ draining' = TRUE
  /\ stack' = IF draining THEN stack ELSE Append(stack, Pump(None))

Enqueue(t) ==
  /\ CallersTurn
  /\ status[t] = "new"
  /\ status' = [status EXCEPT ![t] = "queued"]
  /\ queue' = Append(queue, t)
  /\ DrainLane
  /\ UNCHANGED <<active, maxConcurrent>>

SetConcurrency(n) ==
  /\ CallersTurn
  /\ maxConcurrent' = IF n > 1 THEN n ELSE 1
  /\ DrainLane
  /\ UNCHANGED <<queue, active, status>>

\* The entries are dropped with their promises: nothing settles them.
Clear ==
  /\ CallersTurn
  /\ queue' = <<>>
  /\ status' = [t \in Tasks |-> IF status[t] = "queued" THEN "cleared" ELSE status[t]]
  /\ UNCHANGED <<active, maxConcurrent, draining, stack>>

\* Faulty variant: an off-by-one in pump's comparison with the limit.
MayStartOneMore == active <= maxConcurrent /\ queue # <<>>

\* The while condition of pump, and the two ways on from it.
MayStart == active < maxConcurrent /\ queue # <<>>

PumpStarts ==
  /\ stack # <<>> /\ Top.kind = "pump"
  /\ MayStart
  /\ queue' = Tail(queue)
  /\ active' = active + 1
  /\ status' = [status EXCEPT ![Head(queue)] = "called"]
  /\ stack' = Append(stack, Call(Head(queue)))
  /\ UNCHANGED <<maxConcurrent, draining>>

\* Faulty variant: the flag stays up while tasks of the lane still run.
PumpReturnsDraining ==
  /\ stack # <<>> /\ Top.kind = "pump"
  /\ ~MayStart
  /\ draining' = (draining /\ active > 0)
  /\ stack' = Below
  /\ status' = IF Top.task = None THEN status ELSE [status EXCEPT ![Top.task] = "settled"]
  /\ UNCHANGED <<queue, active, maxConcurrent>>

PumpReturns ==
  /\ stack # <<>> /\ Top.kind = "pump"
  /\ ~MayStart
  /\ draining' = FALSE
  /\ stack' = Below
  /\ status' = IF Top.task = None THEN status ELSE [status EXCEPT ![Top.task] = "settled"]
  /\ UNCHANGED <<queue, active, maxConcurrent>>

\* The task reached its first await.
TaskAwaits ==
  /\ stack # <<>> /\ Top.kind = "task"
  /\ stack' = Below
  /\ status' = [status EXCEPT ![Top.task] = "awaited"]
  /\ UNCHANGED <<queue, active, maxConcurrent, draining>>

\* Faulty variant: the catch branch does not give the place back.
TaskThrowsKeepingPlace ==
  /\ stack # <<>> /\ Top.kind = "task"
  /\ stack' = Append(Below, Pump(Top.task))
  /\ status' = [status EXCEPT ![Top.task] = "ended"]
  /\ UNCHANGED <<queue, active, maxConcurrent, draining>>

\* The task threw before any await: the catch branch runs inside the pump.
TaskThrows ==
  /\ stack # <<>> /\ Top.kind = "task"
  /\ active' = active - 1
  /\ stack' = Append(Below, Pump(Top.task))
  /\ status' = [status EXCEPT ![Top.task] = "ended"]
  /\ UNCHANGED <<queue, maxConcurrent, draining>>

\* Faulty variant: the task is settled and nothing pumps.
TaskEndsWithoutPump(t) ==
  /\ stack = <<>>
  /\ status[t] = "awaited"
  /\ active' = active - 1
  /\ status' = [status EXCEPT ![t] = "settled"]
  /\ UNCHANGED <<queue, maxConcurrent, draining, stack>>

\* The awaited promise was resolved or rejected.
TaskEnds(t) ==
  /\ stack = <<>>
  /\ status[t] = "awaited"
  /\ active' = active - 1
  /\ stack' = <<Pump(t)>>
  /\ status' = [status EXCEPT ![t] = "ended"]
  /\ UNCHANGED <<queue, maxConcurrent, draining>>

Callers ==
  \/ \E t \in Tasks : Enqueue(t)
  \/ \E n \in Limits : SetConcurrency(n)
  \/ Clear

TaskReturns == TaskAwaits \/ TaskThrows

Next ==
  \/ Callers \/ PumpStarts \/ PumpReturns \/ TaskReturns
  \/ \E t \in Tasks : TaskEnds(t)

Spec == Init /\ [][Next]_vars

\* A pump runs on, a task calls the lane finitely often before it returns,
\* every task ends (what its caller assumes of it), and the event loop runs
\* the callback of an ended task even if others keep calling the lane in
\* between: hence strong fairness for the last two.
Fairness ==
  /\ WF_vars(PumpStarts) /\ WF_vars(PumpReturns)
  /\ SF_vars(TaskReturns)
  /\ \A t \in Tasks : SF_vars(TaskEnds(t))

FairSpec == Spec /\ Fairness
-----------------------------------------------------------------------------
(* Properties.                                                             *)

\* The state keeps its type through any nesting of calls; in particular
\* setLaneConcurrency never leaves a limit of zero, which would stop the lane.
TypeOK ==
  /\ queue \in Seq(Tasks)
  /\ active \in Nat
  /\ maxConcurrent \in Nat \ {0}
  /\ draining \in BOOLEAN
  /\ stack \in Seq(Frame)
  /\ status \in [Tasks -> Statuses]

\* No wake-up is lost: whenever the code of the lane has returned to the
\* event loop, the draining flag is down and a task waits only because the
\* lane is at its limit, however enqueue, setLaneConcurrency, clearLane,
\* throwing tasks and pumps were nested.
WorkConserving ==
  stack = <<>> => /\ ~draining
                  /\ queue = <<>> \/ active >= maxConcurrent

Running == {t \in Tasks : status[t] \in {"called", "awaited"}}

\* state.active counts the tasks that were called and have not ended, so a
\* task that throws at once gives its place back exactly like any other.
ActiveCountsRunning ==
  active = Cardinality(Running)

\* Only tasks that wait are in the queue, each once.
QueueIsExact ==
  \A i \in 1..Len(queue) :
    /\ status[queue[i]] = "queued"
    /\ \A j \in 1..Len(queue) : queue[i] = queue[j] => i = j

\* Every task that waits is in the queue.
QueueIsComplete ==
  \A t \in Tasks : status[t] = "queued" => \E i \in 1..Len(queue) : queue[i] = t

\* The outermost call is a pump; a task is on the stack at most once, as a
\* call while it is called and as a pump's task once it has ended.
StackIsExact ==
  /\ stack # <<>> => stack[1].kind = "pump"
  /\ \A i \in 1..Len(stack) :
       /\ stack[i].kind = "task" => status[stack[i].task] = "called"
       /\ stack[i].kind = "pump" /\ stack[i].task # None => status[stack[i].task] = "ended"
       /\ \A j \in 1..Len(stack) :
            stack[i].task = stack[j].task /\ stack[i].task # None => i = j

\* The inductive invariant: the lane's bookkeeping and what it keeps of it.
IInv ==
  /\ TypeOK
  /\ IsFiniteSet(Running)
  /\ ActiveCountsRunning
  /\ QueueIsExact
  /\ QueueIsComplete
  /\ StackIsExact
  /\ WorkConserving

\* The lane is an executor: tasks start in the order of their submission,
\* never above the limit in force, and are settled or discarded, never both.
ExecutorOf == INSTANCE Executor WITH
  waiting   <- queue,
  running   <- Running,
  finished  <- {t \in Tasks : status[t] \in {"ended", "settled"}},
  discarded <- {t \in Tasks : status[t] = "cleared"},
  limit     <- maxConcurrent
ExecutorSpec == ExecutorOf!Spec

\* Every task that waits is settled in the end unless clearLane drops it.
EveryTaskSettles ==
  \A t \in Tasks : status[t] = "queued" ~> status[t] \in {"settled", "cleared"}
=============================================================================

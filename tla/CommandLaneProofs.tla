-------------------------- MODULE CommandLaneProofs --------------------------
(***************************************************************************)
(* Proofs about CommandLane, for any set of tasks and any limits.          *)
(***************************************************************************)
EXTENDS CommandLane, SequenceTheorems, FiniteSetTheorems, TLAPS

-----------------------------------------------------------------------------
(* Facts about the operators on the stack and the queue.                   *)

\* Returning from a call leaves the outer calls as they were.
LEMMA BelowProperties ==
  ASSUME stack \in Seq(Frame), stack # <<>>
  PROVE  /\ Below \in Seq(Frame)
         /\ Len(stack) \in Nat \ {0}
         /\ Len(Below) = Len(stack) - 1
         /\ \A i \in 1..Len(Below) : i \in 1..Len(stack) /\ Below[i] = stack[i]
         /\ Len(stack) \in 1..Len(stack)
         /\ Top \in Frame
         /\ Below # <<>> => Below[1] = stack[1]
<1>1. Len(stack) \in Nat \ {0} /\ \A i \in 1..Len(stack) : stack[i] \in Frame
  BY EmptySeq, LenProperties, ElementOfSeq
<1>2. /\ Below \in Seq(Frame)
      /\ Len(Below) = Len(stack) - 1
      /\ \A i \in 1..(Len(stack) - 1) : Below[i] = stack[i]
  <2>1. \A i \in 1..(Len(stack) - 1) : stack[i] \in Frame
    BY <1>1
  <2>2. /\ SubSeq(stack, 1, Len(stack) - 1) \in Seq(Frame)
        /\ Len(SubSeq(stack, 1, Len(stack) - 1)) =
             IF 1 <= Len(stack) - 1 THEN Len(stack) - 1 - 1 + 1 ELSE 0
        /\ \A i \in 1..(Len(stack) - 1 - 1 + 1) :
             SubSeq(stack, 1, Len(stack) - 1)[i] = stack[1 + i - 1]
    BY <1>1, <2>1, SubSeqProperties
  <2>3. Len(stack) - 1 - 1 + 1 = Len(stack) - 1 /\ \A i \in 1..(Len(stack) - 1) : 1 + i - 1 = i
    BY <1>1
  <2>4. Len(Below) = Len(stack) - 1
    <3>1. Len(Below) = IF 1 <= Len(stack) - 1 THEN Len(stack) - 1 - 1 + 1 ELSE 0
      BY <2>2, Zenon DEF Below
    <3>2. \A n \in Nat \ {0} : (IF 1 <= n - 1 THEN n - 1 - 1 + 1 ELSE 0) = n - 1
      OBVIOUS
    <3>3. QED
      BY <1>1, <3>1, <3>2, Zenon
  <2>5. \A i \in 1..(Len(stack) - 1) : Below[i] = stack[i]
    <3>1. ASSUME NEW i \in 1..(Len(stack) - 1) PROVE Below[i] = stack[i]
      <4>1. Below[i] = stack[1 + i - 1]
        BY <2>2, <2>3, Zenon DEF Below
      <4>2. QED
        BY <2>3, <4>1
    <3>2. QED
      BY <3>1
  <2>6. QED
    BY <2>2, <2>4, <2>5 DEF Below
<1>3. Below # <<>> => Len(Below) >= 1
  BY <1>2, EmptySeq, LenProperties
<1>4. QED
  BY <1>1, <1>2, <1>3 DEF Top

\* Entering a call puts it on top and leaves the outer calls as they were.
LEMMA PushProperties ==
  ASSUME NEW S, NEW s \in Seq(S), NEW f \in S
  PROVE  /\ Append(s, f) \in Seq(S)
         /\ Append(s, f) # <<>>
         /\ Len(Append(s, f)) = Len(s) + 1
         /\ \A i \in 1..Len(s) : Append(s, f)[i] = s[i]
         /\ Append(s, f)[Len(s) + 1] = f
         /\ Append(s, f)[1] = IF s = <<>> THEN f ELSE s[1]
<1>1. Len(s) \in Nat /\ (s # <<>> => Len(s) >= 1) /\ (s = <<>> => Len(s) = 0)
  BY EmptySeq, LenProperties
<1>2. /\ Append(s, f) \in Seq(S)
      /\ Append(s, f) # <<>>
      /\ Len(Append(s, f)) = Len(s) + 1
      /\ \A i \in 1..Len(s) : Append(s, f)[i] = s[i]
      /\ Append(s, f)[Len(s) + 1] = f
  BY AppendProperties
<1>3. QED
  BY <1>1, <1>2

\* The frames the module pushes are frames.
LEMMA Frames ==
  /\ Pump(None) \in Frame
  /\ \A t \in Tasks : Pump(t) \in Frame /\ Call(t) \in Frame
BY DEF Frame, Pump, Call

\* drainLane leaves a pump at the bottom of a stack that is not empty, and
\* adds at most a pump that settles no task.
LEMMA DrainLaneProperties ==
  ASSUME TypeOK, StackIsExact, WorkConserving, DrainLane
  PROVE  /\ draining' \in BOOLEAN
         /\ stack' \in Seq(Frame)
         /\ stack' # <<>>
         /\ stack'[1].kind = "pump"
         /\ \A i \in 1..Len(stack') :
              \/ i \in 1..Len(stack) /\ stack'[i] = stack[i]
              \/ i = Len(stack) + 1 /\ stack'[i] = Pump(None)
<1> USE DEF TypeOK, StackIsExact, WorkConserving, DrainLane
<1>1. CASE draining
  BY <1>1
<1>2. CASE ~draining
  <2>1. stack' = Append(stack, Pump(None)) /\ Pump(None) \in Frame
    BY <1>2, Frames
  <2>2. Len(stack) \in Nat
    BY LenProperties
  <2>3. /\ stack' \in Seq(Frame)
        /\ stack' # <<>>
        /\ Len(stack') = Len(stack) + 1
        /\ \A i \in 1..Len(stack) : stack'[i] = stack[i]
        /\ stack'[Len(stack) + 1] = Pump(None)
        /\ stack'[1] = IF stack = <<>> THEN Pump(None) ELSE stack[1]
    BY <2>1, PushProperties
  <2>4. stack'[1].kind = "pump"
    BY <2>3 DEF Pump
  <2>5. \A i \in 1..Len(stack') : i \in 1..Len(stack) \/ i = Len(stack) + 1
    BY <2>2, <2>3
  <2>6. QED
    BY <2>3, <2>4, <2>5
<1>3. QED
  BY <1>1, <1>2

\* Such a stack stays exact as long as called and ended tasks stay so.
LEMMA StackStaysExact ==
  ASSUME StackIsExact, stack' # <<>> => stack'[1].kind = "pump",
         Len(stack) \in Nat,
         \A i \in 1..Len(stack') :
           \/ i \in 1..Len(stack) /\ stack'[i] = stack[i]
           \/ i = Len(stack) + 1 /\ stack'[i] = Pump(None),
         \A t : status[t] \in {"called", "ended"} => status'[t] = status[t]
  PROVE  StackIsExact'
<1> SUFFICES ASSUME NEW i \in 1..Len(stack')
             PROVE  /\ stack'[i].kind = "task" => status'[stack'[i].task] = "called"
                    /\ stack'[i].kind = "pump" /\ stack'[i].task # None =>
                         status'[stack'[i].task] = "ended"
                    /\ \A j \in 1..Len(stack') :
                         stack'[i].task = stack'[j].task /\ stack'[i].task # None => i = j
  BY DEF StackIsExact
<1>1. Pump(None).kind = "pump" /\ Pump(None).task = None
  BY DEF Pump
<1>2. /\ stack'[i].kind = "task" => status'[stack'[i].task] = "called"
      /\ stack'[i].kind = "pump" /\ stack'[i].task # None => status'[stack'[i].task] = "ended"
  BY <1>1 DEF StackIsExact
<1>3. ASSUME NEW j \in 1..Len(stack'), stack'[i].task = stack'[j].task, stack'[i].task # None
      PROVE  i = j
  BY <1>1, <1>3 DEF StackIsExact
<1>4. QED
  BY <1>2, <1>3

-----------------------------------------------------------------------------
(* The invariant holds initially and every action keeps it.                *)

LEMMA InitIInv == Init => IInv
<1> SUFFICES ASSUME Init PROVE IInv
  OBVIOUS
<1>1. Running = {}
  BY DEF Init, Running
<1>2. IsFiniteSet(Running) /\ active = Cardinality(Running)
  BY <1>1, FS_EmptySet DEF Init
<1>3. queue = <<>> /\ stack = <<>> /\ Len(queue) = 0 /\ Len(stack) = 0
  BY DEF Init
<1>4. TypeOK
  <2>1. queue \in Seq(Tasks) /\ stack \in Seq(Frame)
    BY <1>3, EmptySeq, Zenon
  <2>2. status \in [Tasks -> Statuses]
    BY DEF Init, Statuses
  <2>3. active \in Nat /\ maxConcurrent \in Nat \ {0}
    BY DEF Init
  <2>4. draining \in BOOLEAN
    BY DEF Init
  <2>5. QED
    BY <2>1, <2>2, <2>3, <2>4, Zenon DEF TypeOK
<1>5. QueueIsExact /\ QueueIsComplete /\ StackIsExact
  BY <1>3 DEF QueueIsExact, QueueIsComplete, StackIsExact, Init
<1>6. WorkConserving
  BY <1>3 DEF WorkConserving, Init
<1>7. QED
  BY <1>2, <1>4, <1>5, <1>6, Zenon DEF IInv, ActiveCountsRunning

LEMMA EnqueueKeepsIInv ==
  ASSUME IInv, NEW t \in Tasks, Enqueue(t)
  PROVE  IInv'
<1> USE DEF IInv
<1>1. Len(queue) \in Nat /\ Len(stack) \in Nat
  BY LenProperties DEF TypeOK
<1>2. /\ queue' \in Seq(Tasks)
      /\ Len(queue') = Len(queue) + 1
      /\ \A i \in 1..Len(queue) : queue'[i] = queue[i]
      /\ queue'[Len(queue) + 1] = t
  BY PushProperties DEF Enqueue, TypeOK
<1>3. /\ status' \in [Tasks -> Statuses]
      /\ status'[t] = "queued"
      /\ \A u \in Tasks \ {t} : status'[u] = status[u]
  BY DEF Enqueue, TypeOK, Statuses
<1>4. /\ draining' \in BOOLEAN
      /\ stack' \in Seq(Frame)
      /\ stack' # <<>>
      /\ stack'[1].kind = "pump"
      /\ \A i \in 1..Len(stack') :
           \/ i \in 1..Len(stack) /\ stack'[i] = stack[i]
           \/ i = Len(stack) + 1 /\ stack'[i] = Pump(None)
  BY DrainLaneProperties DEF Enqueue
<1>5. TypeOK'
  BY <1>2, <1>3, <1>4 DEF TypeOK, Enqueue
<1>6. Running' = Running
  BY <1>3 DEF Running, Enqueue
<1>7. QueueIsExact'
  <2>1. \A i \in 1..Len(queue') : i \in 1..Len(queue) \/ i = Len(queue) + 1
    BY <1>1, <1>2
  <2>2. \A i \in 1..Len(queue) : queue[i] \in Tasks /\ queue[i] # t
    BY ElementOfSeq DEF QueueIsExact, Enqueue, TypeOK
  <2>3. QED
    BY <1>2, <1>3, <2>1, <2>2 DEF QueueIsExact
<1>8. StackIsExact'
  <2>1. \A u : status[u] \in {"called", "ended"} => status'[u] = status[u]
    BY DEF Enqueue, TypeOK
  <2>2. QED
    BY <1>1, <1>4, <2>1, StackStaysExact
<1>9. QueueIsComplete'
  <2>1. \A u \in Tasks \ {t} : status[u] = "queued" => \E i \in 1..Len(queue) : queue[i] = u
    BY DEF QueueIsComplete
  <2>2. \A i \in 1..Len(queue) : i \in 1..Len(queue')
    BY <1>1, <1>2
  <2>3. Len(queue) + 1 \in 1..Len(queue')
    BY <1>1, <1>2
  <2>4. \A u \in Tasks \ {t} : status'[u] = "queued" => \E i \in 1..Len(queue') : queue'[i] = u
    BY <1>2, <1>3, <2>1, <2>2
  <2>5. \E i \in 1..Len(queue') : queue'[i] = t
    BY <1>2, <2>3
  <2>6. QED
    BY <2>4, <2>5 DEF QueueIsComplete
<1>10. QED
  BY <1>4, <1>5, <1>6, <1>7, <1>8, <1>9 DEF ActiveCountsRunning, WorkConserving, Enqueue

LEMMA SetConcurrencyKeepsIInv ==
  ASSUME IInv, NEW n \in Limits, SetConcurrency(n)
  PROVE  IInv'
<1> USE DEF IInv
<1>1. n \in Nat
  BY CommandLaneAssumption
<1>2. Len(stack) \in Nat
  BY LenProperties DEF TypeOK
<1>3. /\ draining' \in BOOLEAN
      /\ stack' \in Seq(Frame)
      /\ stack' # <<>>
      /\ stack'[1].kind = "pump"
      /\ \A i \in 1..Len(stack') :
           \/ i \in 1..Len(stack) /\ stack'[i] = stack[i]
           \/ i = Len(stack) + 1 /\ stack'[i] = Pump(None)
  BY DrainLaneProperties DEF SetConcurrency
<1>4. TypeOK'
  BY <1>1, <1>3 DEF TypeOK, SetConcurrency
<1>5. StackIsExact'
  BY <1>2, <1>3, StackStaysExact DEF SetConcurrency
<1>6. QED
  BY <1>3, <1>4, <1>5
  DEF Running, ActiveCountsRunning, QueueIsExact, QueueIsComplete, WorkConserving,
      SetConcurrency

LEMMA ClearKeepsIInv ==
  ASSUME IInv, Clear
  PROVE  IInv'
<1> USE DEF IInv
<1>1. <<>> \in Seq(Tasks) /\ Len(<<>>) = 0
  BY EmptySeq
<1>2. /\ status' \in [Tasks -> Statuses]
      /\ \A u \in Tasks : status[u] # "queued" => status'[u] = status[u]
      /\ \A u \in Tasks : status[u] = "queued" => status'[u] = "cleared"
  BY DEF Clear, TypeOK, Statuses
<1>3. TypeOK'
  BY <1>1, <1>2 DEF TypeOK, Clear
<1>4. Running' = Running
  BY <1>2 DEF Running
<1>5. QueueIsExact' /\ QueueIsComplete'
  BY <1>1, <1>2 DEF QueueIsExact, QueueIsComplete, Clear
<1>6. StackIsExact'
  <2>1. \A i \in 1..Len(stack) : stack[i] \in Frame
    BY ElementOfSeq DEF TypeOK
  <2>2. \A i \in 1..Len(stack) : stack[i].task # None => stack[i].task \in Tasks
    BY <2>1 DEF Frame
  <2>3. \A i \in 1..Len(stack) : stack[i].kind = "task" => stack[i].task \in Tasks
    BY <2>1 DEF Frame
  <2>4. QED
    BY <1>2, <2>2, <2>3 DEF StackIsExact, Clear
<1>7. QED
  BY <1>3, <1>4, <1>5, <1>6 DEF ActiveCountsRunning, WorkConserving, Clear

LEMMA PumpStartsKeepsIInv ==
  ASSUME IInv, PumpStarts
  PROVE  IInv'
<1> DEFINE t == Head(queue)
<1> USE DEF IInv
<1>1. /\ t \in Tasks
      /\ queue' \in Seq(Tasks)
      /\ Len(queue) \in Nat
      /\ Len(queue') = Len(queue) - 1
      /\ t = queue[1]
      /\ 1 \in 1..Len(queue)
      /\ \A i \in 1..Len(queue') : i + 1 \in 1..Len(queue) /\ queue'[i] = queue[i + 1]
  <2>1. queue # <<>> /\ queue \in Seq(Tasks) /\ queue' = Tail(queue)
    BY DEF PumpStarts, MayStart, TypeOK
  <2>2. /\ Head(queue) \in Tasks
        /\ Tail(queue) \in Seq(Tasks)
        /\ Len(Tail(queue)) = Len(queue) - 1
        /\ \A i \in 1..Len(Tail(queue)) : Tail(queue)[i] = queue[i + 1]
    BY <2>1, HeadTailProperties
  <2>3. Len(queue) \in Nat /\ Len(queue) # 0
    BY <2>1, LenProperties, EmptySeq
  <2>4. Head(queue) = queue[1]
    BY <2>1
  <2>5. QED
    BY <2>1, <2>2, <2>3, <2>4
<1>2. status[t] = "queued"
  BY <1>1 DEF QueueIsExact
<1>3. /\ status' \in [Tasks -> Statuses]
      /\ status'[t] = "called"
      /\ \A u \in Tasks \ {t} : status'[u] = status[u]
  BY <1>1 DEF PumpStarts, TypeOK, Statuses
<1>4. /\ stack' \in Seq(Frame)
      /\ stack' # <<>>
      /\ Len(stack) \in Nat
      /\ Len(stack') = Len(stack) + 1
      /\ \A i \in 1..Len(stack) : stack'[i] = stack[i]
      /\ stack'[Len(stack) + 1] = Call(t)
      /\ stack'[1] = stack[1]
  <2>1. stack' = Append(stack, Call(t)) /\ Call(t) \in Frame /\ stack # <<>>
    BY <1>1, Frames DEF PumpStarts
  <2>2. QED
    BY <2>1, PushProperties, LenProperties DEF TypeOK
<1>5. TypeOK'
  BY <1>1, <1>3, <1>4 DEF TypeOK, PumpStarts
<1>6. IsFiniteSet(Running') /\ ActiveCountsRunning'
  <2>1. Running' = Running \cup {t} /\ t \notin Running
    BY <1>1, <1>2, <1>3 DEF Running
  <2>2. IsFiniteSet(Running \cup {t}) /\ Cardinality(Running \cup {t}) = Cardinality(Running) + 1
    BY <2>1, FS_AddElement
  <2>3. active' = active + 1
    BY DEF PumpStarts
  <2>4. QED
    BY <2>1, <2>2, <2>3 DEF ActiveCountsRunning
<1>7. QueueIsExact'
  <2>1. ASSUME NEW i \in 1..Len(queue')
        PROVE  status'[queue'[i]] = "queued"
    <3>1. queue[i + 1] \in Tasks /\ status[queue[i + 1]] = "queued" /\ queue[i + 1] # t
      <4>1. i + 1 # 1
        BY <1>1
      <4>2. QED
        BY <1>1, <4>1, ElementOfSeq DEF QueueIsExact, TypeOK
    <3>2. QED
      BY <1>1, <1>3, <3>1
  <2>2. ASSUME NEW i \in 1..Len(queue'), NEW j \in 1..Len(queue'), queue'[i] = queue'[j]
        PROVE  i = j
    <3>1. i + 1 = j + 1
      BY <1>1, <2>2 DEF QueueIsExact
    <3>2. QED
      BY <1>1, <3>1
  <2>3. QED
    BY <2>1, <2>2 DEF QueueIsExact
<1>8. StackIsExact'
  <2>1. \A i \in 1..Len(stack) : stack[i].task # t
    <3>1. \A i \in 1..Len(stack) : stack[i] \in Frame
      BY ElementOfSeq DEF TypeOK
    <3>2. t # None
      BY <1>1, CommandLaneAssumption
    <3>3. QED
      BY <1>2, <3>1, <3>2 DEF StackIsExact, Frame
  <2>2. Call(t).kind = "task" /\ Call(t).task = t
    BY DEF Call
  <2>3. \A i \in 1..Len(stack') : i \in 1..Len(stack) \/ i = Len(stack) + 1
    BY <1>4
  <2>4. \A i \in 1..Len(stack) : stack[i].task # None => stack[i].task \in Tasks \ {t}
    <3>1. \A i \in 1..Len(stack) : stack[i] \in Frame
      BY ElementOfSeq DEF TypeOK
    <3>2. QED
      BY <2>1, <3>1 DEF Frame
  <2>5. \A i \in 1..Len(stack) : stack[i].kind = "task" => stack[i].task \in Tasks \ {t}
    <3>1. \A i \in 1..Len(stack) : stack[i] \in Frame
      BY ElementOfSeq DEF TypeOK
    <3>2. QED
      BY <2>1, <3>1 DEF Frame
  <2>6. ASSUME NEW i \in 1..Len(stack')
        PROVE  /\ stack'[i].kind = "task" => status'[stack'[i].task] = "called"
               /\ stack'[i].kind = "pump" /\ stack'[i].task # None =>
                    status'[stack'[i].task] = "ended"
    <3>1. CASE i \in 1..Len(stack)
      BY <1>3, <1>4, <2>4, <2>5, <3>1 DEF StackIsExact
    <3>2. CASE i = Len(stack) + 1
      BY <1>3, <1>4, <2>2, <3>2
    <3>3. QED
      BY <2>3, <3>1, <3>2
  <2>7. ASSUME NEW i \in 1..Len(stack'), NEW j \in 1..Len(stack'),
               stack'[i].task = stack'[j].task, stack'[i].task # None
        PROVE  i = j
    BY <1>4, <2>1, <2>2, <2>3, <2>7 DEF StackIsExact
  <2>8. stack'[1].kind = "pump"
    BY <1>4 DEF StackIsExact, PumpStarts
  <2>9. QED
    BY <2>6, <2>7, <2>8 DEF StackIsExact
<1>9. WorkConserving'
  BY <1>4 DEF WorkConserving
<1>10. QueueIsComplete'
  <2>1. ASSUME NEW u \in Tasks, status'[u] = "queued"
        PROVE  \E i \in 1..Len(queue') : queue'[i] = u
    <3>1. u # t /\ status[u] = "queued"
      BY <1>3, <2>1
    <3>2. PICK j \in 1..Len(queue) : queue[j] = u
      BY <3>1 DEF QueueIsComplete
    <3>3. j # 1
      BY <1>1, <3>1, <3>2
    <3>4. j - 1 \in 1..Len(queue') /\ (j - 1) + 1 = j
      BY <1>1, <3>3
    <3>5. queue'[j - 1] = u
      BY <1>1, <3>2, <3>4
    <3>6. QED
      BY <3>4, <3>5
  <2>2. QED
    BY <2>1 DEF QueueIsComplete
<1>11. QED
  BY <1>5, <1>6, <1>7, <1>8, <1>9, <1>10

\* A return leaves a bottom pump unless the stack empties.
LEMMA PumpReturnsKeepsIInv ==
  ASSUME IInv, PumpReturns
  PROVE  IInv'
<1> DEFINE t == Top.task
<1> USE DEF IInv
<1>1. /\ Below \in Seq(Frame)
      /\ Len(stack) \in Nat \ {0}
      /\ Len(Below) = Len(stack) - 1
      /\ \A i \in 1..Len(Below) : i \in 1..Len(stack) /\ Below[i] = stack[i]
      /\ Len(stack) \in 1..Len(stack)
      /\ Top \in Frame
      /\ Below # <<>> => Below[1] = stack[1]
  BY BelowProperties DEF TypeOK, PumpReturns
<1>2. stack' = Below /\ Top.kind = "pump" /\ Top = stack[Len(stack)] /\ stack # <<>>
  BY DEF PumpReturns, Top
<1>3. t \in Tasks \cup {None}
  BY <1>1, <1>2 DEF Frame
<1>4. t # None => status[t] = "ended"
  BY <1>1, <1>2 DEF StackIsExact
<1>5. /\ status' \in [Tasks -> Statuses]
      /\ \A u \in Tasks : u # t => status'[u] = status[u]
      /\ t # None => status'[t] = "settled"
  BY <1>3 DEF PumpReturns, TypeOK, Statuses
<1>6. TypeOK'
  BY <1>1, <1>2, <1>5 DEF TypeOK, PumpReturns
<1>7. Running' = Running
  BY <1>3, <1>4, <1>5, CommandLaneAssumption DEF Running
<1>8. QueueIsExact'
  <2>1. \A i \in 1..Len(queue) : queue[i] \in Tasks
    BY ElementOfSeq DEF TypeOK
  <2>2. \A i \in 1..Len(queue) : queue[i] # t
    BY <1>3, <1>4, <2>1, CommandLaneAssumption DEF QueueIsExact
  <2>3. QED
    BY <1>5, <2>1, <2>2 DEF QueueIsExact, PumpReturns
<1>9. StackIsExact'
  <2>1. \A i \in 1..Len(stack) : stack[i] \in Frame
    BY ElementOfSeq DEF TypeOK
  <2>2. \A i \in 1..Len(Below) : stack[i].task # None => stack[i].task # t
    BY <1>1, <1>2 DEF StackIsExact
  <2>3. \A i \in 1..Len(Below) :
          /\ stack[i].kind = "task" => stack[i].task \in Tasks /\ stack[i].task # None
          /\ stack[i].task # None => stack[i].task \in Tasks
    BY <1>1, <2>1, CommandLaneAssumption DEF Frame
  <2>4. ASSUME NEW i \in 1..Len(stack')
        PROVE  /\ stack'[i].kind = "task" => status'[stack'[i].task] = "called"
               /\ stack'[i].kind = "pump" /\ stack'[i].task # None =>
                    status'[stack'[i].task] = "ended"
    BY <1>1, <1>2, <1>5, <2>2, <2>3 DEF StackIsExact
  <2>5. ASSUME NEW i \in 1..Len(stack'), NEW j \in 1..Len(stack'),
               stack'[i].task = stack'[j].task, stack'[i].task # None
        PROVE  i = j
    BY <1>1, <1>2, <2>5 DEF StackIsExact
  <2>6. stack' # <<>> => stack'[1].kind = "pump"
    BY <1>1, <1>2 DEF StackIsExact
  <2>7. QED
    BY <2>4, <2>5, <2>6 DEF StackIsExact
<1>10. WorkConserving'
  BY DEF WorkConserving, PumpReturns, MayStart, TypeOK
<1>11. QueueIsComplete'
  BY <1>3, <1>4, <1>5 DEF QueueIsComplete, PumpReturns
<1>12. QED
  BY <1>6, <1>7, <1>8, <1>9, <1>10, <1>11 DEF ActiveCountsRunning, PumpReturns

\* What both returns of a called task start from: the task on top of the
\* stack is the only frame of that task, and a pump called it.
LEMMA TopTask ==
  ASSUME IInv, stack # <<>>, Top.kind = "task"
  PROVE  /\ Top.task \in Tasks
         /\ status[Top.task] = "called"
         /\ Below # <<>>
         /\ Below[1].kind = "pump"
         /\ \A i \in 1..Len(Below) :
              /\ stack[i].kind = "task" => stack[i].task \in Tasks \ {Top.task}
              /\ stack[i].task # None => stack[i].task \in Tasks \ {Top.task}
<1> USE DEF IInv
<1>1. /\ Below \in Seq(Frame)
      /\ Len(stack) \in Nat \ {0}
      /\ Len(Below) = Len(stack) - 1
      /\ \A i \in 1..Len(Below) : i \in 1..Len(stack) /\ Below[i] = stack[i]
      /\ Len(stack) \in 1..Len(stack)
      /\ Top \in Frame
      /\ Below # <<>> => Below[1] = stack[1]
  BY BelowProperties DEF TypeOK
<1>2. Top = stack[Len(stack)]
  BY DEF Top
<1>3. Top.task \in Tasks /\ Top.task # None
  BY <1>1, CommandLaneAssumption DEF Frame
<1>4. status[Top.task] = "called"
  BY <1>1, <1>2 DEF StackIsExact
<1>5. stack[1].kind = "pump"
  BY DEF StackIsExact
<1>6. Below # <<>>
  <2>1. Len(stack) # 1
    BY <1>2, <1>5
  <2>2. Len(Below) # 0
    BY <1>1, <2>1
  <2>3. QED
    BY <1>1, <2>2, EmptySeq
<1>7. \A i \in 1..Len(Below) : stack[i].task # None => stack[i].task # Top.task
  BY <1>1, <1>2 DEF StackIsExact
<1>8. \A i \in 1..Len(Below) :
        /\ stack[i].kind = "task" => stack[i].task \in Tasks /\ stack[i].task # None
        /\ stack[i].task # None => stack[i].task \in Tasks
  <2>1. \A i \in 1..Len(stack) : stack[i] \in Frame
    BY ElementOfSeq DEF TypeOK
  <2>2. QED
    BY <1>1, <2>1, CommandLaneAssumption DEF Frame
<1>9. QED
  BY <1>1, <1>3, <1>4, <1>5, <1>6, <1>7, <1>8

LEMMA TaskAwaitsKeepsIInv ==
  ASSUME IInv, TaskAwaits
  PROVE  IInv'
<1> DEFINE t == Top.task
<1> USE DEF IInv
<1>1. /\ Below \in Seq(Frame)
      /\ Len(Below) \in Nat
      /\ \A i \in 1..Len(Below) : i \in 1..Len(stack) /\ Below[i] = stack[i]
  BY BelowProperties, LenProperties DEF TypeOK, TaskAwaits
<1>2. /\ t \in Tasks
      /\ status[t] = "called"
      /\ Below # <<>>
      /\ Below[1].kind = "pump"
      /\ \A i \in 1..Len(Below) :
           /\ stack[i].kind = "task" => stack[i].task \in Tasks \ {t}
           /\ stack[i].task # None => stack[i].task \in Tasks \ {t}
  BY TopTask DEF TaskAwaits
<1>3. stack' = Below
  BY DEF TaskAwaits
<1>4. /\ status' \in [Tasks -> Statuses]
      /\ status'[t] = "awaited"
      /\ \A u \in Tasks \ {t} : status'[u] = status[u]
  BY <1>2 DEF TaskAwaits, TypeOK, Statuses
<1>5. TypeOK'
  BY <1>1, <1>3, <1>4 DEF TypeOK, TaskAwaits
<1>6. Running' = Running
  BY <1>2, <1>4 DEF Running
<1>7. QueueIsExact'
  <2>1. \A i \in 1..Len(queue) : queue[i] \in Tasks
    BY ElementOfSeq DEF TypeOK
  <2>2. \A i \in 1..Len(queue) : queue[i] # t
    BY <1>2 DEF QueueIsExact
  <2>3. QED
    BY <1>4, <2>1, <2>2 DEF QueueIsExact, TaskAwaits
<1>8. StackIsExact'
  <2>1. ASSUME NEW i \in 1..Len(stack')
        PROVE  /\ stack'[i].kind = "task" => status'[stack'[i].task] = "called"
               /\ stack'[i].kind = "pump" /\ stack'[i].task # None =>
                    status'[stack'[i].task] = "ended"
    BY <1>1, <1>2, <1>3, <1>4 DEF StackIsExact
  <2>2. ASSUME NEW i \in 1..Len(stack'), NEW j \in 1..Len(stack'),
               stack'[i].task = stack'[j].task, stack'[i].task # None
        PROVE  i = j
    BY <1>1, <1>3, <2>2 DEF StackIsExact
  <2>3. stack'[1].kind = "pump"
    BY <1>2, <1>3
  <2>4. QED
    BY <2>1, <2>2, <2>3 DEF StackIsExact
<1>9. WorkConserving'
  BY <1>2, <1>3 DEF WorkConserving
<1>10. QueueIsComplete'
  BY <1>2, <1>4 DEF QueueIsComplete, TaskAwaits
<1>11. QED
  BY <1>5, <1>6, <1>7, <1>8, <1>9, <1>10 DEF ActiveCountsRunning, TaskAwaits

\* A task that has ended leaves Running, and active follows.
LEMMA EndedLeavesRunning ==
  ASSUME IInv, NEW t \in Tasks, t \in Running,
         status' = [status EXCEPT ![t] = "ended"], active' = active - 1
  PROVE  /\ status' \in [Tasks -> Statuses]
         /\ status'[t] = "ended"
         /\ \A u \in Tasks \ {t} : status'[u] = status[u]
         /\ active' \in Nat
         /\ IsFiniteSet(Running')
         /\ ActiveCountsRunning'
<1> USE DEF IInv
<1>1. /\ status' \in [Tasks -> Statuses]
      /\ status'[t] = "ended"
      /\ \A u \in Tasks \ {t} : status'[u] = status[u]
  BY DEF TypeOK, Statuses
<1>2. Running' = Running \ {t}
  BY <1>1 DEF Running
<1>3. IsFiniteSet(Running \ {t}) /\ Cardinality(Running \ {t}) = Cardinality(Running) - 1
  BY FS_RemoveElement
<1>4. Cardinality(Running \ {t}) \in Nat
  BY <1>3, FS_CardinalityType
<1>5. active' = Cardinality(Running \ {t})
  BY <1>3 DEF ActiveCountsRunning
<1>6. QED
  BY <1>1, <1>2, <1>3, <1>4, <1>5, Zenon DEF ActiveCountsRunning

LEMMA TaskThrowsKeepsIInv ==
  ASSUME IInv, TaskThrows
  PROVE  IInv'
<1> DEFINE t == Top.task
<1> USE DEF IInv
<1>1. /\ Below \in Seq(Frame)
      /\ Len(Below) \in Nat
      /\ \A i \in 1..Len(Below) : i \in 1..Len(stack) /\ Below[i] = stack[i]
  BY BelowProperties, LenProperties DEF TypeOK, TaskThrows
<1>2. /\ t \in Tasks
      /\ status[t] = "called"
      /\ Below # <<>>
      /\ Below[1].kind = "pump"
      /\ \A i \in 1..Len(Below) :
           /\ stack[i].kind = "task" => stack[i].task \in Tasks \ {t}
           /\ stack[i].task # None => stack[i].task \in Tasks \ {t}
  BY TopTask DEF TaskThrows
<1>3. /\ stack' \in Seq(Frame)
      /\ stack' # <<>>
      /\ Len(stack') = Len(Below) + 1
      /\ \A i \in 1..Len(Below) : stack'[i] = Below[i]
      /\ stack'[Len(Below) + 1] = Pump(t)
      /\ stack'[1] = Below[1]
  <2>1. stack' = Append(Below, Pump(t)) /\ Pump(t) \in Frame
    BY <1>2, Frames DEF TaskThrows
  <2>2. QED
    BY <1>1, <1>2, <2>1, PushProperties
<1>4. /\ status' \in [Tasks -> Statuses]
      /\ status'[t] = "ended"
      /\ \A u \in Tasks \ {t} : status'[u] = status[u]
      /\ active' \in Nat
      /\ IsFiniteSet(Running')
      /\ ActiveCountsRunning'
  <2>1. t \in Running /\ status' = [status EXCEPT ![t] = "ended"] /\ active' = active - 1
    BY <1>2 DEF TaskThrows, Running
  <2>2. QED
    BY <1>2, <2>1, EndedLeavesRunning
<1>5. TypeOK'
  BY <1>3, <1>4 DEF TypeOK, TaskThrows
<1>6. QueueIsExact'
  <2>1. \A i \in 1..Len(queue) : queue[i] \in Tasks
    BY ElementOfSeq DEF TypeOK
  <2>2. \A i \in 1..Len(queue) : queue[i] # t
    BY <1>2 DEF QueueIsExact
  <2>3. QED
    BY <1>4, <2>1, <2>2 DEF QueueIsExact, TaskThrows
<1>7. StackIsExact'
  <2>1. Pump(t).kind = "pump" /\ Pump(t).task = t
    BY DEF Pump
  <2>2. \A i \in 1..Len(stack') : i \in 1..Len(Below) \/ i = Len(Below) + 1
    BY <1>1, <1>3
  <2>3. ASSUME NEW i \in 1..Len(stack')
        PROVE  /\ stack'[i].kind = "task" => status'[stack'[i].task] = "called"
               /\ stack'[i].kind = "pump" /\ stack'[i].task # None =>
                    status'[stack'[i].task] = "ended"
    <3>1. CASE i \in 1..Len(Below)
      BY <1>1, <1>2, <1>3, <1>4, <3>1 DEF StackIsExact
    <3>2. CASE i = Len(Below) + 1
      BY <1>3, <1>4, <2>1, <3>2
    <3>3. QED
      BY <2>2, <3>1, <3>2
  <2>4. ASSUME NEW i \in 1..Len(stack'), NEW j \in 1..Len(stack'),
               stack'[i].task = stack'[j].task, stack'[i].task # None
        PROVE  i = j
    BY <1>1, <1>2, <1>3, <2>1, <2>2, <2>4 DEF StackIsExact
  <2>5. stack'[1].kind = "pump"
    BY <1>2, <1>3
  <2>6. QED
    BY <2>3, <2>4, <2>5 DEF StackIsExact
<1>8. WorkConserving'
  BY <1>3 DEF WorkConserving
<1>9. QueueIsComplete'
  BY <1>2, <1>4 DEF QueueIsComplete, TaskThrows
<1>10. QED
  BY <1>4, <1>5, <1>6, <1>7, <1>8, <1>9

LEMMA TaskEndsKeepsIInv ==
  ASSUME IInv, NEW t \in Tasks, TaskEnds(t)
  PROVE  IInv'
<1> USE DEF IInv
<1>1. stack' = <<Pump(t)>> /\ Pump(t) \in Frame
  BY Frames DEF TaskEnds
<1>2. /\ stack' \in Seq(Frame)
      /\ Len(stack') = 1
      /\ stack' # <<>>
      /\ stack'[1] = Pump(t)
  BY <1>1
<1>3. /\ status' \in [Tasks -> Statuses]
      /\ status'[t] = "ended"
      /\ \A u \in Tasks \ {t} : status'[u] = status[u]
      /\ active' \in Nat
      /\ IsFiniteSet(Running')
      /\ ActiveCountsRunning'
  <2>1. t \in Running /\ status' = [status EXCEPT ![t] = "ended"] /\ active' = active - 1
    BY DEF TaskEnds, Running
  <2>2. QED
    BY <2>1, EndedLeavesRunning
<1>4. TypeOK'
  BY <1>2, <1>3 DEF TypeOK, TaskEnds
<1>5. QueueIsExact'
  <2>1. \A i \in 1..Len(queue) : queue[i] \in Tasks
    BY ElementOfSeq DEF TypeOK
  <2>2. \A i \in 1..Len(queue) : queue[i] # t
    BY DEF QueueIsExact, TaskEnds
  <2>3. QED
    BY <1>3, <2>1, <2>2 DEF QueueIsExact, TaskEnds
<1>6. StackIsExact'
  BY <1>2, <1>3 DEF StackIsExact, Pump
<1>7. WorkConserving'
  BY <1>2 DEF WorkConserving
<1>8. QueueIsComplete'
  BY <1>3 DEF QueueIsComplete, TaskEnds
<1>9. QED
  BY <1>3, <1>4, <1>5, <1>6, <1>7, <1>8

-----------------------------------------------------------------------------
(* The theorems.                                                           *)

\* The invariant is inductive.
LEMMA NextKeepsIInv == IInv /\ [Next]_vars => IInv'
<1> SUFFICES ASSUME IInv, [Next]_vars PROVE IInv'
  OBVIOUS
<1>1. ASSUME NEW t \in Tasks, Enqueue(t) PROVE IInv'
  BY <1>1, EnqueueKeepsIInv
<1>2. ASSUME NEW n \in Limits, SetConcurrency(n) PROVE IInv'
  BY <1>2, SetConcurrencyKeepsIInv
<1>3. CASE Clear
  BY <1>3, ClearKeepsIInv
<1>4. CASE PumpStarts
  BY <1>4, PumpStartsKeepsIInv
<1>5. CASE PumpReturns
  BY <1>5, PumpReturnsKeepsIInv
<1>6. CASE TaskAwaits
  BY <1>6, TaskAwaitsKeepsIInv
<1>7. CASE TaskThrows
  BY <1>7, TaskThrowsKeepsIInv
<1>8. ASSUME NEW t \in Tasks, TaskEnds(t) PROVE IInv'
  BY <1>8, TaskEndsKeepsIInv
<1>9. CASE UNCHANGED vars
  BY <1>9 DEF vars, IInv, TypeOK, Running, ActiveCountsRunning, QueueIsExact,
              QueueIsComplete, StackIsExact, WorkConserving
<1>10. QED
  BY <1>1, <1>2, <1>3, <1>4, <1>5, <1>6, <1>7, <1>8, <1>9 DEF Next, Callers, TaskReturns

\* The bookkeeping of a lane is exact in every state it reaches.
THEOREM Bookkeeping == Spec => []IInv
<1>1. Init => IInv
  BY InitIInv
<1>2. IInv /\ [Next]_vars => IInv'
  BY NextKeepsIInv
<1>3. QED
  BY <1>1, <1>2, PTL DEF Spec

\* Every variable stays in its range; maxConcurrent is never zero although
\* setLaneConcurrency takes any number.
THEOREM TypeCorrect == Spec => []TypeOK
<1>1. IInv => TypeOK
  BY DEF IInv
<1>2. QED
  BY <1>1, Bookkeeping, PTL

\* For any tasks and limits, no task waits at an idle lane below its limit
\* once the lane's code has returned to the event loop.
THEOREM NoLostWakeup == Spec => []WorkConserving
<1>1. IInv => WorkConserving
  BY DEF IInv
<1>2. QED
  BY <1>1, Bookkeeping, PTL

\* state.active is the number of tasks running, whatever throws or nests.
THEOREM ActiveIsExact == Spec => []ActiveCountsRunning
<1>1. IInv => ActiveCountsRunning
  BY DEF IInv
<1>2. QED
  BY <1>1, Bookkeeping, PTL

-----------------------------------------------------------------------------
(* A lane is an executor.                                                  *)

\* The tasks in the queue are the tasks that wait.
LEMMA WaitingTasks ==
  ASSUME IInv
  PROVE  ExecutorOf!Waiting = {t \in Tasks : status[t] = "queued"}
<1>1. \A i \in 1..Len(queue) : queue[i] \in Tasks /\ status[queue[i]] = "queued"
  BY ElementOfSeq DEF IInv, TypeOK, QueueIsExact
<1>2. \A t \in Tasks : status[t] = "queued" => \E i \in 1..Len(queue) : queue[i] = t
  BY DEF IInv, QueueIsComplete
<1>3. QED
  BY <1>1, <1>2 DEF ExecutorOf!Waiting

LEMMA SameCardinality == \A S : ExecutorOf!Cardinality(S) = Cardinality(S)
BY Zenon DEF ExecutorOf!Cardinality, Cardinality

\* Every step of a lane is a step of the executor or none at all.
LEMMA StepIsExecutorStep ==
  ASSUME IInv, [Next]_vars
  PROVE  [ExecutorOf!Next]_(ExecutorOf!vars)
<1> DEFINE Finished  == {t \in Tasks : status[t] \in {"ended", "settled"}}
           Discarded == {t \in Tasks : status[t] = "cleared"}
<1>1. status \in [Tasks -> Statuses] /\ active = Cardinality(Running)
  BY DEF IInv, TypeOK, ActiveCountsRunning
<1>2. ASSUME NEW t \in Tasks, Enqueue(t) PROVE ExecutorOf!Submit(t)
  <2>1. t \notin ExecutorOf!Waiting \cup Running \cup Finished \cup Discarded
    BY <1>2, WaitingTasks DEF Enqueue, Running
  <2>2. status'[t] = "queued" /\ \A u \in Tasks \ {t} : status'[u] = status[u]
    BY <1>1, <1>2 DEF Enqueue
  <2>3. Running' = Running /\ Finished' = Finished /\ Discarded' = Discarded
    BY <1>2, <2>2 DEF Running, Enqueue
  <2>4. QED
    BY <1>2, <2>1, <2>3 DEF ExecutorOf!Submit, Enqueue
<1>3. ASSUME NEW n \in Limits, SetConcurrency(n) PROVE ExecutorOf!SetLimit(n)
  BY <1>3 DEF ExecutorOf!SetLimit, SetConcurrency, Running
<1>4. ASSUME Clear PROVE ExecutorOf!Discard
  <2>1. \A u \in Tasks : status'[u] = IF status[u] = "queued" THEN "cleared" ELSE status[u]
    BY <1>4 DEF Clear
  <2>2. Running' = Running /\ Finished' = Finished
    BY <2>1 DEF Running
  <2>3. Discarded' = Discarded \cup ExecutorOf!Waiting
    BY <2>1, WaitingTasks
  <2>4. QED
    BY <1>4, <2>2, <2>3 DEF ExecutorOf!Discard, Clear
<1>5. ASSUME PumpStarts PROVE ExecutorOf!Start
  <2>1. queue # <<>> /\ active < maxConcurrent /\ queue' = Tail(queue)
    BY <1>5 DEF PumpStarts, MayStart
  <2>2. Head(queue) \in Tasks /\ status[Head(queue)] = "queued"
    <3>1. Head(queue) \in Tasks /\ Head(queue) = queue[1] /\ 1 \in 1..Len(queue)
      BY <2>1, HeadTailProperties, LenProperties, EmptySeq DEF IInv, TypeOK
    <3>2. QED
      BY <3>1 DEF IInv, QueueIsExact
  <2>3. /\ status'[Head(queue)] = "called"
        /\ \A u \in Tasks \ {Head(queue)} : status'[u] = status[u]
    BY <1>1, <1>5, <2>2 DEF PumpStarts
  <2>4. Running' = Running \cup {Head(queue)}
    BY <2>2, <2>3 DEF Running
  <2>5. Finished' = Finished /\ Discarded' = Discarded
    BY <2>2, <2>3
  <2>6. QED
    BY <1>1, <1>5, <2>1, <2>4, <2>5, SameCardinality DEF ExecutorOf!Start, PumpStarts
<1>6. ASSUME PumpReturns PROVE UNCHANGED ExecutorOf!vars
  <2>1. Top.task # None => Top.task \in Tasks /\ status[Top.task] = "ended"
    <3>1. stack # <<>> /\ Top.kind = "pump"
      BY <1>6 DEF PumpReturns
    <3>2. Top \in Frame /\ Top = stack[Len(stack)] /\ Len(stack) \in 1..Len(stack)
      BY <3>1, BelowProperties DEF IInv, TypeOK, Top
    <3>3. QED
      BY <3>1, <3>2 DEF Frame, IInv, StackIsExact
  <2>2. CASE Top.task = None
    BY <1>6, <2>2 DEF ExecutorOf!vars, PumpReturns, Running
  <2>3. CASE Top.task # None
    <3>1. /\ status'[Top.task] = "settled"
          /\ \A u \in Tasks \ {Top.task} : status'[u] = status[u]
      BY <1>1, <1>6, <2>1, <2>3 DEF PumpReturns
    <3>2. Running' = Running /\ Finished' = Finished /\ Discarded' = Discarded
      BY <2>1, <2>3, <3>1 DEF Running
    <3>3. QED
      BY <1>6, <3>2 DEF ExecutorOf!vars, PumpReturns
  <2>4. QED
    BY <2>2, <2>3
<1>7. ASSUME TaskAwaits PROVE UNCHANGED ExecutorOf!vars
  <2>1. Top.task \in Tasks /\ status[Top.task] = "called"
    BY <1>7, TopTask DEF TaskAwaits
  <2>2. /\ status'[Top.task] = "awaited"
        /\ \A u \in Tasks \ {Top.task} : status'[u] = status[u]
    BY <1>1, <1>7, <2>1 DEF TaskAwaits
  <2>3. Running' = Running /\ Finished' = Finished /\ Discarded' = Discarded
    BY <2>1, <2>2 DEF Running
  <2>4. QED
    BY <1>7, <2>3 DEF ExecutorOf!vars, TaskAwaits
<1>8. ASSUME NEW t \in Tasks, t \in Running, status' = [status EXCEPT ![t] = "ended"],
             UNCHANGED <<queue, maxConcurrent>>
      PROVE  ExecutorOf!Finish(t)
  <2>1. status'[t] = "ended" /\ \A u \in Tasks \ {t} : status'[u] = status[u]
    BY <1>1, <1>8
  <2>2. Running' = Running \ {t} /\ Finished' = Finished \cup {t} /\ Discarded' = Discarded
    BY <1>8, <2>1 DEF Running
  <2>3. QED
    BY <1>8, <2>2 DEF ExecutorOf!Finish
<1>9. ASSUME TaskThrows PROVE \E t \in Tasks : ExecutorOf!Finish(t)
  <2>1. Top.task \in Tasks /\ Top.task \in Running
    BY <1>9, TopTask DEF TaskThrows, Running
  <2>2. PICK t \in Tasks : t = Top.task
    BY <2>1
  <2>3. ExecutorOf!Finish(t)
    BY <1>8, <1>9, <2>1, <2>2 DEF TaskThrows
  <2>4. QED
    BY <2>3
<1>10. ASSUME NEW t \in Tasks, TaskEnds(t) PROVE ExecutorOf!Finish(t)
  BY <1>8, <1>10 DEF TaskEnds, Running
<1>11. ASSUME UNCHANGED vars PROVE UNCHANGED ExecutorOf!vars
  BY <1>11 DEF vars, ExecutorOf!vars, Running
<1>12. QED
  BY <1>2, <1>3, <1>4, <1>5, <1>6, <1>7, <1>9, <1>10, <1>11
  DEF Next, Callers, TaskReturns, ExecutorOf!Next

\* A lane implements the executor for any tasks and limits: tasks start in
\* the order of enqueueCommandInLane, at most maxConcurrent of them run when
\* one starts, and each is finished or discarded, once.
THEOREM LaneIsExecutor == Spec => ExecutorSpec
<1>1. Init => ExecutorOf!Init
  <2>1. ASSUME Init PROVE ExecutorOf!Init
    BY <2>1 DEF Init, ExecutorOf!Init, Running
  <2>2. QED
    BY <2>1
<1>2. IInv /\ [Next]_vars => [ExecutorOf!Next]_(ExecutorOf!vars)
  BY StepIsExecutorStep
<1>3. QED
  BY <1>1, <1>2, Bookkeeping, PTL DEF Spec, ExecutorSpec, ExecutorOf!Spec
=============================================================================

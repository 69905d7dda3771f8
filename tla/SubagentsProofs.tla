--------------------------- MODULE SubagentsProofs ---------------------------
(***************************************************************************)
(* Proofs about Subagents, for any subagents, chats, sessions and limits.  *)
(***************************************************************************)
EXTENDS Subagents, FiniteSetTheorems, TLAPS

-----------------------------------------------------------------------------
(* The inductive invariant.                                                *)

GhostsOK == told \in [Subs -> Nat] /\ forgot \subseteq Subs

\* The waiting tasks wait in the lane, each once.
WaitingIsExact ==
  /\ IsFiniteSet(Slots(step))
  /\ \A i \in 1 .. Len(waiting) : step[waiting[i]] = "waiting"
  /\ \A i, k \in 1 .. Len(waiting) : waiting[i] = waiting[k] => i = k

\* Only a process that runs or ran has printed something, and what it printed
\* took the record out of its queue, or out of those that are active; what
\* says running was printed, or is a Task call, or was loaded by a restart.
OutputIsRead(s) ==
  /\ out[s] # "none" => /\ step[s] \in {"alive", "exited", "mute"}
                        /\ rec[s].status # "queued"
  /\ step[s] = "exited" => out[s] # "none"
  /\ out[s] = "completed" => rec[s].status # "running"
  /\ rec[s].status = "running" => out[s] # "none" \/ step[s] \in {"task", "lost", "gone"}

\* Where a record says completed, the subagent's own output says so, or its
\* answer as a Task call, or a restart.
CompletedIsReported(s) ==
  rec[s].status = "completed" => out[s] = "completed" \/ step[s] \in {"answered", "gone"}

\* Where it says error, the subagent's process has failed or has exited.
ErrorIsOfItsEnd(s) ==
  rec[s].status = "error" => step[s] \in {"failed", "exited", "answered", "gone"}

\* A subagent that nobody spawned is in no record, not even a saved one.
RecordsAreOfSpawned(s) ==
  step[s] = "none" => /\ rec[s].status = "none"
                      /\ file[s].status = "none"
                      /\ writing # None => writing[s].status = "none"

\* A result that was told is marked as injected, or its record is gone for
\* good, or a crash has forgotten the mark.
ToldIsMarked(s) ==
  /\ told[s] > 0 => /\ step[s] # "none"
                    /\ s \in forgot \/ rec[s].injected \/ rec[s].status = "none"
  /\ told[s] > 1 => s \in forgot

SubagentIsSound(s) ==
  /\ OutputIsRead(s)
  /\ step[s] \in {"exited", "failed", "answered"} => s \notin Active(rec)
  /\ CompletedIsReported(s)
  /\ ErrorIsOfItsEnd(s)
  /\ RecordsAreOfSpawned(s)
  /\ ToldIsMarked(s)

IInv ==
  /\ TypeOK
  /\ GhostsOK
  /\ WaitingIsExact
  /\ LaneIsFull
  /\ \A s \in Subs : SubagentIsSound(s)

-----------------------------------------------------------------------------
(* Facts about records, and about the lane.                                *)

KeptRecord ==
  [status : {"queued", "running", "completed", "error", "stopped"},
   chat : Chats, parent : Sessions \cup {None}, injected : BOOLEAN]

LEMMA RecordProperties ==
  /\ NoRecord \in Record /\ NoRecord.status = "none" /\ ~NoRecord.injected
  /\ \A r \in Record :
       /\ r.status = "none" => r = NoRecord
       /\ r.status # "none" => r \in KeptRecord
       /\ r.status \in {"none", "queued", "running", "completed", "error", "stopped"}
BY DEF Record, NoRecord, KeptRecord

LEMMA StatusChange ==
  ASSUME NEW r \in Record, r.status # "none",
         NEW status \in {"running", "completed", "error", "stopped"}
  PROVE  /\ [r EXCEPT !.status = status] \in Record
         /\ [r EXCEPT !.status = status].status = status
         /\ [r EXCEPT !.status = status].injected = r.injected
<1>1. r \in KeptRecord
  BY RecordProperties
<1>2. [r EXCEPT !.status = status] \in KeptRecord
  BY <1>1 DEF KeptRecord
<1>3. QED
  BY <1>1, <1>2 DEF KeptRecord, Record

LEMMA InjectedChange ==
  ASSUME NEW r \in Record, r.status # "none"
  PROVE  /\ [r EXCEPT !.injected = TRUE] \in Record
         /\ [r EXCEPT !.injected = TRUE].status = r.status
         /\ [r EXCEPT !.injected = TRUE].injected
<1>1. r \in KeptRecord
  BY RecordProperties
<1>2. [r EXCEPT !.injected = TRUE] \in KeptRecord
  BY <1>1 DEF KeptRecord
<1>3. QED
  BY <1>1, <1>2 DEF KeptRecord, Record

\* registry.update changes the status of a record that is there.
LEMMA MarkedProperties ==
  ASSUME rec \in [Subs -> Record], NEW s \in Subs,
         NEW status \in {"running", "completed", "error", "stopped"}
  PROVE  /\ Marked(s, status) \in [Subs -> Record]
         /\ \A u \in Subs : u # s => Marked(s, status)[u] = rec[u]
         /\ rec[s].status = "none" => Marked(s, status) = rec
         /\ rec[s].status # "none" => /\ Marked(s, status)[s].status = status
                                      /\ Marked(s, status)[s].injected = rec[s].injected
<1>1. CASE rec[s].status = "none"
  BY <1>1 DEF Marked
<1>2. CASE rec[s].status # "none"
  <2>1. Marked(s, status) = [rec EXCEPT ![s] = [rec[s] EXCEPT !.status = status]]
    BY <1>2 DEF Marked
  <2>2. /\ [rec[s] EXCEPT !.status = status] \in Record
        /\ [rec[s] EXCEPT !.status = status].status = status
        /\ [rec[s] EXCEPT !.status = status].injected = rec[s].injected
    BY <1>2, StatusChange
  <2>3. QED
    BY <1>2, <2>1, <2>2
<1>3. QED
  BY <1>1, <1>2

\* Pruning keeps a record or drops it.
LEMMA PrunedProperties ==
  ASSUME NEW rs \in [Subs -> Record], NEW c, NEW pruned \in Pruned(rs, c)
  PROVE  /\ pruned \in [Subs -> Record]
         /\ \A u \in Subs : pruned[u] \in {rs[u], NoRecord}
<1>1. PICK gone : pruned = [s \in Subs |-> IF s \in gone THEN NoRecord ELSE rs[s]]
  BY DEF Pruned
<1>2. QED
  BY <1>1, RecordProperties

LEMMA MarkedAndPrunedProperties ==
  ASSUME rec \in [Subs -> Record], NEW s \in Subs,
         NEW status \in {"running", "completed", "error", "stopped"},
         NEW rs \in MarkedAndPruned(s, status)
  PROVE  /\ rs \in [Subs -> Record]
         /\ \A u \in Subs : u # s => rs[u] \in {rec[u], NoRecord}
         /\ \/ rs[s].status = "none"
            \/ rs[s].status = status /\ rs[s].injected = rec[s].injected
<1>1. CASE rec[s].status = "none"
  BY <1>1 DEF MarkedAndPruned
<1>2. CASE rec[s].status # "none"
  <2>1. rs \in Pruned(Marked(s, status), rec[s].chat)
    BY <1>2 DEF MarkedAndPruned
  <2> DEFINE ms == Marked(s, status)
  <2>2. /\ ms \in [Subs -> Record]
        /\ \A u \in Subs : u # s => ms[u] = rec[u]
        /\ ms[s].status = status /\ ms[s].injected = rec[s].injected
    BY <1>2, MarkedProperties
  <2>3. rs \in [Subs -> Record] /\ \A u \in Subs : rs[u] \in {ms[u], NoRecord}
    BY <2>1, <2>2, PrunedProperties
  <2> HIDE DEF ms
  <2>4. CASE rs[s] = NoRecord
    BY <2>2, <2>3, <2>4, RecordProperties
  <2>5. CASE rs[s] = ms[s]
    BY <2>2, <2>3, <2>5
  <2>6. QED
    BY <2>3, <2>4, <2>5
<1>3. QED
  BY <1>1, <1>2

\* A step that starts and ends no task leaves the lane as it is.
LEMMA LaneStays ==
  ASSUME WaitingIsExact, LaneIsFull, waiting' = waiting,
         \A u \in Subs : \/ step'[u] = step[u]
                         \/ /\ step[u] # "waiting"
                            /\ step[u] \in {"starting", "alive", "failed"}
                                 <=> step'[u] \in {"starting", "alive", "failed"},
         waiting \in Seq(Subs)
  PROVE  WaitingIsExact' /\ LaneIsFull'
<1>1. Slots(step') = Slots(step)
  BY DEF Slots
<1>2. \A i \in 1 .. Len(waiting) : waiting[i] \in Subs
  OBVIOUS
<1>3. QED
  BY <1>1, <1>2 DEF WaitingIsExact, LaneIsFull

LEMMA TailProperties ==
  ASSUME NEW S, NEW s \in Seq(S), s # <<>>
  PROVE  /\ Head(s) \in S /\ Tail(s) \in Seq(S) /\ Len(s) \in Nat \ {0}
         /\ Len(Tail(s)) = Len(s) - 1
         /\ Head(s) = s[1] /\ 1 \in 1 .. Len(s)
         /\ \A i \in 1 .. Len(Tail(s)) : Tail(s)[i] = s[i + 1] /\ i + 1 \in 1 .. Len(s)
OBVIOUS

LEMMA AppendProperties ==
  ASSUME NEW S, NEW s \in Seq(S), NEW x \in S
  PROVE  /\ Append(s, x) \in Seq(S) /\ Len(Append(s, x)) = Len(s) + 1 /\ Len(s) \in Nat
         /\ \A i \in 1 .. Len(s) : Append(s, x)[i] = s[i]
         /\ Append(s, x)[Len(s) + 1] = x
         /\ Append(s, x) # <<>>
OBVIOUS

-----------------------------------------------------------------------------
(* The lane.                                                               *)

LEMMA SubmitKeepsLane ==
  ASSUME TypeOK, WaitingIsExact, LaneIsFull, NEW s \in Subs, Submit(s)
  PROVE  WaitingIsExact' /\ LaneIsFull' /\ waiting' \in Seq(Subs)
<1>0. /\ step \in [Subs -> Steps] /\ step[s] = "confirming" /\ waiting \in Seq(Subs)
      /\ IsFiniteSet(Slots(step)) /\ Cardinality(Slots(step)) \in Nat
      /\ MaxLane \in Nat \ {0}
      /\ Cardinality(Slots(step)) <= MaxLane
      /\ waiting # <<>> => Cardinality(Slots(step)) = MaxLane
  BY FS_CardinalityType, SubagentsAssumption DEF TypeOK, WaitingIsExact, LaneIsFull, Submit
<1>1. CASE Cardinality(Slots(step)) < MaxLane
  <2>1. waiting = <<>> /\ waiting' = <<>> /\ step' = [step EXCEPT ![s] = "starting"]
    BY <1>0, <1>1 DEF Submit
  <2>2. Slots(step') = Slots(step) \cup {s} /\ s \notin Slots(step)
    BY <1>0, <2>1 DEF Slots
  <2>3. IsFiniteSet(Slots(step')) /\ Cardinality(Slots(step')) = Cardinality(Slots(step)) + 1
    BY <1>0, <2>2, FS_AddElement
  <2>4. Cardinality(Slots(step')) <= MaxLane
    BY <1>0, <1>1, <2>3
  <2>5. QED
    BY <2>1, <2>3, <2>4 DEF WaitingIsExact, LaneIsFull
<1>2. CASE Cardinality(Slots(step)) >= MaxLane
  <2>1. waiting' = Append(waiting, s) /\ step' = [step EXCEPT ![s] = "waiting"]
    BY <1>0, <1>2 DEF Submit
  <2>2. Slots(step') = Slots(step)
    BY <1>0, <2>1 DEF Slots
  <2>3. \A i \in 1 .. Len(waiting) : waiting[i] \in Subs /\ waiting[i] # s /\ step'[waiting[i]] = "waiting"
    BY <1>0, <2>1 DEF WaitingIsExact
  <2>4. WaitingIsExact'
    BY <1>0, <2>1, <2>2, <2>3, AppendProperties DEF WaitingIsExact
  <2>5. Cardinality(Slots(step)) = MaxLane
    BY <1>0, <1>2
  <2>6. QED
    BY <1>0, <2>1, <2>2, <2>4, <2>5, AppendProperties DEF LaneIsFull
<1>3. QED
  BY <1>0, <1>1, <1>2

LEMMA EndTaskKeepsLane ==
  ASSUME TypeOK, WaitingIsExact, LaneIsFull, NEW s \in Subs, step[s] = "alive",
         NEW how \in {"mute", "exited"}, EndTask(s, how)
  PROVE  /\ WaitingIsExact' /\ LaneIsFull' /\ waiting' \in Seq(Subs)
         /\ step' \in [Subs -> Steps] /\ step'[s] = how
         /\ \A u \in Subs : u # s => \/ step'[u] = step[u]
                                     \/ step[u] = "waiting" /\ step'[u] = "starting"
<1>0. /\ step \in [Subs -> Steps] /\ waiting \in Seq(Subs) /\ s \in Slots(step)
      /\ IsFiniteSet(Slots(step)) /\ Cardinality(Slots(step)) \in Nat
      /\ MaxLane \in Nat \ {0}
      /\ Cardinality(Slots(step)) <= MaxLane
      /\ waiting # <<>> => Cardinality(Slots(step)) = MaxLane
      /\ IsFiniteSet(Slots(step) \ {s})
      /\ Cardinality(Slots(step) \ {s}) = Cardinality(Slots(step)) - 1
      /\ how \in Steps /\ "starting" \in Steps
  <2>1. s \in Slots(step) /\ IsFiniteSet(Slots(step)) /\ step \in [Subs -> Steps] /\ waiting \in Seq(Subs)
    BY DEF TypeOK, Slots, WaitingIsExact
  <2>2. QED
    BY <2>1, FS_CardinalityType, FS_RemoveElement, SubagentsAssumption DEF LaneIsFull, Steps
<1>1. CASE waiting = <<>>
  <2>1. waiting' = <<>> /\ step' = [step EXCEPT ![s] = how]
    BY <1>1 DEF EndTask
  <2>2. Slots(step') = Slots(step) \ {s}
    BY <1>0, <2>1 DEF Slots
  <2>3. /\ Cardinality(Slots(step')) = Cardinality(Slots(step) \ {s})
        /\ IsFiniteSet(Slots(step'))
    BY <1>0, <2>2, Zenon
  <2>4. Cardinality(Slots(step')) <= MaxLane
    BY <1>0, <2>3
  <2>5. QED
    BY <1>0, <2>1, <2>3, <2>4 DEF WaitingIsExact, LaneIsFull
<1>2. CASE waiting # <<>>
  <2> DEFINE h == Head(waiting)
  <2>1. waiting' = Tail(waiting) /\ step' = [step EXCEPT ![s] = how, ![h] = "starting"]
    BY <1>2 DEF EndTask
  <2>2. h \in Subs /\ h = waiting[1] /\ step[h] = "waiting" /\ h # s
    BY <1>0, <1>2, TailProperties DEF WaitingIsExact
  <2> HIDE DEF h
  <2>3. /\ step' \in [Subs -> Steps] /\ step'[s] = how /\ step'[h] = "starting"
        /\ \A u \in Subs : u \notin {s, h} => step'[u] = step[u]
    BY <1>0, <2>1, <2>2
  <2>4. Slots(step') = (Slots(step) \ {s}) \cup {h} /\ h \notin Slots(step) \ {s}
    BY <1>0, <2>2, <2>3 DEF Slots
  <2>5. IsFiniteSet(Slots(step')) /\ Cardinality(Slots(step')) = Cardinality(Slots(step) \ {s}) + 1
    <3>1. /\ IsFiniteSet((Slots(step) \ {s}) \cup {h})
          /\ Cardinality((Slots(step) \ {s}) \cup {h}) = Cardinality(Slots(step) \ {s}) + 1
      <4> DEFINE rest == Slots(step) \ {s}
      <4>1. IsFiniteSet(rest) /\ h \notin rest
        BY <1>0, <2>4
      <4> HIDE DEF rest
      <4>2. IsFiniteSet(rest \cup {h}) /\ Cardinality(rest \cup {h}) = Cardinality(rest) + 1
        BY <4>1, FS_AddElement
      <4>3. QED
        BY <4>2 DEF rest
    <3>2. QED
      BY <2>4, <3>1, Zenon
  <2>6. Cardinality(Slots(step')) = MaxLane
    BY <1>0, <1>2, <2>5
  <2>7. \A i \in 1 .. Len(waiting') : waiting'[i] = waiting[i + 1] /\ i + 1 \in 1 .. Len(waiting)
    BY <1>0, <1>2, <2>1, TailProperties
  <2>8. waiting' \in Seq(Subs)
    BY <1>0, <1>2, <2>1, TailProperties
  <2>9. \A i \in 1 .. Len(waiting) : waiting[i] \in Subs
    BY <1>0
  <2>10. \A i \in 1 .. Len(waiting') : step'[waiting'[i]] = "waiting"
    <3>1. ASSUME NEW i \in 1 .. Len(waiting') PROVE step'[waiting'[i]] = "waiting"
      <4>1. /\ waiting'[i] \in Subs /\ step[waiting'[i]] = "waiting"
            /\ 1 \in 1 .. Len(waiting) /\ i + 1 # 1
        BY <1>0, <1>2, <2>7, <2>9, TailProperties DEF WaitingIsExact
      <4>2. waiting'[i] # h
        BY <2>2, <2>7, <4>1 DEF WaitingIsExact
      <4>3. QED
        BY <2>3, <4>1, <4>2
    <3>2. QED
      BY <3>1
  <2>11. \A i, k \in 1 .. Len(waiting') : waiting'[i] = waiting'[k] => i = k
    BY <2>7 DEF WaitingIsExact
  <2>12. QED
    BY <1>0, <2>2, <2>3, <2>5, <2>6, <2>8, <2>10, <2>11 DEF WaitingIsExact, LaneIsFull
<1>3. QED
  BY <1>1, <1>2

-----------------------------------------------------------------------------
(* Each subagent stays sound.                                              *)

\* Nothing happened to u, but that its record was dropped or stopped, or that
\* its task started.
LEMMA BystanderIsSound ==
  ASSUME TypeOK, NEW u \in Subs, SubagentIsSound(u),
         \/ step'[u] = step[u]
         \/ step[u] = "waiting" /\ step'[u] = "starting",
         out'[u] = out[u],
         \/ rec'[u] = rec[u]
         \/ rec'[u].status = "none"
         \/ /\ rec[u].status # "none"
            /\ rec'[u].status = "stopped" /\ rec'[u].injected = rec[u].injected,
         told'[u] = told[u], forgot' = forgot, UNCHANGED <<file, writing>>
  PROVE  SubagentIsSound(u)'
BY DEF SubagentIsSound, OutputIsRead, CompletedIsReported, ErrorIsOfItsEnd, RecordsAreOfSpawned, ToldIsMarked, Active

LEMMA RestartKeeps ==
  ASSUME IInv, Restart
  PROVE  IInv'
<1>0. /\ TypeOK /\ GhostsOK
      /\ \A u \in Subs : SubagentIsSound(u)
  BY DEF IInv
<1>1. /\ file' \in [Subs -> Record]
      /\ \A u \in Subs : file'[u] = file[u] \/ file'[u].status = "none"
  BY <1>0, RecordProperties DEF Restart, TypeOK
<1>2. /\ rec' \in [Subs -> Record]
      /\ \A u \in Subs : rec'[u] = file'[u] \/ rec'[u].status = "none"
  <2>1. PICK expired : rec' = [s \in Subs |-> IF s \in expired THEN NoRecord ELSE file'[s]]
    BY DEF Restart
  <2>2. QED
    BY <1>1, <2>1, RecordProperties
<1>3. /\ step' = [s \in Subs |-> IF step[s] = "none" THEN "none" ELSE "gone"]
      /\ out' = [s \in Subs |-> "none"]
      /\ waiting' = <<>> /\ writing' = None
      /\ forgot' = forgot \cup {s \in Subs : told[s] > 0 /\ ~file'[s].injected}
      /\ told' = told
  BY DEF Restart
<1>4. TypeOK' /\ GhostsOK'
  BY <1>0, <1>1, <1>2, <1>3 DEF TypeOK, GhostsOK, Steps, Outputs
<1>5. WaitingIsExact' /\ LaneIsFull'
  <2>1. Slots(step') = {}
    BY <1>3 DEF Slots
  <2>2. IsFiniteSet(Slots(step')) /\ Cardinality(Slots(step')) = 0
    BY <2>1, FS_EmptySet, Zenon
  <2>3. QED
    BY <1>3, <2>2, SubagentsAssumption DEF WaitingIsExact, LaneIsFull
<1>6. ASSUME NEW u \in Subs PROVE SubagentIsSound(u)'
  <2>0. SubagentIsSound(u) /\ told[u] \in Nat
    BY <1>0 DEF GhostsOK
  <2>1. OutputIsRead(u)' /\ CompletedIsReported(u)' /\ ErrorIsOfItsEnd(u)' /\ step'[u] \in {"none", "gone"}
    <3>1. step'[u] \in {"none", "gone"} /\ out'[u] = "none"
      BY <1>3
    <3>2. step'[u] = "none" => rec'[u].status = "none"
      BY <2>0, <1>1, <1>2, <1>3 DEF SubagentIsSound, RecordsAreOfSpawned
    <3>3. QED
      BY <3>1, <3>2 DEF OutputIsRead, CompletedIsReported, ErrorIsOfItsEnd
  <2>2. RecordsAreOfSpawned(u)'
    BY <2>0, <1>1, <1>2, <1>3 DEF SubagentIsSound, RecordsAreOfSpawned
  <2>3. ToldIsMarked(u)'
    BY <2>0, <1>2, <1>3 DEF SubagentIsSound, ToldIsMarked
  <2>4. QED
    BY <2>1, <2>2, <2>3 DEF SubagentIsSound
<1>7. QED
  BY <1>4, <1>5, <1>6 DEF IInv

LEMMA SpawnKeeps ==
  ASSUME IInv, NEW s \in Subs, NEW c \in Chats, NEW p \in Sessions \cup {None},
         Spawn(s, c, p) \/ (p \in Sessions /\ TaskStart(s, c, p))
  PROVE  IInv'
<1>0. TypeOK /\ GhostsOK /\ \A u \in Subs : SubagentIsSound(u)
  BY DEF IInv
<1>1. /\ step[s] = "none" /\ UNCHANGED <<out, waiting, file, writing, told, forgot>>
      /\ \/ /\ step' = [step EXCEPT ![s] = "confirming"]
            /\ rec' = [rec EXCEPT ![s] = [status |-> "queued", chat |-> c, parent |-> p, injected |-> FALSE]]
         \/ /\ step' = [step EXCEPT ![s] = "task"]
            /\ rec' = [rec EXCEPT ![s] = [status |-> "running", chat |-> c, parent |-> p, injected |-> FALSE]]
  BY DEF Spawn, TaskStart, fileVars
<1>2. /\ step' \in [Subs -> Steps] /\ rec' \in [Subs -> Record]
      /\ \A u \in Subs : u # s => step'[u] = step[u] /\ rec'[u] = rec[u]
      /\ step'[s] \in {"confirming", "task"} /\ rec'[s].status \in {"queued", "running"}
  <2>1. \A status \in {"queued", "running"} :
          /\ [status |-> status, chat |-> c, parent |-> p, injected |-> FALSE] \in Record
          /\ [status |-> status, chat |-> c, parent |-> p, injected |-> FALSE].status = status
    BY DEF Record
  <2>2. PICK r \in Record : rec' = [rec EXCEPT ![s] = r] /\ r.status \in {"queued", "running"}
    BY <1>1, <2>1
  <2>3. QED
    BY <1>0, <1>1, <2>2 DEF TypeOK, Steps
<1>3. TypeOK' /\ GhostsOK'
  BY <1>0, <1>1, <1>2 DEF TypeOK, GhostsOK
<1>4. WaitingIsExact' /\ LaneIsFull'
  BY <1>0, <1>1, <1>2, LaneStays DEF IInv, TypeOK
<1>5. ASSUME NEW u \in Subs PROVE SubagentIsSound(u)'
  <2>1. CASE u = s
    BY <2>1, <1>0, <1>1, <1>2 DEF GhostsOK, SubagentIsSound, OutputIsRead, CompletedIsReported, ErrorIsOfItsEnd,
       RecordsAreOfSpawned, ToldIsMarked, Active
  <2>2. CASE u # s
    BY <2>2, <1>0, <1>1, <1>2, BystanderIsSound
  <2>3. QED
    BY <2>1, <2>2
<1>6. QED
  BY <1>3, <1>4, <1>5 DEF IInv

LEMMA SubmitKeeps ==
  ASSUME IInv, NEW s \in Subs, Submit(s)
  PROVE  IInv'
<1>0. TypeOK /\ GhostsOK /\ WaitingIsExact /\ LaneIsFull /\ \A u \in Subs : SubagentIsSound(u)
  BY DEF IInv
<1>1. /\ step[s] = "confirming" /\ UNCHANGED <<rec, out, file, writing, told, forgot>>
      /\ step' \in [Subs -> Steps] /\ step'[s] \in {"starting", "waiting"}
      /\ \A u \in Subs : u # s => step'[u] = step[u]
  BY <1>0 DEF Submit, fileVars, TypeOK, Steps
<1>2. WaitingIsExact' /\ LaneIsFull' /\ TypeOK' /\ GhostsOK'
  BY <1>0, <1>1, SubmitKeepsLane DEF TypeOK, GhostsOK
<1>3. ASSUME NEW u \in Subs PROVE SubagentIsSound(u)'
  <2>1. CASE u = s
    BY <2>1, <1>0, <1>1 DEF SubagentIsSound, OutputIsRead, CompletedIsReported, ErrorIsOfItsEnd,
       RecordsAreOfSpawned, ToldIsMarked, Active
  <2>2. CASE u # s
    BY <2>2, <1>0, <1>1, BystanderIsSound
  <2>3. QED
    BY <2>1, <2>2
<1>4. QED
  BY <1>2, <1>3 DEF IInv

LEMMA LaunchKeeps ==
  ASSUME IInv, NEW s \in Subs, Launch(s) \/ LaunchFails(s)
  PROVE  IInv'
<1>0. TypeOK /\ GhostsOK /\ WaitingIsExact /\ LaneIsFull /\ \A u \in Subs : SubagentIsSound(u)
  BY DEF IInv
<1>1. CASE LaunchFails(s) /\ rec[s].status = "none"
  BY <1>1, RestartKeeps DEF LaunchFails
<1>2. CASE Launch(s) \/ rec[s].status # "none"
  <2>1. /\ step[s] = "starting" /\ UNCHANGED <<out, waiting, file, writing, told, forgot>>
        /\ \/ step' = [step EXCEPT ![s] = "alive"] /\ rec' = rec
           \/ /\ step' = [step EXCEPT ![s] = "failed"] /\ rec' = Marked(s, "error")
              /\ rec[s].status # "none"
    BY <1>2 DEF Launch, LaunchFails, fileVars
  <2>2. /\ step' \in [Subs -> Steps] /\ rec' \in [Subs -> Record]
        /\ \A u \in Subs : u # s => step'[u] = step[u] /\ rec'[u] = rec[u]
        /\ \/ step'[s] = "alive" /\ rec'[s] = rec[s]
           \/ /\ step'[s] = "failed" /\ rec'[s].status = "error"
              /\ rec'[s].injected = rec[s].injected /\ rec[s].status # "none"
    BY <1>0, <2>1, MarkedProperties, SMTT(40) DEF TypeOK, Steps
  <2>3. TypeOK' /\ GhostsOK' /\ WaitingIsExact' /\ LaneIsFull'
    BY <1>0, <2>1, <2>2, LaneStays DEF TypeOK, GhostsOK
  <2>4. ASSUME NEW u \in Subs PROVE SubagentIsSound(u)'
    <3>1. CASE u = s
      BY <3>1, <1>0, <2>1, <2>2 DEF SubagentIsSound, OutputIsRead, CompletedIsReported, ErrorIsOfItsEnd,
         RecordsAreOfSpawned, ToldIsMarked, Active
    <3>2. CASE u # s
      BY <3>2, <1>0, <2>1, <2>2, BystanderIsSound
    <3>3. QED
      BY <3>1, <3>2
  <2>5. QED
    BY <2>3, <2>4 DEF IInv
<1>3. QED
  BY <1>1, <1>2

LEMMA OutputKeeps ==
  ASSUME IInv, NEW s \in Subs, Started(s) \/ Completed(s)
  PROVE  IInv'
<1>0. TypeOK /\ GhostsOK /\ WaitingIsExact /\ LaneIsFull /\ \A u \in Subs : SubagentIsSound(u)
  BY DEF IInv
<1>1. /\ step[s] \in {"alive", "exited", "mute"}
      /\ UNCHANGED <<step, waiting, file, writing, told, forgot>>
      /\ out' \in [Subs -> Outputs] /\ \A u \in Subs : u # s => out'[u] = out[u]
      /\ rec' \in [Subs -> Record] /\ \A u \in Subs : u # s => rec'[u] = rec[u] \/ rec'[u].status = "none"
      /\ \/ rec'[s].status = "none"
         \/ rec'[s].injected = rec[s].injected /\ rec[s].status # "none"
      /\ \/ out[s] = "none" /\ out'[s] = "started" /\ rec'[s].status \in {"running", "none"}
         \/ out[s] = "started" /\ out'[s] = "completed" /\ rec'[s].status \in {"completed", "none"}
  <2>1. CASE Started(s)
    BY <1>0, <2>1, MarkedProperties DEF Started, Reads, fileVars, TypeOK, Outputs
  <2>2. CASE Completed(s)
    <3>1. /\ rec' \in [Subs -> Record]
          /\ \A u \in Subs : u # s => rec'[u] \in {rec[u], NoRecord}
          /\ \/ rec'[s].status = "none"
             \/ rec'[s].status = "completed" /\ rec'[s].injected = rec[s].injected
      BY <1>0, <2>2, MarkedAndPrunedProperties DEF Completed, TypeOK
    <3>2. rec[s].status = "none" => rec' = rec
      BY <2>2 DEF Completed, MarkedAndPruned
    <3>3. QED
      BY <1>0, <2>2, <3>1, <3>2, RecordProperties DEF Completed, Reads, fileVars, TypeOK, Outputs
  <2>3. QED
    BY <2>1, <2>2
<1>2. TypeOK' /\ GhostsOK' /\ WaitingIsExact' /\ LaneIsFull'
  BY <1>0, <1>1, LaneStays DEF TypeOK, GhostsOK
<1>3. ASSUME NEW u \in Subs PROVE SubagentIsSound(u)'
  <2>1. CASE u = s
    BY <2>1, <1>0, <1>1 DEF SubagentIsSound, OutputIsRead, CompletedIsReported, ErrorIsOfItsEnd,
       RecordsAreOfSpawned, ToldIsMarked, Active
  <2>2. CASE u # s
    BY <2>2, <1>0, <1>1, BystanderIsSound
  <2>3. QED
    BY <2>1, <2>2
<1>4. QED
  BY <1>2, <1>3 DEF IInv

LEMMA ExitKeeps ==
  ASSUME IInv, NEW s \in Subs, Exit(s)
  PROVE  IInv'
<1>0. TypeOK /\ GhostsOK /\ WaitingIsExact /\ LaneIsFull /\ \A u \in Subs : SubagentIsSound(u)
  BY DEF IInv
<1> DEFINE how == IF out[s] = "none" THEN "mute" ELSE "exited"
<1>1. step[s] = "alive" /\ EndTask(s, how) /\ UNCHANGED <<out, file, writing, told, forgot>>
  BY DEF Exit, fileVars
<1>2. /\ rec' \in [Subs -> Record] /\ \A u \in Subs : u # s => rec'[u] = rec[u]
      /\ \/ rec'[s] = rec[s] /\ rec[s].status # "running"
         \/ rec'[s].status = "error" /\ rec'[s].injected = rec[s].injected /\ rec[s].status = "running"
  <2>1. CASE rec[s].status = "running"
    BY <1>0, <2>1, MarkedProperties DEF Exit, TypeOK
  <2>2. CASE rec[s].status # "running"
    BY <1>0, <2>2 DEF Exit, TypeOK
  <2>3. QED
    BY <2>1, <2>2
<1>3. how \in {"mute", "exited"} /\ (how = "exited" <=> out[s] # "none")
  OBVIOUS
<1> HIDE DEF how
<1>4. /\ WaitingIsExact' /\ LaneIsFull' /\ waiting' \in Seq(Subs)
      /\ step' \in [Subs -> Steps] /\ step'[s] = how
      /\ \A u \in Subs : u # s => \/ step'[u] = step[u]
                                  \/ step[u] = "waiting" /\ step'[u] = "starting"
  BY <1>0, <1>1, <1>3, EndTaskKeepsLane
<1>5. TypeOK' /\ GhostsOK'
  BY <1>0, <1>1, <1>2, <1>4 DEF TypeOK, GhostsOK
<1>6. ASSUME NEW u \in Subs PROVE SubagentIsSound(u)'
  <2>1. CASE u = s
    BY <2>1, <1>0, <1>1, <1>2, <1>3, <1>4 DEF SubagentIsSound, OutputIsRead, CompletedIsReported, ErrorIsOfItsEnd,
       RecordsAreOfSpawned, ToldIsMarked, Active
  <2>2. CASE u # s
    BY <2>2, <1>0, <1>1, <1>2, <1>4, BystanderIsSound
  <2>3. QED
    BY <2>1, <2>2
<1>7. QED
  BY <1>4, <1>5, <1>6 DEF IInv

LEMMA TaskCallKeeps ==
  ASSUME IInv, NEW s \in Subs, TaskCall(s)
  PROVE  IInv'
<1>0. TypeOK /\ GhostsOK /\ WaitingIsExact /\ LaneIsFull /\ \A u \in Subs : SubagentIsSound(u)
  BY DEF IInv
<1>1. CASE Restart
  BY <1>1, RestartKeeps
<1>2. CASE ~Restart
  <2>1. /\ step[s] = "task" /\ UNCHANGED <<out, waiting, file, writing, told, forgot>>
        /\ \/ step' = [step EXCEPT ![s] = "lost"] /\ rec' = rec
           \/ /\ step' = [step EXCEPT ![s] = "answered"]
              /\ rec[s].status # "none"
              /\ \E status \in {"completed", "error"} : rec' \in MarkedAndPruned(s, status)
    BY <1>2 DEF TaskCall, TaskLost, TaskEnd, fileVars
  <2>2. /\ step' \in [Subs -> Steps] /\ rec' \in [Subs -> Record]
        /\ \A u \in Subs : u # s => /\ step'[u] = step[u]
                                    /\ rec'[u] = rec[u] \/ rec'[u].status = "none"
        /\ \/ step'[s] = "lost" /\ rec'[s] = rec[s]
           \/ /\ step'[s] = "answered"
              /\ \/ rec'[s].status = "none"
                 \/ /\ rec'[s].status \in {"completed", "error"}
                    /\ rec'[s].injected = rec[s].injected /\ rec[s].status # "none"
    <3>1. CASE step' = [step EXCEPT ![s] = "lost"] /\ rec' = rec
      BY <1>0, <3>1 DEF TypeOK, Steps
    <3>2. ASSUME NEW status \in {"completed", "error"}, rec' \in MarkedAndPruned(s, status),
                 step' = [step EXCEPT ![s] = "answered"], rec[s].status # "none"
          PROVE  /\ step' \in [Subs -> Steps] /\ rec' \in [Subs -> Record]
                 /\ \A u \in Subs : u # s => /\ step'[u] = step[u]
                                             /\ rec'[u] = rec[u] \/ rec'[u].status = "none"
                 /\ step'[s] = "answered"
                 /\ \/ rec'[s].status = "none"
                    \/ /\ rec'[s].status \in {"completed", "error"}
                       /\ rec'[s].injected = rec[s].injected
      <4>1. /\ rec' \in [Subs -> Record]
            /\ \A u \in Subs : u # s => rec'[u] \in {rec[u], NoRecord}
            /\ \/ rec'[s].status = "none"
               \/ rec'[s].status = status /\ rec'[s].injected = rec[s].injected
        BY <1>0, <3>2, MarkedAndPrunedProperties DEF TypeOK
      <4>2. QED
        BY <1>0, <3>2, <4>1, RecordProperties DEF TypeOK, Steps
    <3>3. QED
      BY <2>1, <3>1, <3>2
  <2>3. TypeOK' /\ GhostsOK' /\ WaitingIsExact' /\ LaneIsFull'
    BY <1>0, <2>1, <2>2, LaneStays DEF TypeOK, GhostsOK
  <2>4. ASSUME NEW u \in Subs PROVE SubagentIsSound(u)'
    <3>1. CASE u = s
      BY <3>1, <1>0, <2>1, <2>2 DEF SubagentIsSound, OutputIsRead, CompletedIsReported, ErrorIsOfItsEnd,
         RecordsAreOfSpawned, ToldIsMarked, Active
    <3>2. CASE u # s
      BY <3>2, <1>0, <2>1, <2>2, BystanderIsSound
    <3>3. QED
      BY <3>1, <3>2
  <2>5. QED
    BY <2>3, <2>4 DEF IInv
<1>3. QED
  BY <1>1, <1>2

LEMMA StopKeeps ==
  ASSUME IInv, (\E s \in Subs : Stop(s)) \/ (\E c \in Chats : StopAll(c))
  PROVE  IInv'
<1>0. TypeOK /\ GhostsOK /\ WaitingIsExact /\ LaneIsFull /\ \A u \in Subs : SubagentIsSound(u)
  BY DEF IInv
<1>1. UNCHANGED <<step, out, waiting, file, writing, told, forgot>>
  BY DEF Stop, StopAll, runVars, fileVars
<1>2. /\ rec' = [u \in Subs |-> rec'[u]]
      /\ \A u \in Subs : \/ rec'[u] = rec[u]
                         \/ u \in Active(rec) /\ rec'[u] = [rec[u] EXCEPT !.status = "stopped"]
  <2>1. ASSUME NEW s \in Subs, Stop(s)
        PROVE  /\ rec' = [u \in Subs |-> rec'[u]]
               /\ \A u \in Subs : \/ rec'[u] = rec[u]
                                  \/ u \in Active(rec) /\ rec'[u] = [rec[u] EXCEPT !.status = "stopped"]
    BY <1>0, <2>1 DEF Stop, TypeOK
  <2>2. ASSUME NEW c \in Chats, StopAll(c)
        PROVE  /\ rec' = [u \in Subs |-> rec'[u]]
               /\ \A u \in Subs : \/ rec'[u] = rec[u]
                                  \/ u \in Active(rec) /\ rec'[u] = [rec[u] EXCEPT !.status = "stopped"]
    BY <2>2 DEF StopAll, ActiveOf
  <2>3. QED
    BY <2>1, <2>2
<1>3. ASSUME NEW u \in Subs
      PROVE  /\ rec'[u] \in Record
             /\ \/ rec'[u] = rec[u]
                \/ /\ rec[u].status # "none"
                   /\ rec'[u].status = "stopped" /\ rec'[u].injected = rec[u].injected
  <2>1. CASE rec'[u] = rec[u]
    BY <1>0, <2>1 DEF TypeOK
  <2>2. CASE u \in Active(rec) /\ rec'[u] = [rec[u] EXCEPT !.status = "stopped"]
    <3>1. rec[u].status # "none" /\ rec[u] \in Record
      BY <1>0, <2>2 DEF Active, TypeOK
    <3>2. QED
      BY <2>2, <3>1, StatusChange, ZenonT(40)
  <2>3. QED
    BY <1>2, <2>1, <2>2
<1>4. rec' \in [Subs -> Record]
  <2>1. \A u \in Subs : rec'[u] \in Record
    BY <1>3
  <2>2. QED
    BY <1>2, <2>1
<1>5. TypeOK' /\ GhostsOK' /\ WaitingIsExact' /\ LaneIsFull'
  BY <1>0, <1>1, <1>4, LaneStays DEF TypeOK, GhostsOK
<1>6. \A u \in Subs : SubagentIsSound(u)'
  BY <1>0, <1>1, <1>3, BystanderIsSound
<1>7. QED
  BY <1>5, <1>6 DEF IInv

\* A result goes into a prompt only if its record does not say that it did.
LEMMA InjectKeeps ==
  ASSUME IInv, NEW c \in Chats, NEW p \in Sessions, Inject(c, p)
  PROVE  IInv'
<1>0. TypeOK /\ GhostsOK /\ WaitingIsExact /\ LaneIsFull /\ \A u \in Subs : SubagentIsSound(u)
  BY DEF IInv
<1>1. UNCHANGED <<step, out, waiting, file, writing, forgot>>
  BY DEF Inject, runVars, fileVars
<1>2. PICK expired \in SUBSET Done(rec) :
        LET kept == [s \in Subs |-> IF s \in expired THEN NoRecord ELSE rec[s]]
        IN  /\ rec' = [s \in Subs |-> IF s \in Pending(kept, c, p)
                                      THEN [kept[s] EXCEPT !.injected = TRUE] ELSE kept[s]]
            /\ told' = [s \in Subs |-> IF s \in Pending(kept, c, p) THEN told[s] + 1 ELSE told[s]]
  BY DEF Inject
<1> DEFINE kept == [s \in Subs |-> IF s \in expired THEN NoRecord ELSE rec[s]]
           told1 == Pending(kept, c, p)
<1>3. /\ \A u \in Subs : kept[u] \in Record /\ (kept[u] = rec[u] \/ kept[u].status = "none")
      /\ \A u \in told1 : u \in Subs /\ kept[u].status # "none" /\ ~kept[u].injected
                          /\ kept[u] = rec[u]
  BY <1>0, RecordProperties DEF Pending, TypeOK
<1>4. /\ rec' = [s \in Subs |-> IF s \in told1 THEN [kept[s] EXCEPT !.injected = TRUE] ELSE kept[s]]
      /\ told' = [s \in Subs |-> IF s \in told1 THEN told[s] + 1 ELSE told[s]]
  BY <1>2
<1> HIDE DEF kept, told1
<1>5. ASSUME NEW u \in Subs
      PROVE  /\ rec'[u] \in Record
             /\ told'[u] \in Nat
             /\ \/ /\ told'[u] = told[u]
                   /\ rec'[u] = rec[u] \/ rec'[u].status = "none"
                \/ /\ told'[u] = told[u] + 1
                   /\ rec[u].status # "none" /\ ~rec[u].injected
                   /\ rec'[u].status = rec[u].status /\ rec'[u].injected
  <2>0. told[u] \in Nat
    BY <1>0 DEF GhostsOK
  <2>1. CASE u \in told1
    <3>1. rec'[u] = [kept[u] EXCEPT !.injected = TRUE] /\ told'[u] = told[u] + 1
      BY <1>4, <2>1
    <3>2. QED
      BY <1>3, <2>0, <2>1, <3>1, InjectedChange
  <2>2. CASE u \notin told1
    BY <1>3, <1>4, <2>0, <2>2
  <2>3. QED
    BY <2>1, <2>2
<1>6. rec' \in [Subs -> Record] /\ told' \in [Subs -> Nat]
  BY <1>4, <1>5
<1>7. TypeOK' /\ GhostsOK' /\ WaitingIsExact' /\ LaneIsFull'
  BY <1>0, <1>1, <1>6, LaneStays DEF TypeOK, GhostsOK
<1>8. ASSUME NEW u \in Subs PROVE SubagentIsSound(u)'
  <2>1. CASE told'[u] = told[u]
    BY <2>1, <1>0, <1>1, <1>5, BystanderIsSound
  <2>2. CASE /\ told'[u] = told[u] + 1
             /\ rec[u].status # "none" /\ ~rec[u].injected
             /\ rec'[u].status = rec[u].status /\ rec'[u].injected
    <3>1. SubagentIsSound(u) /\ told[u] \in Nat
      BY <1>0 DEF GhostsOK
    <3>2. ToldIsMarked(u)'
      BY <1>1, <2>2, <3>1 DEF SubagentIsSound, ToldIsMarked, RecordsAreOfSpawned
    <3>3. QED
      BY <1>1, <2>2, <3>1, <3>2 DEF SubagentIsSound, OutputIsRead, CompletedIsReported, ErrorIsOfItsEnd,
         RecordsAreOfSpawned, Active
  <2>3. QED
    BY <1>5, <2>1, <2>2
<1>9. QED
  BY <1>7, <1>8 DEF IInv

LEMMA SaveKeeps ==
  ASSUME IInv, TakeRecords \/ WriteRecords
  PROVE  IInv'
<1>0. TypeOK /\ GhostsOK /\ WaitingIsExact /\ LaneIsFull /\ \A u \in Subs : SubagentIsSound(u)
  BY DEF IInv
<1>1. /\ UNCHANGED <<rec, step, out, waiting, told, forgot>>
      /\ \/ writing' = rec /\ file' = file
         \/ writing' = None /\ file' = file
         \/ writing' = None /\ writing # None /\ file' = writing
  BY DEF TakeRecords, WriteRecords, runVars
<1>2. TypeOK' /\ GhostsOK' /\ WaitingIsExact' /\ LaneIsFull'
  BY <1>0, <1>1, LaneStays DEF TypeOK, GhostsOK
<1>3. ASSUME NEW u \in Subs PROVE SubagentIsSound(u)'
  BY <1>0, <1>1 DEF SubagentIsSound, OutputIsRead, CompletedIsReported, ErrorIsOfItsEnd,
     RecordsAreOfSpawned, ToldIsMarked, Active
<1>4. QED
  BY <1>2, <1>3 DEF IInv

LEMMA InitHolds == Init => IInv
<1> SUFFICES ASSUME Init PROVE IInv
  OBVIOUS
<1>1. TypeOK /\ GhostsOK
  BY RecordProperties DEF Init, TypeOK, GhostsOK, Steps, Outputs
<1>2. WaitingIsExact /\ LaneIsFull
  <2>1. Slots(step) = {}
    BY DEF Init, Slots
  <2>2. IsFiniteSet(Slots(step)) /\ Cardinality(Slots(step)) = 0
    BY <2>1, FS_EmptySet, Zenon
  <2>3. QED
    BY <2>2, SubagentsAssumption DEF Init, WaitingIsExact, LaneIsFull
<1>3. ASSUME NEW u \in Subs PROVE SubagentIsSound(u)
  BY RecordProperties DEF Init, SubagentIsSound, OutputIsRead, CompletedIsReported, ErrorIsOfItsEnd,
     RecordsAreOfSpawned, ToldIsMarked, Active
<1>4. QED
  BY <1>1, <1>2, <1>3 DEF IInv

LEMMA NextKeeps ==
  ASSUME IInv, [Next]_vars
  PROVE  IInv'
<1>1. ASSUME NEW s \in Subs, Lifecycle(s) PROVE IInv'
  BY <1>1, SubmitKeeps, LaunchKeeps, OutputKeeps, ExitKeeps DEF Lifecycle
<1>2. ASSUME NEW s \in Subs, TaskCall(s) PROVE IInv'
  BY <1>2, TaskCallKeeps
<1>3. ASSUME NEW s \in Subs, NEW c \in Chats, NEW p \in Sessions \cup {None}, Spawn(s, c, p) PROVE IInv'
  BY <1>3, SpawnKeeps
<1>4. ASSUME NEW s \in Subs, NEW c \in Chats, NEW p \in Sessions, TaskStart(s, c, p) PROVE IInv'
  BY <1>4, SpawnKeeps
<1>5. ASSUME NEW c \in Chats, NEW p \in Sessions, Inject(c, p) PROVE IInv'
  BY <1>5, InjectKeeps
<1>6. CASE UNCHANGED vars
  <2>1. UNCHANGED <<rec, step, out, waiting, writing, file, told, forgot>>
    BY <1>6 DEF vars, runVars, fileVars
  <2>2. QED
    BY <2>1 DEF IInv, TypeOK, GhostsOK, WaitingIsExact, LaneIsFull, SubagentIsSound, OutputIsRead,
       CompletedIsReported, ErrorIsOfItsEnd, RecordsAreOfSpawned, ToldIsMarked, Active
<1>7. QED
  BY <1>1, <1>2, <1>3, <1>4, <1>5, <1>6, StopKeeps, SaveKeeps, RestartKeeps DEF Next

-----------------------------------------------------------------------------
(* The theorems.                                                           *)

\* However spawns, output, commands, saves and crashes interleave, the records
\* stay in step with the processes they stand for, and the lane with its tasks.
THEOREM InvariantHolds == Spec => []IInv
<1>1. Init => IInv
  BY InitHolds
<1>2. IInv /\ [Next]_vars => IInv'
  BY NextKeeps
<1>3. QED
  BY <1>1, <1>2, PTL DEF Spec

\* A record that was pruned never comes back in part.
THEOREM TypeIsCorrect == Spec => []TypeOK
<1>1. IInv => TypeOK
  BY DEF IInv
<1>2. QED
  BY <1>1, InvariantHolds, PTL

\* The Subagent lane never exceeds its limit, and a task waits only while the
\* lane is full, whatever became of the records.
THEOREM LaneStaysFull == Spec => []LaneIsFull
<1>1. IInv => LaneIsFull
  BY DEF IInv
<1>2. QED
  BY <1>1, InvariantHolds, PTL

\* A record that counts against its chat's limit is of a subagent that has not
\* completed and is on its way, or of one that exited before its start was
\* read, of an unanswered call, or of an earlier process of the bridge.
THEOREM ActiveIsExplained == Spec => []OverIsNotActiveUnlessExcused
<1>1. ASSUME IInv, NEW s \in Active(rec)
      PROVE  /\ out[s] # "completed"
             /\ \/ step[s] \in {"confirming", "waiting", "starting", "alive", "task"}
                \/ step[s] = "mute" /\ (rec[s].status = "queued" <=> out[s] = "none")
                \/ step[s] \in {"lost", "gone"}
  <2>1. s \in Subs /\ rec[s].status \in {"queued", "running"}
    BY DEF Active
  <2>2. SubagentIsSound(s) /\ step[s] \in Steps
    BY <1>1, <2>1 DEF IInv, TypeOK
  <2>3. QED
    BY <1>1, <2>1, <2>2 DEF SubagentIsSound, OutputIsRead, RecordsAreOfSpawned, Steps
<1>2. IInv => OverIsNotActiveUnlessExcused
  BY <1>1 DEF OverIsNotActiveUnlessExcused
<1>3. QED
  BY <1>2, InvariantHolds, PTL

\* A result gets into a second prompt only if a crash lost the mark that it
\* was in the first.
THEOREM ResultsAreToldOnce == Spec => []ToldOnce
<1>1. IInv => ToldOnce
  BY DEF IInv, SubagentIsSound, ToldIsMarked, ToldOnce
<1>2. QED
  BY <1>1, InvariantHolds, PTL

-----------------------------------------------------------------------------
(* What a record says of its end is final.                                 *)

EndIsFinal(s) ==
  /\ rec[s].status = "completed" => rec'[s].status \in {"completed", "none"}
  /\ rec[s].status = "error" =>
       \/ rec'[s].status \in {"error", "none"}
       \/ rec'[s].status = "completed" /\ out[s] # "completed" /\ out'[s] = "completed"
  /\ rec[s].status = "stopped" =>
       \/ rec'[s].status \in {"stopped", "none"}
       \/ out'[s] # out[s]
       \/ step[s] = "starting" /\ step'[s] = "failed"
       \/ step[s] = "task" /\ step'[s] = "answered"

LEMMA StepKeepsEnds ==
  ASSUME IInv, Next, ~Restart, NEW u \in Subs
  PROVE  EndIsFinal(u)
<1>0. TypeOK /\ SubagentIsSound(u)
  BY DEF IInv
<1>1. ASSUME rec'[u] = rec[u] \/ rec'[u].status \in {"none", rec[u].status} PROVE EndIsFinal(u)
  BY <1>1 DEF EndIsFinal
<1>2. ASSUME NEW s \in Subs, Lifecycle(s) PROVE EndIsFinal(u)
  <2>1. CASE Submit(s) \/ Launch(s)
    BY <2>1, <1>1 DEF Submit, Launch
  <2>2. CASE LaunchFails(s)
    <3>1. /\ rec' = Marked(s, "error") /\ step[s] = "starting"
          /\ step' = [step EXCEPT ![s] = "failed"]
      BY <2>2 DEF LaunchFails
    <3>2. u # s => rec'[u] = rec[u]
      BY <1>0, <3>1, MarkedProperties DEF TypeOK
    <3>3. u = s => rec[u].status \notin {"completed", "error"} /\ step'[u] = "failed"
      BY <1>0, <3>1 DEF SubagentIsSound, OutputIsRead, CompletedIsReported, ErrorIsOfItsEnd, TypeOK
    <3>4. QED
      BY <1>1, <3>1, <3>2, <3>3 DEF EndIsFinal
  <2>3. CASE Started(s)
    <3>1. /\ rec' = Marked(s, "running") /\ step[s] \in {"alive", "exited", "mute"}
          /\ out[s] = "none" /\ out' = [out EXCEPT ![s] = "started"]
      BY <2>3 DEF Started, Reads
    <3>2. u # s => rec'[u] = rec[u]
      BY <1>0, <3>1, MarkedProperties DEF TypeOK
    <3>3. u = s => rec[u].status \notin {"completed", "error"} /\ out'[u] # out[u]
      BY <1>0, <3>1 DEF SubagentIsSound, OutputIsRead, CompletedIsReported, ErrorIsOfItsEnd, TypeOK
    <3>4. QED
      BY <1>1, <3>2, <3>3 DEF EndIsFinal
  <2>4. CASE Completed(s)
    <3>1. /\ rec' \in MarkedAndPruned(s, "completed")
          /\ out[s] = "started" /\ out' = [out EXCEPT ![s] = "completed"]
      BY <2>4 DEF Completed
    <3>2. /\ u # s => rec'[u] \in {rec[u], NoRecord}
          /\ u = s => /\ rec'[u].status \in {"none", "completed"}
                      /\ out[u] # "completed" /\ out'[u] = "completed"
      BY <1>0, <3>1, MarkedAndPrunedProperties DEF TypeOK
    <3>3. QED
      BY <1>1, <3>2, RecordProperties DEF EndIsFinal
  <2>5. CASE Exit(s)
    <3>1. CASE rec[s].status = "running"
      BY <1>0, <1>1, <2>5, <3>1, MarkedProperties DEF Exit, TypeOK, EndIsFinal
    <3>2. CASE rec[s].status # "running"
      BY <1>1, <2>5, <3>2 DEF Exit
    <3>3. QED
      BY <3>1, <3>2
  <2>6. QED
    BY <1>2, <2>1, <2>2, <2>3, <2>4, <2>5 DEF Lifecycle
<1>3. ASSUME NEW s \in Subs, TaskCall(s) PROVE EndIsFinal(u)
  <2>1. CASE TaskLost(s)
    BY <2>1, <1>1 DEF TaskLost
  <2>2. ASSUME NEW status \in {"completed", "error"}, TaskEnd(s, status) PROVE EndIsFinal(u)
    <3>1. /\ rec' \in MarkedAndPruned(s, status) /\ step[s] = "task"
          /\ step' = [step EXCEPT ![s] = "answered"]
      BY <2>2 DEF TaskEnd
    <3>2. u # s => rec'[u] \in {rec[u], NoRecord}
      BY <1>0, <3>1, MarkedAndPrunedProperties DEF TypeOK
    <3>3. u = s => rec[u].status \notin {"completed", "error"} /\ step'[u] = "answered"
      BY <1>0, <3>1 DEF SubagentIsSound, OutputIsRead, CompletedIsReported, ErrorIsOfItsEnd, TypeOK
    <3>4. QED
      BY <1>1, <3>1, <3>2, <3>3, RecordProperties DEF EndIsFinal
  <2>3. QED
    BY <1>3, <2>1, <2>2 DEF TaskCall
<1>4. ASSUME NEW s \in Subs, Stop(s) PROVE EndIsFinal(u)
  <2>1. s \in Active(rec) /\ (u # s => rec'[u] = rec[u])
    BY <1>4, <1>0 DEF Stop, TypeOK
  <2>2. QED
    BY <1>1, <2>1 DEF EndIsFinal, Active
<1>5. ASSUME NEW s \in Subs, NEW c \in Chats, NEW p \in Sessions \cup {None},
             Spawn(s, c, p) \/ TaskStart(s, c, p)
      PROVE  EndIsFinal(u)
  <2>1. step[s] = "none" /\ (u # s => rec'[u] = rec[u])
    BY <1>5, <1>0 DEF Spawn, TaskStart, TypeOK
  <2>2. u = s => rec[u].status = "none"
    BY <1>0, <2>1 DEF SubagentIsSound, RecordsAreOfSpawned
  <2>3. QED
    BY <1>1, <2>1, <2>2 DEF EndIsFinal
<1>6. ASSUME NEW c \in Chats, StopAll(c) PROVE EndIsFinal(u)
  <2>1. u \notin Active(rec) => rec'[u] = rec[u]
    BY <1>6 DEF StopAll, ActiveOf
  <2>2. u \in Active(rec) => rec[u].status \in {"queued", "running"}
    BY DEF Active
  <2>3. QED
    BY <1>1, <2>1, <2>2 DEF EndIsFinal
<1>7. ASSUME NEW c \in Chats, NEW p \in Sessions, Inject(c, p) PROVE EndIsFinal(u)
  <2>1. PICK expired \in SUBSET Done(rec) :
          LET kept == [s \in Subs |-> IF s \in expired THEN NoRecord ELSE rec[s]]
          IN  rec' = [s \in Subs |-> IF s \in Pending(kept, c, p)
                                     THEN [kept[s] EXCEPT !.injected = TRUE] ELSE kept[s]]
    BY <1>7 DEF Inject
  <2> DEFINE kept == [s \in Subs |-> IF s \in expired THEN NoRecord ELSE rec[s]]
  <2>2. kept[u] \in Record /\ (kept[u] = rec[u] \/ kept[u].status = "none")
    BY <1>0, RecordProperties DEF TypeOK
  <2>3. u \in Pending(kept, c, p) => kept[u].status # "none"
    BY DEF Pending
  <2>4. \/ rec'[u] = kept[u]
        \/ kept[u].status # "none" /\ rec'[u] = [kept[u] EXCEPT !.injected = TRUE]
    BY <2>1, <2>3
  <2> HIDE DEF kept
  <2>5. rec'[u].status = kept[u].status
    <3>1. CASE rec'[u] = kept[u]
      BY <3>1
    <3>2. CASE kept[u].status # "none" /\ rec'[u] = [kept[u] EXCEPT !.injected = TRUE]
      <4>1. [kept[u] EXCEPT !.injected = TRUE].status = kept[u].status
        BY <2>2, <3>2, InjectedChange
      <4>2. QED
        BY <3>2, <4>1
    <3>3. QED
      BY <2>4, <3>1, <3>2
  <2>6. QED
    BY <1>1, <2>2, <2>5
<1>8. ASSUME TakeRecords \/ WriteRecords PROVE EndIsFinal(u)
  BY <1>1, <1>8 DEF TakeRecords, WriteRecords
<1>9. QED
  BY <1>2, <1>3, <1>4, <1>5, <1>6, <1>7, <1>8 DEF Next

\* A result stays until it is dropped, an error until the same subagent's
\* result is read, a stop until the same subagent reports, fails to spawn or
\* answers; only a restart may load an older status.
THEOREM EndsAreFinal == Spec => StatusIsFinal
<1>1. IInv /\ [Next]_vars =>
        [~Restart => \A s \in Subs :
           /\ rec[s].status = "completed" => rec'[s].status \in {"completed", "none"}
           /\ rec[s].status = "error" =>
                \/ rec'[s].status \in {"error", "none"}
                \/ rec'[s].status = "completed" /\ out[s] # "completed" /\ out'[s] = "completed"
           /\ rec[s].status = "stopped" =>
                \/ rec'[s].status \in {"stopped", "none"}
                \/ out'[s] # out[s]
                \/ step[s] = "starting" /\ step'[s] = "failed"
                \/ step[s] = "task" /\ step'[s] = "answered"]_vars
  BY StepKeepsEnds DEF EndIsFinal
<1>2. QED
  BY <1>1, InvariantHolds, PTL DEF Spec, StatusIsFinal

=============================================================================

---------------------------- MODULE CronRunsProofs ----------------------------
(***************************************************************************)
(* Proofs about CronRuns, for any jobs, modes and numbers of runs.         *)
(***************************************************************************)
EXTENDS CronRuns, FiniteSetTheorems, TLAPS

-----------------------------------------------------------------------------
(* The inductive invariant.                                                *)

\* Which phases a run of each mode has, and what its process can have done.
PhaseFits(r) ==
  /\ run[r].phase = "pending" => Mode[JobOf(r)] = "heartbeat"
  /\ run[r].phase \in {"recording", "queued", "running", "marking", "saving"} =>
       Mode[JobOf(r)] = "isolated"
  /\ run[r].phase \notin {"running", "marking", "saving"} =>
       run[r].proc = "none" /\ ~run[r].heard
  /\ run[r].after # <<>> => run[r].phase = "planning" /\ Mode[JobOf(r)] # "isolated"
  /\ run[r].phase = "marking" => run[r].outcome # "none"
  /\ run[r].phase \in {"marking", "saving"} /\ ~run[r].heard /\ run[r].proc \in {"alive", "exited"} =>
       run[r].proc = "exited" /\ run[r].outcome = "error"

\* The jobs that wait for a heartbeat wait in one list, once.
Lists(rs, pend) ==
  /\ \A i \in 1 .. Len(pend) : rs[pend[i]].phase = "pending"
  /\ \A r \in Runs : \A i \in 1 .. Len(rs[r].after) : rs[rs[r].after[i]].phase = "pending"
  /\ \A i, k \in 1 .. Len(pend) : pend[i] = pend[k] => i = k
  /\ \A r, s \in Runs : \A i \in 1 .. Len(rs[r].after), k \in 1 .. Len(rs[s].after) :
       rs[r].after[i] = rs[s].after[k] => r = s /\ i = k
  /\ \A r \in Runs : \A i \in 1 .. Len(rs[r].after), k \in 1 .. Len(pend) :
       rs[r].after[i] # pend[k]

ListsArePending == Lists(run, pending)

\* What waits in the Cron lane has not started, what runs there is not over.
LaneIsOrderly ==
  /\ \A i \in 1 .. Len(waiting) : run[waiting[i]].phase = "queued"
  /\ \A i, k \in 1 .. Len(waiting) : waiting[i] = waiting[k] => i = k
  /\ \A r \in running : run[r].phase \in {"running", "marking", "saving"}
  /\ LaneWaitsForRun

IsOpen(r) == run[r].phase \notin Settled \cup {"none"}

\* A run of a job whose runs never overlapped is the only one that is open,
\* and its job's record is its own until it has been marked.
StandsAlone(r) ==
  /\ \A s \in Runs : JobOf(s) = JobOf(r) /\ IsOpen(s) /\ IsOpen(r) => s = r
  /\ IsOpen(r) /\ run[r].phase # "saving" => active[JobOf(r)] = r
  /\ run[r].phase = "marking" => run[r].rec = r

\* The lines of such a run.
LinesFit(r) ==
  LET h == history[JobOf(r)]
      Began(i) == h[i].run = r /\ h[i].status = "running"
      Ended(i) == h[i].run = r /\ h[i].status # "running"
  IN  /\ run[r].phase \in {"none", "recording"} => \A i \in 1 .. Len(h) : h[i].run # r
      /\ run[r].phase \notin {"saving", "over", "lost"} => \A i \in 1 .. Len(h) : ~Ended(i)
      /\ run[r].phase \in {"saving", "over"} => \E i \in 1 .. Len(h) : Ended(i)
      /\ \A i, k \in 1 .. Len(h) : /\ Began(i) /\ Began(k) => i = k
                                   /\ Ended(i) /\ Ended(k) => i = k
                                   /\ Began(i) /\ Ended(k) => i < k
      /\ \A i \in 1 .. Len(h) : Ended(i) => run[r].phase = "lost" \/ h[i].status = run[r].outcome

NeverOverlapped(r) == Mode[JobOf(r)] = "isolated" /\ JobOf(r) \notin overlapped

\* A heartbeat job is dropped once for every time primaryChatId was unset.
Dropped == {r \in Runs : Mode[JobOf(r)] = "heartbeat" /\ run[r].phase = "dropped"}

DropsAreCounted ==
  /\ IsFiniteSet(Dropped)
  /\ Cardinality(Dropped) <= crashes + (IF primary THEN 1 ELSE 0)

IInv ==
  /\ TypeOK
  /\ \A r \in Runs : PhaseFits(r)
  /\ ListsArePending
  /\ LaneIsOrderly
  /\ \A r \in Runs : NeverOverlapped(r) => StandsAlone(r) /\ LinesFit(r)
  /\ DropsAreCounted

-----------------------------------------------------------------------------
(* Facts about runs and sequences.                                         *)

LEMMA AppendProperties ==
  ASSUME NEW S, NEW s \in Seq(S), NEW x \in S
  PROVE  /\ Append(s, x) \in Seq(S) /\ Len(Append(s, x)) = Len(s) + 1 /\ Len(s) \in Nat
         /\ \A i \in 1 .. Len(s) : Append(s, x)[i] = s[i] /\ s[i] \in S
         /\ Append(s, x)[Len(s) + 1] = x
         /\ \A i \in 1 .. Len(Append(s, x)) : i \in 1 .. Len(s) \/ i = Len(s) + 1
OBVIOUS

LEMMA TailProperties ==
  ASSUME NEW S, NEW s \in Seq(S), s # <<>>
  PROVE  /\ Head(s) \in S /\ Tail(s) \in Seq(S) /\ Len(s) \in Nat \ {0}
         /\ Len(Tail(s)) = Len(s) - 1
         /\ Head(s) = s[1] /\ 1 \in 1 .. Len(s)
         /\ \A i \in 1 .. Len(Tail(s)) : /\ Tail(s)[i] = s[i + 1] /\ i + 1 \in 1 .. Len(s)
                                         /\ i + 1 # 1
OBVIOUS

LEMMA RunsHaveJobs ==
  /\ \A r \in Runs : JobOf(r) \in Jobs
  /\ None \notin Runs
<1>1. \A r \in Runs : r \in Jobs \X Nat
  BY CronRunsAssumption DEF Runs
<1>2. QED
  BY <1>1, CronRunsAssumption DEF JobOf

HistoryLine == [run : Runs, status : {"running", "ok", "error"}]

\* A line is added to the history of one job.
LEMMA AppendedProperties ==
  ASSUME TypeOK, NEW r \in Runs, NEW x \in Runs, NEW status \in {"running", "ok", "error"},
         JobOf(x) = JobOf(r), Appended(x, status)
  PROVE  /\ history' \in [Jobs -> Seq(HistoryLine)]
         /\ \A j \in Jobs : j # JobOf(r) => history'[j] = history[j]
         /\ LET h == history[JobOf(r)]
                g == history'[JobOf(r)]
            IN  /\ Len(h) \in Nat /\ Len(g) = Len(h) + 1
                /\ \A i \in 1 .. Len(h) : g[i] = h[i]
                /\ g[Len(h) + 1].run = x /\ g[Len(h) + 1].status = status
<1> DEFINE j == JobOf(r)
           l == Line(x, status)
<1>1. j \in Jobs /\ history \in [Jobs -> Seq(HistoryLine)] /\ history[j] \in Seq(HistoryLine)
  BY RunsHaveJobs DEF TypeOK, HistoryLine
<1>2. l \in HistoryLine /\ l.run = x /\ l.status = status
  BY DEF Line, HistoryLine
<1>3. history' = [history EXCEPT ![j] = Append(history[j], l)]
  BY <1>1 DEF Appended
<1> HIDE DEF l
<1>4. Append(history[j], l) \in Seq(HistoryLine)
  BY <1>1, <1>2, AppendProperties
<1>5. history' \in [Jobs -> Seq(HistoryLine)] /\ history'[j] = Append(history[j], l)
      /\ \A k \in Jobs : k # j => history'[k] = history[k]
  BY <1>1, <1>3, <1>4
<1>6. QED
  BY <1>1, <1>2, <1>5, AppendProperties

-----------------------------------------------------------------------------
(* What a step does to the runs.                                           *)

\* One run steps.
LEMMA OneRunSteps ==
  ASSUME TypeOK, NEW r \in Runs, NEW x \in RunType,
         x.rec # None => JobOf(x.rec) = JobOf(r),
         run' = [run EXCEPT ![r] = x]
  PROVE  /\ run' \in [Runs -> RunType]
         /\ \A u \in Runs : run'[u].rec # None => JobOf(run'[u].rec) = JobOf(u)
         /\ run'[r] = x
         /\ \A u \in Runs : u # r => run'[u] = run[u]
<1>1. run \in [Runs -> RunType] /\ \A u \in Runs : run[u].rec # None => JobOf(run[u].rec) = JobOf(u)
  BY DEF TypeOK
<1>2. run' \in [Runs -> RunType] /\ run'[r] = x /\ \A u \in Runs : u # r => run'[u] = run[u]
  BY <1>1
<1>3. QED
  BY <1>1, <1>2

LEMMA RunsAreRecords ==
  ASSUME TypeOK, NEW r \in Runs
  PROVE  /\ run[r] \in RunType
         /\ run[r].phase \in Phases /\ run[r].proc \in {"none", "alive", "exited", "failed"}
         /\ run[r].heard \in BOOLEAN /\ run[r].outcome \in {"none", "ok", "error"}
         /\ run[r].rec \in Runs \cup {None} /\ run[r].after \in Seq(Runs)
BY DEF TypeOK, RunType

LEMMA PhaseChanges ==
  ASSUME NEW y \in RunType, NEW p \in Phases
  PROVE  LET x == [y EXCEPT !.phase = p]
         IN  /\ x \in RunType /\ x.phase = p
             /\ x.proc = y.proc /\ x.heard = y.heard /\ x.outcome = y.outcome
             /\ x.rec = y.rec /\ x.after = y.after
BY DEF RunType

LEMMA PhaseAndListChange ==
  ASSUME NEW y \in RunType, NEW p \in Phases, NEW l \in Seq(Runs)
  PROVE  LET x == [y EXCEPT !.phase = p, !.after = l]
         IN  /\ x \in RunType /\ x.phase = p
             /\ x.proc = y.proc /\ x.heard = y.heard /\ x.outcome = y.outcome
             /\ x.rec = y.rec /\ x.after = l
BY DEF RunType

\* The first job of a list begins: it leaves the list to the job.
LEMMA BeginsProperties ==
  ASSUME NEW rs \in [Runs -> RunType], NEW list \in Seq(Runs)
  PROVE  /\ Begins(rs, list) \in [Runs -> RunType]
         /\ \A u \in Runs : list = <<>> \/ u # Head(list) => Begins(rs, list)[u] = rs[u]
         /\ list # <<>> =>
              LET h == Head(list)
                  x == Begins(rs, list)[h]
              IN  /\ h \in Runs
                  /\ x.phase = "planning" /\ x.after = Tail(list)
                  /\ x.proc = rs[h].proc /\ x.heard = rs[h].heard /\ x.outcome = rs[h].outcome
                  /\ x.rec = rs[h].rec
<1>1. CASE list = <<>>
  BY <1>1 DEF Begins
<1>2. CASE list # <<>>
  <2> DEFINE h == Head(list)
             y == rs[h]
             l == Tail(list)
             x == [y EXCEPT !.phase = "planning", !.after = l]
  <2>1. h \in Runs /\ l \in Seq(Runs) /\ y \in RunType /\ "planning" \in Phases
    BY <1>2, TailProperties DEF Phases
  <2>2. Begins(rs, list) = [rs EXCEPT ![h] = x]
    BY <1>2, <2>1 DEF Begins
  <2> HIDE DEF h, y, l
  <2>3. /\ x \in RunType /\ x.phase = "planning" /\ x.after = l
        /\ x.proc = y.proc /\ x.heard = y.heard /\ x.outcome = y.outcome /\ x.rec = y.rec
    BY <2>1 DEF RunType
  <2> HIDE DEF x
  <2>4. /\ Begins(rs, list) \in [Runs -> RunType]
        /\ Begins(rs, list)[h] = x
        /\ \A u \in Runs : u # h => Begins(rs, list)[u] = rs[u]
    BY <2>1, <2>2, <2>3
  <2>5. QED
    BY <1>2, <2>1, <2>3, <2>4 DEF h, y, l
<1>3. QED
  BY <1>1, <1>2

\* A list of waiting jobs that no other list knows.
ListIsApart(rs, pend, list) ==
  /\ \A i \in 1 .. Len(list) : rs[list[i]].phase = "pending"
  /\ \A i, k \in 1 .. Len(list) : list[i] = list[k] => i = k
  /\ \A i \in 1 .. Len(list), k \in 1 .. Len(pend) : list[i] # pend[k]
  /\ \A r \in Runs : \A i \in 1 .. Len(list), k \in 1 .. Len(rs[r].after) :
       list[i] # rs[r].after[k]

LEMMA BeginsKeepsLists ==
  ASSUME NEW rs \in [Runs -> RunType], NEW pend \in Seq(Runs), NEW list \in Seq(Runs),
         Lists(rs, pend), ListIsApart(rs, pend, list)
  PROVE  Lists(Begins(rs, list), pend)
<1> DEFINE bs == Begins(rs, list)
           h == Head(list)
           l == Tail(list)
<1>1. CASE list = <<>>
  BY <1>1 DEF Begins
<1>2. CASE list # <<>>
  <2>1. /\ h \in Runs /\ l \in Seq(Runs) /\ bs[h].after = l
        /\ \A u \in Runs : u # h => bs[u] = rs[u]
    BY <1>2, BeginsProperties, TailProperties
  <2>2. /\ Len(l) \in Nat /\ h = list[1] /\ 1 \in 1 .. Len(list)
        /\ \A i \in 1 .. Len(l) : l[i] = list[i + 1] /\ i + 1 \in 1 .. Len(list) /\ i + 1 # 1
    BY <1>2, <2>1, TailProperties
  <2> HIDE DEF bs, h, l
  <2>3. \A u \in Runs : rs[u].after \in Seq(Runs)
    BY DEF RunType
  <2>4. \A u \in Runs : \A i \in 1 .. Len(rs[u].after) : rs[u].after[i] \in Runs
    BY <2>3
  <2>5. \A i \in 1 .. Len(l) : l[i] \in Runs /\ l[i] # h /\ rs[l[i]].phase = "pending"
    <3>1. \A i \in 1 .. Len(l) : l[i] \in Runs
      BY <2>1
    <3>2. QED
      BY <2>2, <3>1 DEF ListIsApart
  <2>6. \A i \in 1 .. Len(pend) : pend[i] \in Runs /\ pend[i] # h /\ rs[pend[i]].phase = "pending"
    BY <2>2 DEF ListIsApart, Lists
  <2>7. \A u \in Runs : \A i \in 1 .. Len(rs[u].after) :
          rs[u].after[i] # h /\ rs[rs[u].after[i]].phase = "pending"
    BY <2>2 DEF ListIsApart, Lists
  <2>8. \A i \in 1 .. Len(pend) : bs[pend[i]].phase = "pending"
    BY <2>1, <2>6
  <2>9. \A u \in Runs : \A i \in 1 .. Len(bs[u].after) : bs[bs[u].after[i]].phase = "pending"
    <3> SUFFICES ASSUME NEW u \in Runs, NEW i \in 1 .. Len(bs[u].after)
                 PROVE  bs[bs[u].after[i]].phase = "pending"
      OBVIOUS
    <3>1. CASE u = h
      BY <2>1, <2>5, <3>1
    <3>2. CASE u # h
      <4>1. bs[u].after = rs[u].after
        BY <2>1, <3>2
      <4>2. QED
        BY <2>1, <2>4, <2>7, <4>1
    <3>3. QED
      BY <3>1, <3>2
  <2>10. \A u, v \in Runs : \A i \in 1 .. Len(bs[u].after), k \in 1 .. Len(bs[v].after) :
           bs[u].after[i] = bs[v].after[k] => u = v /\ i = k
    <3>1. \A u, v \in Runs : \A i \in 1 .. Len(rs[u].after), k \in 1 .. Len(rs[v].after) :
            rs[u].after[i] = rs[v].after[k] => u = v /\ i = k
      BY DEF Lists
    <3>2. \A i, k \in 1 .. Len(l) : l[i] = l[k] => i = k
      BY <2>2 DEF ListIsApart
    <3>3. \A u \in Runs : \A i \in 1 .. Len(l), k \in 1 .. Len(rs[u].after) : l[i] # rs[u].after[k]
      BY <2>2 DEF ListIsApart
    <3> SUFFICES ASSUME NEW u \in Runs, NEW v \in Runs,
                        NEW i \in 1 .. Len(bs[u].after), NEW k \in 1 .. Len(bs[v].after),
                        bs[u].after[i] = bs[v].after[k]
                 PROVE  u = v /\ i = k
      OBVIOUS
    <3>4. CASE u = h /\ v = h
      BY <2>1, <3>2, <3>4
    <3>5. CASE u = h /\ v # h
      <4>1. bs[v].after = rs[v].after /\ bs[u].after = l
        BY <2>1, <3>5
      <4>2. QED
        BY <3>3, <4>1
    <3>6. CASE u # h /\ v = h
      <4>1. bs[u].after = rs[u].after /\ bs[v].after = l
        BY <2>1, <3>6
      <4>2. QED
        BY <3>3, <4>1
    <3>7. CASE u # h /\ v # h
      <4>1. bs[u].after = rs[u].after /\ bs[v].after = rs[v].after
        BY <2>1, <3>7
      <4>2. QED
        BY <3>1, <4>1
    <3>8. QED
      BY <3>4, <3>5, <3>6, <3>7
  <2>11. \A u \in Runs : \A i \in 1 .. Len(bs[u].after), k \in 1 .. Len(pend) :
           bs[u].after[i] # pend[k]
    <3>1. \A u \in Runs : \A i \in 1 .. Len(rs[u].after), k \in 1 .. Len(pend) :
            rs[u].after[i] # pend[k]
      BY DEF Lists
    <3>2. \A i \in 1 .. Len(l), k \in 1 .. Len(pend) : l[i] # pend[k]
      BY <2>2 DEF ListIsApart
    <3> TAKE u \in Runs
    <3>3. bs[u].after = l \/ bs[u].after = rs[u].after
      BY <2>1
    <3>4. QED
      BY <3>1, <3>2, <3>3
  <2>12. \A i, k \in 1 .. Len(pend) : pend[i] = pend[k] => i = k
    BY DEF Lists
  <2>13. Lists(bs, pend)
    BY <2>8, <2>9, <2>10, <2>11, <2>12 DEF Lists
  <2>14. QED
    BY <2>13 DEF bs
<1>3. QED
  BY <1>1, <1>2

-----------------------------------------------------------------------------
(* What a step leaves alone.                                               *)

\* The lists stay as long as what waits in them goes on waiting.
LEMMA ListsStay ==
  ASSUME TypeOK, ListsArePending, pending' = pending,
         \A u \in Runs : /\ run'[u].after = run[u].after
                         /\ run[u].phase = "pending" => run'[u].phase = "pending"
  PROVE  ListsArePending'
<1>1. /\ \A i \in 1 .. Len(pending) : pending[i] \in Runs
      /\ \A u \in Runs : run[u].after \in Seq(Runs)
  BY DEF TypeOK, RunType
<1>2. \A u \in Runs : \A i \in 1 .. Len(run[u].after) : run[u].after[i] \in Runs
  BY <1>1
<1>3. \A i \in 1 .. Len(pending') : run'[pending'[i]].phase = "pending"
  BY <1>1 DEF ListsArePending, Lists
<1>4. ASSUME NEW u \in Runs
      PROVE  /\ run'[u].after = run[u].after
             /\ \A i \in 1 .. Len(run[u].after) : run'[run[u].after[i]].phase = "pending"
  BY <1>2 DEF ListsArePending, Lists
<1>5. \A u \in Runs : \A i \in 1 .. Len(run'[u].after) : run'[run'[u].after[i]].phase = "pending"
  BY <1>4
<1>6. \A i, k \in 1 .. Len(pending') : pending'[i] = pending'[k] => i = k
  BY DEF ListsArePending, Lists
<1>7. \A u, v \in Runs : \A i \in 1 .. Len(run'[u].after), k \in 1 .. Len(run'[v].after) :
        run'[u].after[i] = run'[v].after[k] => u = v /\ i = k
  <2>1. \A u, v \in Runs : \A i \in 1 .. Len(run[u].after), k \in 1 .. Len(run[v].after) :
          run[u].after[i] = run[v].after[k] => u = v /\ i = k
    BY DEF ListsArePending, Lists
  <2>2. QED
    BY <1>4, <2>1, SMTT(30)
<1>8. \A u \in Runs : \A i \in 1 .. Len(run'[u].after), k \in 1 .. Len(pending') :
        run'[u].after[i] # pending'[k]
  <2>1. \A u \in Runs : \A i \in 1 .. Len(run[u].after), k \in 1 .. Len(pending) :
          run[u].after[i] # pending[k]
    BY DEF ListsArePending, Lists
  <2>2. QED
    BY <1>4, <2>1
<1>9. QED
  BY <1>3, <1>5, <1>6, <1>7, <1>8 DEF ListsArePending, Lists

\* A step of the run v that neither writes a line nor fires it.
GoesOn(v) ==
  \/ /\ run'[v].phase = run[v].phase
     /\ run'[v].rec = run[v].rec /\ run'[v].outcome = run[v].outcome
  \/ /\ run[v].phase \in {"recording", "planning", "queued", "running"}
     /\ run'[v].phase \in {"planning", "queued", "running", "dropped"}
  \/ /\ run[v].phase \in {"planning", "queued", "running"}
     /\ run'[v].phase = "marking"
     /\ run'[v].rec = active[JobOf(v)]
  \/ /\ run[v].phase = "saving" /\ run'[v].phase = "over"
     /\ run'[v].outcome = run[v].outcome

LEMMA LinesStay ==
  ASSUME TypeOK, \A u \in Runs : NeverOverlapped(u) => StandsAlone(u) /\ LinesFit(u),
         UNCHANGED <<history, active, overlapped>>,
         \A v \in Runs : Mode[JobOf(v)] = "isolated" => GoesOn(v)
  PROVE  \A u \in Runs : NeverOverlapped(u)' => StandsAlone(u)' /\ LinesFit(u)'
<1> SUFFICES ASSUME NEW u \in Runs, NeverOverlapped(u)
             PROVE  StandsAlone(u)' /\ LinesFit(u)'
  BY DEF NeverOverlapped
<1>1. /\ StandsAlone(u) /\ LinesFit(u) /\ GoesOn(u)
      /\ \A s \in Runs : JobOf(s) = JobOf(u) => GoesOn(s)
  BY DEF NeverOverlapped
<1>2. StandsAlone(u)'
  BY <1>1 DEF StandsAlone, GoesOn, IsOpen, Settled
<1>3. LinesFit(u)'
  BY <1>1, SMTT(30) DEF LinesFit, GoesOn
<1>4. QED
  BY <1>2, <1>3

\* The lane stays as long as what waits, runs or is over there stays so.
LEMMA LaneStays ==
  ASSUME TypeOK, LaneIsOrderly, UNCHANGED laneVars,
         \A u \in Runs :
           /\ run[u].phase = "queued" => run'[u].phase = "queued"
           /\ run[u].phase \in {"running", "marking", "saving"} =>
                run'[u].phase \in {"running", "marking", "saving"}
           /\ run[u].phase = "over" => run'[u].phase = "over"
           /\ run[u].proc = "exited" /\ run[u].heard /\ run[u].outcome = "error" =>
                run'[u].proc = "exited" /\ run'[u].heard /\ run'[u].outcome = "error"
  PROVE  LaneIsOrderly'
<1>1. /\ \A i \in 1 .. Len(waiting) : waiting[i] \in Runs
      /\ running \subseteq Runs /\ finished \subseteq Runs
      /\ UNCHANGED <<waiting, running, finished>>
  BY DEF TypeOK, laneVars
<1>2. QED
  BY <1>1 DEF LaneIsOrderly, LaneWaitsForRun

\* No heartbeat job is dropped.
LEMMA DropsStay ==
  ASSUME TypeOK, DropsAreCounted, UNCHANGED <<primary, crashes>>,
         \A u \in Runs : run'[u].phase = "dropped" /\ Mode[JobOf(u)] = "heartbeat" =>
                           run[u].phase = "dropped"
  PROVE  DropsAreCounted'
<1>1. Dropped' \subseteq Dropped /\ IsFiniteSet(Dropped)
  BY DEF DropsAreCounted, Dropped
<1>2. IsFiniteSet(Dropped') /\ Cardinality(Dropped') <= Cardinality(Dropped)
  BY <1>1, FS_Subset
<1>3. Cardinality(Dropped) \in Nat /\ Cardinality(Dropped') \in Nat
  BY <1>1, <1>2, FS_CardinalityType
<1>4. crashes \in Nat /\ Cardinality(Dropped) <= crashes + (IF primary THEN 1 ELSE 0)
  BY CronRunsAssumption DEF TypeOK, DropsAreCounted
<1>5. QED
  BY <1>2, <1>3, <1>4 DEF DropsAreCounted

-----------------------------------------------------------------------------
(* Every step keeps the invariant.                                         *)

LEMMA InitHolds == Init => IInv
<1> SUFFICES ASSUME Init PROVE IInv
  OBVIOUS
<1>1. /\ NotFired \in RunType /\ NotFired.phase = "none" /\ NotFired.proc = "none"
      /\ ~NotFired.heard /\ NotFired.rec = None /\ NotFired.after = <<>>
      /\ NotFired.outcome = "none"
  BY DEF NotFired, RunType, Phases
<1>2. /\ \A r \in Runs : run[r] = NotFired
      /\ run \in [Runs -> RunType]
      /\ \A j \in Jobs : active[j] = None /\ history[j] = <<>>
      /\ history \in [Jobs -> Seq([run : Runs, status : {"running", "ok", "error"}])]
  BY <1>1 DEF Init
<1>3. TypeOK
  BY <1>1, <1>2, CronRunsAssumption DEF TypeOK, Init, CronLane!Init
<1>4. \A r \in Runs : PhaseFits(r)
  BY <1>1, <1>2 DEF PhaseFits
<1>5. ListsArePending
  BY <1>1, <1>2 DEF ListsArePending, Lists, Init
<1>6. LaneIsOrderly
  BY DEF LaneIsOrderly, LaneWaitsForRun, Init, CronLane!Init
<1>7. \A r \in Runs : StandsAlone(r) /\ LinesFit(r)
  <2> TAKE r \in Runs
  <2>1. StandsAlone(r)
    BY <1>1, <1>2 DEF StandsAlone, IsOpen
  <2>2. history[JobOf(r)] = <<>>
    BY <1>2, RunsHaveJobs
  <2>3. LinesFit(r)
    BY <1>1, <1>2, <2>2 DEF LinesFit
  <2>4. QED
    BY <2>1, <2>3
<1>8. DropsAreCounted
  <2>1. Dropped = {}
    BY <1>1, <1>2 DEF Dropped
  <2>2. IsFiniteSet(Dropped) /\ Cardinality(Dropped) = 0
    BY <2>1, FS_EmptySet
  <2>3. QED
    BY <2>2 DEF DropsAreCounted, Init
<1>9. QED
  BY <1>3, <1>4, <1>5, <1>6, <1>7, <1>8 DEF IInv

LEMMA FireMainKeeps ==
  ASSUME IInv, NEW r \in Runs, FireMain(r)
  PROVE  IInv'
<1> DEFINE p == Listened("over")
           x == [run[r] EXCEPT !.phase = p]
<1>1. /\ TypeOK /\ run[r].phase = "none" /\ Mode[JobOf(r)] = "main"
      /\ run' = [run EXCEPT ![r] = x]
      /\ UNCHANGED <<active, history, pending, primary, laneVars, crashes, overlapped>>
      /\ p \in {"over", "dropped"} /\ p \in Phases
  BY DEF IInv, FireMain, IsNext, Listened, Phases
<1> HIDE DEF p
<1>2. /\ x \in RunType /\ x.phase = p
      /\ x.proc = run[r].proc /\ x.heard = run[r].heard /\ x.outcome = run[r].outcome
      /\ x.rec = run[r].rec /\ x.after = run[r].after
  BY <1>1, RunsAreRecords, PhaseChanges
<1> HIDE DEF x
<1>3. /\ run' \in [Runs -> RunType]
      /\ \A u \in Runs : run'[u].rec # None => JobOf(run'[u].rec) = JobOf(u)
      /\ run'[r] = x /\ \A u \in Runs : u # r => run'[u] = run[u]
  <2>1. x.rec # None => JobOf(x.rec) = JobOf(r)
    BY <1>1, <1>2 DEF TypeOK
  <2>2. QED
    BY <1>1, <1>2, <2>1, OneRunSteps
<1>4. TypeOK'
  BY <1>1, <1>3 DEF TypeOK, laneVars
<1>5. \A u \in Runs : PhaseFits(u)'
  <2> TAKE u \in Runs
  <2>1. PhaseFits(u)
    BY DEF IInv
  <2>2. QED
    BY <1>1, <1>2, <1>3, <2>1 DEF PhaseFits
<1>6. ListsArePending'
  BY <1>1, <1>2, <1>3, ListsStay DEF IInv
<1>7. LaneIsOrderly'
  BY <1>1, <1>2, <1>3, LaneStays DEF IInv
<1>8. \A u \in Runs : NeverOverlapped(u)' => StandsAlone(u)' /\ LinesFit(u)'
  <2>1. \A v \in Runs : Mode[JobOf(v)] = "isolated" => GoesOn(v)
    BY <1>1, <1>3 DEF GoesOn
  <2>2. QED
    BY <1>1, <2>1, LinesStay DEF IInv
<1>9. DropsAreCounted'
  BY <1>1, <1>2, <1>3, DropsStay DEF IInv
<1>10. QED
  BY <1>4, <1>5, <1>6, <1>7, <1>8, <1>9 DEF IInv

LEMMA FireHeartbeatKeeps ==
  ASSUME IInv, NEW r \in Runs, FireHeartbeat(r)
  PROVE  IInv'
<1> DEFINE x == [run[r] EXCEPT !.phase = "pending"]
<1>1. /\ TypeOK /\ run[r].phase = "none" /\ Mode[JobOf(r)] = "heartbeat"
      /\ run' = [run EXCEPT ![r] = x]
      /\ pending' = Append(pending, r) /\ pending \in Seq(Runs)
      /\ UNCHANGED <<active, history, primary, laneVars, crashes, overlapped>>
  BY DEF IInv, FireHeartbeat, IsNext, TypeOK
<1>2. /\ x \in RunType /\ x.phase = "pending"
      /\ x.proc = run[r].proc /\ x.heard = run[r].heard /\ x.outcome = run[r].outcome
      /\ x.rec = run[r].rec /\ x.after = run[r].after
  <2>1. "pending" \in Phases
    BY DEF Phases
  <2>2. QED
    BY <1>1, <2>1, RunsAreRecords, PhaseChanges
<1> HIDE DEF x
<1>3. /\ run' \in [Runs -> RunType]
      /\ \A u \in Runs : run'[u].rec # None => JobOf(run'[u].rec) = JobOf(u)
      /\ run'[r] = x /\ \A u \in Runs : u # r => run'[u] = run[u]
  <2>1. x.rec # None => JobOf(x.rec) = JobOf(r)
    BY <1>1, <1>2 DEF TypeOK
  <2>2. QED
    BY <1>1, <1>2, <2>1, OneRunSteps
<1>4. TypeOK'
  BY <1>1, <1>3, AppendProperties DEF TypeOK, laneVars
<1>5. \A u \in Runs : PhaseFits(u)'
  <2> TAKE u \in Runs
  <2>1. PhaseFits(u)
    BY DEF IInv
  <2>2. QED
    BY <1>1, <1>2, <1>3, <2>1 DEF PhaseFits
<1>6. ListsArePending'
  <2>1. \A u \in Runs : run'[u].after = run[u].after /\ run[u].after \in Seq(Runs)
    BY <1>1, <1>2, <1>3, RunsAreRecords
  <2>2. \A u \in Runs : \A i \in 1 .. Len(run[u].after) :
          run[u].after[i] \in Runs /\ run[u].after[i] # r
          /\ run'[run[u].after[i]].phase = "pending"
    <3>1. \A u \in Runs : \A i \in 1 .. Len(run[u].after) :
            run[u].after[i] \in Runs /\ run[run[u].after[i]].phase = "pending"
      BY <2>1 DEF IInv, ListsArePending, Lists
    <3>2. QED
      BY <1>1, <1>3, <3>1
  <2>3. /\ Len(pending) \in Nat /\ Len(pending') = Len(pending) + 1
        /\ \A i \in 1 .. Len(pending) : pending'[i] = pending[i] /\ pending[i] \in Runs
        /\ pending'[Len(pending) + 1] = r
        /\ \A i \in 1 .. Len(pending') : i \in 1 .. Len(pending) \/ i = Len(pending) + 1
    BY <1>1, AppendProperties
  <2>4. \A i \in 1 .. Len(pending) : pending[i] # r /\ run'[pending[i]].phase = "pending"
    <3>1. \A i \in 1 .. Len(pending) : run[pending[i]].phase = "pending"
      BY DEF IInv, ListsArePending, Lists
    <3>2. QED
      BY <1>1, <1>3, <2>3, <3>1
  <2>5. \A i \in 1 .. Len(pending') : run'[pending'[i]].phase = "pending"
    BY <1>2, <1>3, <2>3, <2>4
  <2>6. \A i, k \in 1 .. Len(pending') : pending'[i] = pending'[k] => i = k
    <3>1. \A i, k \in 1 .. Len(pending) : pending[i] = pending[k] => i = k
      BY DEF IInv, ListsArePending, Lists
    <3>2. QED
      BY <2>3, <2>4, <3>1
  <2>7. \A u, v \in Runs : \A i \in 1 .. Len(run'[u].after), k \in 1 .. Len(run'[v].after) :
          run'[u].after[i] = run'[v].after[k] => u = v /\ i = k
    <3>1. \A u, v \in Runs : \A i \in 1 .. Len(run[u].after), k \in 1 .. Len(run[v].after) :
            run[u].after[i] = run[v].after[k] => u = v /\ i = k
      BY DEF IInv, ListsArePending, Lists
    <3> SUFFICES ASSUME NEW u \in Runs, NEW v \in Runs,
                        NEW i \in 1 .. Len(run'[u].after), NEW k \in 1 .. Len(run'[v].after),
                        run'[u].after[i] = run'[v].after[k]
                 PROVE  u = v /\ i = k
      OBVIOUS
    <3>2. run'[u].after = run[u].after /\ run'[v].after = run[v].after
      BY <2>1
    <3>3. QED
      BY <3>1, <3>2
  <2>8. \A u \in Runs : \A i \in 1 .. Len(run'[u].after), k \in 1 .. Len(pending') :
          run'[u].after[i] # pending'[k]
    <3>1. \A u \in Runs : \A i \in 1 .. Len(run[u].after), k \in 1 .. Len(pending) :
            run[u].after[i] # pending[k]
      BY DEF IInv, ListsArePending, Lists
    <3>2. \A u \in Runs : \A i \in 1 .. Len(run[u].after), k \in 1 .. Len(pending') :
            run[u].after[i] # pending'[k]
      BY <2>2, <2>3, <3>1
    <3>3. QED
      BY <2>1, <3>2
  <2>9. \A u \in Runs : \A i \in 1 .. Len(run'[u].after) : run'[run'[u].after[i]].phase = "pending"
    BY <2>1, <2>2
  <2>10. QED
    BY <2>5, <2>6, <2>7, <2>8, <2>9 DEF ListsArePending, Lists
<1>7. LaneIsOrderly'
  BY <1>1, <1>2, <1>3, LaneStays DEF IInv
<1>8. \A u \in Runs : NeverOverlapped(u)' => StandsAlone(u)' /\ LinesFit(u)'
  <2>1. \A v \in Runs : Mode[JobOf(v)] = "isolated" => GoesOn(v)
    BY <1>1, <1>3 DEF GoesOn
  <2>2. QED
    BY <1>1, <2>1, LinesStay DEF IInv
<1>9. DropsAreCounted'
  BY <1>1, <1>2, <1>3, DropsStay DEF IInv
<1>10. QED
  BY <1>4, <1>5, <1>6, <1>7, <1>8, <1>9 DEF IInv

LEMMA FireIsolatedKeeps ==
  ASSUME IInv, NEW r \in Runs, FireIsolated(r)
  PROVE  IInv'
<1> DEFINE x == [run[r] EXCEPT !.phase = "recording"]
           open == {s \in Runs : JobOf(s) = JobOf(r) /\ run[s].phase \notin Settled \cup {"none"}}
<1>1. /\ TypeOK /\ run[r].phase = "none" /\ Mode[JobOf(r)] = "isolated"
      /\ run' = [run EXCEPT ![r] = x]
      /\ active' = [active EXCEPT ![JobOf(r)] = r]
      /\ overlapped' = IF open = {} THEN overlapped ELSE overlapped \cup {JobOf(r)}
      /\ UNCHANGED <<history, pending, primary, laneVars, crashes>>
  BY DEF IInv, FireIsolated, IsNext
<1>2. /\ x \in RunType /\ x.phase = "recording"
      /\ x.proc = run[r].proc /\ x.heard = run[r].heard /\ x.outcome = run[r].outcome
      /\ x.rec = run[r].rec /\ x.after = run[r].after
  <2>1. "recording" \in Phases
    BY DEF Phases
  <2>2. QED
    BY <1>1, <2>1, RunsAreRecords, PhaseChanges
<1> HIDE DEF x
<1>3. /\ run' \in [Runs -> RunType]
      /\ \A u \in Runs : run'[u].rec # None => JobOf(run'[u].rec) = JobOf(u)
      /\ run'[r] = x /\ \A u \in Runs : u # r => run'[u] = run[u]
  <2>1. x.rec # None => JobOf(x.rec) = JobOf(r)
    BY <1>1, <1>2 DEF TypeOK
  <2>2. QED
    BY <1>1, <1>2, <2>1, OneRunSteps
<1>4. TypeOK'
  <2>1. JobOf(r) \in Jobs
    BY RunsHaveJobs
  <2>2. overlapped' \subseteq Jobs
    BY <1>1, <2>1 DEF TypeOK
  <2>3. /\ active' \in [Jobs -> Runs \cup {None}]
        /\ \A j \in Jobs : active'[j] # None => JobOf(active'[j]) = j
    BY <1>1, <2>1 DEF TypeOK
  <2>4. QED
    BY <1>1, <1>3, <2>2, <2>3 DEF TypeOK, laneVars
<1>5. \A u \in Runs : PhaseFits(u)'
  <2> TAKE u \in Runs
  <2>1. PhaseFits(u)
    BY DEF IInv
  <2>2. QED
    BY <1>1, <1>2, <1>3, <2>1 DEF PhaseFits
<1>6. ListsArePending'
  BY <1>1, <1>2, <1>3, ListsStay DEF IInv
<1>7. LaneIsOrderly'
  BY <1>1, <1>2, <1>3, LaneStays DEF IInv
<1>8. \A u \in Runs : NeverOverlapped(u)' => StandsAlone(u)' /\ LinesFit(u)'
  <2> SUFFICES ASSUME NEW u \in Runs, NeverOverlapped(u)'
               PROVE  StandsAlone(u)' /\ LinesFit(u)'
    OBVIOUS
  <2>1. /\ NeverOverlapped(u)
        /\ JobOf(u) = JobOf(r) => open = {}
    BY <1>1 DEF NeverOverlapped
  <2>2. StandsAlone(u) /\ LinesFit(u)
    BY <2>1 DEF IInv
  <2>3. LinesFit(u)'
    BY <1>1, <1>2, <1>3, <2>2 DEF LinesFit
  <2>4. CASE JobOf(u) = JobOf(r)
    <3>1. \A s \in Runs : JobOf(s) = JobOf(r) => ~IsOpen(s)
      BY <2>1, <2>4 DEF IsOpen
    <3>2. \A s \in Runs : JobOf(s) = JobOf(r) /\ s # r => ~IsOpen(s)'
      BY <1>3, <3>1 DEF IsOpen
    <3>3. active'[JobOf(r)] = r
      <4>1. JobOf(r) \in Jobs /\ active \in [Jobs -> Runs \cup {None}]
        BY <1>1, RunsHaveJobs DEF TypeOK
      <4>2. QED
        BY <1>1, <4>1
    <3>4. run'[u].phase # "marking"
      BY <1>2, <1>3, <2>4, <3>2 DEF IsOpen, Settled
    <3>5. QED
      BY <2>3, <2>4, <3>2, <3>3, <3>4 DEF StandsAlone
  <2>5. CASE JobOf(u) # JobOf(r)
    <3>1. /\ u # r /\ \A s \in Runs : JobOf(s) = JobOf(u) => run'[s] = run[s]
          /\ active'[JobOf(u)] = active[JobOf(u)]
      BY <1>1, <1>3, <2>5
    <3>2. StandsAlone(u)'
      BY <2>2, <3>1 DEF StandsAlone, IsOpen
    <3>3. QED
      BY <2>3, <3>2
  <2>6. QED
    BY <2>4, <2>5
<1>9. DropsAreCounted'
  BY <1>1, <1>2, <1>3, DropsStay DEF IInv
<1>10. QED
  BY <1>4, <1>5, <1>6, <1>7, <1>8, <1>9 DEF IInv

\* A line in the name of one run leaves the lines of the others alone.
LEMMA OthersLinesStay ==
  ASSUME TypeOK, NEW r \in Runs, NEW x \in Runs, NEW status \in {"running", "ok", "error"},
         JobOf(x) = JobOf(r), Appended(x, status),
         NEW u \in Runs, u # x, LinesFit(u), run'[u] = run[u]
  PROVE  LinesFit(u)'
<1>1. CASE JobOf(u) # JobOf(r)
  <2>1. history'[JobOf(u)] = history[JobOf(u)]
    BY <1>1, AppendedProperties, RunsHaveJobs
  <2>2. QED
    BY <2>1 DEF LinesFit
<1>2. CASE JobOf(u) = JobOf(r)
  <2> DEFINE h == history[JobOf(r)]
             g == history'[JobOf(r)]
  <2>1. /\ Len(h) \in Nat /\ Len(g) = Len(h) + 1
        /\ \A i \in 1 .. Len(h) : g[i] = h[i]
        /\ g[Len(h) + 1].run # u
    BY AppendedProperties
  <2> HIDE DEF h, g
  <2>2. \A i \in 1 .. Len(g) : g[i].run = u => i \in 1 .. Len(h) /\ g[i] = h[i]
    BY <2>1
  <2>3. \A i \in 1 .. Len(h) : i \in 1 .. Len(g) /\ g[i] = h[i]
    BY <2>1
  <2>4. h = history[JobOf(u)] /\ g = history'[JobOf(u)]
    BY <1>2 DEF h, g
  <2> USE DEF LinesFit
  <2>5. /\ run[u].phase \in {"none", "recording"} => \A i \in 1 .. Len(g) : g[i].run # u
        /\ run[u].phase \notin {"saving", "over", "lost"} =>
             \A i \in 1 .. Len(g) : ~(g[i].run = u /\ g[i].status # "running")
    BY <2>2, <2>4
  <2>6. run[u].phase \in {"saving", "over"} =>
          \E i \in 1 .. Len(g) : g[i].run = u /\ g[i].status # "running"
    <3>1. run[u].phase \in {"saving", "over"} =>
            \E i \in 1 .. Len(h) : h[i].run = u /\ h[i].status # "running"
      BY <2>4
    <3>2. QED
      BY <2>3, <3>1
  <2>7. \A i, k \in 1 .. Len(g) : /\ g[i].run = u /\ g[i].status = "running"
                                     /\ g[k].run = u /\ g[k].status = "running" => i = k
                                  /\ g[i].run = u /\ g[i].status # "running"
                                     /\ g[k].run = u /\ g[k].status # "running" => i = k
                                  /\ g[i].run = u /\ g[i].status = "running"
                                     /\ g[k].run = u /\ g[k].status # "running" => i < k
    BY <2>2, <2>4
  <2>8. \A i \in 1 .. Len(g) : g[i].run = u /\ g[i].status # "running" =>
          run[u].phase = "lost" \/ g[i].status = run[u].outcome
    BY <2>2, <2>4
  <2>9. QED
    BY <2>4, <2>5, <2>6, <2>7, <2>8
<1>3. QED
  BY <1>1, <1>2

\* The line that a run is running.
LEMMA RunningLineFits ==
  ASSUME TypeOK, NEW r \in Runs, Appended(r, "running"), LinesFit(r),
         run[r].phase = "recording", run'[r].phase \in {"planning", "dropped"}
  PROVE  LinesFit(r)'
<1> DEFINE h == history[JobOf(r)]
           g == history'[JobOf(r)]
<1>1. /\ Len(h) \in Nat /\ Len(g) = Len(h) + 1
      /\ \A i \in 1 .. Len(h) : g[i] = h[i]
      /\ g[Len(h) + 1].status = "running"
  BY AppendedProperties
<1>2. \A i \in 1 .. Len(h) : h[i].run # r
  BY DEF LinesFit
<1> HIDE DEF h, g
<1>3. \A i \in 1 .. Len(g) : g[i].run = r => i = Len(h) + 1 /\ g[i].status = "running"
  BY <1>1, <1>2
<1>4. QED
  BY <1>3 DEF LinesFit, h, g

\* The line that says how a run ended.
LEMMA LastLineFits ==
  ASSUME TypeOK, NEW r \in Runs, NEW outcome \in {"ok", "error"}, Appended(r, outcome), LinesFit(r),
         run[r].phase = "marking", run'[r].phase = "saving", run'[r].outcome = outcome
  PROVE  LinesFit(r)'
<1> DEFINE h == history[JobOf(r)]
           g == history'[JobOf(r)]
           n == Len(h) + 1
<1>1. /\ Len(h) \in Nat /\ Len(g) = n
      /\ \A i \in 1 .. Len(h) : g[i] = h[i]
      /\ g[n].status = outcome /\ g[n].run = r
  BY AppendedProperties
<1>2. /\ \A i \in 1 .. Len(h) : h[i].run = r => h[i].status = "running"
      /\ \A i, k \in 1 .. Len(h) : h[i].run = r /\ h[i].status = "running"
                                   /\ h[k].run = r /\ h[k].status = "running" => i = k
  BY DEF LinesFit
<1> HIDE DEF h, g
<1>3. \A i \in 1 .. Len(g) : g[i].run = r => i = n \/ (i \in 1 .. Len(h) /\ g[i] = h[i])
  <2>1. \A i \in 1 .. Len(g) : i = n \/ i \in 1 .. Len(h)
    BY <1>1
  <2>2. QED
    BY <1>1, <2>1
<1>4. \A i \in 1 .. Len(g) : g[i].run = r /\ g[i].status # "running" => i = n
  BY <1>2, <1>3
<1>5. \A i \in 1 .. Len(g) : g[i].run = r /\ g[i].status = "running" =>
        i < n /\ i \in 1 .. Len(h) /\ h[i].run = r /\ h[i].status = "running"
  BY <1>1, <1>3
<1>6. n \in 1 .. Len(g)
  BY <1>1
<1> HIDE DEF n
<1>7. \A i, k \in 1 .. Len(g) : /\ g[i].run = r /\ g[i].status = "running"
                                   /\ g[k].run = r /\ g[k].status = "running" => i = k
                                /\ g[i].run = r /\ g[i].status # "running"
                                   /\ g[k].run = r /\ g[k].status # "running" => i = k
                                /\ g[i].run = r /\ g[i].status = "running"
                                   /\ g[k].run = r /\ g[k].status # "running" => i < k
  BY <1>2, <1>4, <1>5
<1>8. /\ \A i \in 1 .. Len(g) : g[i].run = r /\ g[i].status # "running" => g[i].status = outcome
      /\ \E i \in 1 .. Len(g) : g[i].run = r /\ g[i].status # "running"
  BY <1>1, <1>4, <1>6
<1>9. QED
  BY <1>7, <1>8 DEF LinesFit, g

LEMMA MarkingProperties ==
  ASSUME TypeOK, NEW rs \in [Runs -> RunType], NEW r \in Runs, NEW outcome \in {"ok", "error"}
  PROVE  LET ms == Marking(rs, r, outcome)
         IN  /\ ms \in [Runs -> RunType]
             /\ \A u \in Runs : u # r => ms[u] = rs[u]
             /\ ms[r].phase = "marking" /\ ms[r].outcome = outcome
             /\ ms[r].rec = active[JobOf(r)]
             /\ ms[r].rec # None => JobOf(ms[r].rec) = JobOf(r)
             /\ ms[r].proc = rs[r].proc /\ ms[r].heard = rs[r].heard
             /\ ms[r].after = rs[r].after
<1> DEFINE a == active[JobOf(r)]
           y == rs[r]
           x == [y EXCEPT !.phase = "marking", !.outcome = outcome, !.rec = a]
<1>1. a \in Runs \cup {None} /\ (a # None => JobOf(a) = JobOf(r))
  BY RunsHaveJobs DEF TypeOK
<1>2. Marking(rs, r, outcome) = [rs EXCEPT ![r] = x]
  BY DEF Marking
<1>3. y \in RunType
  OBVIOUS
<1> HIDE DEF a, y
<1>4. /\ x \in RunType /\ x.phase = "marking" /\ x.outcome = outcome /\ x.rec = a
      /\ x.proc = y.proc /\ x.heard = y.heard /\ x.after = y.after
  BY <1>1, <1>3 DEF RunType, Phases
<1> HIDE DEF x
<1>5. QED
  BY <1>1, <1>2, <1>4 DEF a, y

LEMMA RecordedKeeps ==
  ASSUME IInv, NEW r \in Runs, Recorded(r)
  PROVE  IInv'
<1> DEFINE p == Listened("planning")
           x == [run[r] EXCEPT !.phase = p]
<1>1. /\ TypeOK /\ run[r].phase = "recording" /\ PhaseFits(r)
      /\ run' = [run EXCEPT ![r] = x]
      /\ Appended(r, "running") \/ UNCHANGED history
      /\ UNCHANGED <<active, pending, primary, laneVars, crashes, overlapped>>
      /\ p \in {"planning", "dropped"} /\ p \in Phases
  BY DEF IInv, Recorded, Listened, Phases
<1>2. Mode[JobOf(r)] = "isolated"
  BY <1>1 DEF PhaseFits
<1> HIDE DEF p
<1>3. /\ x \in RunType /\ x.phase = p
      /\ x.proc = run[r].proc /\ x.heard = run[r].heard /\ x.outcome = run[r].outcome
      /\ x.rec = run[r].rec /\ x.after = run[r].after
  BY <1>1, RunsAreRecords, PhaseChanges
<1> HIDE DEF x
<1>4. /\ run' \in [Runs -> RunType]
      /\ \A u \in Runs : run'[u].rec # None => JobOf(run'[u].rec) = JobOf(u)
      /\ run'[r] = x /\ \A u \in Runs : u # r => run'[u] = run[u]
  <2>1. x.rec # None => JobOf(x.rec) = JobOf(r)
    BY <1>1, <1>3 DEF TypeOK
  <2>2. QED
    BY <1>1, <1>3, <2>1, OneRunSteps
<1>5. TypeOK'
  <2>1. history' \in [Jobs -> Seq([run : Runs, status : {"running", "ok", "error"}])]
    BY <1>1, AppendedProperties DEF TypeOK, HistoryLine
  <2>2. QED
    BY <1>1, <1>4, <2>1 DEF TypeOK, laneVars
<1>6. \A u \in Runs : PhaseFits(u)'
  <2> TAKE u \in Runs
  <2>1. PhaseFits(u)
    BY DEF IInv
  <2>2. QED
    BY <1>1, <1>3, <1>4, <2>1 DEF PhaseFits
<1>7. ListsArePending'
  BY <1>1, <1>3, <1>4, ListsStay DEF IInv
<1>8. LaneIsOrderly'
  BY <1>1, <1>3, <1>4, LaneStays DEF IInv
<1>9. \A u \in Runs : NeverOverlapped(u)' => StandsAlone(u)' /\ LinesFit(u)'
  <2>1. \A v \in Runs : Mode[JobOf(v)] = "isolated" => GoesOn(v)
    BY <1>1, <1>3, <1>4 DEF GoesOn
  <2>2. CASE UNCHANGED history
    BY <1>1, <2>1, <2>2, LinesStay DEF IInv
  <2>3. CASE Appended(r, "running")
    <3> SUFFICES ASSUME NEW u \in Runs, NeverOverlapped(u)
                 PROVE  StandsAlone(u)' /\ LinesFit(u)'
      BY <1>1 DEF NeverOverlapped
    <3>1. StandsAlone(u) /\ LinesFit(u)
      BY DEF IInv
    <3>2. StandsAlone(u)'
      <4>1. \A s \in Runs : JobOf(s) = JobOf(u) => GoesOn(s)
        BY <2>1 DEF NeverOverlapped
      <4>2. QED
        BY <1>1, <3>1, <4>1 DEF StandsAlone, GoesOn, IsOpen, Settled
    <3>3. CASE u = r
      BY <1>1, <1>3, <1>4, <2>3, <3>1, <3>2, <3>3, RunningLineFits
    <3>4. CASE u # r
      BY <1>1, <1>4, <2>3, <3>1, <3>2, <3>4, OthersLinesStay
    <3>5. QED
      BY <3>3, <3>4
  <2>4. QED
    BY <1>1, <2>2, <2>3
<1>10. DropsAreCounted'
  BY <1>1, <1>2, <1>3, <1>4, DropsStay DEF IInv
<1>11. QED
  BY <1>5, <1>6, <1>7, <1>8, <1>9, <1>10 DEF IInv

LEMMA PlanFailsKeeps ==
  ASSUME IInv, NEW r \in Runs, PlanFails(r)
  PROVE  IInv'
<1>1. /\ TypeOK /\ run[r].phase = "planning" /\ Mode[JobOf(r)] = "isolated"
      /\ run' = Marking(run, r, "error")
      /\ UNCHANGED <<active, history, pending, primary, laneVars, crashes, overlapped>>
      /\ run \in [Runs -> RunType]
      /\ \A u \in Runs : run[u].rec # None => JobOf(run[u].rec) = JobOf(u)
  BY DEF IInv, PlanFails, TypeOK
<1>2. /\ run' \in [Runs -> RunType]
      /\ \A u \in Runs : u # r => run'[u] = run[u]
      /\ run'[r].phase = "marking" /\ run'[r].outcome = "error"
      /\ run'[r].rec = active[JobOf(r)]
      /\ run'[r].rec # None => JobOf(run'[r].rec) = JobOf(r)
      /\ run'[r].proc = run[r].proc /\ run'[r].heard = run[r].heard
      /\ run'[r].after = run[r].after
  BY <1>1, MarkingProperties
<1>3. TypeOK'
  <2>1. \A u \in Runs : run'[u].rec # None => JobOf(run'[u].rec) = JobOf(u)
    BY <1>1, <1>2
  <2>2. QED
    BY <1>1, <1>2, <2>1 DEF TypeOK, laneVars
<1>4. \A u \in Runs : PhaseFits(u)'
  <2> TAKE u \in Runs
  <2>1. PhaseFits(u)
    BY DEF IInv
  <2>2. QED
    BY <1>1, <1>2, <2>1 DEF PhaseFits
<1>5. ListsArePending'
  BY <1>1, <1>2, ListsStay DEF IInv
<1>6. LaneIsOrderly'
  <2>1. PhaseFits(r)
    BY DEF IInv
  <2>2. run[r].proc = "none"
    BY <1>1, <2>1 DEF PhaseFits
  <2>3. QED
    BY <1>1, <1>2, <2>2, LaneStays DEF IInv
<1>7. \A u \in Runs : NeverOverlapped(u)' => StandsAlone(u)' /\ LinesFit(u)'
  <2>1. \A v \in Runs : Mode[JobOf(v)] = "isolated" => GoesOn(v)
    BY <1>1, <1>2 DEF GoesOn
  <2>2. QED
    BY <1>1, <2>1, LinesStay DEF IInv
<1>8. DropsAreCounted'
  BY <1>1, <1>2, DropsStay DEF IInv
<1>9. QED
  BY <1>3, <1>4, <1>5, <1>6, <1>7, <1>8 DEF IInv

LEMMA PlanIsolatedKeeps ==
  ASSUME IInv, NEW r \in Runs, PlanIsolated(r)
  PROVE  IInv'
<1> DEFINE x == [run[r] EXCEPT !.phase = "queued"]
<1>1. /\ TypeOK /\ run[r].phase = "planning" /\ Mode[JobOf(r)] = "isolated"
      /\ run' = [run EXCEPT ![r] = x]
      /\ waiting \in Seq(Runs)
      /\ waiting' = Append(waiting, r)
      /\ UNCHANGED <<running, finished, discarded, limit>>
      /\ UNCHANGED <<active, history, pending, primary, crashes, overlapped>>
  BY DEF IInv, PlanIsolated, TypeOK, CronLane!Submit
<1>2. /\ x \in RunType /\ x.phase = "queued"
      /\ x.proc = run[r].proc /\ x.heard = run[r].heard /\ x.outcome = run[r].outcome
      /\ x.rec = run[r].rec /\ x.after = run[r].after
  <2>1. "queued" \in Phases
    BY DEF Phases
  <2>2. QED
    BY <1>1, <2>1, RunsAreRecords, PhaseChanges
<1> HIDE DEF x
<1>3. /\ run' \in [Runs -> RunType]
      /\ \A u \in Runs : run'[u].rec # None => JobOf(run'[u].rec) = JobOf(u)
      /\ run'[r] = x /\ \A u \in Runs : u # r => run'[u] = run[u]
  <2>1. x.rec # None => JobOf(x.rec) = JobOf(r)
    BY <1>1, <1>2 DEF TypeOK
  <2>2. QED
    BY <1>1, <1>2, <2>1, OneRunSteps
<1>4. TypeOK'
  BY <1>1, <1>3, AppendProperties DEF TypeOK
<1>5. \A u \in Runs : PhaseFits(u)'
  <2> TAKE u \in Runs
  <2>1. PhaseFits(u)
    BY DEF IInv
  <2>2. QED
    BY <1>1, <1>2, <1>3, <2>1 DEF PhaseFits
<1>6. ListsArePending'
  BY <1>1, <1>2, <1>3, ListsStay DEF IInv
<1>7. LaneIsOrderly'
  <2>1. /\ Len(waiting) \in Nat /\ Len(waiting') = Len(waiting) + 1
        /\ \A i \in 1 .. Len(waiting) : waiting'[i] = waiting[i] /\ waiting[i] \in Runs
        /\ waiting'[Len(waiting) + 1] = r
        /\ \A i \in 1 .. Len(waiting') : i \in 1 .. Len(waiting) \/ i = Len(waiting) + 1
    BY <1>1, AppendProperties
  <2>2. /\ \A i \in 1 .. Len(waiting) : run[waiting[i]].phase = "queued"
        /\ \A i, k \in 1 .. Len(waiting) : waiting[i] = waiting[k] => i = k
        /\ \A u \in running : run[u].phase \in {"running", "marking", "saving"}
        /\ LaneWaitsForRun
        /\ running \subseteq Runs /\ finished \subseteq Runs
    BY <1>1 DEF IInv, LaneIsOrderly, TypeOK
  <2>3. \A i \in 1 .. Len(waiting) : waiting[i] # r
    BY <1>1, <2>2
  <2>4. \A i \in 1 .. Len(waiting') : run'[waiting'[i]].phase = "queued"
    BY <1>2, <1>3, <2>1, <2>2, <2>3
  <2>5. \A i, k \in 1 .. Len(waiting') : waiting'[i] = waiting'[k] => i = k
    BY <2>1, <2>2, <2>3
  <2>6. \A u \in running' : run'[u].phase \in {"running", "marking", "saving"}
    BY <1>1, <1>3, <2>2
  <2>7. LaneWaitsForRun'
    <3>1. PhaseFits(r)
      BY DEF IInv
    <3>2. r \notin finished
      BY <1>1, <2>2, <3>1 DEF PhaseFits, LaneWaitsForRun
    <3>3. \A u \in finished : run'[u] = run[u]
      BY <1>3, <2>2, <3>2
    <3>4. QED
      BY <1>1, <2>2, <3>3 DEF LaneWaitsForRun
  <2>8. QED
    BY <2>4, <2>5, <2>6, <2>7 DEF LaneIsOrderly
<1>8. \A u \in Runs : NeverOverlapped(u)' => StandsAlone(u)' /\ LinesFit(u)'
  <2>1. \A v \in Runs : Mode[JobOf(v)] = "isolated" => GoesOn(v)
    BY <1>1, <1>2, <1>3 DEF GoesOn
  <2>2. QED
    BY <1>1, <2>1, LinesStay DEF IInv
<1>9. DropsAreCounted'
  BY <1>1, <1>2, <1>3, DropsStay DEF IInv
<1>10. QED
  BY <1>4, <1>5, <1>6, <1>7, <1>8, <1>9 DEF IInv

\* What the process of a run does to it: its answer is heard, it fails or it
\* exits.
LEMMA ProcessChanges ==
  ASSUME TypeOK, NEW r \in Runs, NEW p \in {"alive", "exited", "failed"}
  PROVE  /\ LET hs == [run EXCEPT ![r].heard = TRUE]
            IN  /\ hs \in [Runs -> RunType]
                /\ \A u \in Runs : u # r => hs[u] = run[u]
                /\ hs[r].heard
                /\ hs[r].phase = run[r].phase /\ hs[r].proc = run[r].proc
                /\ hs[r].outcome = run[r].outcome /\ hs[r].rec = run[r].rec
                /\ hs[r].after = run[r].after
         /\ LET ps == [run EXCEPT ![r].proc = p]
            IN  /\ ps \in [Runs -> RunType]
                /\ \A u \in Runs : u # r => ps[u] = run[u]
                /\ ps[r].proc = p
                /\ ps[r].phase = run[r].phase /\ ps[r].heard = run[r].heard
                /\ ps[r].outcome = run[r].outcome /\ ps[r].rec = run[r].rec
                /\ ps[r].after = run[r].after
<1> DEFINE y == run[r]
           x == [y EXCEPT !.heard = TRUE]
           z == [y EXCEPT !.proc = p]
<1>1. /\ [run EXCEPT ![r].heard = TRUE] = [run EXCEPT ![r] = x]
      /\ [run EXCEPT ![r].proc = p] = [run EXCEPT ![r] = z]
      /\ run \in [Runs -> RunType] /\ y \in RunType
  BY RunsAreRecords DEF TypeOK
<1> HIDE DEF y
<1>2. /\ x \in RunType /\ x.heard
      /\ x.phase = y.phase /\ x.proc = y.proc /\ x.outcome = y.outcome /\ x.rec = y.rec
      /\ x.after = y.after
  BY <1>1 DEF RunType
<1>3. /\ z \in RunType /\ z.proc = p
      /\ z.phase = y.phase /\ z.heard = y.heard /\ z.outcome = y.outcome /\ z.rec = y.rec
      /\ z.after = y.after
  BY <1>1 DEF RunType
<1> HIDE DEF x, z
<1>4. QED
  BY <1>1, <1>2, <1>3 DEF y

LEMMA CompletedKeeps ==
  ASSUME IInv, NEW r \in Runs, Completed(r)
  PROVE  IInv'
<1> DEFINE hs == [run EXCEPT ![r].heard = TRUE]
<1>1. /\ TypeOK /\ run[r].proc \in {"alive", "exited"} /\ ~run[r].heard /\ PhaseFits(r)
      /\ \/ /\ run[r].phase = "running"
            /\ \E outcome \in {"ok", "error"} : run' = Marking(hs, r, outcome)
            /\ UNCHANGED laneVars
         \/ /\ run[r].phase # "running"
            /\ run' = hs
            /\ Resolve(r)
      /\ UNCHANGED <<active, history, pending, primary, crashes, overlapped>>
      /\ \A u \in Runs : run[u].rec # None => JobOf(run[u].rec) = JobOf(u)
  BY DEF IInv, Completed, TypeOK
<1>2. /\ hs \in [Runs -> RunType]
      /\ \A u \in Runs : u # r => hs[u] = run[u]
      /\ hs[r].heard
      /\ hs[r].phase = run[r].phase /\ hs[r].proc = run[r].proc
      /\ hs[r].outcome = run[r].outcome /\ hs[r].rec = run[r].rec
      /\ hs[r].after = run[r].after
  BY <1>1, ProcessChanges
<1> HIDE DEF hs
<1>3. /\ run[r].phase \in {"running", "marking", "saving"}
      /\ run[r].phase # "running" => run[r].proc = "exited" /\ run[r].outcome = "error"
  BY <1>1 DEF PhaseFits
<1>4. /\ run' \in [Runs -> RunType]
      /\ \A u \in Runs : u # r => run'[u] = run[u]
      /\ run'[r].heard /\ run'[r].proc = run[r].proc /\ run'[r].after = run[r].after
      /\ run'[r].rec # None => JobOf(run'[r].rec) = JobOf(r)
      /\ \/ /\ run[r].phase = "running"
            /\ run'[r].phase = "marking" /\ run'[r].outcome \in {"ok", "error"}
            /\ run'[r].rec = active[JobOf(r)]
         \/ /\ run[r].phase # "running"
            /\ run'[r].phase = run[r].phase /\ run'[r].outcome = run[r].outcome
            /\ run'[r].rec = run[r].rec
  <2>1. CASE run' = hs /\ run[r].phase # "running"
    BY <1>1, <1>2, <2>1
  <2>2. CASE run[r].phase = "running" /\ \E outcome \in {"ok", "error"} : run' = Marking(hs, r, outcome)
    <3>1. PICK outcome \in {"ok", "error"} : run' = Marking(hs, r, outcome)
      BY <2>2
    <3>2. /\ run' \in [Runs -> RunType]
          /\ \A u \in Runs : u # r => run'[u] = hs[u]
          /\ run'[r].phase = "marking" /\ run'[r].outcome = outcome
          /\ run'[r].rec = active[JobOf(r)]
          /\ run'[r].rec # None => JobOf(run'[r].rec) = JobOf(r)
          /\ run'[r].proc = hs[r].proc /\ run'[r].after = hs[r].after
      BY <1>1, <1>2, <3>1, MarkingProperties
    <3>3. run'[r].heard
      <4>1. run'[r].heard = hs[r].heard
        BY <1>1, <1>2, <3>1, MarkingProperties
      <4>2. QED
        BY <1>2, <4>1
    <3>4. QED
      BY <1>2, <2>2, <3>2, <3>3
  <2>3. QED
    BY <1>1, <2>1, <2>2
<1>5. \/ UNCHANGED laneVars
      \/ /\ r \in running /\ run[r].phase # "running"
         /\ running' = running \ {r} /\ finished' = finished \cup {r}
         /\ UNCHANGED <<waiting, discarded, limit>>
  BY <1>1 DEF Resolve, CronLane!Finish
<1>6. TypeOK'
  <2>1. \A u \in Runs : run'[u].rec # None => JobOf(run'[u].rec) = JobOf(u)
    BY <1>1, <1>4
  <2>2. QED
    BY <1>1, <1>4, <1>5, <2>1 DEF TypeOK, laneVars
<1>7. \A u \in Runs : PhaseFits(u)'
  <2> TAKE u \in Runs
  <2>1. PhaseFits(u)
    BY DEF IInv
  <2>2. QED
    BY <1>1, <1>3, <1>4, <2>1 DEF PhaseFits
<1>8. ListsArePending'
  BY <1>1, <1>3, <1>4, ListsStay DEF IInv
<1>9. LaneIsOrderly'
  <2>1. CASE UNCHANGED laneVars
    BY <1>1, <1>3, <1>4, <2>1, LaneStays DEF IInv
  <2>2. CASE /\ r \in running /\ run[r].phase # "running"
             /\ running' = running \ {r} /\ finished' = finished \cup {r}
             /\ UNCHANGED <<waiting, discarded, limit>>
    <3>1. /\ waiting \in Seq(Runs) /\ running \subseteq Runs /\ finished \subseteq Runs
          /\ \A i \in 1 .. Len(waiting) : run[waiting[i]].phase = "queued"
          /\ \A i, k \in 1 .. Len(waiting) : waiting[i] = waiting[k] => i = k
          /\ \A u \in running : run[u].phase \in {"running", "marking", "saving"}
          /\ LaneWaitsForRun
      BY <1>1 DEF IInv, LaneIsOrderly, TypeOK
    <3>2. \A i \in 1 .. Len(waiting) : waiting[i] \in Runs /\ waiting[i] # r
      BY <1>3, <3>1
    <3>3. \A i \in 1 .. Len(waiting') : run'[waiting'[i]].phase = "queued"
      BY <1>4, <2>2, <3>1, <3>2
    <3>4. \A u \in running' : run'[u].phase \in {"running", "marking", "saving"}
      BY <1>4, <2>2, <3>1
    <3>5. \A u \in finished' : u = r \/ (u \in finished /\ run'[u] = run[u])
      BY <1>4, <2>2, <3>1
    <3>6. run'[r].proc = "exited" /\ run'[r].heard /\ run'[r].outcome = "error"
      BY <1>3, <1>4, <2>2
    <3>7. LaneWaitsForRun'
      BY <3>1, <3>5, <3>6 DEF LaneWaitsForRun
    <3>8. QED
      BY <2>2, <3>1, <3>3, <3>4, <3>7 DEF LaneIsOrderly
  <2>3. QED
    BY <1>5, <2>1, <2>2
<1>10. \A u \in Runs : NeverOverlapped(u)' => StandsAlone(u)' /\ LinesFit(u)'
  <2>1. \A v \in Runs : Mode[JobOf(v)] = "isolated" => GoesOn(v)
    BY <1>4 DEF GoesOn
  <2>2. QED
    BY <1>1, <2>1, LinesStay DEF IInv
<1>11. DropsAreCounted'
  BY <1>1, <1>3, <1>4, DropsStay DEF IInv
<1>12. QED
  BY <1>6, <1>7, <1>8, <1>9, <1>10, <1>11 DEF IInv

LEMMA ExitKeeps ==
  ASSUME IInv, NEW r \in Runs, Exit(r)
  PROVE  IInv'
<1> DEFINE ps == [run EXCEPT ![r].proc = "exited"]
<1>1. /\ TypeOK /\ run[r].proc = "alive" /\ PhaseFits(r)
      /\ run' = IF run[r].phase = "running" THEN Marking(ps, r, "error") ELSE ps
      /\ UNCHANGED <<active, history, pending, primary, laneVars, crashes, overlapped>>
      /\ \A u \in Runs : run[u].rec # None => JobOf(run[u].rec) = JobOf(u)
  BY DEF IInv, Exit, TypeOK
<1>2. /\ ps \in [Runs -> RunType]
      /\ \A u \in Runs : u # r => ps[u] = run[u]
      /\ ps[r].proc = "exited"
      /\ ps[r].phase = run[r].phase /\ ps[r].heard = run[r].heard
      /\ ps[r].outcome = run[r].outcome /\ ps[r].rec = run[r].rec
      /\ ps[r].after = run[r].after
  BY <1>1, ProcessChanges
<1> HIDE DEF ps
<1>3. run[r].phase \in {"running", "marking", "saving"}
  BY <1>1 DEF PhaseFits
<1>4. run[r].phase # "running" => run[r].heard
  BY <1>1 DEF PhaseFits
<1>5. /\ run' \in [Runs -> RunType]
      /\ \A u \in Runs : u # r => run'[u] = run[u]
      /\ run'[r].heard = run[r].heard /\ run'[r].proc = "exited" /\ run'[r].after = run[r].after
      /\ run'[r].rec # None => JobOf(run'[r].rec) = JobOf(r)
      /\ \/ /\ run[r].phase = "running"
            /\ run'[r].phase = "marking" /\ run'[r].outcome = "error"
            /\ run'[r].rec = active[JobOf(r)]
         \/ /\ run[r].phase # "running"
            /\ run'[r].phase = run[r].phase /\ run'[r].outcome = run[r].outcome
            /\ run'[r].rec = run[r].rec
  <2>1. CASE run[r].phase # "running"
    <3>1. run' = ps
      BY <1>1, <2>1
    <3>2. run'[r].heard = run[r].heard
      BY <1>2, <3>1
    <3>3. QED
      BY <1>1, <1>2, <2>1, <3>1, <3>2
  <2>2. CASE run[r].phase = "running"
    <3>1. run' = Marking(ps, r, "error")
      BY <1>1, <2>2
    <3>2. /\ run' \in [Runs -> RunType]
          /\ \A u \in Runs : u # r => run'[u] = ps[u]
          /\ run'[r].phase = "marking" /\ run'[r].outcome = "error"
          /\ run'[r].rec = active[JobOf(r)]
          /\ run'[r].rec # None => JobOf(run'[r].rec) = JobOf(r)
          /\ run'[r].proc = ps[r].proc /\ run'[r].after = ps[r].after
      BY <1>1, <1>2, <3>1, MarkingProperties
    <3>3. run'[r].heard = ps[r].heard
      BY <1>1, <1>2, <3>1, MarkingProperties
    <3>4. QED
      BY <1>2, <2>2, <3>2, <3>3
  <2>3. QED
    BY <2>1, <2>2
<1>6. TypeOK'
  <2>1. \A u \in Runs : run'[u].rec # None => JobOf(run'[u].rec) = JobOf(u)
    BY <1>1, <1>5
  <2>2. QED
    BY <1>1, <1>5, <2>1 DEF TypeOK, laneVars
<1>7. \A u \in Runs : PhaseFits(u)'
  <2> TAKE u \in Runs
  <2>1. PhaseFits(u)
    BY DEF IInv
  <2>2. CASE u = r
    <3>1. run[r].phase # "running" => run'[r].heard
      BY <1>4, <1>5
    <3>2. QED
      BY <1>3, <1>5, <2>1, <2>2, <3>1 DEF PhaseFits
  <2>3. CASE u # r
    BY <1>5, <2>1, <2>3 DEF PhaseFits
  <2>4. QED
    BY <2>2, <2>3
<1>8. ListsArePending'
  BY <1>1, <1>3, <1>5, ListsStay DEF IInv
<1>9. LaneIsOrderly'
  BY <1>1, <1>3, <1>5, LaneStays DEF IInv
<1>10. \A u \in Runs : NeverOverlapped(u)' => StandsAlone(u)' /\ LinesFit(u)'
  <2>1. \A v \in Runs : Mode[JobOf(v)] = "isolated" => GoesOn(v)
    BY <1>5 DEF GoesOn
  <2>2. QED
    BY <1>1, <2>1, LinesStay DEF IInv
<1>11. DropsAreCounted'
  BY <1>1, <1>3, <1>5, DropsStay DEF IInv
<1>12. QED
  BY <1>6, <1>7, <1>8, <1>9, <1>10, <1>11 DEF IInv

LEMMA MarkedKeeps ==
  ASSUME IInv, NEW r \in Runs, Marked(r)
  PROVE  IInv'
<1> DEFINE y == run[r]
           x == [y EXCEPT !.phase = "saving", !.rec = None]
           c == run[r].rec
           o == run[r].outcome
           j == JobOf(r)
<1>1. /\ TypeOK /\ run[r].phase = "marking" /\ PhaseFits(r)
      /\ run' = [run EXCEPT ![r] = x]
      /\ \/ c = None /\ UNCHANGED <<active, history>>
         \/ c # None /\ Appended(c, o) /\ active' = [active EXCEPT ![j] = None]
      /\ UNCHANGED <<pending, primary, laneVars, crashes, overlapped>>
      /\ active \in [Jobs -> Runs \cup {None}] /\ j \in Jobs
  BY RunsHaveJobs DEF IInv, Marked, TypeOK
<1>2. /\ Mode[j] = "isolated" /\ o \in {"ok", "error"}
      /\ c # None => c \in Runs /\ JobOf(c) = j
  BY <1>1, RunsAreRecords DEF PhaseFits, TypeOK
<1>3. y \in RunType
  BY <1>1, RunsAreRecords
<1> HIDE DEF y
<1>4. /\ x \in RunType /\ x.phase = "saving" /\ x.rec = None
      /\ x.proc = y.proc /\ x.heard = y.heard /\ x.outcome = y.outcome /\ x.after = y.after
  BY <1>3 DEF RunType, Phases
<1> HIDE DEF x
<1>5. /\ run' \in [Runs -> RunType]
      /\ \A u \in Runs : run'[u].rec # None => JobOf(run'[u].rec) = JobOf(u)
      /\ run'[r] = x /\ \A u \in Runs : u # r => run'[u] = run[u]
  BY <1>1, <1>4, OneRunSteps
<1>6. /\ run'[r].phase = "saving" /\ run'[r].rec = None
      /\ run'[r].proc = run[r].proc /\ run'[r].outcome = o
      /\ run'[r].after = run[r].after
  BY <1>4, <1>5 DEF y
<1>7. run'[r].heard = run[r].heard
  BY <1>4, <1>5 DEF y
<1> HIDE DEF c, o
<1>8. TypeOK'
  <2>1. history' \in [Jobs -> Seq([run : Runs, status : {"running", "ok", "error"}])]
    <3>1. CASE c = None
      BY <1>1, <3>1 DEF TypeOK
    <3>2. CASE c # None
      BY <1>1, <1>2, <3>2, AppendedProperties DEF HistoryLine
    <3>3. QED
      BY <3>1, <3>2
  <2>2. /\ active' \in [Jobs -> Runs \cup {None}]
        /\ \A k \in Jobs : active'[k] # None => JobOf(active'[k]) = k
    BY <1>1 DEF TypeOK
  <2>3. QED
    BY <1>1, <1>5, <2>1, <2>2 DEF TypeOK, laneVars
<1>9. \A u \in Runs : PhaseFits(u)'
  <2> TAKE u \in Runs
  <2>1. PhaseFits(u)
    BY DEF IInv
  <2>2. CASE u = r
    <3>1. ~run'[r].heard => ~run[r].heard
      BY <1>7
    <3>2. QED
      BY <1>1, <1>2, <1>6, <2>1, <2>2, <3>1 DEF PhaseFits, o
  <2>3. CASE u # r
    BY <1>5, <2>1, <2>3 DEF PhaseFits
  <2>4. QED
    BY <2>2, <2>3
<1>10. ListsArePending'
  BY <1>1, <1>5, <1>6, ListsStay DEF IInv
<1>11. LaneIsOrderly'
  <2>1. run[r].heard => run'[r].heard
    BY <1>7
  <2>2. QED
    BY <1>1, <1>5, <1>6, <2>1, LaneStays DEF IInv, o
<1>12. \A u \in Runs : NeverOverlapped(u)' => StandsAlone(u)' /\ LinesFit(u)'
  <2> SUFFICES ASSUME NEW u \in Runs, NeverOverlapped(u)
               PROVE  StandsAlone(u)' /\ LinesFit(u)'
    BY <1>1 DEF NeverOverlapped
  <2>1. StandsAlone(u) /\ LinesFit(u)
    BY DEF IInv
  <2>2. CASE JobOf(u) # j
    <3>1. u # r /\ \A s \in Runs : JobOf(s) = JobOf(u) => run'[s] = run[s]
      BY <1>5, <2>2
    <3>2. active'[JobOf(u)] = active[JobOf(u)] /\ history'[JobOf(u)] = history[JobOf(u)]
      <4>1. CASE c = None
        BY <1>1, <4>1
      <4>2. CASE c # None
        BY <1>1, <1>2, <2>2, <4>2, AppendedProperties, RunsHaveJobs
      <4>3. QED
        BY <4>1, <4>2
    <3>3. StandsAlone(u)'
      BY <2>1, <3>1, <3>2 DEF StandsAlone, IsOpen
    <3>4. LinesFit(u)'
      BY <2>1, <3>1, <3>2 DEF LinesFit
    <3>5. QED
      BY <3>3, <3>4
  <2>3. CASE JobOf(u) = j
    <3>1. NeverOverlapped(r)
      BY <2>3 DEF NeverOverlapped
    <3>2. StandsAlone(r) /\ LinesFit(r)
      BY <3>1 DEF IInv
    <3>3. c = r
      BY <1>1, <3>2 DEF StandsAlone, c
    <3>4. Appended(r, o)
      BY <1>1, <3>3, RunsHaveJobs
    <3>5. IsOpen(r) /\ \A s \in Runs : JobOf(s) = j /\ s # r => ~IsOpen(s)
      BY <1>1, <3>2 DEF StandsAlone, IsOpen, Settled
    <3>6. \A s \in Runs : JobOf(s) = j /\ s # r => ~IsOpen(s)'
      BY <1>5, <3>5 DEF IsOpen
    <3>7. StandsAlone(u)'
      <4>1. u # r => run'[u].phase # "marking"
        BY <2>3, <3>6 DEF IsOpen, Settled
      <4>2. QED
        BY <1>6, <2>3, <3>6, <4>1 DEF StandsAlone
    <3>8. CASE u = r
      BY <1>1, <1>2, <1>6, <3>2, <3>4, <3>7, <3>8, LastLineFits
    <3>9. CASE u # r
      BY <1>1, <1>2, <1>5, <2>1, <3>4, <3>7, <3>9, OthersLinesStay
    <3>10. QED
      BY <3>8, <3>9
  <2>4. QED
    BY <2>2, <2>3
<1>13. DropsAreCounted'
  BY <1>1, <1>5, <1>6, DropsStay DEF IInv
<1>14. QED
  BY <1>8, <1>9, <1>10, <1>11, <1>12, <1>13 DEF IInv

LEMMA SavedKeeps ==
  ASSUME IInv, NEW r \in Runs, Saved(r)
  PROVE  IInv'
<1> DEFINE y == run[r]
           x == [y EXCEPT !.phase = "over", !.proc = "none", !.heard = FALSE]
<1>1. /\ TypeOK /\ run[r].phase = "saving" /\ PhaseFits(r)
      /\ run' = [run EXCEPT ![r] = x]
      /\ Resolve(r)
      /\ UNCHANGED <<active, history, pending, primary, crashes, overlapped>>
  BY DEF IInv, Saved
<1>2. Mode[JobOf(r)] = "isolated" /\ y \in RunType
  BY <1>1, RunsAreRecords DEF PhaseFits
<1> HIDE DEF y
<1>3. /\ x \in RunType /\ x.phase = "over" /\ x.proc = "none" /\ ~x.heard
      /\ x.rec = y.rec /\ x.outcome = y.outcome /\ x.after = y.after
  BY <1>2 DEF RunType, Phases
<1> HIDE DEF x
<1>4. /\ run' \in [Runs -> RunType]
      /\ \A u \in Runs : run'[u].rec # None => JobOf(run'[u].rec) = JobOf(u)
      /\ run'[r] = x /\ \A u \in Runs : u # r => run'[u] = run[u]
  <2>1. x.rec # None => JobOf(x.rec) = JobOf(r)
    BY <1>1, <1>3 DEF TypeOK, y
  <2>2. QED
    BY <1>1, <1>3, <2>1, OneRunSteps
<1>5. /\ run'[r].phase = "over" /\ run'[r].proc = "none" /\ ~run'[r].heard
      /\ run'[r].rec = run[r].rec /\ run'[r].outcome = run[r].outcome
      /\ run'[r].after = run[r].after
  BY <1>3, <1>4 DEF y
<1>6. /\ waiting' = waiting /\ discarded' = discarded /\ limit' = limit
      /\ running' = running \ {r}
      /\ finished' \subseteq finished \cup {r}
  BY <1>1 DEF Resolve, CronLane!Finish, laneVars
<1>7. TypeOK'
  BY <1>1, <1>4, <1>6 DEF TypeOK
<1>8. \A u \in Runs : PhaseFits(u)'
  <2> TAKE u \in Runs
  <2>1. PhaseFits(u)
    BY DEF IInv
  <2>2. QED
    BY <1>1, <1>4, <1>5, <2>1 DEF PhaseFits
<1>9. ListsArePending'
  BY <1>1, <1>4, <1>5, ListsStay DEF IInv
<1>10. LaneIsOrderly'
  <2>1. /\ waiting \in Seq(Runs) /\ running \subseteq Runs /\ finished \subseteq Runs
        /\ \A i \in 1 .. Len(waiting) : run[waiting[i]].phase = "queued"
        /\ \A i, k \in 1 .. Len(waiting) : waiting[i] = waiting[k] => i = k
        /\ \A u \in running : run[u].phase \in {"running", "marking", "saving"}
        /\ LaneWaitsForRun
    BY <1>1 DEF IInv, LaneIsOrderly, TypeOK
  <2>2. \A i \in 1 .. Len(waiting) : waiting[i] \in Runs /\ waiting[i] # r
    BY <1>1, <2>1
  <2>3. \A i \in 1 .. Len(waiting') : run'[waiting'[i]].phase = "queued"
    BY <1>4, <1>6, <2>1, <2>2
  <2>4. \A u \in running' : run'[u].phase \in {"running", "marking", "saving"}
    BY <1>4, <1>6, <2>1
  <2>5. \A u \in finished' : u = r \/ (u \in finished /\ run'[u] = run[u])
    BY <1>4, <1>6, <2>1
  <2>6. LaneWaitsForRun'
    BY <1>5, <2>1, <2>5 DEF LaneWaitsForRun
  <2>7. QED
    BY <1>6, <2>1, <2>3, <2>4, <2>6 DEF LaneIsOrderly
<1>11. \A u \in Runs : NeverOverlapped(u)' => StandsAlone(u)' /\ LinesFit(u)'
  <2>1. \A v \in Runs : Mode[JobOf(v)] = "isolated" => GoesOn(v)
    BY <1>1, <1>4, <1>5 DEF GoesOn
  <2>2. QED
    BY <1>1, <2>1, LinesStay DEF IInv
<1>12. DropsAreCounted'
  BY <1>1, <1>4, <1>5, DropsStay DEF IInv
<1>13. QED
  BY <1>7, <1>8, <1>9, <1>10, <1>11, <1>12 DEF IInv

LEMMA StartNextKeeps ==
  ASSUME IInv, StartNext
  PROVE  IInv'
<1> DEFINE r == Head(waiting)
           y == run[r]
           x == [y EXCEPT !.phase = "running", !.proc = "alive"]
           ps == [run EXCEPT ![r].proc = "failed"]
<1>1. /\ TypeOK /\ waiting # <<>> /\ waiting \in Seq(Runs)
      /\ running \subseteq Runs /\ finished \subseteq Runs
      /\ \/ run' = [run EXCEPT ![r] = x]
         \/ run' = Marking(ps, r, "error")
      /\ running' = running \cup {r} /\ waiting' = Tail(waiting)
      /\ UNCHANGED <<finished, discarded, limit>>
      /\ UNCHANGED <<active, history, pending, primary, crashes, overlapped>>
      /\ \A u \in Runs : run[u].rec # None => JobOf(run[u].rec) = JobOf(u)
  BY DEF IInv, StartNext, TypeOK, CronLane!Start
<1>2. /\ r \in Runs /\ Tail(waiting) \in Seq(Runs) /\ Len(waiting) \in Nat
      /\ Len(Tail(waiting)) = Len(waiting) - 1 /\ r = waiting[1] /\ 1 \in 1 .. Len(waiting)
      /\ \A i \in 1 .. Len(Tail(waiting)) :
           Tail(waiting)[i] = waiting[i + 1] /\ i + 1 \in 1 .. Len(waiting) /\ i + 1 # 1
  BY <1>1, TailProperties
<1>3. /\ \A i \in 1 .. Len(waiting) : run[waiting[i]].phase = "queued"
      /\ \A i, k \in 1 .. Len(waiting) : waiting[i] = waiting[k] => i = k
      /\ \A u \in running : run[u].phase \in {"running", "marking", "saving"}
      /\ LaneWaitsForRun
  BY DEF IInv, LaneIsOrderly
<1> HIDE DEF r
<1>4. run[r].phase = "queued" /\ PhaseFits(r)
  BY <1>2, <1>3 DEF IInv
<1>5. Mode[JobOf(r)] = "isolated" /\ run[r].proc = "none" /\ ~run[r].heard
  BY <1>4 DEF PhaseFits
<1>6. /\ run' \in [Runs -> RunType]
      /\ \A u \in Runs : u # r => run'[u] = run[u]
      /\ run'[r].after = run[r].after
      /\ run'[r].rec # None => JobOf(run'[r].rec) = JobOf(r)
      /\ \/ run'[r].phase = "running"
         \/ /\ run'[r].phase = "marking" /\ run'[r].outcome = "error" /\ run'[r].proc = "failed"
            /\ run'[r].rec = active[JobOf(r)]
  <2>1. CASE run' = [run EXCEPT ![r] = x]
    <3>1. y \in RunType
      BY <1>1, <1>2, RunsAreRecords
    <3> HIDE DEF y
    <3>2. /\ x \in RunType /\ x.phase = "running" /\ x.proc = "alive"
          /\ x.heard = y.heard /\ x.outcome = y.outcome /\ x.rec = y.rec /\ x.after = y.after
      BY <3>1 DEF RunType, Phases
    <3> HIDE DEF x
    <3>3. x.rec # None => JobOf(x.rec) = JobOf(r)
      BY <1>1, <1>2, <3>2 DEF y
    <3>4. /\ run' \in [Runs -> RunType] /\ run'[r] = x
          /\ \A u \in Runs : u # r => run'[u] = run[u]
      BY <1>1, <1>2, <2>1, <3>2, <3>3, OneRunSteps
    <3>5. QED
      BY <3>2, <3>3, <3>4 DEF y
  <2>2. CASE run' = Marking(ps, r, "error")
    <3>1. /\ ps \in [Runs -> RunType]
          /\ \A u \in Runs : u # r => ps[u] = run[u]
          /\ ps[r].proc = "failed" /\ ps[r].after = run[r].after
      <4>1. TypeOK /\ r \in Runs /\ "failed" \in {"alive", "exited", "failed"}
        BY <1>1, <1>2
      <4>2. QED
        BY <4>1, ProcessChanges
    <3> HIDE DEF ps
    <3>2. /\ run' \in [Runs -> RunType]
          /\ \A u \in Runs : u # r => run'[u] = ps[u]
          /\ run'[r].phase = "marking" /\ run'[r].outcome = "error"
          /\ run'[r].rec = active[JobOf(r)]
          /\ run'[r].rec # None => JobOf(run'[r].rec) = JobOf(r)
          /\ run'[r].proc = ps[r].proc /\ run'[r].after = ps[r].after
      BY <1>1, <1>2, <2>2, <3>1, MarkingProperties
    <3>3. QED
      BY <3>1, <3>2
  <2>3. QED
    BY <1>1, <2>1, <2>2
<1>7. TypeOK'
  <2>1. \A u \in Runs : run'[u].rec # None => JobOf(run'[u].rec) = JobOf(u)
    BY <1>1, <1>6
  <2>2. running' \subseteq Runs /\ waiting' \in Seq(Runs)
    BY <1>1, <1>2
  <2>3. QED
    BY <1>1, <1>6, <2>1, <2>2 DEF TypeOK
<1>8. \A u \in Runs : PhaseFits(u)'
  <2> TAKE u \in Runs
  <2>1. PhaseFits(u)
    BY DEF IInv
  <2>2. CASE u = r
    <3>1. run'[r].after = <<>>
      BY <1>4, <1>6 DEF PhaseFits
    <3>2. QED
      BY <1>5, <1>6, <2>2, <3>1 DEF PhaseFits
  <2>3. CASE u # r
    BY <1>6, <2>1, <2>3 DEF PhaseFits
  <2>4. QED
    BY <2>2, <2>3
<1>9. ListsArePending'
  BY <1>1, <1>4, <1>6, ListsStay DEF IInv
<1>10. LaneIsOrderly'
  <2> DEFINE w == Tail(waiting)
  <2>1. /\ waiting' = w /\ Len(w) \in Nat
        /\ \A i \in 1 .. Len(w) : w[i] = waiting[i + 1] /\ i + 1 \in 1 .. Len(waiting) /\ i + 1 # 1
    BY <1>1, <1>2
  <2> HIDE DEF w
  <2>2. \A i \in 1 .. Len(w) : w[i] \in Runs /\ w[i] # r /\ run[w[i]].phase = "queued"
    BY <1>1, <1>2, <1>3, <2>1
  <2>3. \A i \in 1 .. Len(waiting') : run'[waiting'[i]].phase = "queued"
    BY <1>6, <2>1, <2>2
  <2>4. \A i, k \in 1 .. Len(waiting') : waiting'[i] = waiting'[k] => i = k
    BY <1>3, <2>1
  <2>5. \A u \in running' : run'[u].phase \in {"running", "marking", "saving"}
    BY <1>1, <1>3, <1>6
  <2>6. r \notin finished
    BY <1>3, <1>4, <1>5 DEF LaneWaitsForRun
  <2>7. \A u \in finished' : u \in finished /\ run'[u] = run[u]
    BY <1>1, <1>6, <2>6
  <2>8. LaneWaitsForRun'
    BY <1>3, <2>7 DEF LaneWaitsForRun
  <2>9. QED
    BY <2>3, <2>4, <2>5, <2>8 DEF LaneIsOrderly
<1>11. \A u \in Runs : NeverOverlapped(u)' => StandsAlone(u)' /\ LinesFit(u)'
  <2>1. \A v \in Runs : Mode[JobOf(v)] = "isolated" => GoesOn(v)
    BY <1>4, <1>6 DEF GoesOn
  <2>2. QED
    BY <1>1, <2>1, LinesStay DEF IInv
<1>12. DropsAreCounted'
  BY <1>1, <1>4, <1>6, DropsStay DEF IInv
<1>13. QED
  BY <1>7, <1>8, <1>9, <1>10, <1>11, <1>12 DEF IInv

LEMMA PlanMainKeeps ==
  ASSUME IInv, NEW r \in Runs, PlanMain(r)
  PROVE  IInv'
<1> DEFINE list == run[r].after
           rs == [run EXCEPT ![r].phase = "over", ![r].after = <<>>]
           h == Head(list)
<1>1. /\ TypeOK /\ run[r].phase = "planning" /\ Mode[JobOf(r)] # "isolated" /\ PhaseFits(r)
      /\ run' = Begins(rs, list)
      /\ list \in Seq(Runs)
      /\ UNCHANGED <<active, history, pending, primary, laneVars, crashes, overlapped>>
      /\ \A u \in Runs : run[u].rec # None => JobOf(run[u].rec) = JobOf(u)
      /\ pending \in Seq(Runs)
  BY RunsAreRecords DEF IInv, PlanMain, TypeOK
<1>2. run[r].proc = "none" /\ ~run[r].heard
  BY <1>1 DEF PhaseFits
<1>3. /\ rs \in [Runs -> RunType]
      /\ \A u \in Runs : u # r => rs[u] = run[u]
      /\ rs[r].phase = "over" /\ rs[r].after = <<>>
      /\ rs[r].proc = run[r].proc /\ rs[r].heard = run[r].heard
      /\ rs[r].outcome = run[r].outcome /\ rs[r].rec = run[r].rec
  <2> DEFINE y == run[r]
             x == [y EXCEPT !.phase = "over", !.after = <<>>]
  <2>1. y \in RunType /\ run \in [Runs -> RunType] /\ rs = [run EXCEPT ![r] = x]
    BY <1>1, RunsAreRecords DEF TypeOK
  <2> HIDE DEF y
  <2>2. /\ x \in RunType /\ x.phase = "over" /\ x.after = <<>>
        /\ x.proc = y.proc /\ x.heard = y.heard /\ x.outcome = y.outcome /\ x.rec = y.rec
    BY <2>1 DEF RunType, Phases
  <2> HIDE DEF x, rs
  <2>3. QED
    BY <2>1, <2>2 DEF y
<1> HIDE DEF rs
<1>4. /\ \A i \in 1 .. Len(list) : list[i] \in Runs /\ run[list[i]].phase = "pending" /\ list[i] # r
      /\ \A i, k \in 1 .. Len(list) : list[i] = list[k] => i = k
      /\ \A i \in 1 .. Len(list), k \in 1 .. Len(pending) : list[i] # pending[k]
      /\ \A u \in Runs : u # r => \A i \in 1 .. Len(list), k \in 1 .. Len(run[u].after) :
           list[i] # run[u].after[k]
  BY <1>1 DEF IInv, ListsArePending, Lists
<1>5. /\ \A i \in 1 .. Len(pending) : pending[i] \in Runs /\ run[pending[i]].phase = "pending" /\ pending[i] # r
      /\ \A i, k \in 1 .. Len(pending) : pending[i] = pending[k] => i = k
  BY <1>1 DEF IInv, ListsArePending, Lists
<1>6. \A u \in Runs : u # r => run[u].after \in Seq(Runs) /\
        \A i \in 1 .. Len(run[u].after) :
          run[u].after[i] \in Runs /\ run[run[u].after[i]].phase = "pending" /\ run[u].after[i] # r
  <2>1. \A u \in Runs : run[u].after \in Seq(Runs)
    BY <1>1, RunsAreRecords
  <2>2. QED
    BY <1>1, <2>1 DEF IInv, ListsArePending, Lists
<1>7. Lists(rs, pending)
  <2>1. \A i \in 1 .. Len(pending) : rs[pending[i]].phase = "pending"
    BY <1>3, <1>5
  <2>2. \A u \in Runs : \A i \in 1 .. Len(rs[u].after) : u # r /\ rs[u].after = run[u].after
    BY <1>3
  <2>3. \A u \in Runs : \A i \in 1 .. Len(rs[u].after) : rs[rs[u].after[i]].phase = "pending"
    BY <1>3, <1>6, <2>2
  <2>4. \A u, v \in Runs : \A i \in 1 .. Len(rs[u].after), k \in 1 .. Len(rs[v].after) :
          rs[u].after[i] = rs[v].after[k] => u = v /\ i = k
    <3>1. \A u, v \in Runs : \A i \in 1 .. Len(run[u].after), k \in 1 .. Len(run[v].after) :
            run[u].after[i] = run[v].after[k] => u = v /\ i = k
      BY DEF IInv, ListsArePending, Lists
    <3> SUFFICES ASSUME NEW u \in Runs, NEW v \in Runs,
                        NEW i \in 1 .. Len(rs[u].after), NEW k \in 1 .. Len(rs[v].after),
                        rs[u].after[i] = rs[v].after[k]
                 PROVE  u = v /\ i = k
      OBVIOUS
    <3>2. rs[u].after = run[u].after /\ rs[v].after = run[v].after
      BY <2>2
    <3>3. QED
      BY <3>1, <3>2
  <2>5. \A u \in Runs : \A i \in 1 .. Len(rs[u].after), k \in 1 .. Len(pending) :
          rs[u].after[i] # pending[k]
    <3>1. \A u \in Runs : \A i \in 1 .. Len(run[u].after), k \in 1 .. Len(pending) :
            run[u].after[i] # pending[k]
      BY DEF IInv, ListsArePending, Lists
    <3> SUFFICES ASSUME NEW u \in Runs,
                        NEW i \in 1 .. Len(rs[u].after), NEW k \in 1 .. Len(pending)
                 PROVE  rs[u].after[i] # pending[k]
      OBVIOUS
    <3>2. rs[u].after = run[u].after
      BY <2>2
    <3>3. QED
      BY <3>1, <3>2
  <2>6. QED
    BY <1>5, <2>1, <2>3, <2>4, <2>5 DEF Lists
<1>8. ListIsApart(rs, pending, list)
  <2>1. \A i \in 1 .. Len(list) : rs[list[i]].phase = "pending"
    BY <1>3, <1>4
  <2>2. \A u \in Runs : \A i \in 1 .. Len(list), k \in 1 .. Len(rs[u].after) :
          list[i] # rs[u].after[k]
    <3> TAKE u \in Runs
    <3>1. CASE u = r
      BY <1>3, <3>1
    <3>2. CASE u # r
      <4>1. rs[u].after = run[u].after
        BY <1>3, <3>2
      <4>2. \A i \in 1 .. Len(list), k \in 1 .. Len(run[u].after) : list[i] # run[u].after[k]
        BY <1>4, <3>2
      <4> HIDE DEF list
      <4>3. QED
        BY <4>1, <4>2
    <3>3. QED
      BY <3>1, <3>2
  <2>3. QED
    BY <1>4, <2>1, <2>2 DEF ListIsApart
<1>9. Lists(run', pending)
  BY <1>1, <1>3, <1>7, <1>8, BeginsKeepsLists
<1>10. /\ run' \in [Runs -> RunType]
       /\ \A u \in Runs : list = <<>> \/ u # h => run'[u] = rs[u]
       /\ list # <<>> =>
            /\ h \in Runs /\ h = list[1] /\ 1 \in 1 .. Len(list)
            /\ run'[h].phase = "planning"
            /\ run'[h].proc = rs[h].proc /\ run'[h].heard = rs[h].heard
            /\ run'[h].outcome = rs[h].outcome /\ run'[h].rec = rs[h].rec
  BY <1>1, <1>3, BeginsProperties, TailProperties
<1>11. list # <<>> => run[h].phase = "pending" /\ h # r
  BY <1>4, <1>10
<1>12. /\ list # <<>> => Mode[JobOf(h)] = "heartbeat" /\ run[h].proc = "none" /\ ~run[h].heard
  <2>1. list # <<>> => PhaseFits(h)
    BY <1>10 DEF IInv
  <2>2. QED
    BY <1>11, <2>1 DEF PhaseFits
<1>13. \A u \in Runs :
         /\ u # r /\ (list = <<>> \/ u # h) => run'[u] = run[u]
         /\ u = r => /\ run'[u].phase = "over" /\ run'[u].after = <<>>
                     /\ run'[u].proc = "none" /\ ~run'[u].heard
                     /\ run'[u].rec = run[u].rec
         /\ list # <<>> /\ u = h =>
              /\ run'[u].phase = "planning" /\ run'[u].proc = "none" /\ ~run'[u].heard
              /\ run'[u].rec = run[u].rec
  <2> HIDE DEF h, list
  <2> TAKE u \in Runs
  <2>1. u # r /\ (list = <<>> \/ u # h) => run'[u] = run[u]
    BY <1>3, <1>10
  <2>2. CASE u = r
    <3>1. run'[u] = rs[r]
      BY <1>10, <1>11, <2>2
    <3>2. ~run'[u].heard
      BY <1>2, <1>3, <3>1
    <3>3. QED
      BY <1>2, <1>3, <1>11, <2>2, <3>1, <3>2
  <2>3. CASE list # <<>> /\ u = h
    <3>1. rs[h] = run[h]
      BY <1>3, <1>10, <1>11, <2>3
    <3>2. ~run'[u].heard
      BY <1>10, <1>12, <2>3, <3>1
    <3>3. QED
      BY <1>10, <1>11, <1>12, <2>1, <2>3, <3>1, <3>2
  <2>4. QED
    BY <2>1, <2>2, <2>3
<1> HIDE DEF list, h
<1>14. TypeOK'
  <2>1. \A u \in Runs : run'[u].rec # None => JobOf(run'[u].rec) = JobOf(u)
    BY <1>1, <1>13
  <2>2. QED
    BY <1>1, <1>10, <2>1 DEF TypeOK, laneVars
<1>15. \A u \in Runs : PhaseFits(u)'
  <2> TAKE u \in Runs
  <2>1. PhaseFits(u)
    BY DEF IInv
  <2>2. CASE u # r /\ (list = <<>> \/ u # h)
    BY <1>13, <2>1, <2>2 DEF PhaseFits
  <2>3. CASE u = r
    BY <1>13, <2>3 DEF PhaseFits
  <2>4. CASE list # <<>> /\ u = h
    BY <1>12, <1>13, <2>4 DEF PhaseFits
  <2>5. QED
    BY <2>2, <2>3, <2>4
<1>16. ListsArePending'
  BY <1>1, <1>9 DEF ListsArePending
<1>17. LaneIsOrderly'
  BY <1>1, <1>2, <1>11, <1>12, <1>13, LaneStays DEF IInv
<1>18. \A u \in Runs : NeverOverlapped(u)' => StandsAlone(u)' /\ LinesFit(u)'
  <2>1. \A v \in Runs : Mode[JobOf(v)] = "isolated" => GoesOn(v)
    BY <1>1, <1>12, <1>13 DEF GoesOn
  <2>2. QED
    BY <1>1, <2>1, LinesStay DEF IInv
<1>19. DropsAreCounted'
  BY <1>1, <1>13, DropsStay DEF IInv
<1>20. QED
  BY <1>14, <1>15, <1>16, <1>17, <1>18, <1>19 DEF IInv

\* The jobs that waited are taken from the list: the first may be dropped,
\* the next begins.
LEMMA HeartbeatKeeps ==
  ASSUME IInv, NEW rs \in [Runs -> RunType], NEW list \in Seq(Runs),
         Lists(rs, <<>>), ListIsApart(rs, <<>>, list),
         run' = Begins(rs, list), pending' = <<>>, primary' = TRUE,
         UNCHANGED <<active, history, laneVars, crashes, overlapped>>,
         \A u \in Runs : \/ rs[u] = run[u]
                         \/ /\ run[u].phase = "pending" /\ rs[u].phase = "dropped"
                            /\ rs[u].proc = run[u].proc /\ rs[u].heard = run[u].heard
                            /\ rs[u].after = run[u].after /\ rs[u].rec = run[u].rec
  PROVE  /\ TypeOK' /\ (\A u \in Runs : PhaseFits(u)') /\ ListsArePending' /\ LaneIsOrderly'
         /\ \A u \in Runs : NeverOverlapped(u)' => StandsAlone(u)' /\ LinesFit(u)'
         /\ \A u \in Runs : run'[u].phase = "dropped" => rs[u].phase = "dropped"
         /\ \A u \in Runs : rs[u].phase = "dropped" => run'[u].phase = "dropped"
<1> DEFINE h == Head(list)
<1>1. TypeOK /\ \A u \in Runs : PhaseFits(u)
  BY DEF IInv
<1>2. /\ run' \in [Runs -> RunType]
      /\ \A u \in Runs : list = <<>> \/ u # h => run'[u] = rs[u]
      /\ list # <<>> =>
            /\ h \in Runs /\ h = list[1] /\ 1 \in 1 .. Len(list)
            /\ run'[h].phase = "planning"
            /\ run'[h].proc = rs[h].proc /\ run'[h].heard = rs[h].heard
            /\ run'[h].outcome = rs[h].outcome /\ run'[h].rec = rs[h].rec
  BY BeginsProperties, TailProperties
<1>3. list # <<>> => rs[h].phase = "pending"
  BY <1>2 DEF ListIsApart
<1>4. list # <<>> => /\ rs[h] = run[h] /\ run[h].phase = "pending"
                     /\ Mode[JobOf(h)] = "heartbeat" /\ run[h].proc = "none" /\ ~run[h].heard
  <2>1. list # <<>> => rs[h] = run[h]
    BY <1>2, <1>3
  <2>2. list # <<>> => PhaseFits(h)
    BY <1>1, <1>2
  <2>3. QED
    BY <1>3, <2>1, <2>2 DEF PhaseFits
<1> HIDE DEF h
<1>5. list # <<>> => ~run'[h].heard
  BY <1>2, <1>4
<1>6. \A u \in Runs : rs[u] # run[u] =>
        /\ run[u].phase = "pending" /\ rs[u].phase = "dropped"
        /\ Mode[JobOf(u)] = "heartbeat" /\ run[u].proc = "none" /\ ~run[u].heard
        /\ rs[u].proc = "none" /\ ~rs[u].heard
        /\ rs[u].after = <<>> /\ rs[u].rec = run[u].rec
  <2> TAKE u \in Runs
  <2>1. PhaseFits(u)
    BY <1>1
  <2>2. QED
    BY <2>1 DEF PhaseFits
<1>7. TypeOK'
  <2>1. \A u \in Runs : run'[u].rec # None => JobOf(run'[u].rec) = JobOf(u)
    <3>1. \A u \in Runs : run[u].rec # None => JobOf(run[u].rec) = JobOf(u)
      BY <1>1 DEF TypeOK
    <3>2. \A u \in Runs : run'[u].rec = run[u].rec
      BY <1>2, <1>4, <1>6
    <3>3. QED
      BY <3>1, <3>2
  <2>2. primary' \in BOOLEAN /\ pending' \in Seq(Runs)
    OBVIOUS
  <2>3. QED
    BY <1>1, <1>2, <2>1, <2>2 DEF TypeOK, laneVars
<1>8. \A u \in Runs : PhaseFits(u)'
  <2> TAKE u \in Runs
  <2>1. PhaseFits(u)
    BY <1>1
  <2>2. CASE list # <<>> /\ u = h
    BY <1>2, <1>4, <1>5, <2>2 DEF PhaseFits
  <2>3. CASE (list = <<>> \/ u # h) /\ rs[u] = run[u]
    BY <1>2, <2>1, <2>3 DEF PhaseFits
  <2>4. CASE (list = <<>> \/ u # h) /\ rs[u] # run[u]
    BY <1>2, <1>6, <2>4 DEF PhaseFits
  <2>5. QED
    BY <2>2, <2>3, <2>4
<1>9. ListsArePending'
  <2>1. <<>> \in Seq(Runs)
    OBVIOUS
  <2>2. Lists(Begins(rs, list), <<>>)
    BY <2>1, BeginsKeepsLists
  <2>3. QED
    BY <2>2 DEF ListsArePending
<1>10. LaneIsOrderly'
  <2>1. \A u \in Runs : \/ run'[u] = run[u]
                        \/ run[u].phase = "pending" /\ run[u].proc = "none"
    BY <1>2, <1>4, <1>6
  <2>2. QED
    BY <1>1, <2>1, LaneStays DEF IInv
<1>11. \A u \in Runs : NeverOverlapped(u)' => StandsAlone(u)' /\ LinesFit(u)'
  <2>1. \A v \in Runs : Mode[JobOf(v)] = "isolated" => run'[v] = run[v]
    BY <1>2, <1>4, <1>6
  <2>2. \A v \in Runs : Mode[JobOf(v)] = "isolated" => GoesOn(v)
    BY <2>1 DEF GoesOn
  <2>3. QED
    BY <1>1, <2>2, LinesStay DEF IInv
<1>12. \A u \in Runs : run'[u].phase = "dropped" <=> rs[u].phase = "dropped"
  BY <1>2, <1>3
<1>13. QED
  BY <1>7, <1>8, <1>9, <1>10, <1>11, <1>12

LEMMA UserMessageKeeps ==
  ASSUME IInv, UserMessage
  PROVE  IInv'
<1>1. /\ TypeOK /\ run \in [Runs -> RunType] /\ pending \in Seq(Runs)
      /\ primary' = TRUE /\ pending' = <<>>
      /\ \/ /\ primary \/ pending = <<>>
            /\ run' = Begins(run, pending)
         \/ /\ ~primary /\ pending # <<>>
            /\ run' = Begins([run EXCEPT ![Head(pending)].phase = "dropped"], Tail(pending))
      /\ UNCHANGED <<active, history, laneVars, crashes, overlapped>>
  BY DEF IInv, UserMessage, TypeOK
<1>2. /\ \A i \in 1 .. Len(pending) : run[pending[i]].phase = "pending" /\ pending[i] \in Runs
      /\ \A i, k \in 1 .. Len(pending) : pending[i] = pending[k] => i = k
      /\ \A u \in Runs : \A i \in 1 .. Len(run[u].after), k \in 1 .. Len(pending) :
           run[u].after[i] # pending[k]
  BY <1>1 DEF IInv, ListsArePending, Lists
<1>3. Lists(run, <<>>)
  BY DEF IInv, ListsArePending, Lists
<1>4. /\ IsFiniteSet(Dropped) /\ Cardinality(Dropped) \in Nat
      /\ Cardinality(Dropped) <= crashes + (IF primary THEN 1 ELSE 0)
      /\ crashes \in Nat
  BY CronRunsAssumption, FS_CardinalityType DEF IInv, DropsAreCounted, TypeOK
<1>5. CASE run' = Begins(run, pending)
  <2>1. ListIsApart(run, <<>>, pending)
    BY <1>2 DEF ListIsApart
  <2>2. /\ TypeOK' /\ (\A u \in Runs : PhaseFits(u)') /\ ListsArePending' /\ LaneIsOrderly'
        /\ \A u \in Runs : NeverOverlapped(u)' => StandsAlone(u)' /\ LinesFit(u)'
        /\ \A u \in Runs : run'[u].phase = "dropped" => run[u].phase = "dropped"
        /\ \A u \in Runs : run[u].phase = "dropped" => run'[u].phase = "dropped"
    BY <1>1, <1>3, <1>5, <2>1, HeartbeatKeeps
  <2>3. Dropped' = Dropped
    BY <2>2 DEF Dropped
  <2>4. Cardinality(Dropped') = Cardinality(Dropped)
    BY <2>3, Zenon
  <2>5. DropsAreCounted'
    BY <1>1, <1>4, <2>3, <2>4 DEF DropsAreCounted
  <2>6. QED
    BY <2>2, <2>5 DEF IInv
<1>6. CASE /\ ~primary /\ pending # <<>>
           /\ run' = Begins([run EXCEPT ![Head(pending)].phase = "dropped"], Tail(pending))
  <2> DEFINE d == Head(pending)
             list == Tail(pending)
             y == run[d]
             x == [y EXCEPT !.phase = "dropped"]
             rs == [run EXCEPT ![d] = x]
  <2>1. /\ d \in Runs /\ list \in Seq(Runs) /\ Len(list) \in Nat
        /\ d = pending[1] /\ 1 \in 1 .. Len(pending)
        /\ \A i \in 1 .. Len(list) : list[i] = pending[i + 1] /\ i + 1 \in 1 .. Len(pending) /\ i + 1 # 1
    BY <1>1, <1>6, TailProperties
  <2>2. run' = Begins(rs, list)
    BY <1>6
  <2> HIDE DEF d, list
  <2>3. /\ rs \in [Runs -> RunType]
        /\ \A u \in Runs : u # d => rs[u] = run[u]
        /\ rs[d].phase = "dropped"
        /\ rs[d].proc = run[d].proc /\ rs[d].heard = run[d].heard
        /\ rs[d].after = run[d].after /\ rs[d].rec = run[d].rec
    <3>1. y \in RunType /\ "dropped" \in Phases
      BY <1>1, <2>1, RunsAreRecords DEF Phases
    <3> HIDE DEF y
    <3>2. /\ x \in RunType /\ x.phase = "dropped"
          /\ x.proc = y.proc /\ x.heard = y.heard /\ x.after = y.after /\ x.rec = y.rec
      BY <3>1, PhaseChanges
    <3> HIDE DEF x
    <3>3. QED
      BY <1>1, <2>1, <3>2 DEF y
  <2> HIDE DEF rs
  <2>4. run[d].phase = "pending" /\ PhaseFits(d)
    BY <1>2, <2>1 DEF IInv
  <2>5. Mode[JobOf(d)] = "heartbeat" /\ run[d].after = <<>>
    BY <2>4 DEF PhaseFits
  <2>6. \A i \in 1 .. Len(list) : list[i] \in Runs /\ list[i] # d /\ run[list[i]].phase = "pending"
    BY <1>2, <2>1
  <2>7. \A u \in Runs : rs[u].after = run[u].after
    BY <2>3
  <2>8. \A u \in Runs : \A i \in 1 .. Len(run[u].after) :
          run[u].after[i] \in Runs /\ run[u].after[i] # d /\ run[run[u].after[i]].phase = "pending"
    <3>1. \A u \in Runs : run[u].after \in Seq(Runs)
      BY <1>1, RunsAreRecords
    <3>2. QED
      BY <1>2, <2>1, <3>1 DEF IInv, ListsArePending, Lists
  <2>9. Lists(rs, <<>>)
    <3>1. \A u \in Runs : \A i \in 1 .. Len(rs[u].after) : rs[rs[u].after[i]].phase = "pending"
      BY <2>3, <2>7, <2>8
    <3>2. \A u, v \in Runs : \A i \in 1 .. Len(rs[u].after), k \in 1 .. Len(rs[v].after) :
            rs[u].after[i] = rs[v].after[k] => u = v /\ i = k
      <4>1. \A u, v \in Runs : \A i \in 1 .. Len(run[u].after), k \in 1 .. Len(run[v].after) :
              run[u].after[i] = run[v].after[k] => u = v /\ i = k
        BY DEF IInv, ListsArePending, Lists
      <4> SUFFICES ASSUME NEW u \in Runs, NEW v \in Runs,
                          NEW i \in 1 .. Len(rs[u].after), NEW k \in 1 .. Len(rs[v].after),
                          rs[u].after[i] = rs[v].after[k]
                   PROVE  u = v /\ i = k
        OBVIOUS
      <4>2. rs[u].after = run[u].after /\ rs[v].after = run[v].after
        BY <2>7
      <4>3. QED
        BY <4>1, <4>2
    <3>3. QED
      BY <3>1, <3>2 DEF Lists
  <2>10. ListIsApart(rs, <<>>, list)
    <3>1. \A i \in 1 .. Len(list) : rs[list[i]].phase = "pending"
      BY <2>3, <2>6
    <3>2. \A i, k \in 1 .. Len(list) : list[i] = list[k] => i = k
      BY <1>2, <2>1
    <3>3. \A u \in Runs : \A i \in 1 .. Len(list), k \in 1 .. Len(rs[u].after) :
            list[i] # rs[u].after[k]
      <4>1. \A u \in Runs : \A i \in 1 .. Len(list), k \in 1 .. Len(run[u].after) :
              list[i] # run[u].after[k]
        BY <1>2, <2>1
      <4> SUFFICES ASSUME NEW u \in Runs,
                          NEW i \in 1 .. Len(list), NEW k \in 1 .. Len(rs[u].after)
                   PROVE  list[i] # rs[u].after[k]
        OBVIOUS
      <4>2. rs[u].after = run[u].after
        BY <2>7
      <4>3. QED
        BY <4>1, <4>2
    <3>4. QED
      BY <3>1, <3>2, <3>3 DEF ListIsApart
  <2>11. \A u \in Runs : \/ rs[u] = run[u]
                         \/ /\ run[u].phase = "pending" /\ rs[u].phase = "dropped"
                            /\ rs[u].proc = run[u].proc /\ rs[u].heard = run[u].heard
                            /\ rs[u].after = run[u].after /\ rs[u].rec = run[u].rec
    <3> TAKE u \in Runs
    <3>1. CASE u = d
      <4>1. rs[u].heard = run[u].heard
        BY <2>3, <3>1
      <4>2. QED
        BY <2>3, <2>4, <3>1, <4>1
    <3>2. CASE u # d
      BY <2>3, <3>2
    <3>3. QED
      BY <3>1, <3>2
  <2>12. /\ TypeOK' /\ (\A u \in Runs : PhaseFits(u)') /\ ListsArePending' /\ LaneIsOrderly'
         /\ \A u \in Runs : NeverOverlapped(u)' => StandsAlone(u)' /\ LinesFit(u)'
         /\ \A u \in Runs : run'[u].phase = "dropped" => rs[u].phase = "dropped"
    BY <1>1, <2>1, <2>2, <2>3, <2>9, <2>10, <2>11, HeartbeatKeeps
  <2>13. \A u \in Runs : run'[u].phase = "dropped" => run[u].phase = "dropped" \/ u = d
    BY <2>3, <2>12
  <2>14. Dropped' \subseteq Dropped \cup {d}
    BY <2>13 DEF Dropped
  <2>15. IsFiniteSet(Dropped \cup {d}) /\ Cardinality(Dropped \cup {d}) <= Cardinality(Dropped) + 1
         /\ Cardinality(Dropped \cup {d}) \in Nat
    <3>1. /\ IsFiniteSet(Dropped \cup {d})
          /\ Cardinality(Dropped \cup {d}) =
               IF d \in Dropped THEN Cardinality(Dropped) ELSE Cardinality(Dropped) + 1
      BY <1>4, FS_AddElement, Zenon
    <3> DEFINE n == Cardinality(Dropped)
               m == Cardinality(Dropped \cup {d})
    <3>2. n \in Nat /\ (m = n \/ m = n + 1)
      BY <1>4, <3>1
    <3> HIDE DEF n, m
    <3>3. m <= n + 1 /\ m \in Nat
      BY <3>2
    <3>4. QED
      BY <3>1, <3>3 DEF n, m
  <2>16. IsFiniteSet(Dropped') /\ Cardinality(Dropped') <= Cardinality(Dropped \cup {d})
         /\ Cardinality(Dropped') \in Nat
    BY <2>14, <2>15, FS_Subset, FS_CardinalityType
  <2>17. DropsAreCounted'
    <3>1. Cardinality(Dropped) <= crashes
      BY <1>4, <1>6
    <3>2. Cardinality(Dropped') <= crashes' + (IF primary' THEN 1 ELSE 0)
      BY <1>1, <1>4, <2>15, <2>16, <3>1
    <3>3. QED
      BY <2>16, <3>2 DEF DropsAreCounted
  <2>18. QED
    BY <2>12, <2>17 DEF IInv
<1>7. QED
  BY <1>1, <1>5, <1>6

LEMMA CrashKeeps ==
  ASSUME IInv, Crash
  PROVE  IInv'
<1>1. /\ TypeOK /\ run \in [Runs -> RunType]
      /\ run' = [u \in Runs |->
           IF run[u].phase \in Settled \cup {"none"} THEN run[u]
           ELSE [NotFired EXCEPT !.phase = "lost"]]
      /\ active' = [j \in Jobs |-> None]
      /\ pending' = <<>> /\ primary' = ChatConfigured
      /\ waiting' = <<>> /\ running' = {} /\ finished' = {} /\ discarded' = {} /\ limit' = 1
      /\ crashes \in 0 .. MaxCrashes /\ crashes < MaxCrashes /\ crashes' = crashes + 1
      /\ UNCHANGED <<history, overlapped>>
      /\ \A u \in Runs : PhaseFits(u)
  BY DEF IInv, Crash, TypeOK
<1> DEFINE x == [NotFired EXCEPT !.phase = "lost"]
<1>2. /\ x \in RunType /\ x.phase = "lost" /\ x.proc = "none" /\ ~x.heard /\ x.rec = None
      /\ x.after = <<>>
  <2>1. /\ NotFired \in RunType /\ NotFired.proc = "none" /\ ~NotFired.heard
        /\ NotFired.rec = None /\ NotFired.after = <<>> /\ "lost" \in Phases
    BY DEF NotFired, RunType, Phases
  <2>2. /\ x \in RunType /\ x.phase = "lost" /\ x.proc = NotFired.proc
        /\ x.heard = NotFired.heard /\ x.rec = NotFired.rec /\ x.after = NotFired.after
    BY <2>1, PhaseChanges
  <2>3. QED
    BY <2>1, <2>2
<1> HIDE DEF x
<1>3. \A u \in Runs : \/ run'[u] = run[u] /\ ~IsOpen(u)
                      \/ run'[u] = x /\ IsOpen(u)
  BY <1>1 DEF IsOpen, x
<1>4. \A u \in Runs : /\ ~IsOpen(u)'
                      /\ run'[u].after = <<>>
                      /\ run'[u].phase \notin {"pending", "recording", "queued", "planning",
                                                "running", "marking", "saving"}
                      /\ run'[u].proc = "none" /\ ~run'[u].heard
  <2> TAKE u \in Runs
  <2>1. CASE run'[u] = run[u] /\ ~IsOpen(u)
    <3>1. run[u].phase \in {"none", "over", "dropped", "lost"} /\ PhaseFits(u)
      BY <1>1, <2>1 DEF IsOpen, Settled
    <3>2. run[u].after = <<>> /\ run[u].proc = "none" /\ ~run[u].heard
      BY <3>1 DEF PhaseFits
    <3>3. QED
      BY <2>1, <3>1, <3>2 DEF IsOpen, Settled
  <2>2. CASE run'[u] = x /\ IsOpen(u)
    BY <1>2, <2>2 DEF IsOpen, Settled
  <2>3. QED
    BY <1>3, <2>1, <2>2
<1>5. TypeOK'
  <2>1. run' \in [Runs -> RunType]
    <3>1. \A u \in Runs : run'[u] \in RunType
      BY <1>1, <1>2, <1>3
    <3>2. QED
      BY <1>1, <3>1
  <2>2. \A u \in Runs : run'[u].rec # None => JobOf(run'[u].rec) = JobOf(u)
    BY <1>1, <1>2, <1>3 DEF TypeOK
  <2>3. primary' \in BOOLEAN /\ pending' \in Seq(Runs) /\ waiting' \in Seq(Runs)
    BY <1>1, CronRunsAssumption
  <2>4. crashes' \in 0 .. MaxCrashes
    BY <1>1, CronRunsAssumption
  <2>5. /\ active' \in [Jobs -> Runs \cup {None}]
        /\ \A j \in Jobs : active'[j] # None => JobOf(active'[j]) = j
    BY <1>1
  <2>6. QED
    BY <1>1, <2>1, <2>2, <2>3, <2>4, <2>5 DEF TypeOK
<1>6. \A u \in Runs : PhaseFits(u)'
  BY <1>4 DEF PhaseFits
<1>7. ListsArePending'
  BY <1>1, <1>4 DEF ListsArePending, Lists
<1>8. LaneIsOrderly'
  BY <1>1 DEF LaneIsOrderly, LaneWaitsForRun
<1>9. \A u \in Runs : NeverOverlapped(u)' => StandsAlone(u)' /\ LinesFit(u)'
  <2> SUFFICES ASSUME NEW u \in Runs, NeverOverlapped(u)
               PROVE  StandsAlone(u)' /\ LinesFit(u)'
    BY <1>1 DEF NeverOverlapped
  <2>1. LinesFit(u)
    BY DEF IInv
  <2>2. StandsAlone(u)'
    BY <1>4 DEF StandsAlone
  <2>3. CASE run'[u] = run[u]
    BY <1>1, <2>1, <2>2, <2>3 DEF LinesFit
  <2>4. CASE run'[u] = x
    BY <1>1, <1>2, <2>1, <2>2, <2>4 DEF LinesFit
  <2>5. QED
    BY <1>3, <2>3, <2>4
<1>10. DropsAreCounted'
  <2>1. \A u \in Runs : run'[u].phase = "dropped" <=> run[u].phase = "dropped"
    BY <1>2, <1>3 DEF IsOpen, Settled
  <2>2. Dropped' = Dropped
    BY <2>1 DEF Dropped
  <2>3. Cardinality(Dropped') = Cardinality(Dropped)
    BY <2>2, Zenon
  <2>4. /\ IsFiniteSet(Dropped) /\ Cardinality(Dropped) \in Nat
        /\ Cardinality(Dropped) <= crashes + (IF primary THEN 1 ELSE 0)
    BY FS_CardinalityType DEF IInv, DropsAreCounted
  <2>5. Cardinality(Dropped') <= crashes' + (IF primary' THEN 1 ELSE 0)
    BY <1>1, <2>3, <2>4, CronRunsAssumption
  <2>6. QED
    BY <2>2, <2>4, <2>5 DEF DropsAreCounted
<1>11. QED
  BY <1>5, <1>6, <1>7, <1>8, <1>9, <1>10 DEF IInv

LEMMA StutterKeeps ==
  ASSUME IInv, UNCHANGED vars
  PROVE  IInv'
<1>1. /\ UNCHANGED <<run, active, history, pending, primary, crashes, overlapped>>
      /\ UNCHANGED laneVars
      /\ UNCHANGED <<waiting, running, finished, discarded, limit>>
  BY DEF vars, laneVars
<1>2. TypeOK' /\ \A u \in Runs : PhaseFits(u)'
  BY <1>1 DEF IInv, TypeOK, PhaseFits
<1>3. ListsArePending' /\ LaneIsOrderly'
  BY <1>1 DEF IInv, ListsArePending, Lists, LaneIsOrderly, LaneWaitsForRun
<1>4. \A u \in Runs : NeverOverlapped(u)' => StandsAlone(u)' /\ LinesFit(u)'
  BY <1>1 DEF IInv, NeverOverlapped, StandsAlone, IsOpen, LinesFit
<1>5. DropsAreCounted'
  BY <1>1 DEF IInv, DropsAreCounted, Dropped
<1>6. QED
  BY <1>2, <1>3, <1>4, <1>5 DEF IInv

LEMMA NextKeeps == IInv /\ [Next]_vars => IInv'
<1> SUFFICES ASSUME IInv, [Next]_vars PROVE IInv'
  OBVIOUS
<1>1. ASSUME NEW r \in Runs, FireMain(r) \/ FireHeartbeat(r) \/ FireIsolated(r)
      PROVE  IInv'
  BY <1>1, FireMainKeeps, FireHeartbeatKeeps, FireIsolatedKeeps
<1>2. ASSUME NEW r \in Runs, RunStep(r) PROVE IInv'
  BY <1>2, RecordedKeeps, PlanMainKeeps, PlanFailsKeeps, PlanIsolatedKeeps, MarkedKeeps,
     SavedKeeps DEF RunStep
<1>3. ASSUME NEW r \in Runs, Completed(r) \/ Exit(r) PROVE IInv'
  BY <1>3, CompletedKeeps, ExitKeeps
<1>4. CASE UserMessage
  BY <1>4, UserMessageKeeps
<1>5. CASE StartNext
  BY <1>5, StartNextKeeps
<1>6. CASE Crash
  BY <1>6, CrashKeeps
<1>7. CASE UNCHANGED vars
  BY <1>7, StutterKeeps
<1>8. QED
  BY <1>1, <1>2, <1>3, <1>4, <1>5, <1>6, <1>7 DEF Next

-----------------------------------------------------------------------------
(* Theorems.                                                               *)

\* Whatever the jobs, however often they are fired and whatever their
\* processes do: each run is where its phase says, the lists of jobs that
\* wait for a heartbeat share none, and a run of a job whose runs never
\* overlapped finds its own record.
THEOREM InvariantHolds == Spec => []IInv
<1>1. QED
  BY InitHolds, NextKeeps, PTL DEF Spec

\* Every variable keeps its type, and a record that is completed is one of
\* the job that completes it.
THEOREM TypeIsCorrect == Spec => []TypeOK
<1>1. IInv => TypeOK
  BY DEF IInv
<1>2. QED
  BY <1>1, InvariantHolds, PTL

\* The Cron lane goes on only when the run before is in the history, saved
\* and announced, unless its process exited before its answer was read: the
\* second call of finish is the only way past the first.
THEOREM LaneWaits == Spec => []LaneWaitsForRun
<1>1. IInv => LaneWaitsForRun
  BY DEF IInv, LaneIsOrderly
<1>2. QED
  BY <1>1, InvariantHolds, PTL

\* A process without a configured chat loses at most one of the jobs that
\* waited for its first message, however many waited.
THEOREM OneIsDropped == Spec => []FirstMessageDropsOne
<1>1. IInv => FirstMessageDropsOne
  <2> SUFFICES ASSUME IInv PROVE FirstMessageDropsOne
    OBVIOUS
  <2>1. /\ Cardinality(Dropped) <= crashes + (IF primary THEN 1 ELSE 0)
        /\ Cardinality(Dropped) \in Nat /\ crashes \in Nat
    BY FS_CardinalityType, CronRunsAssumption DEF IInv, DropsAreCounted, TypeOK
  <2>2. Cardinality(Dropped) <= 1 + crashes
    BY <2>1
  <2>3. QED
    BY <2>2 DEF FirstMessageDropsOne, Dropped
<1>2. QED
  BY <1>1, InvariantHolds, PTL

LEMMA AtMostOne ==
  ASSUME NEW S, \A x, y \in S : x = y
  PROVE  /\ Cardinality(S) <= 1
         /\ (\E x : x \in S) => Cardinality(S) = 1
<1>1. CASE S = {}
  <2>1. Cardinality(S) = 0
    BY <1>1, FS_EmptySet
  <2>2. QED
    BY <1>1, <2>1
<1>2. CASE S # {}
  <2>1. PICK x : x \in S
    BY <1>2
  <2>2. S = {x}
    BY <2>1
  <2>3. Cardinality({x}) = 1
    BY FS_Singleton
  <2>4. Cardinality(S) = 1
    BY <2>2, <2>3
  <2>5. QED
    BY <2>4
<1>3. QED
  BY <1>1, <1>2

\* The history of a job whose runs never overlapped tells what happened, for
\* any number of runs and crashes.
THEOREM HistoryIsTrue == Spec => []HistoryTellsRuns
<1>1. IInv => HistoryTellsRuns
  <2> SUFFICES ASSUME IInv, NEW r \in Runs, NeverOverlapped(r)
               PROVE  LET began == Lines(JobOf(r), r, {"running"})
                          ended == Lines(JobOf(r), r, {"ok", "error"})
                      IN  /\ run[r].phase = "over" => Cardinality(ended) = 1
                          /\ Cardinality(began) <= 1 /\ Cardinality(ended) <= 1
                          /\ \A b \in began, e \in ended : b < e
                          /\ \A e \in ended : run[r].phase = "lost" \/ history[JobOf(r)][e].status = run[r].outcome
    BY DEF HistoryTellsRuns, NeverOverlapped
  <2> DEFINE h == history[JobOf(r)]
             began == Lines(JobOf(r), r, {"running"})
             ended == Lines(JobOf(r), r, {"ok", "error"})
  <2>1. LinesFit(r)
    BY DEF IInv
  <2>2. h \in Seq(HistoryLine)
    BY RunsHaveJobs DEF IInv, TypeOK, HistoryLine
  <2>3. /\ DOMAIN h = 1 .. Len(h)
        /\ \A i \in 1 .. Len(h) : h[i].status \in {"running", "ok", "error"}
    <3> HIDE DEF h
    <3>1. DOMAIN h = 1 .. Len(h) /\ \A i \in 1 .. Len(h) : h[i] \in HistoryLine
      BY <2>2
    <3>2. QED
      BY <3>1 DEF HistoryLine
  <2>4. /\ \A i : i \in began <=> i \in 1 .. Len(h) /\ h[i].run = r /\ h[i].status = "running"
        /\ \A i : i \in ended <=> i \in 1 .. Len(h) /\ h[i].run = r /\ h[i].status # "running"
    BY <2>3 DEF Lines
  <2> HIDE DEF began, ended
  <2>5. /\ \A i, k \in began : i = k
        /\ \A i, k \in ended : i = k
        /\ \A b \in began, e \in ended : b < e
    BY <2>1, <2>4 DEF LinesFit
  <2>6. run[r].phase = "over" => \E i : i \in ended
    BY <2>1, <2>4 DEF LinesFit
  <2>7. \A e \in ended : run[r].phase = "lost" \/ h[e].status = run[r].outcome
    BY <2>1, <2>4 DEF LinesFit
  <2>8. /\ Cardinality(began) <= 1 /\ Cardinality(ended) <= 1
        /\ run[r].phase = "over" => Cardinality(ended) = 1
    BY <2>5, <2>6, AtMostOne
  <2>9. QED
    BY <2>5, <2>7, <2>8 DEF began, ended
<1>2. QED
  BY <1>1, InvariantHolds, PTL

=============================================================================

-------------------------- MODULE CronServiceProofs --------------------------
(***************************************************************************)
(* Proofs about CronService, for any jobs, schedules and commands.         *)
(***************************************************************************)
EXTENDS CronService, WellFoundedInduction, TLAPS

-----------------------------------------------------------------------------
(* Facts about the schedules and the timer.                                *)

\* A set of naturals has a smallest element.
LEMMA SmallestElement ==
  ASSUME NEW S, S \subseteq Nat, S # {}
  PROVE  \E x \in S : \A y \in S : x <= y
<1> DEFINE Less == OpToRel(<, Nat)
<1>1. \A x, y \in Nat : <<x, y>> \in Less <=> x < y
  BY DEF OpToRel
<1>2. IsWellFoundedOn(Less, Nat)
  BY NatLessThanWellFounded
<1> HIDE DEF Less
<1>3. PICK x \in S : \A y \in S : ~ (<<y, x>> \in Less)
  BY <1>2, WFMin, Zenon
<1>4. ASSUME NEW y \in S PROVE x <= y
  <2>1. x \in Nat /\ y \in Nat /\ ~ (y < x)
    BY <1>1, <1>3
  <2>2. QED
    BY <2>1
<1>5. QED
  BY <1>4

LEMMA MinProperties ==
  ASSUME NEW S, S \subseteq Nat, S # {}
  PROVE  Min(S) \in S /\ \A x \in S : Min(S) <= x
BY SmallestElement, Zenon DEF Min

\* The largest element of a set of naturals that has a bound.
LEMMA MaxProperties ==
  ASSUME NEW b \in Nat, NEW S, S \subseteq 0 .. b, S # {}
  PROVE  Max(S) \in S
<1>1. {b - x : x \in S} \subseteq Nat /\ {b - x : x \in S} # {}
  <2>1. \A x \in S : b - x \in Nat
    OBVIOUS
  <2>2. QED
    BY <2>1
<1>2. PICK d \in {b - x : x \in S} : \A e \in {b - x : x \in S} : d <= e
  BY <1>1, SmallestElement, Zenon
<1>3. PICK x \in S : d = b - x
  BY <1>2
<1>4. \A y \in S : x >= y
  BY <1>2, <1>3
<1>5. QED
  BY <1>4 DEF Max

\* calculateNextRun returns a later time, save for a job that is always due, and
\* none where it returned none before.
LEMMA NextRunProperties ==
  ASSUME NEW j \in Jobs, NEW t \in Nat
  PROVE  /\ NextRun(j, t) \in Times
         /\ NextRun(j, t) # None => NextRun(j, t) \in Nat /\ (j \in Endless \/ NextRun(j, t) > t)
         /\ \A u \in Nat : t <= u /\ NextRun(j, u) # None => NextRun(j, t) # None
<1> DEFINE later(u) == {x \in Sched[j].times : x > u}
<1>1. /\ \/ Sched[j].kind \in {"at", "every"} /\ Sched[j].n \in Nat
         \/ Sched[j].kind = "cron" /\ Sched[j].times \subseteq Nat \ {0}
      /\ None \notin Nat
  BY CronServiceAssumption
<1>2. CASE Sched[j].kind = "at"
  BY <1>1, <1>2 DEF NextRun, Times
<1>3. CASE Sched[j].kind = "every"
  BY <1>1, <1>3 DEF NextRun, Times, Endless
<1>4. CASE Sched[j].kind = "cron"
  <2>1. \A u \in Nat : NextRun(j, u) = IF later(u) = {} THEN None ELSE Min(later(u))
    BY <1>4 DEF NextRun
  <2>2. \A u \in Nat : later(u) \subseteq Nat /\ \A x \in later(u) : x > u
    BY <1>1, <1>4
  <2>3. \A u \in Nat : t <= u => later(u) \subseteq later(t)
    BY <1>1, <1>4
  <2> HIDE DEF later
  <2>4. \A u \in Nat : later(u) # {} => Min(later(u)) \in later(u)
    BY <2>2, MinProperties
  <2>5. \A u \in Nat : NextRun(j, u) # None => later(u) # {}
    BY <2>1
  <2>6. later(t) # {} => NextRun(j, t) \in Nat /\ NextRun(j, t) > t
    BY <2>1, <2>2, <2>4
  <2>7. later(t) = {} => NextRun(j, t) = None
    BY <2>1
  <2>8. QED
    BY <1>1, <2>3, <2>5, <2>6, <2>7 DEF Times
<1>5. QED
  BY <1>1, <1>2, <1>3, <1>4

\* The last run findMissedRuns finds is in the past.
LEMMA MissedRunsProperties ==
  ASSUME NEW j \in Jobs, NEW last \in Times, now \in Nat \ {0}, MissedRuns(j, last) # {}
  PROVE  Max(MissedRuns(j, last)) \in Nat
<1>1. ASSUME NEW t \in MissedRuns(j, last) PROVE t \in 0 .. now
  <2>1. Sched[j].kind = "cron" /\ t \in Sched[j].times /\ t < now
    BY DEF MissedRuns
  <2>2. t \in Nat
    BY <2>1, CronServiceAssumption
  <2>3. QED
    BY <2>1, <2>2
<1>2. MissedRuns(j, last) \subseteq 0 .. now
  BY <1>1
<1>3. Max(MissedRuns(j, last)) \in MissedRuns(j, last)
  BY <1>2, MaxProperties, Zenon
<1>4. QED
  BY <1>2, <1>3

-----------------------------------------------------------------------------
(* Facts about stores and records.                                         *)

\* A job of a store that is scheduled anew.
LEMMA StoreUpdate ==
  ASSUME NEW st \in StoreType, NEW j \in Jobs, NEW job \in JobType,
         job.state \in {"on", "off"} \/ job.next = None
  PROVE  [st EXCEPT ![j] = job] \in StoreType
BY DEF StoreType, Stored

LEMMA RescheduledProperties ==
  ASSUME TypeOK, NEW j \in Jobs, NEW t \in Nat, t <= now
  PROVE  /\ Rescheduled(j, t) \in StoreType
         /\ \A k \in Jobs : k # j => Rescheduled(j, t)[k] = store[k]
         /\ Rescheduled(j, t)[j].state = store[j].state
         /\ HasNext(Rescheduled(j, t), j) =>
              Rescheduled(j, t)[j].next \in Nat /\ (j \in Endless \/ Rescheduled(j, t)[j].next > t)
         /\ store[j].state = "on" /\ NextRun(j, now) # None => Rescheduled(j, t)[j].next # None
<1> DEFINE st == [store EXCEPT ![j].next = NextRun(j, t), ![j].last = t]
<1>1. /\ NextRun(j, t) \in Times
      /\ NextRun(j, t) # None => NextRun(j, t) \in Nat /\ (j \in Endless \/ NextRun(j, t) > t)
      /\ NextRun(j, now) # None => NextRun(j, t) # None
  <2>1. now \in Nat
    BY CronServiceAssumption DEF TypeOK
  <2>2. QED
    BY <2>1, NextRunProperties
<1>2. store \in [Jobs -> JobType]
  BY DEF TypeOK, StoreType
<1>3. CASE Stored(store, j)
  <2>1. Rescheduled(j, t) = st
    BY <1>3 DEF Rescheduled
  <2>2. st \in [Jobs -> JobType] /\ st[j].next = NextRun(j, t) /\ st[j].state = store[j].state
        /\ \A k \in Jobs : k # j => st[k] = store[k]
    BY <1>1, <1>2 DEF JobType, Times
  <2> HIDE DEF st
  <2>3. st \in StoreType
    BY <1>3, <2>2 DEF StoreType, Stored, TypeOK
  <2>4. QED
    BY <1>1, <2>1, <2>2, <2>3 DEF HasNext
<1>4. CASE ~ Stored(store, j)
  <2>1. Rescheduled(j, t) = store
    BY <1>4 DEF Rescheduled
  <2>2. QED
    BY <1>4, <2>1 DEF Stored, HasNext, TypeOK
<1>5. QED
  BY <1>3, <1>4

\* The timer is armed for the next run of every enabled job, or sooner.
LEMMA ArmTimerProperties ==
  ASSUME TypeOK, ArmTimer
  PROVE  /\ timer' \in Times
         /\ \A j \in Jobs : HasNext(store, j) =>
              timer' # None /\ (timer' <= store[j].next \/ timer' <= now)
<1> DEFINE nexts == {store[j].next : j \in {j \in Jobs : HasNext(store, j)}}
           wake  == Min(nexts)
           at    == IF wake > now THEN wake ELSE now
<1>1. timer' = IF nexts = {} THEN None ELSE Min({at, now + Interval})
  BY DEF ArmTimer
<1>2. nexts \subseteq Nat
  BY DEF HasNext, TypeOK, StoreType, JobType, Times
<1>3. \A j \in Jobs : HasNext(store, j) => store[j].next \in nexts
  OBVIOUS
<1>4. CASE nexts = {}
  BY <1>1, <1>3, <1>4 DEF Times
<1>5. CASE nexts # {}
  <2>1. wake \in nexts /\ \A x \in nexts : wake <= x
    BY <1>2, <1>5, MinProperties, Zenon
  <2>2. now \in Nat /\ Interval \in Nat /\ None \notin Nat
    BY CronServiceAssumption DEF TypeOK
  <2>3. wake \in Nat
    BY <1>2, <2>1
  <2> HIDE DEF nexts, wake
  <2>4. at \in Nat /\ now + Interval \in Nat /\ (at <= wake \/ at <= now)
    BY <2>2, <2>3
  <2> HIDE DEF at
  <2>5. {at, now + Interval} \subseteq Nat /\ {at, now + Interval} # {}
    BY <2>4
  <2>6. Min({at, now + Interval}) \in {at, now + Interval} /\ \A x \in {at, now + Interval} : Min({at, now + Interval}) <= x
    BY <2>5, MinProperties, Zenon
  <2>7. timer' \in Nat /\ timer' <= at
    BY <1>1, <1>5, <2>4, <2>6
  <2>8. \A j \in Jobs : HasNext(store, j) => wake <= store[j].next /\ store[j].next \in Nat
    BY <1>2, <1>3, <2>1
  <2>9. QED
    BY <2>2, <2>3, <2>4, <2>7, <2>8 DEF Times
<1>6. QED
  BY <1>4, <1>5

-----------------------------------------------------------------------------
(* The inductive invariant holds at first, and every action keeps it.      *)

LEMMA InitHolds == Init => IInv
<1> SUFFICES ASSUME Init PROVE IInv
  OBVIOUS
<1>1. store \in StoreType /\ disk \in StoreType
  BY DEF Init, NewJob, StoreType, JobType, Times, Stored
<1>2. TypeOK
  <2>1. op \in [Ops -> CommandType]
    BY DEF Init, NoCommand, Command, CommandType
  <2>2. loop \in LoopType
    BY DEF Init, Resting, LoopType
  <2>3. timer \in Times /\ now \in 1 .. MaxTime /\ crashes \in 0 .. MaxCrashes
    BY CronServiceAssumption DEF Init, Times
  <2>4. /\ pending \in [Jobs -> Nat] /\ listening \in BOOLEAN /\ owed \in SUBSET Jobs
        /\ twice \in SUBSET Jobs /\ taken \in [Jobs -> Times]
    BY DEF Init, Times
  <2>5. QED
    BY <1>1, <2>1, <2>2, <2>3, <2>4 DEF TypeOK
<1>3. AwaitsAreWhole /\ EnabledIsArmed /\ NeverRunsOut /\ FiresOnce
  BY DEF Init, AwaitsAreWhole, EnabledIsArmed, NeverRunsOut, FiresOnce, Resting, NoCommand, Command
<1>4. RunsMoveOn
  BY DEF Init, RunsMoveOn, FiredBefore, HasNext, NewJob, Resting
<1>5. QED
  BY <1>2, <1>3, <1>4 DEF IInv

\* A step of the process on its own: start() reads the file.
LEMMA BootKeeps == IInv /\ Boot => IInv'
<1> SUFFICES ASSUME IInv, Boot PROVE IInv'
  OBVIOUS
<1> DEFINE on        == {j \in Jobs : disk[j].state = "on"}
           missed    == MissedOf(on)
           lastOf(j) == IF j \in missed THEN Max(MissedRuns(j, disk[j].last)) ELSE disk[j].last
           first     == {<<j, store'[j].last>> : j \in missed}
<1>1. /\ store' = [j \in Jobs |-> IF j \in on
                                  THEN [disk[j] EXCEPT !.next = NextRun(j, now), !.last = lastOf(j)]
                                  ELSE disk[j]]
      /\ loop' = Loop("boot", "saving", first, None, store')
      /\ loop.kind = "down"
      /\ owed' = owed \cup {j \in Jobs : HasNext(disk, j) /\ disk[j].next < now}
      /\ UNCHANGED <<disk, timer, now, op, pending, listening, crashes, taken, twice>>
  BY DEF Boot
<1>2. now \in Nat \ {0} /\ disk \in StoreType
  BY CronServiceAssumption DEF IInv, TypeOK
<1>3. \A j \in missed : Max(MissedRuns(j, disk[j].last)) \in Nat
  BY <1>2, MissedRunsProperties DEF MissedOf, StoreType, JobType
<1>4. \A j \in Jobs : lastOf(j) \in Times
  BY <1>2, <1>3 DEF StoreType, JobType, Times
<1>5. \A j \in Jobs : /\ NextRun(j, now) \in Times
                      /\ NextRun(j, now) # None =>
                           NextRun(j, now) \in Nat /\ (j \in Endless \/ NextRun(j, now) > now)
  BY <1>2, NextRunProperties
<1>6. missed \subseteq on /\ on \subseteq Jobs
  BY DEF MissedOf
<1> HIDE DEF missed, lastOf
<1>7. \A j \in Jobs : store'[j] \in JobType
  <2>1. ASSUME NEW j \in Jobs PROVE store'[j] \in JobType
    <3>1. disk[j] \in JobType
      BY <1>2 DEF StoreType
    <3>2. [disk[j] EXCEPT !.next = NextRun(j, now), !.last = lastOf(j)] \in JobType
      BY <1>4, <1>5, <3>1 DEF JobType
    <3>3. QED
      BY <1>1, <3>1, <3>2
  <2>2. QED
    BY <2>1
<1>8. \A j \in on : store'[j].next = NextRun(j, now) /\ store'[j].state = "on"
                   /\ store'[j].last = lastOf(j)
  BY <1>1, <1>2 DEF StoreType, JobType
<1>9. \A j \in Jobs : j \notin on => store'[j] = disk[j]
  BY <1>1
<1>10. store' \in [Jobs -> JobType]
  BY <1>1, <1>7
<1>11. store' \in StoreType
  BY <1>2, <1>8, <1>9, <1>10 DEF StoreType, Stored
<1>12. first \subseteq Jobs \X Nat
  BY <1>3, <1>6, <1>8 DEF lastOf
<1> HIDE DEF first
<1>13. TypeOK'
  <2>1. loop' \in LoopType
    BY <1>1, <1>2, <1>11, <1>12 DEF Loop, LoopType
  <2>2. QED
    BY <1>1, <1>11, <2>1 DEF IInv, TypeOK
<1>14. AwaitsAreWhole'
  BY <1>1, <1>11 DEF IInv, AwaitsAreWhole, Loop
<1>15. EnabledIsArmed'
  BY <1>1 DEF EnabledIsArmed, Loop
<1>16. \A j \in Jobs : store'[j].state = "on" => j \in on
  BY <1>9
<1>17. NeverRunsOut'
  BY <1>1, <1>8, <1>16 DEF NeverRunsOut
<1>18. RunsMoveOn'
  <2>1. \A j \in Jobs : taken[j] # None => taken[j] <= now /\ taken[j] \in Nat
    BY DEF IInv, RunsMoveOn, TypeOK, Times
  <2>2. \A j \in Jobs : HasNext(store', j) => j \in on
    BY <1>16 DEF HasNext
  <2>3. \A j \in Jobs : HasNext(store', j) =>
          store'[j].next \in Nat /\ (j \in Endless \/ store'[j].next > now)
    BY <1>5, <1>8, <2>2 DEF HasNext
  <2>4. \A j \in Jobs : HasNext(store', j) =>
          j \in Endless \/ (taken[j] # None => taken[j] < store'[j].next)
    BY <1>2, <2>1, <2>3
  <2>5. loop'.kind = "boot"
    BY <1>1 DEF Loop
  <2>6. (\A j \in Jobs : HasNext(store, j) => FiredBefore(j, store[j].next))'
    BY <1>1, <2>4 DEF FiredBefore, HasNext
  <2>7. QED
    BY <1>1, <2>1, <2>5, <2>6 DEF RunsMoveOn
<1>19. FiresOnce'
  BY <1>1 DEF IInv, FiresOnce
<1>20. QED
  BY <1>13, <1>14, <1>15, <1>17, <1>18, <1>19 DEF IInv

\* The timer starts a check on what is due.
LEMMA TimerFiresKeeps == IInv /\ TimerFires => IInv'
<1> SUFFICES ASSUME IInv, TimerFires PROVE IInv'
  OBVIOUS
<1>1. timer' = None /\ UNCHANGED <<store, disk, now, op, pending, listening, crashes, owed, taken, twice>>
  BY DEF TimerFires
<1>2. CASE StartCheck
  <2> DEFINE due == {<<j, store[j].next>> : j \in Due(store)}
  <2>1. loop.kind = "idle" /\ loop' = Loop("check", "next", due, None, None)
    BY <1>2 DEF StartCheck
  <2>2. now \in Nat /\ store \in [Jobs -> JobType]
    BY DEF IInv, TypeOK, StoreType
  <2>3. \A j \in Due(store) : /\ j \in Jobs /\ HasNext(store, j) /\ store[j].next \in Nat
                              /\ store[j].next <= now
    BY <2>2 DEF Due, HasNext, JobType, Times
  <2>4. due \subseteq Jobs \X Nat
    BY <2>3
  <2>5. \A r \in due : r[1] \in Due(store) /\ r[2] = store[r[1]].next
    OBVIOUS
  <2>6. \A r, s \in due : r[1] = s[1] => r = s
    OBVIOUS
  <2>7. \A r \in due : r[2] <= now /\ FiredBefore(r[1], r[2])
    BY <2>1, <2>3, <2>5 DEF IInv, RunsMoveOn
  <2> HIDE DEF due
  <2>8. TypeOK'
    BY <1>1, <2>1, <2>2, <2>4 DEF IInv, TypeOK, Loop, LoopType, Times
  <2>9. AwaitsAreWhole' /\ EnabledIsArmed' /\ NeverRunsOut' /\ FiresOnce'
    BY <1>1, <2>1 DEF IInv, AwaitsAreWhole, EnabledIsArmed, NeverRunsOut, FiresOnce, Loop
  <2>10. \A j \in Jobs : HasNext(store, j) => FiredBefore(j, store[j].next)
    BY <2>1 DEF IInv, RunsMoveOn
  <2>11. RunsMoveOn'
    BY <1>1, <2>1, <2>2, <2>6, <2>7, <2>10 DEF IInv, RunsMoveOn, Loop, FiredBefore, HasNext
  <2>12. QED
    BY <2>8, <2>9, <2>11 DEF IInv
<1>3. CASE loop.kind = "check" /\ UNCHANGED loop
  <2>1. TypeOK'
    BY <1>1, <1>3 DEF IInv, TypeOK, Times
  <2>2. AwaitsAreWhole' /\ EnabledIsArmed' /\ NeverRunsOut' /\ FiresOnce'
    BY <1>1, <1>3 DEF IInv, AwaitsAreWhole, EnabledIsArmed, NeverRunsOut, FiresOnce
  <2>3. RunsMoveOn'
    BY <1>1, <1>3 DEF IInv, RunsMoveOn, FiredBefore, HasNext
  <2>4. QED
    BY <2>1, <2>2, <2>3 DEF IInv
<1>4. QED
  BY <1>2, <1>3 DEF TimerFires

\* The steps that leave the jobs and the loop alone.
LEMMA OutsideKeeps == IInv /\ (Listen \/ FlushPendingHeartbeat \/ Tick) => IInv'
<1> SUFFICES ASSUME IInv, Listen \/ FlushPendingHeartbeat \/ Tick PROVE IInv'
  OBVIOUS
<1>1. /\ UNCHANGED <<store, disk, timer, loop, op, crashes, owed, taken, twice>>
      /\ now' \in 1 .. MaxTime /\ now' >= now /\ now \in Nat
      /\ pending' \in [Jobs -> Nat] /\ listening' \in BOOLEAN
  <2>1. now \in 1 .. MaxTime /\ now \in Nat /\ pending \in [Jobs -> Nat] /\ listening \in BOOLEAN
    BY CronServiceAssumption DEF IInv, TypeOK
  <2>2. CASE Listen
    BY <2>1, <2>2 DEF Listen
  <2>3. CASE FlushPendingHeartbeat
    BY <2>1, <2>3 DEF FlushPendingHeartbeat
  <2>4. CASE Tick
    BY <2>1, <2>4, CronServiceAssumption DEF Tick
  <2>5. QED
    BY <2>2, <2>3, <2>4
<1>2. TypeOK'
  BY <1>1 DEF IInv, TypeOK
<1>3. AwaitsAreWhole' /\ NeverRunsOut' /\ FiresOnce'
  <2>1. now' \in Nat
    BY <1>1
  <2>2. \A j \in Jobs : NextRun(j, now') # None => NextRun(j, now) # None
    BY <1>1, <2>1, NextRunProperties
  <2>3. NeverRunsOut'
    BY <1>1, <2>2 DEF IInv, NeverRunsOut
  <2>4. QED
    BY <1>1, <2>3 DEF IInv, AwaitsAreWhole, FiresOnce
<1>4. EnabledIsArmed'
  <2>1. timer \in Times
    BY DEF IInv, TypeOK
  <2>2. timer # None /\ timer <= now => timer' <= now'
    BY <1>1, <2>1 DEF Times
  <2>3. QED
    BY <1>1, <2>2 DEF IInv, EnabledIsArmed, HasNext
<1>5. RunsMoveOn'
  <2>1. \A j \in Jobs : taken[j] \in Times
    BY DEF IInv, TypeOK
  <2>2. \A j \in Jobs : taken'[j] # None => taken'[j] <= now'
    BY <1>1, <2>1 DEF IInv, RunsMoveOn, Times
  <2>3. loop.at \in Nat
    BY DEF IInv, TypeOK, LoopType
  <2>4. loop'.kind = "check" => loop'.at <= now'
    BY <1>1, <2>3 DEF IInv, RunsMoveOn
  <2>5. QED
    BY <1>1, <2>2, <2>4 DEF IInv, RunsMoveOn, FiredBefore, HasNext
<1>6. QED
  BY <1>2, <1>3, <1>4, <1>5 DEF IInv

\* A crash leaves an empty process.
LEMMA CrashKeeps == IInv /\ Crash => IInv'
<1> SUFFICES ASSUME IInv, Crash PROVE IInv'
  OBVIOUS
<1>1. store' \in StoreType /\ \A j \in Jobs : ~ HasNext(store', j)
  BY DEF Crash, NewJob, StoreType, JobType, Times, Stored, HasNext
<1>2. op' \in [Ops -> CommandType]
  BY DEF Crash, NoCommand, Command, CommandType
<1>3. loop' \in LoopType
  BY DEF Crash, Resting, LoopType
<1>4. /\ timer' \in Times /\ crashes' \in 0 .. MaxCrashes
      /\ pending' \in [Jobs -> Nat] /\ listening' \in BOOLEAN
  <2>1. crashes \in Nat /\ crashes < MaxCrashes /\ crashes' = crashes + 1
    BY CronServiceAssumption DEF Crash, IInv, TypeOK
  <2>2. crashes' \in 0 .. MaxCrashes
    BY <2>1, CronServiceAssumption
  <2>3. QED
    BY <2>2 DEF Crash, Times
<1>5. UNCHANGED <<disk, now, owed, taken, twice>>
  BY DEF Crash
<1>6. TypeOK'
  BY <1>1, <1>2, <1>3, <1>4, <1>5 DEF IInv, TypeOK
<1>7. AwaitsAreWhole' /\ EnabledIsArmed' /\ NeverRunsOut' /\ FiresOnce'
  BY DEF Crash, IInv, AwaitsAreWhole, EnabledIsArmed, NeverRunsOut, FiresOnce, Resting, NoCommand, Command
<1>8. loop'.kind = "down"
  BY DEF Crash, Resting
<1>9. (\A j \in Jobs : ~ HasNext(store, j))'
  BY <1>1 DEF HasNext
<1>10. RunsMoveOn'
  BY <1>5, <1>8, <1>9 DEF IInv, RunsMoveOn
<1>11. QED
  BY <1>6, <1>7, <1>10 DEF IInv

\* The loop's save lands.
LEMMA LoopSavedKeeps == IInv /\ LoopSaved => IInv'
<1> SUFFICES ASSUME IInv, LoopSaved PROVE IInv'
  OBVIOUS
<1>1. /\ loop.step = "saving" /\ disk' = loop.saved
      /\ loop' = [loop EXCEPT !.step = "next", !.saved = None]
      /\ UNCHANGED <<store, timer, now, op, pending, listening, crashes, owed, taken, twice>>
  BY DEF LoopSaved
<1>2. loop \in LoopType
  BY DEF IInv, TypeOK
<1>3. disk' \in StoreType
  BY <1>1 DEF IInv, AwaitsAreWhole
<1>4. /\ loop' \in LoopType
      /\ loop'.kind = loop.kind /\ loop'.step = "next" /\ loop'.left = loop.left /\ loop'.at = loop.at
  BY <1>1, <1>2 DEF LoopType
<1>5. TypeOK'
  BY <1>1, <1>3, <1>4 DEF IInv, TypeOK
<1>6. AwaitsAreWhole' /\ EnabledIsArmed' /\ NeverRunsOut' /\ FiresOnce'
  BY <1>1, <1>4 DEF IInv, AwaitsAreWhole, EnabledIsArmed, NeverRunsOut, FiresOnce
<1>7. RunsMoveOn'
  BY <1>1, <1>4 DEF IInv, RunsMoveOn, FiredBefore, HasNext
<1>8. QED
  BY <1>5, <1>6, <1>7 DEF IInv

\* start() or a check ends, or the check's save fails, and the timer is armed.
LEMMA LoopEndsKeeps == IInv /\ (LoopEnds \/ CheckSaveFails) => IInv'
<1> SUFFICES ASSUME IInv, LoopEnds \/ CheckSaveFails PROVE IInv'
  OBVIOUS
<1>1. /\ loop.kind \in {"boot", "check"} /\ loop.step # "append"
      /\ loop' = Resting("idle") /\ ArmTimer
      /\ UNCHANGED <<store, disk, now, op, pending, listening, crashes, owed, taken, twice>>
  BY DEF LoopEnds, CheckSaveFails
<1>2. /\ timer' \in Times
      /\ \A j \in Jobs : HasNext(store, j) =>
           timer' # None /\ (timer' <= store[j].next \/ timer' <= now)
  BY <1>1, ArmTimerProperties DEF IInv
<1>3. TypeOK'
  BY <1>1, <1>2 DEF IInv, TypeOK, LoopType, Resting
<1>4. AwaitsAreWhole' /\ NeverRunsOut' /\ FiresOnce'
  BY <1>1 DEF IInv, AwaitsAreWhole, NeverRunsOut, FiresOnce, Resting
<1>5. EnabledIsArmed'
  BY <1>1, <1>2 DEF EnabledIsArmed, HasNext
<1>6. RunsMoveOn'
  BY <1>1 DEF IInv, RunsMoveOn, FiredBefore, HasNext, Resting
<1>7. QED
  BY <1>3, <1>4, <1>5, <1>6 DEF IInv

-----------------------------------------------------------------------------
(* The commands.                                                           *)

\* A store in which every job is as before or has a next run still to come.
Advances(st) ==
  /\ st \in StoreType
  /\ \A j \in Jobs :
       \/ st[j] = store[j]
       \/ /\ HasNext(st, j) => st[j].next \in Nat /\ (j \in Endless \/ st[j].next > now)
          /\ st[j].state = "on" /\ NextRun(j, now) # None => st[j].next # None

\* What a new store means for the parts of the invariant that are about it.
LEMMA AdvancesKeeps ==
  ASSUME IInv, Advances(store'), UNCHANGED <<now, loop, taken>>
  PROVE  NeverRunsOut' /\ RunsMoveOn'
<1>1. NeverRunsOut'
  BY DEF IInv, NeverRunsOut, Advances
<1>2. RunsMoveOn'
  <2>1. \A j \in Jobs : taken[j] # None => taken[j] <= now /\ taken[j] \in Nat
    BY DEF IInv, RunsMoveOn, TypeOK, Times
  <2>2. now \in Nat
    BY CronServiceAssumption DEF IInv, TypeOK
  <2>3. ASSUME NEW j \in Jobs, HasNext(store', j)
        PROVE  \/ j \in Endless \/ (taken[j] # None => taken[j] < store'[j].next)
               \/ loop.kind = "check" /\ loop.step = "append" /\ loop.cur = j
    <3>1. CASE store'[j] = store[j]
      BY <2>3, <3>1 DEF IInv, RunsMoveOn, FiredBefore, HasNext
    <3>2. CASE store'[j].next \in Nat /\ (j \in Endless \/ store'[j].next > now)
      BY <2>1, <2>2, <3>2
    <3>3. QED
      BY <2>3, <3>1, <3>2 DEF Advances
  <2>4. (\A j \in Jobs : HasNext(store, j) =>
            FiredBefore(j, store[j].next) \/ (loop.kind = "check" /\ loop.step = "append" /\ loop.cur = j))'
    BY <2>3 DEF FiredBefore, HasNext
  <2>5. (\A j \in Jobs : taken[j] # None => taken[j] <= now)'
    BY <2>1
  <2>6. QED
    BY <2>4, <2>5 DEF IInv, RunsMoveOn, FiredBefore
<1>3. QED
  BY <1>1, <1>2

\* The first half of a command: a new store, and a save under way that will
\* arm the timer if anything changed.
LEMMA ChangeKeeps ==
  ASSUME IInv, NEW o \in Ops, NEW st, NEW arms \in BOOLEAN,
         Change(o, st, arms), Advances(st), arms \/ st = store
  PROVE  IInv'
<1> DEFINE cmd == Command("saving", None, st, arms)
<1>1. /\ store' = st /\ op' = [op EXCEPT ![o] = cmd] /\ op[o] = NoCommand
      /\ UNCHANGED <<disk, timer, now, loop, pending, listening, crashes, owed, taken, twice>>
  BY DEF Change
<1>2. /\ cmd \in CommandType /\ cmd.arms = arms /\ cmd.step = "saving" /\ cmd.saved = st
  BY DEF Command, CommandType, Advances
<1> HIDE DEF cmd
<1>3. /\ op' \in [Ops -> CommandType] /\ op'[o] = cmd
      /\ \A p \in Ops : p # o => op'[p] = op[p]
  BY <1>1, <1>2 DEF IInv, TypeOK
<1>4. TypeOK'
  BY <1>1, <1>3 DEF IInv, TypeOK, Advances
<1>5. AwaitsAreWhole'
  BY <1>1, <1>2, <1>3 DEF IInv, AwaitsAreWhole, Advances
<1>6. EnabledIsArmed'
  <2>1. CASE arms
    BY <1>2, <1>3, <2>1 DEF EnabledIsArmed
  <2>2. CASE ~ arms
    <3>1. store' = store /\ ~ op[o].arms
      BY <1>1, <2>2 DEF NoCommand, Command
    <3>2. (\A p \in Ops : ~ op'[p].arms) => (\A p \in Ops : ~ op[p].arms)
      BY <1>3, <3>1
    <3>3. QED
      BY <1>1, <3>1, <3>2 DEF IInv, EnabledIsArmed, HasNext
  <2>3. QED
    BY <2>1, <2>2
<1>7. NeverRunsOut' /\ RunsMoveOn'
  BY <1>1, AdvancesKeeps
<1>8. FiresOnce'
  BY <1>1 DEF IInv, FiresOnce
<1>9. QED
  BY <1>4, <1>5, <1>6, <1>7, <1>8 DEF IInv

\* One job of the store is replaced.
LEMMA ReplaceAdvances ==
  ASSUME IInv, NEW j \in Jobs, NEW job \in JobType,
         job.state \in {"on", "off"} \/ job.next = None,
         job.state = "on" /\ job.next # None =>
           job.next \in Nat /\ (j \in Endless \/ job.next > now),
         job.state = "on" /\ NextRun(j, now) # None => job.next # None
  PROVE  Advances([store EXCEPT ![j] = job])
<1> DEFINE st == [store EXCEPT ![j] = job]
<1>1. store \in StoreType
  BY DEF IInv, TypeOK
<1>2. st \in StoreType
  BY <1>1, StoreUpdate, Zenon
<1>3. st[j] = job /\ \A k \in Jobs : k # j => st[k] = store[k]
  BY <1>1 DEF StoreType
<1> HIDE DEF st
<1>4. Advances(st)
  BY <1>2, <1>3 DEF Advances, HasNext
<1>5. QED
  BY <1>4 DEF st

LEMMA AddKeeps == ASSUME IInv, NEW o \in Ops, NEW j \in Jobs, Add(o, j) PROVE IInv'
<1> DEFINE job == [state |-> "on", next |-> NextRun(j, now), last |-> None]
<1>1. now \in Nat
  BY CronServiceAssumption DEF IInv, TypeOK
<1>2. /\ NextRun(j, now) \in Times
      /\ NextRun(j, now) # None =>
           NextRun(j, now) \in Nat /\ (j \in Endless \/ NextRun(j, now) > now)
  BY <1>1, NextRunProperties
<1>3. job \in JobType /\ job.state = "on" /\ job.next = NextRun(j, now)
  BY <1>2 DEF JobType, Times
<1>4. Change(o, [store EXCEPT ![j] = job], TRUE)
  BY DEF Add
<1> HIDE DEF job
<1>5. Advances([store EXCEPT ![j] = job])
  BY <1>2, <1>3, ReplaceAdvances
<1>6. QED
  BY <1>4, <1>5, ChangeKeeps

LEMMA RemoveKeeps == ASSUME IInv, NEW o \in Ops, NEW j \in Jobs, Remove(o, j) PROVE IInv'
<1> DEFINE job == [NewJob EXCEPT !.state = "removed"]
<1>1. job \in JobType /\ job.state = "removed" /\ job.next = None
  BY DEF JobType, NewJob, Times
<1>2. Change(o, [store EXCEPT ![j] = job], TRUE)
  BY DEF Remove
<1> HIDE DEF job
<1>3. Advances([store EXCEPT ![j] = job])
  BY <1>1, ReplaceAdvances
<1>4. QED
  BY <1>2, <1>3, ChangeKeeps

LEMMA EnableKeeps == ASSUME IInv, NEW o \in Ops, NEW j \in Jobs, Enable(o, j) PROVE IInv'
<1> DEFINE job == [store[j] EXCEPT !.state = "on", !.next = NextRun(j, now)]
<1>1. now \in Nat /\ store \in [Jobs -> JobType]
  BY CronServiceAssumption DEF IInv, TypeOK, StoreType
<1>2. /\ NextRun(j, now) \in Times
      /\ NextRun(j, now) # None =>
           NextRun(j, now) \in Nat /\ (j \in Endless \/ NextRun(j, now) > now)
  BY <1>1, NextRunProperties
<1>3. job \in JobType /\ job.state = "on" /\ job.next = NextRun(j, now)
  BY <1>1, <1>2 DEF JobType
<1>4. [store EXCEPT ![j].state = "on", ![j].next = NextRun(j, now)] = [store EXCEPT ![j] = job]
  BY <1>1 DEF JobType
<1>5. Change(o, [store EXCEPT ![j] = job], TRUE)
  BY <1>4 DEF Enable
<1> HIDE DEF job
<1>6. Advances([store EXCEPT ![j] = job])
  BY <1>2, <1>3, ReplaceAdvances
<1>7. QED
  BY <1>5, <1>6, ChangeKeeps

LEMMA DisableKeeps == ASSUME IInv, NEW o \in Ops, NEW j \in Jobs, Disable(o, j) PROVE IInv'
<1> DEFINE job == [store[j] EXCEPT !.state = "off", !.next = None]
<1>1. store \in [Jobs -> JobType]
  BY DEF IInv, TypeOK, StoreType
<1>2. job \in JobType /\ job.state = "off" /\ job.next = None
  BY <1>1 DEF JobType, Times
<1>3. [store EXCEPT ![j].state = "off", ![j].next = None] = [store EXCEPT ![j] = job]
  BY <1>1 DEF JobType
<1>4. Change(o, [store EXCEPT ![j] = job], TRUE)
  BY <1>3 DEF Disable
<1> HIDE DEF job
<1>5. Advances([store EXCEPT ![j] = job])
  BY <1>2, ReplaceAdvances
<1>6. QED
  BY <1>4, <1>5, ChangeKeeps

LEMMA MarkCompleteKeeps == ASSUME IInv, NEW o \in Ops, MarkComplete(o) PROVE IInv'
<1>1. Advances(store)
  BY DEF IInv, TypeOK, Advances
<1>2. QED
  BY <1>1, ChangeKeeps DEF MarkComplete

\* A job that is run is scheduled anew.
LEMMA RescheduledAdvances ==
  ASSUME IInv, NEW j \in Jobs
  PROVE  Advances(Rescheduled(j, now))
<1> DEFINE st == Rescheduled(j, now)
<1>1. now \in Nat /\ TypeOK
  BY CronServiceAssumption DEF IInv, TypeOK
<1>2. /\ st \in StoreType
      /\ \A k \in Jobs : k # j => st[k] = store[k]
      /\ st[j].state = store[j].state
      /\ HasNext(st, j) => st[j].next \in Nat /\ (j \in Endless \/ st[j].next > now)
      /\ store[j].state = "on" /\ NextRun(j, now) # None => st[j].next # None
  BY <1>1, RescheduledProperties
<1> HIDE DEF st
<1>3. Advances(st)
  BY <1>2 DEF Advances
<1>4. QED
  BY <1>3 DEF st

LEMMA FireType ==
  ASSUME TypeOK, NEW j \in Jobs, Fire(j)
  PROVE  pending' \in [Jobs -> Nat] /\ owed' \in SUBSET Jobs
BY DEF TypeOK, Fire

\* A command that fires a job, at once or once the record is written.
LEMMA FiredKeeps ==
  ASSUME IInv, NEW o \in Ops, NEW j \in Jobs, Fire(j),
         store' = Rescheduled(j, now),
         op' = [op EXCEPT ![o] = Command("saving", None, store', TRUE)],
         UNCHANGED <<disk, timer, now, loop, listening, crashes, taken, twice>>
  PROVE  IInv'
<1> DEFINE cmd == Command("saving", None, store', TRUE)
<1>1. Advances(store') /\ store' \in StoreType
  BY RescheduledAdvances DEF Advances
<1>2. cmd \in CommandType /\ cmd.arms /\ cmd.step = "saving" /\ cmd.saved = store'
  BY <1>1 DEF Command, CommandType
<1> HIDE DEF cmd
<1>3. /\ op' \in [Ops -> CommandType] /\ op'[o] = cmd
      /\ \A p \in Ops : p # o => op'[p] = op[p]
  BY <1>2 DEF IInv, TypeOK, cmd
<1>4. pending' \in [Jobs -> Nat] /\ owed' \in SUBSET Jobs
  BY FireType DEF IInv
<1>5. TypeOK'
  BY <1>1, <1>2, <1>3, <1>4 DEF IInv, TypeOK
<1>6. AwaitsAreWhole'
  BY <1>1, <1>2, <1>3 DEF IInv, AwaitsAreWhole
<1>7. EnabledIsArmed'
  BY <1>2, <1>3 DEF EnabledIsArmed
<1>8. NeverRunsOut' /\ RunsMoveOn'
  BY <1>1, AdvancesKeeps
<1>9. FiresOnce'
  BY DEF IInv, FiresOnce
<1>10. QED
  BY <1>5, <1>6, <1>7, <1>8, <1>9 DEF IInv

LEMMA RunKeeps == ASSUME IInv, NEW o \in Ops, NEW j \in Jobs, Run(o, j) PROVE IInv'
<1>1. CASE /\ Mode[j] = "isolated"
           /\ op' = [op EXCEPT ![o] = Command("append", j, None, TRUE)]
           /\ UNCHANGED <<store, pending, owed>>
  <2> DEFINE cmd == Command("append", j, None, TRUE)
  <2>1. cmd \in CommandType /\ cmd.arms /\ cmd.step = "append" /\ cmd.cur = j
    BY DEF Command, CommandType
  <2> HIDE DEF cmd
  <2>2. UNCHANGED <<store, disk, timer, now, loop, pending, listening, crashes, owed, taken, twice>>
    BY <1>1 DEF Run
  <2>3. /\ op' \in [Ops -> CommandType] /\ op'[o] = cmd
        /\ \A p \in Ops : p # o => op'[p] = op[p]
    BY <1>1, <2>1 DEF IInv, TypeOK, cmd
  <2>4. TypeOK'
    BY <2>2, <2>3 DEF IInv, TypeOK
  <2>5. AwaitsAreWhole'
    BY <2>1, <2>2, <2>3 DEF IInv, AwaitsAreWhole
  <2>6. EnabledIsArmed'
    BY <2>1, <2>3 DEF EnabledIsArmed
  <2>7. NeverRunsOut' /\ RunsMoveOn' /\ FiresOnce'
    BY <2>2 DEF IInv, NeverRunsOut, RunsMoveOn, FiresOnce, FiredBefore, HasNext
  <2>8. QED
    BY <2>4, <2>5, <2>6, <2>7 DEF IInv
<1>2. CASE /\ Fire(j) /\ store' = Rescheduled(j, now)
           /\ op' = [op EXCEPT ![o] = Command("saving", None, store', TRUE)]
  <2>1. UNCHANGED <<disk, timer, now, loop, listening, crashes, taken, twice>>
    BY DEF Run
  <2>2. QED
    BY <1>2, <2>1, FiredKeeps
<1>3. QED
  BY <1>1, <1>2 DEF Run

LEMMA RunAppendedKeeps == ASSUME IInv, NEW o \in Ops, RunAppended(o) PROVE IInv'
<1> DEFINE j == op[o].cur
<1>1. j \in Jobs
  BY DEF RunAppended, IInv, AwaitsAreWhole
<1>2. /\ Fire(j) /\ store' = Rescheduled(j, now)
      /\ op' = [op EXCEPT ![o] = Command("saving", None, store', TRUE)]
      /\ UNCHANGED <<disk, timer, now, loop, listening, crashes, taken, twice>>
  BY DEF RunAppended
<1> HIDE DEF j
<1>3. QED
  BY <1>1, <1>2, FiredKeeps

\* The save of a command lands, and the command arms the timer.
LEMMA SavedKeeps == ASSUME IInv, NEW o \in Ops, Saved(o) PROVE IInv'
<1>1. /\ op[o].step = "saving" /\ disk' = op[o].saved /\ op' = [op EXCEPT ![o] = NoCommand]
      /\ IF op[o].arms THEN ArmTimer ELSE UNCHANGED timer
      /\ UNCHANGED <<store, now, loop, pending, listening, crashes, owed, taken, twice>>
  BY DEF Saved
<1>2. disk' \in StoreType
  BY <1>1 DEF IInv, AwaitsAreWhole
<1>3. /\ op' \in [Ops -> CommandType] /\ op'[o] = NoCommand
      /\ \A p \in Ops : p # o => op'[p] = op[p]
  BY <1>1 DEF IInv, TypeOK, NoCommand, Command, CommandType
<1>4. timer' \in Times /\ EnabledIsArmed'
  <2>1. CASE op[o].arms
    <3>1. /\ timer' \in Times
          /\ \A j \in Jobs : HasNext(store, j) =>
               timer' # None /\ (timer' <= store[j].next \/ timer' <= now)
      BY <1>1, <2>1, ArmTimerProperties DEF IInv
    <3>2. QED
      BY <1>1, <3>1 DEF EnabledIsArmed, HasNext
  <2>2. CASE ~ op[o].arms
    <3>1. timer' = timer /\ ((\A p \in Ops : ~ op'[p].arms) => (\A p \in Ops : ~ op[p].arms))
      BY <1>1, <1>3, <2>2
    <3>2. QED
      BY <1>1, <3>1 DEF IInv, TypeOK, EnabledIsArmed, HasNext
  <2>3. QED
    BY <2>1, <2>2
<1>5. TypeOK'
  BY <1>1, <1>2, <1>3, <1>4 DEF IInv, TypeOK
<1>6. AwaitsAreWhole'
  BY <1>1, <1>3 DEF IInv, AwaitsAreWhole, NoCommand, Command
<1>7. NeverRunsOut' /\ RunsMoveOn' /\ FiresOnce'
  BY <1>1 DEF IInv, NeverRunsOut, RunsMoveOn, FiresOnce, FiredBefore, HasNext
<1>8. QED
  BY <1>4, <1>5, <1>6, <1>7 DEF IInv

-----------------------------------------------------------------------------
(* The loop of start() and check().                                        *)

LEMMA FromProperties ==
  ASSUME IInv
  PROVE  /\ From \in Nat /\ From <= now
         /\ loop.kind = "check" => From = loop.at
         /\ loop.kind # "check" => From = now
<1>1. now \in Nat /\ loop.at \in Nat /\ (loop.kind = "check" => loop.at <= now)
  BY CronServiceAssumption DEF IInv, TypeOK, LoopType, RunsMoveOn
<1>2. QED
  BY <1>1 DEF From

\* The loop fires a job and waits for the save.
LEMMA LoopAppendedKeeps == IInv /\ LoopAppended => IInv'
<1> SUFFICES ASSUME IInv, LoopAppended PROVE IInv'
  OBVIOUS
<1> DEFINE c == loop.cur
<1>1. /\ loop.step = "append" /\ Fire(c) /\ store' = Rescheduled(c, From)
      /\ loop' = [loop EXCEPT !.step = "saving", !.cur = None, !.saved = store']
      /\ UNCHANGED <<disk, timer, now, op, listening, crashes, taken, twice>>
  BY DEF LoopAppended
<1>2. c \in Jobs /\ loop.kind \notin {"down", "idle"}
  BY <1>1 DEF IInv, AwaitsAreWhole
<1>3. /\ store' \in StoreType
      /\ \A k \in Jobs : k # c => store'[k] = store[k]
      /\ store'[c].state = store[c].state
      /\ HasNext(store', c) => store'[c].next \in Nat /\ (c \in Endless \/ store'[c].next > From)
      /\ store[c].state = "on" /\ NextRun(c, now) # None => store'[c].next # None
  BY <1>1, <1>2, FromProperties, RescheduledProperties DEF IInv
<1>4. loop \in LoopType
  BY DEF IInv, TypeOK
<1>5. /\ loop' \in LoopType /\ loop'.step = "saving" /\ loop'.saved = store'
      /\ loop'.kind = loop.kind /\ loop'.left = loop.left /\ loop'.at = loop.at
  BY <1>1, <1>3, <1>4 DEF LoopType
<1>6. pending' \in [Jobs -> Nat] /\ owed' \in SUBSET Jobs
  BY <1>1, <1>2, FireType DEF IInv
<1>7. TypeOK'
  BY <1>1, <1>3, <1>5, <1>6 DEF IInv, TypeOK
<1>8. AwaitsAreWhole'
  BY <1>1, <1>2, <1>3, <1>5 DEF IInv, AwaitsAreWhole
<1>9. EnabledIsArmed' /\ FiresOnce'
  BY <1>1, <1>2, <1>5 DEF IInv, EnabledIsArmed, FiresOnce
<1>10. NeverRunsOut'
  BY <1>1, <1>2, <1>3 DEF IInv, NeverRunsOut
<1>11. RunsMoveOn'
  <2>1. \A k \in Jobs : taken[k] \in Times /\ (taken[k] # None => taken[k] <= now)
    BY DEF IInv, RunsMoveOn, TypeOK
  <2>2. From \in Nat /\ (taken[c] # None => taken[c] <= From)
    BY <1>1, <1>2, <2>1, FromProperties DEF IInv, RunsMoveOn
  <2>3. ASSUME NEW k \in Jobs, HasNext(store', k)
        PROVE  k \in Endless \/ (taken[k] # None => taken[k] < store'[k].next)
    <3>1. CASE k = c
      BY <1>3, <2>1, <2>2, <2>3, <3>1 DEF Times
    <3>2. CASE k # c
      BY <1>3, <2>3, <3>2 DEF IInv, RunsMoveOn, FiredBefore, HasNext
    <3>3. QED
      BY <3>1, <3>2
  <2>4. (\A k \in Jobs : HasNext(store, k) => FiredBefore(k, store[k].next))'
    BY <1>1, <2>3 DEF FiredBefore, HasNext
  <2>5. (\A k \in Jobs : taken[k] # None => taken[k] <= now)'
    BY <1>1, <2>1
  <2>6. (loop.kind = "check" =>
           /\ loop.at <= now
           /\ \A r \in loop.left : r[2] <= loop.at /\ FiredBefore(r[1], r[2])
           /\ \A r, s \in loop.left : r[1] = s[1] => r = s)'
    BY <1>1, <1>5 DEF IInv, RunsMoveOn, FiredBefore
  <2>7. QED
    BY <1>5, <2>4, <2>5, <2>6 DEF RunsMoveOn
<1>12. QED
  BY <1>7, <1>8, <1>9, <1>10, <1>11 DEF IInv

\* The loop takes up its next run.
LEMMA LoopNextKeeps ==
  ASSUME IInv, NEW r0 \in loop.left, LoopNext(r0[1], r0[2])
  PROVE  IInv'
<1> DEFINE j == r0[1]
           t == r0[2]
<1>1. loop \in LoopType /\ loop.step = "next"
  BY DEF IInv, TypeOK, LoopNext
<1>2. j \in Jobs /\ t \in Nat /\ r0 = <<j, t>> /\ loop.kind \notin {"down", "idle"}
  BY <1>1 DEF IInv, AwaitsAreWhole, LoopType
<1>3. UNCHANGED <<disk, timer, now, op, listening, crashes>>
  BY DEF LoopNext
<1>4. /\ loop.kind = "check" =>
           taken' = [taken EXCEPT ![j] = t] /\ (twice' = twice \/ (j \in Endless /\ twice' = twice \cup {j}))
      /\ loop.kind # "check" => UNCHANGED <<taken, twice>>
  <2>1. loop.kind = "check" => j \in Endless \/ taken[j] # t
    BY <1>2, CronServiceAssumption DEF IInv, RunsMoveOn, FiredBefore
  <2>2. QED
    BY <2>1 DEF LoopNext
<1>5. /\ taken' \in [Jobs -> Times] /\ twice' \in SUBSET Jobs
      /\ \A k \in Jobs : k # j \/ loop.kind # "check" => taken'[k] = taken[k]
      /\ loop.kind = "check" => taken'[j] = t
      /\ twice' = twice \/ (j \in Endless /\ twice' = twice \cup {j})
  BY <1>2, <1>4 DEF IInv, TypeOK, Times
<1>6. /\ \A k \in Jobs : taken[k] \in Times /\ (taken[k] # None => taken[k] <= now)
      /\ loop.kind = "check" =>
           /\ loop.at <= now /\ t <= loop.at
           /\ \A r \in loop.left : r[2] <= loop.at /\ FiredBefore(r[1], r[2])
           /\ \A r, s \in loop.left : r[1] = s[1] => r = s
  BY <1>2 DEF IInv, RunsMoveOn, TypeOK
<1>7. loop.at \in Nat /\ now \in Nat
  BY <1>1, CronServiceAssumption DEF LoopType, IInv, TypeOK
<1>8. \A k \in Jobs : taken'[k] # None => taken'[k] <= now
  BY <1>2, <1>5, <1>6, <1>7
<1>9. FiresOnce'
  BY <1>5 DEF IInv, FiresOnce
<1>10. CASE /\ Mode[j] = "isolated"
            /\ loop' = [loop EXCEPT !.step = "append", !.left = @ \ {<<j, t>>}, !.cur = j]
            /\ UNCHANGED <<store, pending, owed>>
  <2>1. /\ loop' \in LoopType /\ loop'.step = "append" /\ loop'.cur = j
        /\ loop'.kind = loop.kind /\ loop'.left = loop.left \ {<<j, t>>} /\ loop'.at = loop.at
    BY <1>1, <1>2, <1>10 DEF LoopType
  <2>2. TypeOK'
    BY <1>3, <1>5, <1>10, <2>1 DEF IInv, TypeOK
  <2>3. AwaitsAreWhole' /\ EnabledIsArmed' /\ NeverRunsOut'
    BY <1>2, <1>3, <1>10, <2>1 DEF IInv, AwaitsAreWhole, EnabledIsArmed, NeverRunsOut
  <2>4. \A r \in loop'.left : r \in loop.left /\ r[1] \in Jobs /\ (loop.kind = "check" => r[1] # j)
    BY <1>1, <1>2, <1>6, <2>1 DEF LoopType
  <2>5. (\A k \in Jobs : HasNext(store, k) =>
           FiredBefore(k, store[k].next) \/ (loop.kind = "check" /\ loop.step = "append" /\ loop.cur = k))'
    <3>1. ASSUME NEW k \in Jobs, HasNext(store, k), k # j \/ loop.kind # "check"
          PROVE  k \in Endless \/ (taken'[k] # None => taken'[k] < store[k].next)
      BY <1>1, <1>5, <3>1 DEF IInv, RunsMoveOn, FiredBefore
    <3>2. QED
      BY <1>10, <2>1, <3>1 DEF FiredBefore, HasNext
  <2>6. (loop.kind = "check" =>
           /\ loop.at <= now
           /\ \A r \in loop.left : r[2] <= loop.at /\ FiredBefore(r[1], r[2])
           /\ \A r, s \in loop.left : r[1] = s[1] => r = s
           /\ loop.step = "append" =>
                /\ taken[loop.cur] # None => taken[loop.cur] <= loop.at
                /\ \A r \in loop.left : r[1] # loop.cur)'
    BY <1>3, <1>5, <1>6, <2>1, <2>4 DEF FiredBefore
  <2>7. RunsMoveOn'
    BY <1>3, <1>8, <2>5, <2>6 DEF RunsMoveOn
  <2>8. QED
    BY <1>9, <2>2, <2>3, <2>7 DEF IInv
<1>11. CASE /\ Mode[j] # "isolated" /\ Fire(j) /\ store' = Rescheduled(j, From)
            /\ loop' = [loop EXCEPT !.step = "saving", !.left = @ \ {<<j, t>>}, !.saved = store']
  <2>1. /\ store' \in StoreType
        /\ \A k \in Jobs : k # j => store'[k] = store[k]
        /\ store'[j].state = store[j].state
        /\ HasNext(store', j) => store'[j].next \in Nat /\ (j \in Endless \/ store'[j].next > From)
        /\ store[j].state = "on" /\ NextRun(j, now) # None => store'[j].next # None
    BY <1>2, <1>11, FromProperties, RescheduledProperties DEF IInv
  <2>2. /\ loop' \in LoopType /\ loop'.step = "saving" /\ loop'.saved = store'
        /\ loop'.kind = loop.kind /\ loop'.left = loop.left \ {<<j, t>>} /\ loop'.at = loop.at
    BY <1>1, <1>11, <2>1 DEF LoopType
  <2>3. pending' \in [Jobs -> Nat] /\ owed' \in SUBSET Jobs
    BY <1>2, <1>11, FireType DEF IInv
  <2>4. TypeOK'
    BY <1>3, <1>5, <2>1, <2>2, <2>3 DEF IInv, TypeOK
  <2>5. AwaitsAreWhole' /\ EnabledIsArmed'
    BY <1>2, <1>3, <2>1, <2>2 DEF IInv, AwaitsAreWhole, EnabledIsArmed
  <2>6. NeverRunsOut'
    BY <1>2, <1>3, <2>1 DEF IInv, NeverRunsOut
  <2>7. From \in Nat /\ (taken'[j] # None => taken'[j] <= From)
    BY <1>2, <1>5, <1>6, <1>8, FromProperties
  <2>8. ASSUME NEW k \in Jobs, HasNext(store', k)
        PROVE  k \in Endless \/ (taken'[k] # None => taken'[k] < store'[k].next)
    <3>1. CASE k = j
      BY <1>5, <2>1, <2>7, <2>8, <3>1 DEF Times
    <3>2. CASE k # j
      BY <1>1, <1>5, <2>1, <2>8, <3>2 DEF IInv, RunsMoveOn, FiredBefore, HasNext
    <3>3. QED
      BY <3>1, <3>2
  <2>9. (\A k \in Jobs : HasNext(store, k) => FiredBefore(k, store[k].next))'
    BY <2>8 DEF FiredBefore, HasNext
  <2>10. \A r \in loop'.left : r \in loop.left /\ r[1] \in Jobs /\ (loop.kind = "check" => r[1] # j)
    BY <1>1, <1>2, <1>6, <2>2 DEF LoopType
  <2>11. (loop.kind = "check" =>
           /\ loop.at <= now
           /\ \A r \in loop.left : r[2] <= loop.at /\ FiredBefore(r[1], r[2])
           /\ \A r, s \in loop.left : r[1] = s[1] => r = s)'
    BY <1>3, <1>5, <1>6, <2>2, <2>10 DEF FiredBefore
  <2>12. RunsMoveOn'
    BY <1>3, <1>8, <2>2, <2>9, <2>11 DEF RunsMoveOn
  <2>13. QED
    BY <1>9, <2>4, <2>5, <2>6, <2>12 DEF IInv
<1>12. QED
  BY <1>10, <1>11 DEF LoopNext

-----------------------------------------------------------------------------
(* The theorems.                                                           *)

LEMMA StepKeeps == IInv /\ [Next]_vars => IInv'
<1> SUFFICES ASSUME IInv, [Next]_vars PROVE IInv'
  OBVIOUS
<1>1. CASE Boot
  BY <1>1, BootKeeps
<1>2. CASE Listen \/ FlushPendingHeartbeat \/ Tick
  BY <1>2, OutsideKeeps
<1>3. CASE TimerFires
  BY <1>3, TimerFiresKeeps
<1>4. CASE LoopStep
  <2>1. CASE \E r \in loop.left : LoopNext(r[1], r[2])
    BY <2>1, LoopNextKeeps
  <2>2. CASE LoopAppended
    BY <2>2, LoopAppendedKeeps
  <2>3. CASE LoopSaved
    BY <2>3, LoopSavedKeeps
  <2>4. CASE LoopEnds
    BY <2>4, LoopEndsKeeps
  <2>5. QED
    BY <1>4, <2>1, <2>2, <2>3, <2>4 DEF LoopStep
<1>5. CASE CheckSaveFails
  BY <1>5, LoopEndsKeeps
<1>6. CASE \E o \in Ops : OpStep(o) \/ MarkComplete(o)
  BY <1>6, RunAppendedKeeps, SavedKeeps, MarkCompleteKeeps DEF OpStep
<1>7. CASE \E o \in Ops, j \in Jobs :
             Add(o, j) \/ Remove(o, j) \/ Enable(o, j) \/ Disable(o, j) \/ Run(o, j)
  BY <1>7, AddKeeps, RemoveKeeps, EnableKeeps, DisableKeeps, RunKeeps
<1>8. CASE Crash
  BY <1>8, CrashKeeps
<1>9. CASE UNCHANGED vars
  <2>1. UNCHANGED <<store, disk, timer, now, loop, op, pending, listening, crashes, owed, taken, twice>>
    BY <1>9 DEF vars
  <2>2. TypeOK' /\ AwaitsAreWhole'
    BY <2>1 DEF IInv, TypeOK, AwaitsAreWhole
  <2>3. EnabledIsArmed' /\ NeverRunsOut' /\ FiresOnce'
    BY <2>1 DEF IInv, EnabledIsArmed, NeverRunsOut, FiresOnce, HasNext
  <2>4. RunsMoveOn'
    BY <2>1 DEF IInv, RunsMoveOn, FiredBefore, HasNext
  <2>5. QED
    BY <2>2, <2>3, <2>4 DEF IInv
<1>10. QED
  BY <1>1, <1>2, <1>3, <1>4, <1>5, <1>6, <1>7, <1>8, <1>9 DEF Next

\* The store, the timer, the check and the commands are always in step.
THEOREM Invariant == Spec => []IInv
<1>1. Init => IInv
  BY InitHolds
<1>2. IInv /\ [Next]_vars => IInv'
  BY StepKeeps
<1>3. QED
  BY <1>1, <1>2, PTL DEF Spec

\* Nothing schedules a job that was removed, in memory, in the file or in a
\* save under way, and every variable keeps its type.
THEOREM TypeCorrect == Spec => []TypeOK
<1>1. IInv => TypeOK
  BY DEF IInv
<1>2. QED
  BY <1>1, Invariant, PTL

\* armTimer is never missed: whenever the service rests, the timer is set for
\* the next run of every enabled job, or sooner.
THEOREM NoLostWakeup == Spec => []EnabledIsArmed
<1>1. IInv => EnabledIsArmed
  BY DEF IInv
<1>2. QED
  BY <1>1, Invariant, PTL

\* check() never fires a run of a job that a check, of this process or of one
\* before a crash, fired already, but for a job of "every 0m", whose next run
\* is the moment it was fired at.
THEOREM NoRunTwice == Spec => []FiresOnce
<1>1. IInv => FiresOnce
  BY DEF IInv
<1>2. QED
  BY <1>1, Invariant, PTL

\* While the process is up an enabled job whose schedule still yields a run has
\* a next run: only a schedule that is exhausted leaves it without.
THEOREM RepeatsForever == Spec => []NeverRunsOut
<1>1. IInv => NeverRunsOut
  BY DEF IInv
<1>2. QED
  BY <1>1, Invariant, PTL
=============================================================================

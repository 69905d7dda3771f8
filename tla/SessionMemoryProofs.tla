------------------------- MODULE SessionMemoryProofs -------------------------
(***************************************************************************)
(* Proofs about SessionMemory, for any bounds, thresholds and intervals.   *)
(***************************************************************************)
EXTENDS SessionMemory, TLAPS

-----------------------------------------------------------------------------
(* The inductive invariant.                                                *)

\* Entries are of the messages there were, and the answer to the message of
\* the run is still to come.
LogIsSound ==
  /\ \A e \in appends \cup ElementsOf(log) : e[1] <= turns
  /\ running => turns > 0 /\ <<turns, "assistant">> \notin appends \cup ElementsOf(log)

\* Of a log that grows: a summary shows the same first messages, and the same
\* last answer or a later one.
Carried(had, es) ==
  /\ Users(had) \subseteq Users(es)
  /\ Answer(had) \subseteq Answer(es) \/ \E e \in Answer(es) \ ElementsOf(had) : IsAssistant(e)

\* What NewSavesTheSession says of the memory file, of any set of summaries.
Covers(items) == \A n \in saved : n.wrote => IsSaved(n, items)

\* A sync that is alone is the only one, and rewrites all that must stay in
\* the memory file; beside one that is not, nothing must stay any more.
SyncsAreSound ==
  /\ \A s \in syncs : s.id <= begun
  /\ \A s, t \in syncs : s.id = t.id \/ (s.why = "start" /\ t.why = "start") => s = t
  /\ \A s, t \in syncs : s.alone => s = t
  /\ \A s \in syncs : ~s.alone => safe = {} /\ saved = {}
  /\ \A s \in syncs : s.alone /\ s.step \in {"open", "write"} =>
                        safe \subseteq s.existing /\ Covers(s.existing)
  /\ \A s \in syncs : s.why = "new" =>
       /\ ElementsOf(s.had) \subseteq ElementsOf(log)
       /\ Carried(s.had, IF s.step = "log" THEN log ELSE s.entries)

\* A state that knows of a flush: of its time and of its size, or later ones.
Knows(o, f) == o.at # None /\ o.at >= f.at /\ o.size >= f.size

\* Once a flush that was alone is stored, every state in use knows of it.
FlushesAreSound ==
  /\ \A f \in flushes \cup flushed : f.id <= turns /\ (running => f.id < turns)
  /\ \A f, g \in flushes : f.alone => f = g
  /\ \A f \in flushes, g \in flushed : f.alone => g.id < f.id
  /\ \A f \in flushes : f.sync # 0 => f.size <= Len(log)
  /\ \A f \in flushed : f.alone =>
       /\ current # 0 /\ Knows(objects[current], f)
       /\ f.size <= Len(log)
       /\ \A g \in flushes :
            /\ Knows(objects[g.state], f)
            /\ g.sync # 0 => g.at >= f.at + MinInterval /\ g.size > f.size

IInv ==
  /\ TypeOK
  /\ LogIsSound
  /\ SyncsAreSound
  /\ FlushesAreSound
  /\ MemoryOnlyGrows
  /\ NewSavesTheSession
  /\ FlushesAreApart

-----------------------------------------------------------------------------
(* A log that grows by an entry.                                           *)

LEMMA LogGrows ==
  ASSUME NEW es \in Seq(Lines), NEW e \in Lines
  PROVE  /\ Append(es, e) \in Seq(Lines) /\ Len(Append(es, e)) = Len(es) + 1
         /\ \A i \in 1 .. Len(es) : Append(es, e)[i] = es[i]
         /\ Append(es, e)[Len(es) + 1] = e
         /\ ElementsOf(Append(es, e)) = ElementsOf(es) \cup {e}
<1>1. /\ Append(es, e) \in Seq(Lines) /\ Len(Append(es, e)) = Len(es) + 1
      /\ \A i \in 1 .. Len(es) : Append(es, e)[i] = es[i]
      /\ Append(es, e)[Len(es) + 1] = e
      /\ Len(es) \in Nat
  OBVIOUS
<1> DEFINE fs == Append(es, e)
<1> HIDE DEF fs
<1>2. ElementsOf(fs) = ElementsOf(es) \cup {e}
  <2>1. \A i \in 1 .. Len(es) : i \in 1 .. Len(fs) /\ fs[i] = es[i]
    BY <1>1 DEF fs
  <2>2. Len(es) + 1 \in 1 .. Len(fs) /\ fs[Len(es) + 1] = e
    BY <1>1 DEF fs
  <2>3. \A i \in 1 .. Len(fs) : i \in 1 .. Len(es) \/ i = Len(es) + 1
    BY <1>1 DEF fs
  <2>4. QED
    BY <2>1, <2>2, <2>3 DEF ElementsOf
<1>3. QED
  BY <1>1, <1>2 DEF fs

\* The first messages stay the first, the last answer the last until the next.
LEMMA SummaryGrows ==
  ASSUME NEW es \in Seq(Lines), NEW e \in Lines
  PROVE  /\ Users(es) \subseteq Users(Append(es, e))
         /\ ~IsAssistant(e) => Answer(es) \subseteq Answer(Append(es, e))
         /\ IsAssistant(e) => e \in Answer(Append(es, e))
<1> DEFINE fs == Append(es, e)
<1>1. /\ Len(fs) = Len(es) + 1 /\ Len(es) \in Nat
      /\ \A i \in 1 .. Len(es) : fs[i] = es[i]
      /\ fs[Len(es) + 1] = e
  BY LogGrows
<1> HIDE DEF fs
<1>2. ASSUME NEW i \in 1 .. Len(es), IsUser(es[i]), Cardinality(UsersBefore(es, i)) < Shown
      PROVE  es[i] \in Users(fs)
  <2>1. UsersBefore(fs, i) = UsersBefore(es, i)
    BY <1>1 DEF UsersBefore
  <2>2. i \in 1 .. Len(fs) /\ fs[i] = es[i]
    BY <1>1
  <2>3. Cardinality(UsersBefore(fs, i)) < Shown
    BY <1>2, <2>1, Zenon
  <2>4. QED
    BY <1>2, <2>2, <2>3 DEF Users
<1>3. ASSUME NEW i \in 1 .. Len(es), IsAssistant(es[i]), AnswersAfter(es, i) = {},
             ~IsAssistant(e)
      PROVE  es[i] \in Answer(fs)
  <2>1. i \in 1 .. Len(fs) /\ fs[i] = es[i]
    BY <1>1
  <2>2. ASSUME NEW k \in i + 1 .. Len(fs), IsAssistant(fs[k])
        PROVE  FALSE
    <3>1. k \in i + 1 .. Len(es) \/ k = Len(es) + 1
      BY <1>1
    <3>2. k \in 1 .. Len(es) => fs[k] = es[k]
      BY <1>1
    <3>3. QED
      BY <1>1, <1>3, <2>2, <3>1, <3>2 DEF AnswersAfter
  <2>3. AnswersAfter(fs, i) = {}
    BY <2>2 DEF AnswersAfter
  <2>4. QED
    BY <1>3, <2>1, <2>3 DEF Answer
<1>4. ASSUME IsAssistant(e)
      PROVE  e \in Answer(fs)
  <2>1. Len(fs) \in 1 .. Len(fs) /\ fs[Len(fs)] = e
    BY <1>1
  <2>2. AnswersAfter(fs, Len(fs)) = {}
    BY <1>1 DEF AnswersAfter
  <2>3. QED
    BY <1>4, <2>1, <2>2 DEF Answer
<1>5. Users(es) \subseteq Users(fs)
  BY <1>2 DEF Users
<1>6. ~IsAssistant(e) => Answer(es) \subseteq Answer(fs)
  BY <1>3 DEF Answer
<1>7. QED
  BY <1>4, <1>5, <1>6 DEF fs

LEMMA CarriedOn ==
  ASSUME NEW had, NEW es \in Seq(Lines), NEW e \in Lines, e \notin ElementsOf(had),
         Carried(had, es)
  PROVE  Carried(had, Append(es, e))
<1>1. Users(had) \subseteq Users(Append(es, e))
  BY SummaryGrows DEF Carried
<1>2. CASE IsAssistant(e)
  BY <1>1, <1>2, SummaryGrows DEF Carried
<1>3. CASE ~IsAssistant(e)
  BY <1>1, <1>3, SummaryGrows DEF Carried
<1>4. QED
  BY <1>2, <1>3

-----------------------------------------------------------------------------
(* The parts of the invariant, by the variables they are about.            *)

LogOK ==
  /\ log \in Seq(Lines) /\ appends \subseteq Entries
  /\ \A i, k \in 1 .. Len(log) : i # k /\ log[i] # Torn => log[i] # log[k]
  /\ appends \cap ElementsOf(log) = {}
  /\ turns \in 0 .. MaxTurns /\ running \in BOOLEAN
  /\ LogIsSound

MemoryOK ==
  /\ memory \subseteq Items /\ safe \subseteq Items
  /\ saved \subseteq [by : Nat, had : Seq(Lines), wrote : BOOLEAN]
  /\ syncs \subseteq Syncs
  /\ bridge = IF \E s \in syncs : s.why = "start" THEN "starting" ELSE "up"
  /\ SyncsAreSound
  /\ MemoryOnlyGrows
  /\ NewSavesTheSession

FlushOK ==
  /\ flushes \subseteq Flushes /\ flushed \subseteq Flushes
  /\ objects \in Seq([at : Nat \cup {None}, size : Nat])
  /\ \A f \in flushes : f.state \in 1 .. Len(objects)
  /\ current \in 0 .. Len(objects)
  /\ FlushesAreSound
  /\ FlushesAreApart

LinkOK == \A s \in syncs : s.why = "flush" => \E f \in flushes : f.sync = s.id

CountersOK ==
  begun \in Nat /\ news \in Nat /\ notes \in Nat /\ crashes \in Nat /\ time \in Nat

LEMMA Parts ==
  IInv <=> LogOK /\ MemoryOK /\ FlushOK /\ LinkOK /\ CountersOK
<1>1. {begun, news, notes, crashes, time} \subseteq Nat <=> CountersOK
  BY DEF CountersOK
<1>2. QED
  BY <1>1, Zenon DEF IInv, TypeOK, LogOK, MemoryOK, FlushOK, LinkOK

LEMMA LogStays ==
  ASSUME LogOK, UNCHANGED <<log, appends, turns, running>>
  PROVE  LogOK'
BY DEF LogOK, LogIsSound

LEMMA MemoryStays ==
  ASSUME MemoryOK, UNCHANGED <<memory, safe, saved, syncs, bridge, begun, log>>
  PROVE  MemoryOK'
BY DEF MemoryOK, SyncsAreSound, Covers, MemoryOnlyGrows, NewSavesTheSession, NotWriting

LEMMA FlushStays ==
  ASSUME FlushOK, UNCHANGED <<flushVars, turns, running, log>>
  PROVE  FlushOK'
BY DEF FlushOK, FlushesAreSound, FlushesAreApart, flushVars

LEMMA LinkStays ==
  ASSUME LinkOK, UNCHANGED <<syncs, flushes>>
  PROVE  LinkOK'
BY DEF LinkOK

-----------------------------------------------------------------------------
(* The syncs.                                                              *)

\* A sync begins, and from then on neither it nor any other is alone, unless
\* there is no other.
LEMMA BeginKeepsMemory ==
  ASSUME MemoryOK, LogOK, begun \in Nat, NEW why \in {"new", "flush"},
         syncs' = SyncsWith(why), NoOverlap, begun' = begun + 1,
         UNCHANGED <<memory, bridge, log>>
  PROVE  MemoryOK'
<1> DEFINE n == NewSync(begun + 1, why, syncs = {})
           Sh(s) == [s EXCEPT !.alone = FALSE]
<1>1. syncs' = {Sh(s) : s \in syncs} \cup {n}
  BY DEF SyncsWith
<1>2. syncs \subseteq Syncs /\ log \in Seq(Lines)
  BY DEF MemoryOK, LogOK
<1>3. /\ n \in Syncs /\ n.id = begun + 1 /\ n.why = why /\ n.step = "log"
      /\ n.had = IF why = "new" THEN log ELSE <<>>
      /\ syncs # {} => ~n.alone
  <2>1. (syncs = {}) \in BOOLEAN /\ (IF why = "new" THEN log ELSE <<>>) \in Seq(Lines)
        /\ <<>> \in Seq(Lines)
    BY <1>2
  <2>2. n \in Syncs
    BY <2>1 DEF Syncs, NewSync
  <2>3. n.alone = (syncs = {})
    BY Zenon DEF NewSync
  <2>4. n.id = begun + 1 /\ n.why = why /\ n.step = "log"
        /\ n.had = IF why = "new" THEN log ELSE <<>>
    BY Zenon DEF NewSync
  <2>5. QED
    BY <2>2, <2>3, <2>4
<1>4. \A s \in syncs : /\ Sh(s) \in Syncs /\ Sh(s).id = s.id /\ Sh(s).why = s.why
                       /\ Sh(s).step = s.step /\ Sh(s).had = s.had /\ Sh(s).entries = s.entries
  BY <1>2 DEF Syncs
<1>5. \A s \in syncs : ~Sh(s).alone
  BY <1>2 DEF Syncs
<1>6. \A s \in syncs : s.id \in Nat \ {0}
  BY <1>2 DEF Syncs
<1> HIDE DEF n, Sh
<1>7. syncs = {} => UNCHANGED <<safe, saved>>
  BY DEF NoOverlap
<1>8. syncs # {} => safe' = {} /\ saved' = {}
  BY DEF NoOverlap
<1>9. SyncsAreSound'
  <2>1. \A s \in syncs' : s.id <= begun'
    BY <1>1, <1>3, <1>4, <1>6 DEF MemoryOK, SyncsAreSound
  <2>2. ASSUME NEW s \in syncs', NEW t \in syncs',
               s.id = t.id \/ (s.why = "start" /\ t.why = "start")
        PROVE  s = t
    <3>1. CASE s = n \/ t = n
      <4>1. \A u \in syncs : Sh(u).id # n.id
        BY <1>3, <1>4, <1>6 DEF MemoryOK, SyncsAreSound
      <4>2. QED
        BY <1>1, <1>3, <2>2, <3>1, <4>1
    <3>2. CASE s # n /\ t # n
      <4>1. PICK u \in syncs : s = Sh(u)
        BY <1>1, <3>2
      <4>2. PICK v \in syncs : t = Sh(v)
        BY <1>1, <3>2
      <4>3. u = v
        BY <1>4, <2>2, <4>1, <4>2 DEF MemoryOK, SyncsAreSound
      <4>4. QED
        BY <4>1, <4>2, <4>3
    <3>3. QED
      BY <3>1, <3>2
  <2>3. \A s, t \in syncs' : s.alone => s = t
    BY <1>1, <1>3, <1>5
  <2>4. \A s \in syncs' : ~s.alone => safe' = {} /\ saved' = {}
    <3>1. CASE syncs = {}
      <4>1. n.alone
        BY <3>1, Zenon DEF n, NewSync
      <4>2. QED
        BY <1>1, <3>1, <4>1
    <3>2. CASE syncs # {}
      BY <1>8, <3>2
    <3>3. QED
      BY <3>1, <3>2
  <2>5. \A s \in syncs' : s.alone => s.step = "log"
    BY <1>1, <1>3, <1>5
  <2>6. ASSUME NEW s \in syncs', s.why = "new"
        PROVE  /\ ElementsOf(s.had) \subseteq ElementsOf(log)
               /\ Carried(s.had, IF s.step = "log" THEN log ELSE s.entries)
    <3>1. CASE s = n
      BY <1>3, <2>6, <3>1 DEF Carried
    <3>2. ASSUME NEW u \in syncs, s = Sh(u)
          PROVE  /\ ElementsOf(s.had) \subseteq ElementsOf(log)
                 /\ Carried(s.had, IF s.step = "log" THEN log ELSE s.entries)
      BY <1>4, <2>6, <3>2 DEF MemoryOK, SyncsAreSound
    <3>3. QED
      BY <1>1, <3>1, <3>2
  <2>7. \A s \in syncs' : s.alone /\ s.step \in {"open", "write"} =>
                            safe' \subseteq s.existing /\ Covers(s.existing)'
    BY <2>5
  <2>8. QED
    BY <2>1, <2>2, <2>3, <2>4, <2>6, <2>7 DEF SyncsAreSound
<1>10. MemoryOnlyGrows' /\ NewSavesTheSession'
  <2>1. CASE syncs = {}
    BY <1>7, <2>1 DEF MemoryOK, MemoryOnlyGrows, NewSavesTheSession, NotWriting
  <2>2. CASE syncs # {}
    BY <1>8, <2>2 DEF MemoryOnlyGrows, NewSavesTheSession
  <2>3. QED
    BY <2>1, <2>2
<1>11. bridge' = IF \E s \in syncs' : s.why = "start" THEN "starting" ELSE "up"
  BY <1>1, <1>3, <1>4 DEF MemoryOK
<1>12. /\ memory' \subseteq Items /\ safe' \subseteq Items
       /\ saved' \subseteq [by : Nat, had : Seq(Lines), wrote : BOOLEAN]
  BY <1>7, <1>8 DEF MemoryOK
<1>13. syncs' \subseteq Syncs
  BY <1>1, <1>3, <1>4
<1>14. QED
  BY <1>9, <1>10, <1>11, <1>12, <1>13 DEF MemoryOK

\* A sync takes a step: it is the same sync, and no other changes.
LEMMA AdvanceKeepsSyncs ==
  ASSUME MemoryOK, NEW s \in syncs, NEW x \in Syncs, syncs' = (syncs \ {s}) \cup {x},
         x.id = s.id, x.why = s.why, x.had = s.had, x.alone = s.alone, x.step # "log",
         x.entries = IF s.step = "log" THEN log ELSE s.entries,
         safe' \subseteq safe, saved' \subseteq saved,
         x.alone /\ x.step \in {"open", "write"} =>
           safe' \subseteq x.existing /\ \A n \in saved' : n.wrote => IsSaved(n, x.existing),
         UNCHANGED <<bridge, begun, log>>
  PROVE  /\ SyncsAreSound' /\ syncs' \subseteq Syncs
         /\ bridge' = IF \E t \in syncs' : t.why = "start" THEN "starting" ELSE "up"
<1>1. SyncsAreSound /\ syncs \subseteq Syncs
  BY DEF MemoryOK
<1>2. \A t \in syncs' : t = x \/ (t \in syncs /\ t # s)
  OBVIOUS
<1>3. x.alone <=> s.alone
  BY Zenon
<1>4. SyncsAreSound'
  <2>1. \A t \in syncs' : t.id <= begun'
    BY <1>1, <1>2 DEF SyncsAreSound
  <2>2. \A t, u \in syncs' : t.id = u.id \/ (t.why = "start" /\ u.why = "start") => t = u
    BY <1>1, <1>2 DEF SyncsAreSound
  <2>3. \A t, u \in syncs' : t.alone => t = u
    BY <1>1, <1>2, <1>3 DEF SyncsAreSound
  <2>4. \A t \in syncs' : ~t.alone => safe' = {} /\ saved' = {}
    BY <1>1, <1>2, <1>3 DEF SyncsAreSound
  <2>5. \A t \in syncs' : t.alone /\ t.step \in {"open", "write"} =>
                            safe' \subseteq t.existing /\ Covers(t.existing)'
    BY <1>1, <1>2 DEF SyncsAreSound, Covers
  <2>6. \A t \in syncs' : t.why = "new" =>
          /\ ElementsOf(t.had) \subseteq ElementsOf(log)
          /\ Carried(t.had, IF t.step = "log" THEN log ELSE t.entries)
    BY <1>1, <1>2 DEF SyncsAreSound
  <2>7. QED
    BY <2>1, <2>2, <2>3, <2>4, <2>5, <2>6 DEF SyncsAreSound
<1>5. bridge' = IF \E t \in syncs' : t.why = "start" THEN "starting" ELSE "up"
  BY <1>2 DEF MemoryOK
<1>6. QED
  BY <1>1, <1>4, <1>5

\* A sync returns: nothing else has to become true of those that remain.
LEMMA ReturnKeepsSyncs ==
  ASSUME MemoryOK, NEW s \in syncs, syncs' = syncs \ {s},
         bridge' = IF s.why = "start" THEN "up" ELSE bridge,
         syncs' # {} => UNCHANGED <<safe, saved>>,
         UNCHANGED <<begun, log>>
  PROVE  /\ SyncsAreSound' /\ syncs' \subseteq Syncs
         /\ bridge' = IF \E t \in syncs' : t.why = "start" THEN "starting" ELSE "up"
<1>1. SyncsAreSound /\ syncs \subseteq Syncs
  BY DEF MemoryOK
<1>2. SyncsAreSound'
  <2>1. CASE syncs' = {}
    BY <2>1 DEF SyncsAreSound
  <2>2. CASE syncs' # {}
    BY <1>1, <2>2 DEF SyncsAreSound, Covers
  <2>3. QED
    BY <2>1, <2>2
<1>3. bridge' = IF \E t \in syncs' : t.why = "start" THEN "starting" ELSE "up"
  <2>1. CASE s.why = "start"
    BY <1>1, <2>1 DEF SyncsAreSound
  <2>2. CASE s.why # "start"
    BY <2>2 DEF MemoryOK
  <2>3. QED
    BY <2>1, <2>2
<1>4. QED
  BY <1>1, <1>2, <1>3

\* What a /new is told of its own sync, if no other overlapped it.
LEMMA ToldOfItself ==
  ASSUME NEW s \in Syncs, NEW wrote \in BOOLEAN
  PROVE  /\ Told(s, wrote) \subseteq [by : Nat, had : Seq(Lines), wrote : BOOLEAN]
         /\ ~s.alone => Told(s, wrote) = {}
         /\ \A n \in Told(s, wrote) :
              /\ s.why = "new" /\ n.by = s.id /\ n.had = s.had
              /\ n.wrote = wrote
<1>1. s.id \in Nat /\ s.had \in Seq(Lines)
  BY DEF Syncs
<1>2. [by |-> s.id, had |-> s.had, wrote |-> wrote]
        \in [by : Nat, had : Seq(Lines), wrote : BOOLEAN]
  BY <1>1
<1> DEFINE n == [by |-> s.id, had |-> s.had, wrote |-> wrote]
<1>3. n.by = s.id /\ n.had = s.had /\ n.wrote = wrote
  BY Zenon
<1>4. Told(s, wrote) = IF s.alone /\ s.why = "new" THEN {n} ELSE {}
  BY Zenon DEF Told
<1> HIDE DEF n
<1>5. ~s.alone => Told(s, wrote) = {}
  BY <1>4
<1>6. \A m \in Told(s, wrote) : s.why = "new" /\ m = n
  BY <1>4
<1>7. QED
  BY <1>2, <1>3, <1>5, <1>6, Zenon DEF n

LEMMA ReadLogKeepsMemory ==
  ASSUME MemoryOK, LogOK, NEW s \in syncs, ReadLog(s)
  PROVE  MemoryOK'
<1> DEFINE x == [s EXCEPT !.step = "memory", !.entries = log]
<1>1. /\ s \in Syncs /\ s.step = "log" /\ syncs' = (syncs \ {s}) \cup {x}
      /\ UNCHANGED <<log, memory, begun, safe, saved, bridge>>
  BY DEF MemoryOK, ReadLog
<1>2. x \in Syncs /\ x.step = "memory" /\ x.entries = log
  BY <1>1 DEF Syncs, LogOK
<1>3. x.id = s.id /\ x.why = s.why /\ x.had = s.had /\ x.alone = s.alone
  BY <1>1, Zenon DEF Syncs
<1> HIDE DEF x
<1>4. /\ SyncsAreSound' /\ syncs' \subseteq Syncs
      /\ bridge' = IF \E t \in syncs' : t.why = "start" THEN "starting" ELSE "up"
  BY <1>1, <1>2, <1>3, AdvanceKeepsSyncs
<1>5. NotWriting' => NotWriting
  BY <1>1 DEF NotWriting
<1>6. QED
  BY <1>1, <1>4, <1>5 DEF MemoryOK, MemoryOnlyGrows, NewSavesTheSession

\* A sync that has nothing to write leaves the memory file as it is.
LEMMA LogUnreadKeepsMemory ==
  ASSUME MemoryOK, NEW s \in syncs, LogUnread(s)
  PROVE  MemoryOK'
<1>1. /\ s \in Syncs /\ s.step = "log" /\ syncs' = syncs \ {s}
      /\ bridge' = IF s.why = "start" THEN "up" ELSE bridge
      /\ saved' = saved \cup Told(s, FALSE)
      /\ UNCHANGED <<log, memory, begun, safe>>
  BY DEF MemoryOK, LogUnread, Returns
<1>2. syncs' # {} => ~s.alone
  BY <1>1 DEF MemoryOK, SyncsAreSound
<1>3. ~s.alone => saved' = saved
  BY <1>1, ToldOfItself
<1>4. /\ SyncsAreSound' /\ syncs' \subseteq Syncs
      /\ bridge' = IF \E t \in syncs' : t.why = "start" THEN "starting" ELSE "up"
  BY <1>1, <1>2, <1>3, ReturnKeepsSyncs
<1>5. NotWriting' => NotWriting
  BY <1>1 DEF NotWriting
<1>6. \A n \in saved' : n.wrote => n \in saved
  BY <1>1, ToldOfItself
<1>7. saved' \subseteq [by : Nat, had : Seq(Lines), wrote : BOOLEAN]
  BY <1>1, ToldOfItself DEF MemoryOK
<1>8. QED
  BY <1>1, <1>4, <1>5, <1>6, <1>7 DEF MemoryOK, MemoryOnlyGrows, NewSavesTheSession

\* What has failed by the time of its write leaves the memory file as it is;
\* after it, nothing is promised.
LEMMA SyncFailsKeepsMemory ==
  ASSUME MemoryOK, NEW s \in syncs, SyncFails(s)
  PROVE  MemoryOK'
<1>1. /\ s \in Syncs /\ syncs' = syncs \ {s}
      /\ bridge' = IF s.why = "start" THEN "up" ELSE bridge
      /\ safe' = IF s.step = "write" THEN {} ELSE safe
      /\ saved' = (IF s.step = "write" THEN {} ELSE saved) \cup Told(s, FALSE)
      /\ UNCHANGED <<log, memory, begun>>
  BY DEF MemoryOK, SyncFails, Returns
<1>2. syncs' # {} => ~s.alone
  BY <1>1 DEF MemoryOK, SyncsAreSound
<1>3. ~s.alone => UNCHANGED <<safe, saved>>
  <2>1. ~s.alone => safe = {} /\ saved = {} /\ Told(s, FALSE) = {}
    BY <1>1, ToldOfItself DEF MemoryOK, SyncsAreSound
  <2>2. QED
    BY <1>1, <2>1
<1>4. /\ SyncsAreSound' /\ syncs' \subseteq Syncs
      /\ bridge' = IF \E t \in syncs' : t.why = "start" THEN "starting" ELSE "up"
  BY <1>1, <1>2, <1>3, ReturnKeepsSyncs
<1>5. NotWriting' => NotWriting \/ s.step = "write"
  BY <1>1 DEF NotWriting
<1>6. \A n \in saved' : n.wrote => n \in saved /\ s.step # "write"
  BY <1>1, ToldOfItself
<1>7. /\ safe' \subseteq Items
      /\ saved' \subseteq [by : Nat, had : Seq(Lines), wrote : BOOLEAN]
  BY <1>1, ToldOfItself DEF MemoryOK
<1>8. MemoryOnlyGrows' /\ NewSavesTheSession'
  BY <1>1, <1>5, <1>6 DEF MemoryOK, MemoryOnlyGrows, NewSavesTheSession
<1>9. QED
  BY <1>1, <1>4, <1>7, <1>8 DEF MemoryOK

\* What is read while nobody writes has all that must stay.
LEMMA ReadMemoryKeepsMemory ==
  ASSUME MemoryOK, NEW s \in syncs, ReadMemory(s)
  PROVE  MemoryOK'
<1> DEFINE x == [s EXCEPT !.step = "open", !.existing = memory]
<1>1. /\ s \in Syncs /\ s.step = "memory" /\ syncs' = (syncs \ {s}) \cup {x}
      /\ UNCHANGED <<log, memory, begun, safe, saved, bridge>>
  BY DEF MemoryOK, ReadMemory
<1>2. x \in Syncs /\ x.step = "open" /\ x.existing = memory /\ x.entries = s.entries
  BY <1>1 DEF Syncs, MemoryOK
<1>3. x.id = s.id /\ x.why = s.why /\ x.had = s.had /\ x.alone = s.alone
  BY <1>1, Zenon DEF Syncs
<1> HIDE DEF x
<1>4. ASSUME x.alone
      PROVE  safe \subseteq memory /\ \A n \in saved : n.wrote => IsSaved(n, memory)
  <2>1. s.alone
    BY <1>3, <1>4, Zenon
  <2>2. NotWriting
    BY <1>1, <2>1 DEF MemoryOK, SyncsAreSound, NotWriting
  <2>3. QED
    BY <2>2 DEF MemoryOK, MemoryOnlyGrows, NewSavesTheSession
<1>5. /\ SyncsAreSound' /\ syncs' \subseteq Syncs
      /\ bridge' = IF \E t \in syncs' : t.why = "start" THEN "starting" ELSE "up"
  BY <1>1, <1>2, <1>3, <1>4, AdvanceKeepsSyncs
<1>6. NotWriting' => NotWriting
  BY <1>1 DEF NotWriting
<1>7. QED
  BY <1>1, <1>5, <1>6 DEF MemoryOK, MemoryOnlyGrows, NewSavesTheSession

\* Of a file that is not empty and could not be read, nothing must stay.
LEMMA MemoryUnreadKeepsMemory ==
  ASSUME MemoryOK, NEW s \in syncs, MemoryUnread(s)
  PROVE  MemoryOK'
<1> DEFINE x == [s EXCEPT !.step = "open", !.existing = {}]
<1>1. /\ s \in Syncs /\ s.step = "memory" /\ syncs' = (syncs \ {s}) \cup {x}
      /\ IF memory = {} THEN UNCHANGED <<safe, saved>> ELSE safe' = {} /\ saved' = {}
      /\ UNCHANGED <<log, memory, begun, bridge>>
  BY DEF MemoryOK, MemoryUnread
<1>2. x \in Syncs /\ x.step = "open" /\ x.existing = {} /\ x.entries = s.entries
  BY <1>1 DEF Syncs
<1>3. x.id = s.id /\ x.why = s.why /\ x.had = s.had /\ x.alone = s.alone
  BY <1>1, Zenon DEF Syncs
<1> HIDE DEF x
<1>4. safe' \subseteq safe /\ saved' \subseteq saved
  BY <1>1
<1>5. ASSUME x.alone
      PROVE  safe' \subseteq {} /\ \A n \in saved' : n.wrote => IsSaved(n, {})
  <2>1. s.alone
    BY <1>3, <1>5, Zenon
  <2>2. NotWriting
    BY <1>1, <2>1 DEF MemoryOK, SyncsAreSound, NotWriting
  <2>3. QED
    BY <1>1, <2>2 DEF MemoryOK, MemoryOnlyGrows, NewSavesTheSession
<1>6. /\ SyncsAreSound' /\ syncs' \subseteq Syncs
      /\ bridge' = IF \E t \in syncs' : t.why = "start" THEN "starting" ELSE "up"
  BY <1>1, <1>2, <1>3, <1>4, <1>5, AdvanceKeepsSyncs
<1>7. NotWriting' => NotWriting
  BY <1>1 DEF NotWriting
<1>8. QED
  BY <1>1, <1>4, <1>6, <1>7 DEF MemoryOK, MemoryOnlyGrows, NewSavesTheSession

LEMMA OpenKeepsMemory ==
  ASSUME MemoryOK, NEW s \in syncs, OpenMemory(s)
  PROVE  MemoryOK'
<1> DEFINE x == [s EXCEPT !.step = "write"]
<1>1. /\ s \in Syncs /\ s.step = "open" /\ syncs' = (syncs \ {s}) \cup {x} /\ memory' = {}
      /\ UNCHANGED <<log, begun, safe, saved, bridge>>
  BY DEF MemoryOK, OpenMemory
<1>2. x \in Syncs /\ x.step = "write" /\ x.existing = s.existing /\ x.entries = s.entries
  BY <1>1 DEF Syncs
<1>3. x.id = s.id /\ x.why = s.why /\ x.had = s.had /\ x.alone = s.alone
  BY <1>1, Zenon DEF Syncs
<1> HIDE DEF x
<1>4. ASSUME x.alone
      PROVE  safe \subseteq x.existing /\ \A n \in saved : n.wrote => IsSaved(n, x.existing)
  <2>1. s.alone
    BY <1>3, <1>4, Zenon
  <2>2. QED
    BY <1>1, <1>2, <2>1 DEF MemoryOK, SyncsAreSound, Covers
<1>5. /\ SyncsAreSound' /\ syncs' \subseteq Syncs
      /\ bridge' = IF \E t \in syncs' : t.why = "start" THEN "starting" ELSE "up"
  BY <1>1, <1>2, <1>3, <1>4, AdvanceKeepsSyncs
<1>6. ~NotWriting'
  BY <1>1, <1>2 DEF NotWriting
<1>7. QED
  BY <1>1, <1>5, <1>6 DEF MemoryOK, MemoryOnlyGrows, NewSavesTheSession

\* The write of a sync that was alone keeps what it had read, and adds what
\* was in the log when it began.
LEMMA WriteKeepsMemory ==
  ASSUME MemoryOK, NEW s \in syncs, WriteMemory(s)
  PROVE  MemoryOK'
<1>1. /\ s \in Syncs /\ s.step = "write" /\ memory' = s.existing \cup {Section(s)}
      /\ syncs' = syncs \ {s} /\ bridge' = IF s.why = "start" THEN "up" ELSE bridge
      /\ safe' = IF s.alone THEN safe \cup memory' ELSE safe
      /\ saved' = saved \cup Told(s, TRUE)
      /\ UNCHANGED <<log, begun>>
  BY DEF MemoryOK, WriteMemory, Returns
<1>2. Section(s) \in Items /\ Section(s).by = s.id /\ Section(s).shows = Summary(s.entries)
  <2>1. \A es \in Seq(Lines) : Users(es) \subseteq Lines /\ Answer(es) \subseteq Lines
    BY DEF Users, Answer
  <2>2. Summary(s.entries) \subseteq Lines /\ s.id \in Nat
    BY <1>1, <2>1 DEF Syncs, Summary
  <2>3. QED
    BY <2>2 DEF Section, Items
<1>3. memory' \subseteq Items
  BY <1>1, <1>2 DEF Syncs
<1>4. syncs' # {} => ~s.alone
  BY <1>1 DEF MemoryOK, SyncsAreSound
<1>5. ~s.alone => UNCHANGED <<safe, saved>> /\ safe = {} /\ saved = {}
  BY <1>1, ToldOfItself DEF MemoryOK, SyncsAreSound
<1>6. /\ SyncsAreSound' /\ syncs' \subseteq Syncs
      /\ bridge' = IF \E t \in syncs' : t.why = "start" THEN "starting" ELSE "up"
  BY <1>1, <1>4, <1>5, ReturnKeepsSyncs
<1>7. safe' \subseteq Items /\ saved' \subseteq [by : Nat, had : Seq(Lines), wrote : BOOLEAN]
  BY <1>1, <1>3, ToldOfItself DEF MemoryOK
<1>8. safe' \subseteq memory'
  <2>1. CASE s.alone
    BY <1>1, <2>1 DEF MemoryOK, SyncsAreSound
  <2>2. CASE ~s.alone
    BY <1>5, <2>2
  <2>3. QED
    BY <2>1, <2>2
<1>9. \A n \in saved' : n.wrote => IsSaved(n, memory')
  <2> SUFFICES ASSUME NEW n \in saved', n.wrote
               PROVE  IsSaved(n, memory')
    OBVIOUS
  <2>1. CASE ~s.alone
    BY <1>5, <2>1
  <2>2. CASE s.alone /\ n \in saved
    BY <1>1, <2>2 DEF MemoryOK, SyncsAreSound, Covers, IsSaved
  <2>3. CASE s.alone /\ n \notin saved
    <3>1. s.why = "new" /\ n.by = s.id /\ n.had = s.had
      BY <1>1, <2>3, ToldOfItself
    <3>2. Carried(s.had, s.entries)
      BY <1>1, <3>1 DEF MemoryOK, SyncsAreSound
    <3>3. Section(s) \in memory'
      BY <1>1
    <3>4. QED
      BY <1>2, <3>1, <3>2, <3>3 DEF Carried, Summary, IsSaved
  <2>4. QED
    BY <2>1, <2>2, <2>3
<1>10. QED
  BY <1>3, <1>6, <1>7, <1>8, <1>9 DEF MemoryOK, MemoryOnlyGrows, NewSavesTheSession

\* A note, and an entry of the log.
LEMMA NoteKeepsMemory ==
  ASSUME MemoryOK, WriteNote
  PROVE  MemoryOK'
<1>1. /\ memory' = memory \cup {Note}
      /\ safe' = IF syncs = {} THEN safe \cup {Note} ELSE safe
      /\ UNCHANGED <<syncs, saved, bridge, begun, log>>
  BY DEF WriteNote
<1>2. Note \in Items
  BY DEF Note, Items
<1>3. SyncsAreSound'
  <2>1. CASE syncs = {}
    BY <1>1, <2>1 DEF SyncsAreSound
  <2>2. CASE syncs # {}
    BY <1>1, <2>2 DEF MemoryOK, SyncsAreSound, Covers
  <2>3. QED
    BY <2>1, <2>2
<1>4. MemoryOnlyGrows'
  BY <1>1 DEF MemoryOK, MemoryOnlyGrows, NotWriting
<1>5. NewSavesTheSession'
  BY <1>1 DEF MemoryOK, NewSavesTheSession, NotWriting, IsSaved
<1>6. QED
  BY <1>1, <1>2, <1>3, <1>4, <1>5 DEF MemoryOK

LEMMA EntryKeepsMemory ==
  ASSUME MemoryOK, LogOK, NEW e \in appends, LogEntry(e)
  PROVE  MemoryOK'
<1>1. /\ log \in Seq(Lines) /\ e \in Lines /\ e \notin ElementsOf(log)
      /\ log' = Append(log, e)
      /\ UNCHANGED <<memory, safe, saved, syncs, bridge, begun>>
  BY DEF LogOK, LogEntry, Lines
<1>2. ElementsOf(log) \subseteq ElementsOf(log')
  BY <1>1, LogGrows
<1>3. SyncsAreSound'
  <2>1. ASSUME NEW s \in syncs, s.why = "new"
        PROVE  /\ ElementsOf(s.had) \subseteq ElementsOf(log')
               /\ Carried(s.had, IF s.step = "log" THEN log' ELSE s.entries)
    <3>1. /\ ElementsOf(s.had) \subseteq ElementsOf(log)
          /\ Carried(s.had, IF s.step = "log" THEN log ELSE s.entries)
      BY <2>1 DEF MemoryOK, SyncsAreSound
    <3>2. CASE s.step = "log"
      BY <1>1, <1>2, <3>1, <3>2, CarriedOn
    <3>3. CASE s.step # "log"
      BY <1>2, <3>1, <3>3
    <3>4. QED
      BY <3>2, <3>3
  <2>2. QED
    BY <1>1, <2>1 DEF MemoryOK, SyncsAreSound, Covers
<1>4. QED
  BY <1>1, <1>3 DEF MemoryOK, MemoryOnlyGrows, NewSavesTheSession, NotWriting

LEMMA CrashKeepsMemory ==
  ASSUME MemoryOK, begun \in Nat, Crash
  PROVE  MemoryOK'
<1> DEFINE n == NewSync(begun + 1, "start", TRUE)
<1>1. /\ syncs' = {n} /\ begun' = begun + 1 /\ bridge' = "starting"
      /\ IF \E s \in syncs : s.step = "write" THEN safe' = {} /\ saved' = {}
         ELSE UNCHANGED <<safe, saved>>
      /\ UNCHANGED memory
  BY DEF Crash
<1>2. n \in Syncs /\ n.id = begun + 1 /\ n.why = "start" /\ n.step = "log"
  <2>1. <<>> \in Seq(Lines)
    OBVIOUS
  <2>2. QED
    BY <2>1 DEF NewSync, Syncs
<1>3. n.alone
  BY Zenon DEF NewSync
<1> HIDE DEF n
<1>4. SyncsAreSound'
  BY <1>1, <1>2, <1>3 DEF SyncsAreSound
<1>5. MemoryOnlyGrows' /\ NewSavesTheSession'
  <2>1. CASE \E s \in syncs : s.step = "write"
    BY <1>1, <2>1 DEF MemoryOnlyGrows, NewSavesTheSession
  <2>2. CASE NotWriting
    BY <1>1, <2>2 DEF MemoryOK, MemoryOnlyGrows, NewSavesTheSession, NotWriting
  <2>3. QED
    BY <2>1, <2>2 DEF NotWriting
<1>6. QED
  BY <1>1, <1>2, <1>4, <1>5 DEF MemoryOK

-----------------------------------------------------------------------------
(* The log.                                                                *)

LEMMA MessageKeepsLog ==
  ASSUME LogOK, Message
  PROVE  LogOK'
<1>1. /\ appends = {} /\ turns < MaxTurns /\ turns' = turns + 1 /\ running' = TRUE
      /\ appends' = {<<turns + 1, "user">>} /\ log' = log
  BY DEF Message
<1>2. MaxTurns \in Nat /\ turns \in Nat
  BY SessionMemoryAssumption DEF LogOK
<1>3. \A e \in ElementsOf(log) : e[1] \in Nat /\ e[1] <= turns
  <2>1. ElementsOf(log) \subseteq Lines
    BY DEF LogOK, ElementsOf
  <2>2. \A e \in Lines : e[1] \in Nat
    BY DEF Lines, Entries, Torn
  <2>3. QED
    BY <2>1, <2>2 DEF LogOK, LogIsSound
<1>4. <<turns + 1, "user">> \in Entries /\ <<turns + 1, "user">>[1] = turns + 1
  BY <1>1, <1>2 DEF Entries
<1>5. <<turns + 1, "assistant">>[1] = turns + 1
      /\ <<turns + 1, "assistant">> # <<turns + 1, "user">>
  OBVIOUS
<1>6. /\ <<turns + 1, "user">> \notin ElementsOf(log)
      /\ <<turns + 1, "assistant">> \notin ElementsOf(log)
  BY <1>2, <1>3, <1>4, <1>5
<1>7. LogIsSound'
  <2>1. \A e \in appends' \cup ElementsOf(log') : e[1] <= turns'
    BY <1>1, <1>2, <1>3, <1>4 DEF Entries
  <2>2. turns' > 0 /\ <<turns', "assistant">> \notin appends' \cup ElementsOf(log')
    BY <1>1, <1>2, <1>5, <1>6
  <2>3. QED
    BY <2>1, <2>2 DEF LogIsSound
<1>8. QED
  BY <1>1, <1>2, <1>4, <1>6, <1>7 DEF LogOK

LEMMA AnsweredKeepsLog ==
  ASSUME LogOK, Answered
  PROVE  LogOK'
<1>1. /\ running /\ running' = FALSE /\ turns' = turns /\ log' = log
      /\ appends' = appends \cup {<<turns, "assistant">>}
  BY DEF Answered
<1>2. turns \in 1 .. MaxTurns /\ <<turns, "assistant">> \notin ElementsOf(log)
  BY <1>1, SessionMemoryAssumption DEF LogOK, LogIsSound
<1>3. <<turns, "assistant">> \in Entries /\ <<turns, "assistant">>[1] = turns
  BY <1>2 DEF Entries
<1>4. LogIsSound'
  BY <1>1, <1>2, <1>3 DEF LogOK, LogIsSound
<1>5. QED
  BY <1>1, <1>2, <1>3, <1>4 DEF LogOK

LEMMA EntryKeepsLog ==
  ASSUME LogOK, NEW e \in appends, LogEntry(e)
  PROVE  LogOK'
<1>1. /\ log \in Seq(Lines) /\ e \in Lines /\ e \notin ElementsOf(log)
      /\ log' = Append(log, e) /\ appends' = appends \ {e} /\ turns' = turns /\ running' = running
  BY DEF LogOK, LogEntry, chatVars, Lines
<1>2. /\ log' \in Seq(Lines) /\ Len(log') = Len(log) + 1 /\ Len(log) \in Nat
      /\ \A i \in 1 .. Len(log) : log'[i] = log[i]
      /\ log'[Len(log) + 1] = e
      /\ ElementsOf(log') = ElementsOf(log) \cup {e}
  BY <1>1, LogGrows
<1>3. \A i \in 1 .. Len(log) : log[i] # e
  BY <1>1 DEF ElementsOf
<1>4. \A i, k \in 1 .. Len(log') : i # k /\ log'[i] # Torn => log'[i] # log'[k]
  BY <1>2, <1>3 DEF LogOK
<1>5. appends' \cup ElementsOf(log') = appends \cup ElementsOf(log)
  BY <1>1, <1>2
<1>6. LogIsSound'
  BY <1>1, <1>5 DEF LogOK, LogIsSound
<1>7. QED
  BY <1>1, <1>2, <1>4, <1>6 DEF LogOK

\* An append that is cut off leaves a line that is not an entry.
LEMMA CrashKeepsLog ==
  ASSUME LogOK, Crash
  PROVE  LogOK'
<1>1. appends' = {} /\ turns' = turns /\ running' = FALSE
  BY DEF Crash
<1>2. CASE log' = log
  BY <1>1, <1>2 DEF LogOK, LogIsSound
<1>3. CASE log' = Append(log, Torn)
  <2>1. log \in Seq(Lines) /\ Torn \in Lines /\ turns \in Nat
    BY SessionMemoryAssumption DEF LogOK, Lines
  <2>2. /\ log' \in Seq(Lines) /\ Len(log') = Len(log) + 1 /\ Len(log) \in Nat
        /\ \A i \in 1 .. Len(log) : log'[i] = log[i]
        /\ log'[Len(log) + 1] = Torn
        /\ ElementsOf(log') = ElementsOf(log) \cup {Torn}
    BY <1>3, <2>1, LogGrows
  <2>3. \A i, k \in 1 .. Len(log') : i # k /\ log'[i] # Torn => log'[i] # log'[k]
    BY <2>2 DEF LogOK
  <2>4. Torn[1] = 0
    BY DEF Torn
  <2>5. LogIsSound'
    BY <1>1, <2>1, <2>2, <2>4 DEF LogOK, LogIsSound
  <2>6. QED
    BY <1>1, <2>2, <2>3, <2>5 DEF LogOK
<1>4. QED
  BY <1>2, <1>3 DEF Crash

-----------------------------------------------------------------------------
(* The flushes.                                                            *)

ObjectType == [at : Nat \cup {None}, size : Nat]

LEMMA ObjectsGrow ==
  ASSUME NEW os \in Seq(ObjectType), NEW o \in ObjectType
  PROVE  /\ Append(os, o) \in Seq(ObjectType) /\ Len(Append(os, o)) = Len(os) + 1
         /\ Len(os) \in Nat
         /\ \A i \in 1 .. Len(os) : Append(os, o)[i] = os[i]
         /\ Append(os, o)[Len(os) + 1] = o
OBVIOUS

LEMMA MessageKeepsFlushes ==
  ASSUME FlushOK, LogOK, Message
  PROVE  FlushOK'
<1>1. turns' = turns + 1 /\ turns \in Nat /\ UNCHANGED <<flushes, flushed, objects, current, log>>
  BY DEF Message, flushVars, LogOK
<1>2. \A f \in flushes \cup flushed : f.id \in Nat /\ f.id <= turns
  BY DEF FlushOK, Flushes, FlushesAreSound
<1>3. \A f \in flushes \cup flushed : f.id <= turns' /\ f.id < turns'
  BY <1>1, <1>2
<1>4. FlushesAreSound'
  BY <1>1, <1>3 DEF FlushOK, FlushesAreSound
<1>5. QED
  BY <1>1, <1>4 DEF FlushOK, FlushesAreApart

LEMMA EntryKeepsFlushes ==
  ASSUME FlushOK, LogOK, NEW e \in appends, LogEntry(e)
  PROVE  FlushOK'
<1>1. /\ UNCHANGED <<flushes, flushed, objects, current, turns, running>>
      /\ log \in Seq(Lines) /\ e \in Lines /\ log' = Append(log, e)
  BY DEF LogOK, LogEntry, flushVars, chatVars, Lines
<1>2. Len(log') = Len(log) + 1 /\ Len(log) \in Nat
  BY <1>1
<1>3. \A f \in flushes \cup flushed : f.size \in Nat
  BY DEF FlushOK, Flushes
<1>4. \A f \in flushes \cup flushed : f.size <= Len(log) => f.size <= Len(log')
  BY <1>2, <1>3
<1>5. FlushesAreSound'
  BY <1>1, <1>4 DEF FlushOK, FlushesAreSound
<1>6. QED
  BY <1>1, <1>5 DEF FlushOK, FlushesAreApart

LEMMA CrashKeepsFlushes ==
  ASSUME Crash
  PROVE  FlushOK'
<1>1. /\ flushes' = {} /\ flushed' = {} /\ objects' = <<>> /\ current' = 0
  BY DEF Crash
<1>2. objects' \in Seq(ObjectType) /\ Len(objects') = 0
  BY <1>1
<1>3. QED
  BY <1>1, <1>2 DEF FlushOK, FlushesAreSound, FlushesAreApart, ObjectType

\* A flush begins with the state that is current, which knows of every flush
\* that was stored alone.
LEMMA AnsweredKeepsFlushes ==
  ASSUME FlushOK, LogOK, Answered
  PROVE  FlushOK'
<1> DEFINE n == [id |-> turns, state |-> IF current = 0 THEN Len(objects') ELSE current,
                 sync |-> 0, at |-> 0, size |-> 0, alone |-> flushes = {}]
           Sh(f) == [f EXCEPT !.alone = FALSE]
<1>1. /\ running /\ running' = FALSE /\ turns' = turns /\ turns \in Nat
      /\ flushes' = {Sh(f) : f \in flushes} \cup {n}
      /\ objects' = IF current = 0 THEN Append(objects, [at |-> None, size |-> 0]) ELSE objects
      /\ UNCHANGED <<current, flushed, log>>
  BY DEF Answered, LogOK
<1>2. /\ flushes \subseteq Flushes /\ flushed \subseteq Flushes /\ objects \in Seq(ObjectType)
      /\ current \in 0 .. Len(objects)
  BY DEF FlushOK, ObjectType
<1>3. /\ objects' \in Seq(ObjectType) /\ Len(objects) \in Nat /\ Len(objects') \in Nat
      /\ Len(objects) <= Len(objects')
      /\ \A i \in 1 .. Len(objects) : objects'[i] = objects[i]
      /\ current = 0 => Len(objects') = Len(objects) + 1
  <2>1. [at |-> None, size |-> 0] \in ObjectType
    BY DEF ObjectType
  <2>2. QED
    BY <1>1, <1>2, <2>1, ObjectsGrow
<1>4. /\ n \in Flushes /\ n.id = turns /\ n.sync = 0 /\ n.state \in 1 .. Len(objects')
      /\ current # 0 => n.state = current
  <2>1. (IF current = 0 THEN Len(objects') ELSE current) \in 1 .. Len(objects')
    BY <1>2, <1>3
  <2>2. (flushes = {}) \in BOOLEAN
    OBVIOUS
  <2>3. QED
    BY <1>1, <1>3, <2>1, <2>2 DEF Flushes
<1>5. flushes # {} => ~n.alone
  <2>1. n.alone = (flushes = {})
    BY Zenon
  <2>2. QED
    BY <2>1
<1>6. \A f \in flushes : /\ Sh(f) \in Flushes /\ Sh(f).id = f.id /\ Sh(f).state = f.state
                         /\ Sh(f).sync = f.sync /\ Sh(f).at = f.at /\ Sh(f).size = f.size
  BY <1>2 DEF Flushes
<1>7. \A f \in flushes : ~Sh(f).alone
  BY <1>2 DEF Flushes
<1> HIDE DEF n, Sh
<1>8. \A f \in flushes \cup flushed : f.id \in Nat /\ f.id < turns
  BY <1>1, <1>2 DEF FlushOK, FlushesAreSound, Flushes
<1>9. FlushesAreSound'
  <2>1. \A f \in flushes' \cup flushed' : f.id <= turns'
    BY <1>1, <1>4, <1>6, <1>8
  <2>2. \A f, g \in flushes' : f.alone => f = g
    BY <1>1, <1>5, <1>7
  <2>3. \A f \in flushes', g \in flushed' : f.alone => g.id < f.id
    BY <1>1, <1>4, <1>7, <1>8
  <2>4. \A f \in flushes' : f.sync # 0 => f.size <= Len(log')
    BY <1>1, <1>4, <1>6 DEF FlushOK, FlushesAreSound
  <2>5. ASSUME NEW f \in flushed, f.alone
        PROVE  /\ current # 0 /\ Knows(objects'[current], f)
               /\ f.size <= Len(log)
               /\ \A g \in flushes' :
                    /\ Knows(objects'[g.state], f)
                    /\ g.sync # 0 => g.at >= f.at + MinInterval /\ g.size > f.size
    <3>1. /\ current # 0 /\ Knows(objects[current], f)
          /\ f.size <= Len(log)
          /\ \A g \in flushes :
               /\ Knows(objects[g.state], f)
               /\ g.sync # 0 => g.at >= f.at + MinInterval /\ g.size > f.size
      BY <2>5 DEF FlushOK, FlushesAreSound
    <3>2. objects' = objects
      BY <1>1, <3>1
    <3>3. QED
      BY <1>1, <1>4, <1>6, <3>1, <3>2
  <2>6. QED
    BY <1>1, <2>1, <2>2, <2>3, <2>4, <2>5 DEF FlushesAreSound
<1>10. \A f \in flushes' : f.state \in 1 .. Len(objects')
  <2>1. \A f \in flushes : f.state \in 1 .. Len(objects')
    BY <1>3 DEF FlushOK
  <2>2. QED
    BY <1>1, <1>4, <1>6, <2>1
<1>11. QED
  BY <1>1, <1>2, <1>3, <1>4, <1>6, <1>9, <1>10 DEF FlushOK, FlushesAreApart, ObjectType

\* What a flush that goes nowhere leaves of the flushes.
LEMMA FewerFlushes ==
  ASSUME FlushOK, NEW f \in flushes, flushes' = flushes \ {f},
         objects' \in Seq(ObjectType), Len(objects') = Len(objects),
         current' \in 0 .. Len(objects'),
         \A h \in flushed : h.alone =>
            /\ current' # 0 /\ Knows(objects'[current'], h)
            /\ \A g \in flushes : Knows(objects'[g.state], h),
         UNCHANGED <<flushed, log, turns, running>>
  PROVE  FlushOK'
<1>1. FlushesAreSound /\ flushes' \subseteq flushes
  BY DEF FlushOK
<1>2. FlushesAreSound'
  <2>1. \A g \in flushes' \cup flushed' : g.id <= turns' /\ (running' => g.id < turns')
    BY <1>1 DEF FlushesAreSound
  <2>2. \A g, h \in flushes' : g.alone => g = h
    BY <1>1 DEF FlushesAreSound
  <2>3. \A g \in flushes', h \in flushed' : g.alone => h.id < g.id
    BY <1>1 DEF FlushesAreSound
  <2>4. \A g \in flushes' : g.sync # 0 => g.size <= Len(log')
    BY <1>1 DEF FlushesAreSound
  <2>5. \A h \in flushed : h.alone =>
          /\ h.size <= Len(log)
          /\ \A g \in flushes : g.sync # 0 => g.at >= h.at + MinInterval /\ g.size > h.size
    BY <1>1 DEF FlushesAreSound
  <2>6. QED
    BY <2>1, <2>2, <2>3, <2>4, <2>5 DEF FlushesAreSound
<1>3. QED
  BY <1>1, <1>2 DEF FlushOK, FlushesAreApart, ObjectType

\* A state keeps its time and takes the length of the log, which is no less.
LEMMA DeclinedKeepsFlushes ==
  ASSUME FlushOK, LogOK, NEW f \in flushes, FlushDeclined(f)
  PROVE  FlushOK'
<1>1. /\ objects' = [objects EXCEPT ![f.state].size = Len(log)]
      /\ current' = f.state /\ flushes' = flushes \ {f}
      /\ UNCHANGED <<flushed, log, turns, running>>
  BY DEF FlushDeclined, chatVars
<1>2. /\ objects \in Seq(ObjectType) /\ f.state \in 1 .. Len(objects) /\ Len(log) \in Nat
      /\ Len(objects) \in Nat
  BY DEF FlushOK, ObjectType, LogOK
<1>3. /\ \A i \in 1 .. Len(objects) : objects[i] \in ObjectType
      /\ objects' = [objects EXCEPT ![f.state] = [objects[f.state] EXCEPT !.size = Len(log)]]
  BY <1>1, <1>2
<1>4. /\ [objects[f.state] EXCEPT !.size = Len(log)] \in ObjectType
      /\ [objects[f.state] EXCEPT !.size = Len(log)].at = objects[f.state].at
      /\ [objects[f.state] EXCEPT !.size = Len(log)].size = Len(log)
  BY <1>2, <1>3 DEF ObjectType
<1>5. /\ objects' \in Seq(ObjectType) /\ Len(objects') = Len(objects)
      /\ objects'[f.state].at = objects[f.state].at /\ objects'[f.state].size = Len(log)
      /\ \A i \in 1 .. Len(objects) : i # f.state => objects'[i] = objects[i]
  BY <1>2, <1>3, <1>4
<1>6. ASSUME NEW h \in flushed, h.alone
      PROVE  /\ current' # 0 /\ Knows(objects'[current'], h)
             /\ \A g \in flushes : Knows(objects'[g.state], h)
  <2>1. h.size <= Len(log) /\ \A g \in flushes : Knows(objects[g.state], h)
    BY <1>6 DEF FlushOK, FlushesAreSound
  <2>2. \A i \in 1 .. Len(objects) : Knows(objects[i], h) => Knows(objects'[i], h)
    BY <1>5, <2>1 DEF Knows
  <2>3. \A g \in flushes : g.state \in 1 .. Len(objects)
    BY DEF FlushOK
  <2>4. \A g \in flushes : Knows(objects'[g.state], h)
    BY <2>1, <2>2, <2>3
  <2>5. Knows(objects'[current'], h)
    BY <1>1, <2>4, Zenon
  <2>6. current' # 0
    BY <1>1, <1>2
  <2>7. QED
    BY <2>4, <2>5, <2>6
<1>7. QED
  BY <1>1, <1>2, <1>5, <1>6, FewerFlushes

LEMMA IdleKeepsFlushes ==
  ASSUME FlushOK, NEW f \in flushes, FlushIdle(f)
  PROVE  FlushOK'
<1>1. /\ flushes' = flushes \ {f}
      /\ UNCHANGED <<objects, current, flushed, log, turns, running>>
  BY DEF FlushIdle, chatVars
<1>2. objects \in Seq(ObjectType) /\ current \in 0 .. Len(objects)
  BY DEF FlushOK, ObjectType
<1>3. ASSUME NEW h \in flushed, h.alone
      PROVE  /\ current # 0 /\ Knows(objects[current], h)
             /\ \A g \in flushes : Knows(objects[g.state], h)
  BY <1>3 DEF FlushOK, FlushesAreSound
<1>4. QED
  BY <1>1, <1>2, <1>3, FewerFlushes

\* The state that a flush has taken knows of every flush stored alone, so the
\* flush is late enough, and has more to write.
LEMMA BeginsKeepsFlushes ==
  ASSUME FlushOK, LogOK, CountersOK, NEW f \in flushes, FlushBegins(f)
  PROVE  FlushOK'
<1> DEFINE x == [f EXCEPT !.sync = begun + 1, !.at = time, !.size = Len(log)]
<1>1. /\ f.sync = 0 /\ ~TooSoon(f) /\ Len(log) > objects[f.state].size
      /\ flushes' = (flushes \ {f}) \cup {x}
      /\ UNCHANGED <<objects, current, flushed, log, turns, running>>
  BY DEF FlushBegins, MayFlush, chatVars
<1>2. f \in Flushes /\ begun \in Nat /\ time \in Nat /\ Len(log) \in Nat
  BY DEF FlushOK, CountersOK, LogOK
<1>3. /\ x \in Flushes /\ x.id = f.id /\ x.state = f.state
      /\ x.at = time /\ x.size = Len(log) /\ x.sync = begun + 1
  <2>1. begun + 1 \in Nat
    BY <1>2
  <2>2. x \in Flushes
    BY <1>2, <2>1 DEF Flushes
  <2>3. x.id = f.id /\ x.state = f.state
    BY <1>2, Zenon DEF Flushes
  <2>4. x.at = time /\ x.size = Len(log) /\ x.sync = begun + 1
    BY <1>2, Zenon DEF Flushes
  <2>5. QED
    BY <2>2, <2>3, <2>4
<1>4. x.alone = f.alone
  BY <1>2, Zenon DEF Flushes
<1> HIDE DEF x
<1>5. x.alone <=> f.alone
  BY <1>4, Zenon
<1>6. FlushesAreSound
  BY DEF FlushOK
<1>7. FlushesAreSound'
  <2>1. \A g \in flushes' \cup flushed' : g.id <= turns' /\ (running' => g.id < turns')
    BY <1>1, <1>3, <1>6 DEF FlushesAreSound
  <2>2. \A g, h \in flushes' : g.alone => g = h
    BY <1>1, <1>5, <1>6 DEF FlushesAreSound
  <2>3. \A g \in flushes', h \in flushed' : g.alone => h.id < g.id
    BY <1>1, <1>3, <1>5, <1>6 DEF FlushesAreSound
  <2>4. \A g \in flushes' : g.sync # 0 => g.size <= Len(log')
    BY <1>1, <1>2, <1>3, <1>6 DEF FlushesAreSound
  <2>5. ASSUME NEW h \in flushed, h.alone
        PROVE  /\ current # 0 /\ Knows(objects[current], h)
               /\ h.size <= Len(log)
               /\ \A g \in flushes' :
                    /\ Knows(objects[g.state], h)
                    /\ g.sync # 0 => g.at >= h.at + MinInterval /\ g.size > h.size
    <3>1. /\ current # 0 /\ Knows(objects[current], h)
          /\ h.size <= Len(log)
          /\ \A g \in flushes :
               /\ Knows(objects[g.state], h)
               /\ g.sync # 0 => g.at >= h.at + MinInterval /\ g.size > h.size
      BY <1>6, <2>5 DEF FlushesAreSound
    <3>2. h.at \in Nat /\ h.size \in Nat /\ MinInterval \in Nat
      BY SessionMemoryAssumption DEF FlushOK, Flushes
    <3> DEFINE o == objects[f.state]
    <3>3. /\ o \in ObjectType /\ Knows(o, h) /\ Len(log) > o.size
          /\ ~(o.at # None /\ time < o.at + MinInterval)
      <4>1. objects \in Seq(ObjectType) /\ f.state \in 1 .. Len(objects)
        BY DEF FlushOK, ObjectType
      <4>2. o \in ObjectType
        BY <4>1
      <4>3. QED
        BY <1>1, <3>1, <4>2, Zenon DEF TooSoon
    <3> HIDE DEF o
    <3>4. o.at \in Nat /\ o.size \in Nat /\ o.at >= h.at /\ o.size >= h.size /\ o.at # None
      BY <3>3 DEF Knows, ObjectType
    <3>5. time >= h.at + MinInterval /\ Len(log) > h.size
      BY <1>2, <3>2, <3>3, <3>4
    <3>6. ASSUME NEW g \in flushes'
          PROVE  /\ Knows(objects'[g.state], h)
                 /\ g.sync # 0 => g.at >= h.at + MinInterval /\ g.size > h.size
      <4>1. CASE g \in flushes
        BY <1>1, <3>1, <4>1
      <4>2. CASE g = x
        <5>1. objects'[g.state] = o
          BY <1>1, <1>3, <4>2, Zenon DEF o
        <5>2. Knows(objects'[g.state], h)
          BY <3>3, <5>1, Zenon
        <5>3. g.at >= h.at + MinInterval /\ g.size > h.size
          BY <1>3, <3>5, <4>2, Zenon
        <5>4. QED
          BY <5>2, <5>3
      <4>3. QED
        BY <1>1, <4>1, <4>2
    <3>7. QED
      BY <1>1, <3>1, <3>6
  <2>6. QED
    BY <1>1, <2>1, <2>2, <2>3, <2>4, <2>5 DEF FlushesAreSound
<1>8. QED
  BY <1>1, <1>3, <1>7 DEF FlushOK, FlushesAreApart

\* The flush that is stored is later than every flush stored alone; if it was
\* alone itself there is no other in progress, and none is later.
LEMMA StoredKeepsFlushes ==
  ASSUME FlushOK, NEW s \in Syncs, FlushStored(s), UNCHANGED <<log, turns, running>>
  PROVE  FlushOK'
<1>1. PICK f \in flushes :
        /\ f.sync = s.id
        /\ objects' = Append(objects, [at |-> f.at, size |-> f.size])
        /\ current' = Len(objects')
        /\ flushes' = flushes \ {f}
        /\ flushed' = flushed \cup {f}
  BY DEF FlushStored
<1>2. f \in Flushes /\ f.sync # 0
  BY <1>1 DEF FlushOK, Syncs
<1>3. [at |-> f.at, size |-> f.size] \in ObjectType /\ objects \in Seq(ObjectType)
  BY <1>2 DEF FlushOK, Flushes, ObjectType
<1>4. /\ objects' \in Seq(ObjectType) /\ Len(objects') = Len(objects) + 1 /\ Len(objects) \in Nat
      /\ \A i \in 1 .. Len(objects) : objects'[i] = objects[i]
      /\ objects'[current'] = [at |-> f.at, size |-> f.size]
      /\ current' \in 1 .. Len(objects')
  BY <1>1, <1>3, ObjectsGrow
<1>5. \A g \in flushes \cup flushed : g.at \in Nat /\ g.size \in Nat /\ g.id \in Nat
  BY DEF FlushOK, Flushes
<1>6. FlushesAreSound /\ MinInterval \in Nat /\ None \notin Nat
  BY SessionMemoryAssumption DEF FlushOK
<1>7. \A h \in flushed : h.alone => f.at >= h.at + MinInterval /\ f.size > h.size
  BY <1>2, <1>6 DEF FlushesAreSound
<1>8. f.alone => flushes' = {} /\ \A h \in flushed : h.id < f.id
  BY <1>1, <1>6 DEF FlushesAreSound
<1>9. f.size <= Len(log)
  BY <1>2, <1>6 DEF FlushesAreSound
<1>10. /\ objects'[current'].at = f.at /\ objects'[current'].size = f.size
       /\ f.at \in Nat /\ f.size \in Nat /\ f.at # None
  BY <1>4, <1>5, <1>6
<1>11. /\ Knows(objects'[current'], f)
       /\ \A h \in flushed : h.alone => Knows(objects'[current'], h)
  <2>1. f.at >= f.at /\ f.size >= f.size
    BY <1>10
  <2>2. \A h \in flushed : h.alone => f.at >= h.at /\ f.size >= h.size
    BY <1>5, <1>6, <1>7, <1>10
  <2>3. QED
    BY <1>10, <2>1, <2>2, Zenon DEF Knows
<1>12. \A g \in flushes : g.state \in 1 .. Len(objects)
  BY DEF FlushOK
<1>13. FlushesAreSound'
  <2>1. \A g \in flushes' \cup flushed' : g.id <= turns' /\ (running' => g.id < turns')
    BY <1>1, <1>6 DEF FlushesAreSound
  <2>2. \A g, h \in flushes' : g.alone => g = h
    BY <1>1, <1>6 DEF FlushesAreSound
  <2>3. \A g \in flushes', h \in flushed' : g.alone => h.id < g.id
    <3>1. \A g \in flushes' : g.alone => g = f
      BY <1>1, <1>6 DEF FlushesAreSound
    <3>2. \A g \in flushes' : g # f
      BY <1>1
    <3>3. QED
      BY <3>1, <3>2
  <2>4. \A g \in flushes' : g.sync # 0 => g.size <= Len(log')
    BY <1>1, <1>6 DEF FlushesAreSound
  <2>5. ASSUME NEW h \in flushed', h.alone
        PROVE  /\ current' # 0 /\ Knows(objects'[current'], h)
               /\ h.size <= Len(log)
               /\ \A g \in flushes' :
                    /\ Knows(objects'[g.state], h)
                    /\ g.sync # 0 => g.at >= h.at + MinInterval /\ g.size > h.size
    <3>1. CASE h = f
      BY <1>4, <1>8, <1>9, <1>11, <2>5, <3>1
    <3>2. CASE h \in flushed
      BY <1>1, <1>4, <1>6, <1>11, <1>12, <2>5, <3>2 DEF FlushesAreSound
    <3>3. QED
      BY <1>1, <3>1, <3>2
  <2>6. QED
    BY <2>1, <2>2, <2>3, <2>4, <2>5 DEF FlushesAreSound
<1>14. FlushesAreApart'
  <2> SUFFICES ASSUME NEW h \in flushed', NEW g \in flushed', h.id < g.id, h.alone
               PROVE  g.at >= h.at + MinInterval /\ g.size > h.size
    BY DEF FlushesAreApart
  <2>1. CASE h \in flushed /\ g \in flushed
    BY <2>1 DEF FlushOK, FlushesAreApart
  <2>2. CASE h \in flushed /\ g = f
    BY <1>7, <2>2
  <2>3. CASE h = f
    BY <1>1, <1>2, <1>5, <1>8, <2>3
  <2>4. QED
    BY <1>1, <2>1, <2>2, <2>3
<1>15. QED
  BY <1>1, <1>2, <1>4, <1>12, <1>13, <1>14 DEF FlushOK, ObjectType

-----------------------------------------------------------------------------
(* Each sync of a flush has its flush.                                     *)

\* A flush that is not in a sync is the flush of none.
LEMMA LinkWithoutIdle ==
  ASSUME LinkOK, MemoryOK, NEW f \in flushes, f.sync = 0,
         \A g \in flushes \ {f} : \E h \in flushes' : h.sync = g.sync,
         syncs' = syncs
  PROVE  LinkOK'
<1>1. \A s \in syncs : s.id # 0
  BY DEF MemoryOK, Syncs
<1>2. QED
  BY <1>1 DEF LinkOK

LEMMA AnsweredKeepsLink ==
  ASSUME LinkOK, FlushOK, Answered
  PROVE  LinkOK'
<1> DEFINE Sh(f) == [f EXCEPT !.alone = FALSE]
<1>1. \A f \in flushes : Sh(f) \in flushes'
  BY DEF Answered
<1>2. \A f \in flushes : Sh(f).sync = f.sync
  BY DEF FlushOK, Flushes
<1>3. syncs' = syncs
  BY DEF Answered
<1> HIDE DEF Sh
<1>4. QED
  BY <1>1, <1>2, <1>3 DEF LinkOK

LEMMA FlushLeavesKeepLink ==
  ASSUME LinkOK, MemoryOK, NEW f \in flushes, FlushDeclined(f) \/ FlushIdle(f)
  PROVE  LinkOK'
<1>1. f.sync = 0 /\ flushes' = flushes \ {f} /\ syncs' = syncs
  BY DEF FlushDeclined, FlushIdle, MayFlush
<1>2. QED
  BY <1>1, LinkWithoutIdle

\* The syncs there were, alone or not, and one more.
LEMMA BeginKeepsLink ==
  ASSUME LinkOK, MemoryOK, NEW why, syncs' = SyncsWith(why),
         \A f \in flushes : f.sync # 0 => f \in flushes',
         why = "flush" => \E f \in flushes' : f.sync = begun + 1
  PROVE  LinkOK'
<1> DEFINE n == NewSync(begun + 1, why, syncs = {})
           Sh(s) == [s EXCEPT !.alone = FALSE]
<1>1. syncs' = {Sh(s) : s \in syncs} \cup {n}
  BY DEF SyncsWith
<1>2. \A s \in syncs : Sh(s).id = s.id /\ Sh(s).why = s.why /\ s.id # 0
  BY DEF MemoryOK, Syncs
<1>3. n.id = begun + 1 /\ n.why = why
  BY Zenon DEF NewSync
<1> HIDE DEF n, Sh
<1>4. QED
  BY <1>1, <1>2, <1>3 DEF LinkOK

LEMMA FlushBeginsKeepsLink ==
  ASSUME LinkOK, MemoryOK, FlushOK, NEW f \in flushes, FlushBegins(f)
  PROVE  LinkOK'
<1> DEFINE x == [f EXCEPT !.sync = begun + 1, !.at = time, !.size = Len(log)]
<1>1. /\ f.sync = 0 /\ flushes' = (flushes \ {f}) \cup {x} /\ syncs' = SyncsWith("flush")
  BY DEF FlushBegins, MayFlush
<1>2. x.sync = begun + 1
  <2>1. f \in Flushes
    BY DEF FlushOK
  <2>2. QED
    BY <2>1, Zenon DEF Flushes
<1> HIDE DEF x
<1>3. QED
  BY <1>1, <1>2, BeginKeepsLink

LEMMA AdvanceKeepsLink ==
  ASSUME LinkOK, NEW s \in syncs, NEW x, x.id = s.id, x.why = s.why,
         syncs' = (syncs \ {s}) \cup {x}, flushes' = flushes
  PROVE  LinkOK'
BY DEF LinkOK

LEMMA ReturnKeepsLink ==
  ASSUME LinkOK, MemoryOK, NEW s \in syncs, syncs' = syncs \ {s}, Returns(s)
  PROVE  LinkOK'
<1>1. \A t \in syncs' : t \in syncs /\ t.id # s.id
  BY DEF MemoryOK, SyncsAreSound
<1>2. CASE s.why = "flush"
  <2>1. PICK f \in flushes : f.sync = s.id /\ flushes' = flushes \ {f}
    BY <1>2 DEF Returns, FlushStored
  <2>2. QED
    BY <1>1, <2>1 DEF LinkOK
<1>3. CASE s.why # "flush"
  BY <1>1, <1>3 DEF LinkOK, Returns, flushVars
<1>4. QED
  BY <1>2, <1>3

LEMMA SyncStepKeepsLink ==
  ASSUME LinkOK, MemoryOK, NEW s \in syncs, SyncStep(s)
  PROVE  LinkOK'
<1>1. s \in Syncs
  BY DEF MemoryOK
<1>2. CASE LogUnread(s)
  BY <1>2, ReturnKeepsLink DEF LogUnread
<1>3. CASE ReadLog(s)
  <2> DEFINE x == [s EXCEPT !.step = "memory", !.entries = log]
  <2>1. x.id = s.id /\ x.why = s.why
    BY <1>1, Zenon DEF Syncs
  <2>2. syncs' = (syncs \ {s}) \cup {x} /\ flushes' = flushes
    BY <1>3 DEF ReadLog, flushVars
  <2>3. QED
    BY <2>1, <2>2, AdvanceKeepsLink
<1>4. CASE ReadMemory(s)
  <2> DEFINE x == [s EXCEPT !.step = "open", !.existing = memory]
  <2>1. x.id = s.id /\ x.why = s.why
    BY <1>1, Zenon DEF Syncs
  <2>2. syncs' = (syncs \ {s}) \cup {x} /\ flushes' = flushes
    BY <1>4 DEF ReadMemory, flushVars
  <2>3. QED
    BY <2>1, <2>2, AdvanceKeepsLink
<1>5. CASE OpenMemory(s)
  <2> DEFINE x == [s EXCEPT !.step = "write"]
  <2>1. x.id = s.id /\ x.why = s.why
    BY <1>1, Zenon DEF Syncs
  <2>2. syncs' = (syncs \ {s}) \cup {x} /\ flushes' = flushes
    BY <1>5 DEF OpenMemory, flushVars
  <2>3. QED
    BY <2>1, <2>2, AdvanceKeepsLink
<1>6. CASE WriteMemory(s)
  BY <1>6, ReturnKeepsLink DEF WriteMemory
<1>7. CASE MemoryUnread(s)
  <2> DEFINE x == [s EXCEPT !.step = "open", !.existing = {}]
  <2>1. x.id = s.id /\ x.why = s.why
    BY <1>1, Zenon DEF Syncs
  <2>2. syncs' = (syncs \ {s}) \cup {x} /\ flushes' = flushes
    BY <1>7 DEF MemoryUnread, flushVars
  <2>3. QED
    BY <2>1, <2>2, AdvanceKeepsLink
<1>8. CASE SyncFails(s)
  BY <1>8, ReturnKeepsLink DEF SyncFails
<1>9. QED
  BY <1>2, <1>3, <1>4, <1>5, <1>6, <1>7, <1>8 DEF SyncStep

LEMMA CrashKeepsLink ==
  ASSUME Crash
  PROVE  LinkOK'
<1>1. syncs' = {NewSync(begun + 1, "start", TRUE)}
  BY DEF Crash
<1>2. NewSync(begun + 1, "start", TRUE).why = "start"
  BY DEF NewSync
<1>3. QED
  BY <1>1, <1>2 DEF LinkOK

-----------------------------------------------------------------------------
(* The steps.                                                              *)

\* The flushes of a step of a sync: one is stored, or none changes.
LEMMA SyncStepKeepsFlushes ==
  ASSUME FlushOK, MemoryOK, NEW s \in syncs, SyncStep(s)
  PROVE  FlushOK'
<1>1. s \in Syncs /\ UNCHANGED <<log, turns, running>>
  BY DEF MemoryOK, SyncStep, ReadLog, LogUnread, ReadMemory, MemoryUnread,
     OpenMemory, WriteMemory, SyncFails, chatVars
<1>2. FlushStored(s) \/ UNCHANGED flushVars
  BY DEF SyncStep, ReadLog, LogUnread, ReadMemory, MemoryUnread,
     OpenMemory, WriteMemory, SyncFails, Returns
<1>3. CASE FlushStored(s)
  BY <1>1, <1>3, StoredKeepsFlushes
<1>4. CASE UNCHANGED flushVars
  BY <1>1, <1>4, FlushStays
<1>5. QED
  BY <1>2, <1>3, <1>4

LEMMA SyncStepKeepsMemory ==
  ASSUME MemoryOK, LogOK, NEW s \in syncs, SyncStep(s)
  PROVE  MemoryOK'
BY ReadLogKeepsMemory, LogUnreadKeepsMemory, ReadMemoryKeepsMemory, MemoryUnreadKeepsMemory,
   OpenKeepsMemory, WriteKeepsMemory, SyncFailsKeepsMemory DEF SyncStep

LEMMA StepKeepsCounters ==
  ASSUME CountersOK, [Next]_vars
  PROVE  CountersOK'
<1>1. CASE Message \/ Answered \/ WriteNote \/ NewBegin \/ Tick \/ Crash
  <2>1. CASE Message \/ Answered
    BY <2>1 DEF CountersOK, Message, Answered
  <2>2. CASE WriteNote \/ NewBegin \/ Tick
    BY <2>2 DEF CountersOK, WriteNote, NewBegin, Tick
  <2>3. CASE Crash
    BY <2>3 DEF CountersOK, Crash
  <2>4. QED
    BY <1>1, <2>1, <2>2, <2>3
<1>2. ASSUME NEW e \in appends, LogEntry(e)
      PROVE  CountersOK'
  BY <1>2 DEF CountersOK, LogEntry, chatVars
<1>3. ASSUME NEW f \in flushes, FlushStep(f)
      PROVE  CountersOK'
  BY <1>3 DEF CountersOK, FlushStep, FlushDeclined, FlushIdle, FlushBegins, chatVars
<1>4. ASSUME NEW s \in syncs, SyncStep(s)
      PROVE  CountersOK'
  BY <1>4 DEF CountersOK, SyncStep, ReadLog, LogUnread, ReadMemory, MemoryUnread,
     OpenMemory, WriteMemory, SyncFails, chatVars
<1>5. CASE UNCHANGED vars
  BY <1>5 DEF CountersOK, vars, chatVars
<1>6. QED
  BY <1>1, <1>2, <1>3, <1>4, <1>5 DEF Next

LEMMA InitIsSound ==
  ASSUME Init
  PROVE  IInv
<1> DEFINE n == NewSync(1, "start", TRUE)
<1>1. n \in Syncs /\ n.id = 1 /\ n.why = "start" /\ n.step = "log"
  <2>1. <<>> \in Seq(Lines)
    OBVIOUS
  <2>2. QED
    BY <2>1 DEF NewSync, Syncs
<1>2. n.alone
  BY Zenon DEF NewSync
<1>3. /\ log = <<>> /\ appends = {} /\ memory = {} /\ begun = 1 /\ syncs = {n}
      /\ flushes = {} /\ objects = <<>> /\ current = 0 /\ flushed = {}
      /\ bridge = "starting"
      /\ turns = 0 /\ running = FALSE /\ news = 0 /\ notes = 0 /\ crashes = 0 /\ time = 0
      /\ safe = {} /\ saved = {}
  BY DEF Init
<1> HIDE DEF n
<1>4. LogOK
  <2>1. log \in Seq(Lines) /\ Len(log) = 0 /\ ElementsOf(log) = {}
    BY <1>3 DEF ElementsOf
  <2>2. turns \in 0 .. MaxTurns
    BY <1>3, SessionMemoryAssumption
  <2>3. QED
    <3>1. LogIsSound
      BY <1>3, <2>1 DEF LogIsSound
    <3>2. \A i, k \in 1 .. Len(log) : i # k => log[i] # log[k]
      BY <2>1
    <3>3. QED
      BY <1>3, <2>1, <2>2, <3>1, <3>2 DEF LogOK
<1>5. MemoryOK
  <2>1. SyncsAreSound
    BY <1>1, <1>2, <1>3 DEF SyncsAreSound
  <2>2. QED
    BY <1>1, <1>3, <2>1 DEF MemoryOK, MemoryOnlyGrows, NewSavesTheSession
<1>6. FlushOK
  <2>1. objects \in Seq(ObjectType) /\ Len(objects) = 0
    BY <1>3
  <2>2. QED
    BY <1>3, <2>1 DEF FlushOK, FlushesAreSound, FlushesAreApart, ObjectType
<1>7. LinkOK /\ CountersOK
  BY <1>1, <1>3 DEF LinkOK, CountersOK
<1>8. QED
  BY <1>4, <1>5, <1>6, <1>7, Parts

LEMMA StepIsSound ==
  ASSUME IInv, [Next]_vars
  PROVE  IInv'
<1>1. LogOK /\ MemoryOK /\ FlushOK /\ LinkOK /\ CountersOK
  BY Parts
<1>2. CountersOK'
  BY <1>1, StepKeepsCounters
<1> SUFFICES LogOK' /\ MemoryOK' /\ FlushOK' /\ LinkOK'
  <2>1. LogOK' /\ MemoryOK' /\ FlushOK' /\ LinkOK' /\ CountersOK' => IInv'
    BY Parts, PTL
  <2>2. QED
    BY <1>2, <2>1
<1>3. CASE Message
  <2>1. UNCHANGED <<memory, safe, saved, syncs, flushes, bridge, begun, log>>
    BY <1>3 DEF Message, flushVars
  <2>2. QED
    BY <1>1, <1>3, <2>1, MessageKeepsLog, MemoryStays, MessageKeepsFlushes, LinkStays
<1>4. CASE Answered
  <2>1. UNCHANGED <<memory, safe, saved, syncs, bridge, begun, log>>
    BY <1>4 DEF Answered
  <2>2. QED
    BY <1>1, <1>4, <2>1, AnsweredKeepsLog, MemoryStays, AnsweredKeepsFlushes,
       AnsweredKeepsLink
<1>5. CASE WriteNote
  <2>1. UNCHANGED <<log, appends, turns, running, syncs, flushes, flushVars>>
    BY <1>5 DEF WriteNote, flushVars
  <2>2. QED
    BY <1>1, <1>5, <2>1, LogStays, NoteKeepsMemory, FlushStays, LinkStays
<1>6. CASE NewBegin
  <2>1. /\ UNCHANGED <<log, appends, turns, running, memory, bridge, flushes, flushVars>>
        /\ syncs' = SyncsWith("new") /\ NoOverlap /\ begun' = begun + 1 /\ begun \in Nat
    BY <1>1, <1>6 DEF NewBegin, flushVars, CountersOK
  <2>2. LogOK' /\ FlushOK'
    BY <1>1, <2>1, LogStays, FlushStays
  <2>3. MemoryOK'
    BY <1>1, <2>1, BeginKeepsMemory
  <2>4. LinkOK'
    BY <1>1, <2>1, BeginKeepsLink
  <2>5. QED
    BY <2>2, <2>3, <2>4
<1>7. CASE Tick
  <2>1. UNCHANGED <<log, appends, turns, running, memory, safe, saved, syncs, bridge, begun,
                    flushes, flushVars>>
    BY <1>7 DEF Tick, flushVars
  <2>2. QED
    BY <1>1, <2>1, LogStays, MemoryStays, FlushStays, LinkStays
<1>8. CASE Crash
  BY <1>1, <1>8, CrashKeepsLog, CrashKeepsMemory, CrashKeepsFlushes, CrashKeepsLink
     DEF CountersOK
<1>9. ASSUME NEW e \in appends, LogEntry(e)
      PROVE  LogOK' /\ MemoryOK' /\ FlushOK' /\ LinkOK'
  <2>1. UNCHANGED <<syncs, flushes>>
    BY <1>9 DEF LogEntry, flushVars
  <2>2. QED
    BY <1>1, <1>9, <2>1, EntryKeepsLog, EntryKeepsMemory, EntryKeepsFlushes, LinkStays
<1>10. ASSUME NEW f \in flushes, FlushStep(f)
       PROVE  LogOK' /\ MemoryOK' /\ FlushOK' /\ LinkOK'
  <2>1. UNCHANGED <<log, appends, turns, running>>
    BY <1>10 DEF FlushStep, FlushDeclined, FlushIdle, FlushBegins, chatVars
  <2>2. LogOK'
    BY <1>1, <2>1, LogStays
  <2>3. CASE FlushDeclined(f) \/ FlushIdle(f)
    <3>1. UNCHANGED <<memory, safe, saved, syncs, bridge, begun, log>>
      BY <2>3 DEF FlushDeclined, FlushIdle
    <3>2. QED
      BY <1>1, <2>2, <2>3, <3>1, MemoryStays, DeclinedKeepsFlushes, IdleKeepsFlushes,
         FlushLeavesKeepLink
  <2>4. CASE FlushBegins(f)
    <3>1. /\ UNCHANGED <<memory, bridge, log>> /\ begun \in Nat
          /\ syncs' = SyncsWith("flush") /\ NoOverlap /\ begun' = begun + 1
      BY <1>1, <2>4 DEF FlushBegins, CountersOK
    <3>2. MemoryOK'
      BY <1>1, <3>1, BeginKeepsMemory
    <3>3. FlushOK' /\ LinkOK'
      BY <1>1, <2>4, BeginsKeepsFlushes, FlushBeginsKeepsLink
    <3>4. QED
      BY <2>2, <3>2, <3>3
  <2>5. QED
    BY <1>10, <2>3, <2>4 DEF FlushStep
<1>11. ASSUME NEW s \in syncs, SyncStep(s)
       PROVE  LogOK' /\ MemoryOK' /\ FlushOK' /\ LinkOK'
  <2>1. UNCHANGED <<log, appends, turns, running>>
    BY <1>11 DEF SyncStep, ReadLog, LogUnread, ReadMemory, MemoryUnread,
     OpenMemory, WriteMemory, SyncFails, chatVars
  <2>2. QED
    BY <1>1, <1>11, <2>1, LogStays, SyncStepKeepsMemory, SyncStepKeepsFlushes,
       SyncStepKeepsLink
<1>12. CASE UNCHANGED vars
  <2>1. UNCHANGED <<log, appends, turns, running, memory, safe, saved, syncs, bridge, begun,
                    flushes, flushVars>>
    BY <1>12 DEF vars, flushVars, chatVars
  <2>2. QED
    BY <1>1, <2>1, LogStays, MemoryStays, FlushStays, LinkStays
<1>13. QED
  BY <1>3, <1>4, <1>5, <1>6, <1>7, <1>8, <1>9, <1>10, <1>11, <1>12 DEF Next

-----------------------------------------------------------------------------
(* The theorems.                                                           *)

\* The inductive invariant holds of every behaviour of the log, the syncs and
\* the flushes: src/bridge/session-store.ts, memory-sync.ts and
\* auto-memory-flush.ts, with what the bridge begins.
THEOREM InvariantHolds == Spec => []IInv
<1>1. Init => IInv
  BY InitIsSound
<1>2. IInv /\ [Next]_vars => IInv'
  BY StepIsSound
<1>3. QED
  BY <1>1, <1>2, PTL DEF Spec

\* Every variable holds what its declaration says: an entry is logged once,
\* the bridge waits for one sync, and a sync of a flush has its flush.
THEOREM TypeIsCorrect == Spec => []TypeOK
<1>1. IInv => TypeOK
  BY DEF IInv
<1>2. QED
  BY <1>1, InvariantHolds, PTL

\* Notes and summaries stay in the memory file through every sync that follows
\* another one, though each rewrites the whole file, through one that fails
\* before it writes, and through a restart at any moment but in a write.  A file
\* that could not be read, a failed write and two syncs at a time may lose them
\* (syncSessionToMemory).
THEOREM MemoryGrows == Spec => []MemoryOnlyGrows
<1>1. IInv => MemoryOnlyGrows
  BY DEF IInv
<1>2. QED
  BY <1>1, InvariantHolds, PTL

\* When the sync of a /new that no other overlapped has written, the memory file
\* has what the log held when the /new began: the first messages, and the last
\* answer or a later one.  Of a /new whose sync did not write, which answers the
\* same, this says nothing (/new and syncSessionToMemory).
THEOREM NewSaves == Spec => []NewSavesTheSession
<1>1. IInv => NewSavesTheSession
  BY DEF IInv
<1>2. QED
  BY <1>1, InvariantHolds, PTL

\* Automatic flushes keep their interval, and a later one has more to write,
\* though each reads the shared state before its awaits and stores it after
\* (maybeAutoFlushSessionToMemory).
THEOREM FlushesKeepApart == Spec => []FlushesAreApart
<1>1. IInv => FlushesAreApart
  BY DEF IInv
<1>2. QED
  BY <1>1, InvariantHolds, PTL

=============================================================================

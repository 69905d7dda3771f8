--------------------------- MODULE SessionMemory ----------------------------
(***************************************************************************)
(* The daily log of a chat and its summary in the memory file of the day:  *)
(* logSessionMessage (src/bridge/session-store.ts), syncSessionToMemory    *)
(* (memory-sync.ts), which reads the log, reads the memory file and writes *)
(* it whole, and maybeAutoFlushSessionToMemory (auto-memory-flush.ts).     *)
(* Syncs are begun by the start of the bridge, by /new, and by automatic   *)
(* flushes after an answer, and nothing keeps them apart.  Reads, writes   *)
(* and mkdir may fail, and an append may be cut off.                       *)
(***************************************************************************)
EXTENDS Naturals, Sequences, FiniteSets

CONSTANTS
  MaxTurns,     \* bounds the messages, each of which may get an answer
  MaxNews,      \* bounds the /new commands
  MaxNotes,     \* bounds what others write into the memory file
  MaxCrashes,   \* bounds the ends of the process
  MaxTime,      \* bounds the clock
  MaxSyncs,     \* bounds the syncs in all
  Shown,        \* how many user messages a summary shows (5)
  Threshold,    \* the length of the log from which it is flushed
  MinInterval,  \* the least time between two automatic flushes
  MayFail,      \* whether reads, writes and mkdir may fail
  None          \* never

ASSUME SessionMemoryAssumption ==
  /\ {MaxTurns, MaxNews, MaxNotes, MaxCrashes, MaxTime, MaxSyncs} \subseteq Nat
  /\ {Shown, Threshold, MinInterval} \subseteq Nat \ {0}
  /\ MayFail \in BOOLEAN
  /\ None \notin Nat

VARIABLES
  log,      \* sessions/<date>.jsonl
  appends,  \* the entries whose append nothing waits for
  memory,   \* memory/<date>.md: the notes and summaries in it
  syncs,    \* the calls of syncSessionToMemory in progress
  flushes,  \* the calls of maybeAutoFlushSessionToMemory in progress
  objects,  \* the FlushState objects of the process, in order of creation
  current,  \* the one in stateByWorkspaceAndDate, 0 if there is none
  bridge,   \* "starting" until the sync at start-up is done, then "up"
  turns, running, news, notes, begun, crashes, time,
  safe,     \* ghost: what must stay in memory
  saved,    \* ghost: what each /new which ran alone had to save, and if it wrote
  flushed   \* ghost: the automatic flushes of the process

chatVars  == <<turns, running, news, notes, crashes, time>>
flushVars == <<flushes, objects, current, flushed>>
vars == <<log, appends, memory, syncs, flushVars, bridge, chatVars, begun, safe, saved>>

-----------------------------------------------------------------------------
ElementsOf(s) == {s[i] : i \in 1 .. Len(s)}

\* A line that JSON.parse refuses: an entry whose append was cut off, or that
\* entry with the one appended to it.
Torn == <<0, "torn">>

Legible == Torn \notin ElementsOf(log)

IsUser(e)      == e[2] = "user"
IsAssistant(e) == e[2] = "assistant"

\* formatSection: the first messages of the user, and the last answer.
UsersBefore(es, i) == {k \in 1 .. i - 1 : IsUser(es[k])}
AnswersAfter(es, i) == {k \in i + 1 .. Len(es) : IsAssistant(es[k])}

Users(es) ==
  {es[i] : i \in {k \in 1 .. Len(es) :
                    IsUser(es[k]) /\ Cardinality(UsersBefore(es, k)) < Shown}}
Answer(es) ==
  {es[i] : i \in {k \in 1 .. Len(es) : IsAssistant(es[k]) /\ AnswersAfter(es, k) = {}}}
Summary(es) == Users(es) \cup Answer(es)

\* The memory file: the notes of others (by = 0) and the summary of each sync.
Section(s) == [by |-> s.id, shows |-> Summary(s.entries)]
Note       == [by |-> 0, shows |-> {}]

\* A sync: who began it, its next step, what it has read, and (ghosts) the
\* log when it began and whether no other sync has been under way with it.
NewSync(id, why, alone) ==
  [id |-> id, why |-> why, step |-> "log", entries |-> <<>>, existing |-> {},
   had |-> IF why = "new" THEN log ELSE <<>>, alone |-> alone]

SyncsWith(why) ==
  {[s EXCEPT !.alone = FALSE] : s \in syncs} \cup {NewSync(begun + 1, why, syncs = {})}

\* /new answers that the session is saved, whether the sync wrote or not.
Told(s, wrote) ==
  IF s.alone /\ s.why = "new" THEN {[by |-> s.id, had |-> s.had, wrote |-> wrote]} ELSE {}

NoOverlap == IF syncs = {} THEN UNCHANGED <<safe, saved>> ELSE safe' = {} /\ saved' = {}

Init ==
  /\ log = <<>> /\ appends = {} /\ memory = {}
  /\ begun = 1
  /\ syncs = {NewSync(1, "start", TRUE)}
  /\ flushes = {} /\ objects = <<>> /\ current = 0 /\ flushed = {}
  /\ bridge = "starting"
  /\ turns = 0 /\ running = FALSE /\ news = 0 /\ notes = 0 /\ crashes = 0 /\ time = 0
  /\ safe = {} /\ saved = {}

-----------------------------------------------------------------------------
(* The chat: messages and answers are logged, and not waited for.          *)

\* One run at a time, as ChatBridge has it when nothing is typed in a hurry:
\* the next message comes when the append of the answer is over.
Message ==
  /\ bridge = "up" /\ ~running /\ appends = {}
  /\ turns < MaxTurns
  /\ turns' = turns + 1
  /\ running' = TRUE
  /\ appends' = appends \cup {<<turns + 1, "user">>}
  /\ UNCHANGED <<log, memory, syncs, flushVars, bridge, news, notes, crashes, time,
                 begun, safe, saved>>

\* A completed answer, of the private chat: the flush begins at once, with
\* the state that is current now, or a new one that is not stored yet.  The
\* append of the message is over by then, that of the answer is not.
Answered ==
  /\ running /\ <<turns, "user">> \notin appends
  /\ running' = FALSE
  /\ appends' = appends \cup {<<turns, "assistant">>}
  /\ objects' = IF current = 0 THEN Append(objects, [at |-> None, size |-> 0]) ELSE objects
  /\ flushes' = {[f EXCEPT !.alone = FALSE] : f \in flushes} \cup
                {[id |-> turns, state |-> IF current = 0 THEN Len(objects') ELSE current,
                  sync |-> 0, at |-> 0, size |-> 0, alone |-> flushes = {}]}
  /\ UNCHANGED <<log, memory, syncs, current, flushed, bridge, turns, news, notes, crashes,
                 time, begun, safe, saved>>

LogEntry(e) ==
  /\ e \in appends
  /\ appends' = appends \ {e}
  /\ log' = Append(log, e)
  /\ UNCHANGED <<memory, syncs, flushVars, bridge, chatVars, begun, safe, saved>>

\* A person, or a CLI, writes into the memory file.
WriteNote ==
  /\ notes < MaxNotes
  /\ notes' = notes + 1
  /\ memory' = memory \cup {Note}
  /\ safe' = IF syncs = {} THEN safe \cup {Note} ELSE safe
  /\ UNCHANGED <<log, appends, syncs, flushVars, bridge, turns, running, news, crashes, time,
                 begun, saved>>

NewBegin ==
  /\ bridge = "up"
  /\ news < MaxNews /\ begun < MaxSyncs
  /\ news' = news + 1
  /\ syncs' = SyncsWith("new")
  /\ NoOverlap
  /\ begun' = begun + 1
  /\ UNCHANGED <<log, appends, memory, flushVars, bridge, turns, running, notes, crashes, time>>

Tick ==
  /\ time < MaxTime
  /\ time' = time + 1
  /\ UNCHANGED <<log, appends, memory, syncs, flushVars, bridge, turns, running, news, notes,
                 crashes, begun, safe, saved>>

-----------------------------------------------------------------------------
(* maybeAutoFlushSessionToMemory, after the stat of the log.               *)

TooSoon(f) == objects[f.state].at # None /\ time < objects[f.state].at + MinInterval

\* Below the threshold, or too soon: the size goes into the state that was
\* taken before the await, and that state is stored.
FlushDeclined(f) ==
  /\ f.sync = 0 /\ log # <<>>
  /\ Len(log) < Threshold \/ TooSoon(f)
  /\ objects' = [objects EXCEPT ![f.state].size = Len(log)]
  /\ current' = f.state
  /\ flushes' = flushes \ {f}
  /\ UNCHANGED <<log, appends, memory, syncs, flushed, bridge, chatVars, begun, safe, saved>>

MayFlush(f) == f.sync = 0 /\ Len(log) >= Threshold /\ ~TooSoon(f)

\* No log, or none that stat finds, or none of it new.
FlushIdle(f) ==
  /\ \/ f.sync = 0 /\ (log = <<>> \/ MayFail)
     \/ MayFlush(f) /\ Len(log) <= objects[f.state].size
  /\ flushes' = flushes \ {f}
  /\ UNCHANGED <<log, appends, memory, syncs, objects, current, flushed, bridge, chatVars,
                 begun, safe, saved>>

FlushBegins(f) ==
  /\ MayFlush(f) /\ Len(log) > objects[f.state].size
  /\ begun < MaxSyncs
  /\ flushes' = (flushes \ {f}) \cup
                {[f EXCEPT !.sync = begun + 1, !.at = time, !.size = Len(log)]}
  /\ syncs' = SyncsWith("flush")
  /\ NoOverlap
  /\ begun' = begun + 1
  /\ UNCHANGED <<log, appends, memory, objects, current, flushed, bridge, chatVars>>

\* Faulty variant: the state of the flush is not stored.
FlushStoredNowhere(s) ==
  \E f \in flushes :
    /\ f.sync = s.id
    /\ flushes' = flushes \ {f}
    /\ flushed' = flushed \cup {f}
    /\ UNCHANGED <<objects, current>>

\* Its sync has returned: a new state, whatever is stored by now.
FlushStored(s) ==
  \E f \in flushes :
    /\ f.sync = s.id
    /\ objects' = Append(objects, [at |-> f.at, size |-> f.size])
    /\ current' = Len(objects')
    /\ flushes' = flushes \ {f}
    /\ flushed' = flushed \cup {f}

-----------------------------------------------------------------------------
(* syncSessionToMemory.                                                    *)

\* What waits for the sync goes on.
Returns(s) ==
  /\ IF s.why = "flush" THEN FlushStored(s) ELSE UNCHANGED flushVars
  /\ bridge' = IF s.why = "start" THEN "up" ELSE bridge

\* Faulty variant: the last line is taken for one that is still being written.
ReadLogButLast(s) ==
  /\ s.step = "log" /\ log # <<>> /\ Legible
  /\ syncs' = (syncs \ {s}) \cup
              {[s EXCEPT !.step = "memory", !.entries = SubSeq(log, 1, Len(log) - 1)]}
  /\ UNCHANGED <<log, appends, memory, flushVars, bridge, chatVars, begun, safe, saved>>

ReadLog(s) ==
  /\ s.step = "log" /\ log # <<>> /\ Legible
  /\ syncs' = (syncs \ {s}) \cup {[s EXCEPT !.step = "memory", !.entries = log]}
  /\ UNCHANGED <<log, appends, memory, flushVars, bridge, chatVars, begun, safe, saved>>

\* No log, one that cannot be read, or one with an illegible line: the sync has
\* no entries, and returns without a write.
LogUnread(s) ==
  /\ s.step = "log"
  /\ log = <<>> \/ ~Legible \/ MayFail
  /\ syncs' = syncs \ {s} /\ Returns(s)
  /\ saved' = saved \cup Told(s, FALSE)
  /\ UNCHANGED <<log, appends, memory, chatVars, begun, safe>>

\* mkdir, and then the memory file, which may be missing.
ReadMemory(s) ==
  /\ s.step = "memory"
  /\ syncs' = (syncs \ {s}) \cup {[s EXCEPT !.step = "open", !.existing = memory]}
  /\ UNCHANGED <<log, appends, memory, flushVars, bridge, chatVars, begun, safe, saved>>

\* Any other failure is taken for a missing file: what is there will be lost.
MemoryUnread(s) ==
  /\ MayFail
  /\ s.step = "memory"
  /\ syncs' = (syncs \ {s}) \cup {[s EXCEPT !.step = "open", !.existing = {}]}
  /\ IF memory = {} THEN UNCHANGED <<safe, saved>> ELSE safe' = {} /\ saved' = {}
  /\ UNCHANGED <<log, appends, memory, flushVars, bridge, chatVars, begun>>

\* writeFile truncates ...
OpenMemory(s) ==
  /\ s.step = "open"
  /\ syncs' = (syncs \ {s}) \cup {[s EXCEPT !.step = "write"]}
  /\ memory' = {}
  /\ UNCHANGED <<log, appends, flushVars, bridge, chatVars, begun, safe, saved>>

\* Faulty variant: the summary takes the place of what was there.
WriteMemoryAnew(s) ==
  /\ s.step = "write"
  /\ memory' = {Section(s)}
  /\ syncs' = syncs \ {s} /\ Returns(s)
  /\ safe' = IF s.alone THEN safe \cup memory' ELSE safe
  /\ saved' = saved \cup Told(s, TRUE)
  /\ UNCHANGED <<log, appends, chatVars, begun>>

\* ... and then writes: what was there, and the summary of the whole day.
WriteMemory(s) ==
  /\ s.step = "write"
  /\ memory' = s.existing \cup {Section(s)}
  /\ syncs' = syncs \ {s} /\ Returns(s)
  /\ safe' = IF s.alone THEN safe \cup memory' ELSE safe
  /\ saved' = saved \cup Told(s, TRUE)
  /\ UNCHANGED <<log, appends, chatVars, begun>>

\* mkdir fails, or writeFile before or after it has truncated: a part of what it
\* writes counts as nothing.  /new and the start of the bridge catch this, and go
\* on; for the automatic flush see Crash.
SyncFails(s) ==
  /\ MayFail
  /\ s.why # "flush" /\ s.step # "log"
  /\ syncs' = syncs \ {s} /\ Returns(s)
  /\ safe' = IF s.step = "write" THEN {} ELSE safe
  /\ saved' = (IF s.step = "write" THEN {} ELSE saved) \cup Told(s, FALSE)
  /\ UNCHANGED <<log, appends, memory, chatVars, begun>>

\* The process ends, and another one is started.  It also ends when an append, or
\* the sync of an automatic flush, fails: nothing handles either rejection.  An
\* append that was under way may be cut off.
Crash ==
  /\ crashes < MaxCrashes /\ begun < MaxSyncs
  /\ crashes' = crashes + 1
  /\ syncs' = {NewSync(begun + 1, "start", TRUE)}
  /\ begun' = begun + 1
  /\ IF \E s \in syncs : s.step = "write" THEN safe' = {} /\ saved' = {}
     ELSE UNCHANGED <<safe, saved>>
  /\ \/ log' = log
     \/ appends # {} /\ log' = Append(log, Torn)
  /\ appends' = {} /\ flushes' = {} /\ objects' = <<>> /\ current' = 0 /\ flushed' = {}
  /\ bridge' = "starting"
  /\ running' = FALSE
  /\ UNCHANGED <<memory, turns, news, notes, time>>

FlushStep(f) == FlushDeclined(f) \/ FlushIdle(f) \/ FlushBegins(f)

SyncStep(s) ==
  \/ ReadLog(s) \/ LogUnread(s) \/ ReadMemory(s) \/ MemoryUnread(s)
  \/ OpenMemory(s) \/ WriteMemory(s) \/ SyncFails(s)

Next ==
  \/ Message \/ Answered \/ WriteNote \/ NewBegin \/ Tick \/ Crash
  \/ \E e \in appends : LogEntry(e)
  \/ \E f \in flushes : FlushStep(f)
  \/ \E s \in syncs : SyncStep(s)

Spec == Init /\ [][Next]_vars

-----------------------------------------------------------------------------
Entries == (1 .. MaxTurns) \X {"user", "assistant"}
Lines   == Entries \cup {Torn}
Items   == [by : Nat, shows : SUBSET Lines]
Syncs   == [id : Nat \ {0}, why : {"start", "new", "flush"},
            step : {"log", "memory", "open", "write"}, entries : Seq(Lines),
            existing : SUBSET Items, had : Seq(Lines), alone : BOOLEAN]
Flushes == [id : Nat, state : Nat \ {0}, sync : Nat, at : Nat, size : Nat, alone : BOOLEAN]

\* Every variable holds what its declaration says: an entry is logged once,
\* the bridge waits for one sync, and a sync of a flush has a flush.
TypeOK ==
  /\ log \in Seq(Lines) /\ appends \subseteq Entries
  /\ \A i, k \in 1 .. Len(log) : i # k /\ log[i] # Torn => log[i] # log[k]
  /\ appends \cap ElementsOf(log) = {}
  /\ memory \subseteq Items /\ safe \subseteq Items
  /\ saved \subseteq [by : Nat, had : Seq(Lines), wrote : BOOLEAN]
  /\ syncs \subseteq Syncs
  /\ \A s \in syncs : s.why = "flush" => \E f \in flushes : f.sync = s.id
  /\ flushes \subseteq Flushes /\ flushed \subseteq Flushes
  /\ objects \in Seq([at : Nat \cup {None}, size : Nat])
  /\ \A f \in flushes : f.state \in 1 .. Len(objects)
  /\ current \in 0 .. Len(objects)
  /\ bridge = IF \E s \in syncs : s.why = "start" THEN "starting" ELSE "up"
  /\ turns \in 0 .. MaxTurns /\ running \in BOOLEAN
  /\ {begun, news, notes, crashes, time} \subseteq Nat

NotWriting == \A s \in syncs : s.step # "write"

\* What is in the memory file stays in it, notes and summaries alike: syncs that
\* follow one another add to it, and one that fails before it writes, or a restart
\* at any moment but in a write, changes nothing.  What may lose it is two syncs
\* at a time, a write that fails or is not finished, and a file that is there but
\* could not be read.
MemoryOnlyGrows == NotWriting => safe \subseteq memory

\* A summary of what the log held when a /new began: its first messages, and its
\* last answer or a later one.
IsSaved(n, items) ==
  \E x \in items :
    /\ x.by = n.by
    /\ Users(n.had) \subseteq x.shows
    /\ \/ Answer(n.had) \subseteq x.shows
       \/ \E e \in x.shows \ ElementsOf(n.had) : IsAssistant(e)

\* A /new whose sync wrote has saved all that was in the log when it began, and it
\* stays saved as long as nothing that MemoryOnlyGrows names comes after it.  The
\* answer "Session saved to memory" (jsonl-bridge.ts:335) promises it of every
\* /new: it is wrong of one whose sync failed (caught at 317), or found a log that
\* could not be read or holds a torn line (an empty log to memory-sync.ts:38-44).
NewSavesTheSession == NotWriting => \A n \in saved : n.wrote => IsSaved(n, memory)

\* Two automatic flushes of a process are MinInterval apart, and the later one
\* has more to write, unless another flush was under way with the earlier one:
\* that one may still hold, and store, the state from before it.
FlushesAreApart ==
  \A f, g \in flushed :
    f.id < g.id /\ f.alone => g.at >= f.at + MinInterval /\ g.size > f.size
=============================================================================

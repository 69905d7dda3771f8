------------------------------ MODULE Subagents ------------------------------
(***************************************************************************)
(* Subagents: the registry of src/bridge/subagent-registry.ts, the part of *)
(* src/bridge/jsonl-bridge.ts that spawns subagents on the Subagent lane   *)
(* and follows their CLI processes, the Task tool calls it records as      *)
(* subagents, and the registry's file, which the next process loads.  The  *)
(* lane is the one CommandLane describes: a task starts at once while      *)
(* fewer than MaxLane run, and the oldest waiting one starts when a task   *)
(* ends.                                                                   *)
(***************************************************************************)
EXTENDS Naturals, Sequences, FiniteSets

CONSTANTS
  Subs,        \* the subagents that may be spawned, each once
  Chats,
  Sessions,    \* the session ids a parent CLI may report
  MayFail,     \* whether a subagent's process may fail to spawn
  MaxPerChat,  \* 4 in the code
  MaxLane,     \* 4 in the code
  KeepLast,    \* 10 in the code
  MaxCrashes,  \* bounds the ends of the bridge's process
  None         \* undefined

ASSUME SubagentsAssumption ==
  /\ MaxPerChat \in Nat \ {0} /\ MaxLane \in Nat \ {0} /\ KeepLast \in Nat \ {0}
  /\ MayFail \in BOOLEAN /\ MaxCrashes \in Nat
  /\ None \notin Sessions /\ None \notin Chats

VARIABLES
  rec,      \* the registry's record of every subagent
  step,     \* how far the subagent itself is
  out,      \* what its process has printed
  waiting,  \* the tasks that wait for a place in the lane
  toSave,   \* a save was begun and has not taken the records yet
  writing,  \* the records that a save is writing, None if none is
  file,     \* subagent-registry.json
  crashes,
  told,     \* ghost: how many prompts have carried each result
  forgot    \* ghost: the results whose injection a crash made forgotten

runVars  == <<step, out, waiting>>
fileVars == <<writing, file, crashes>>
vars     == <<rec, runVars, toSave, fileVars, told, forgot>>

NoRecord == [status |-> "none", chat |-> None, parent |-> None, injected |-> FALSE]

Record == {NoRecord} \cup
          [status : {"queued", "running", "completed", "error", "stopped"},
           chat : Chats, parent : Sessions \cup {None}, injected : BOOLEAN]

\* "confirming" is spawnSubagentInternal before it enqueues, "starting" a task
\* that waits for its boot context, "failed" a process that never spawned,
\* "mute" one that exited before its start was reported; "task" and "lost" are
\* the steps of a Task tool call, answered or not before its CLI ended; "gone"
\* is what an earlier process of the bridge had, of which only the record may
\* be left.
Steps == {"none", "confirming", "waiting", "starting", "alive", "exited", "mute",
          "failed", "task", "answered", "lost", "gone"}

Outputs == {"none", "started", "completed"}

Done(rs)      == {s \in Subs : rs[s].status \in {"completed", "error", "stopped"}}
Active(rs)    == {s \in Subs : rs[s].status \in {"queued", "running"}}
ActiveOf(c)   == {s \in Active(rec) : rec[s].chat = c}
Slots(ss)     == {s \in Subs : ss[s] \in {"starting", "alive", "failed"}}

\* Faulty variant: what is left of a pruned record is marked too.
MarkedEvenIfGone(s, status) == [rec EXCEPT ![s].status = status]

\* registry.update: a record that was pruned is not brought back.
Marked(s, status) ==
  IF rec[s].status = "none" THEN rec ELSE [rec EXCEPT ![s].status = status]

\* A pruned chat keeps KeepLast records that are done; which of them are the
\* oldest depends on clock readings that are not modelled.
Pruned(rs, c) ==
  LET done == {s \in Done(rs) : rs[s].chat = c}
  IN  {[s \in Subs |-> IF s \in gone THEN NoRecord ELSE rs[s]] :
         gone \in {g \in SUBSET done :
                     Cardinality(g) = IF Cardinality(done) > KeepLast
                                      THEN Cardinality(done) - KeepLast ELSE 0}}

\* The announcement reads the record, so without one the handler throws
\* before it prunes and saves.
MarkedAndPruned(s, status) ==
  IF rec[s].status = "none" THEN {rec} ELSE Pruned(Marked(s, status), rec[s].chat)

\* saveSubagentRegistry: the records are taken once the directory is there.
\* Saves that are begun until then take the same records, and are one.
Save == toSave' = TRUE

Init ==
  /\ rec     = [s \in Subs |-> NoRecord]
  /\ step    = [s \in Subs |-> "none"]
  /\ out     = [s \in Subs |-> "none"]
  /\ waiting = <<>>
  /\ toSave  = FALSE
  /\ writing = None
  /\ file    = [s \in Subs |-> NoRecord]
  /\ crashes = 0
  /\ told    = [s \in Subs |-> 0]
  /\ forgot  = {}

-----------------------------------------------------------------------------
(* The file.  Two writes that overlap are not modelled: a save takes the   *)
(* records when the one before it is written.                              *)

TakeRecords ==
  /\ toSave /\ writing = None
  /\ toSave' = FALSE
  /\ writing' = rec
  /\ UNCHANGED <<rec, runVars, file, crashes, told, forgot>>

\* Written, or not, with an error that is logged.
WriteRecords ==
  /\ writing # None
  /\ file' \in {file, writing}
  /\ writing' = None
  /\ UNCHANGED <<rec, runVars, toSave, crashes, told, forgot>>

\* The process ends, in the middle of a write or not, and the next one loads
\* the registry: a file that was cut off is read as no records, records that
\* are done may have expired, and no other is told from a live one.
Restart ==
  /\ crashes < MaxCrashes
  /\ crashes' = crashes + 1
  /\ file' \in {file} \cup (IF writing = None THEN {} ELSE {[s \in Subs |-> NoRecord]})
  /\ \E expired \in SUBSET Done(file') :
       rec' = [s \in Subs |-> IF s \in expired THEN NoRecord ELSE file'[s]]
  /\ step' = [s \in Subs |-> IF step[s] = "none" THEN "none" ELSE "gone"]
  /\ out' = [s \in Subs |-> "none"]
  /\ waiting' = <<>> /\ toSave' = FALSE /\ writing' = None
  /\ forgot' = forgot \cup {s \in Subs : told[s] > 0 /\ ~file'[s].injected}
  /\ UNCHANGED told

-----------------------------------------------------------------------------
(* spawnSubagentInternal.                                                  *)

\* p is the session whose assistant asked for it; a user's /spawn has none.
Spawn(s, c, p) ==
  /\ step[s] = "none"
  /\ Cardinality(ActiveOf(c)) < MaxPerChat
  /\ rec'  = [rec EXCEPT ![s] = [status |-> "queued", chat |-> c, parent |-> p, injected |-> FALSE]]
  /\ step' = [step EXCEPT ![s] = "confirming"]
  /\ UNCHANGED <<out, waiting, toSave, fileVars, told, forgot>>

\* The confirmation was sent; whatever became of the record, the task goes
\* to the lane.
Submit(s) ==
  /\ step[s] = "confirming"
  /\ \/ /\ Cardinality(Slots(step)) < MaxLane
        /\ step' = [step EXCEPT ![s] = "starting"]
        /\ UNCHANGED waiting
     \/ /\ Cardinality(Slots(step)) >= MaxLane
        /\ step' = [step EXCEPT ![s] = "waiting"]
        /\ waiting' = Append(waiting, s)
  /\ UNCHANGED <<rec, out, toSave, fileVars, told, forgot>>

Launch(s) ==
  /\ step[s] = "starting"
  /\ step' = [step EXCEPT ![s] = "alive"]
  /\ UNCHANGED <<rec, out, waiting, toSave, fileVars, told, forgot>>

\* error without exit: the record is marked and the task never resolves.  If
\* the record was pruned, the announcement throws in a handler that nothing
\* guards, and the bridge's process ends.
LaunchFails(s) ==
  /\ MayFail
  /\ step[s] = "starting"
  /\ IF rec[s].status = "none"
     THEN Restart
     ELSE /\ step' = [step EXCEPT ![s] = "failed"]
          /\ rec' = Marked(s, "error")
          /\ Save
          /\ UNCHANGED <<out, waiting, fileVars, told, forgot>>

-----------------------------------------------------------------------------
(* The events of a subagent's session.  Lines that are still buffered are   *)
(* read after exit.                                                        *)

Reads(s) == step[s] \in {"alive", "exited", "mute"}

Started(s) ==
  /\ Reads(s) /\ out[s] = "none"
  /\ out' = [out EXCEPT ![s] = "started"]
  /\ rec' = Marked(s, "running")
  /\ UNCHANGED <<step, waiting, toSave, fileVars, told, forgot>>

Completed(s) ==
  /\ Reads(s) /\ out[s] = "started"
  /\ out' = [out EXCEPT ![s] = "completed"]
  /\ rec' \in MarkedAndPruned(s, "completed")
  /\ IF rec[s].status = "none" THEN UNCHANGED toSave ELSE Save
  /\ UNCHANGED <<step, waiting, fileVars, told, forgot>>

\* The task of s ends: the lane starts the oldest waiting task.
EndTask(s, how) ==
  \/ /\ waiting = <<>>
     /\ step' = [step EXCEPT ![s] = how]
     /\ UNCHANGED waiting
  \/ /\ waiting # <<>>
     /\ step' = [step EXCEPT ![s] = how, ![Head(waiting)] = "starting"]
     /\ waiting' = Tail(waiting)

\* Faulty variant: the task resolves only when the exit was an error.
ExitResolvingErrorsOnly(s) ==
  /\ step[s] = "alive"
  /\ rec' = IF rec[s].status = "running" THEN Marked(s, "error") ELSE rec
  /\ \/ /\ rec[s].status = "running"
        /\ EndTask(s, IF out[s] = "none" THEN "mute" ELSE "exited")
     \/ /\ rec[s].status # "running"
        /\ UNCHANGED <<step, waiting, toSave, fileVars, told, forgot>>
  /\ UNCHANGED <<out, toSave, fileVars, told, forgot>>

\* Faulty variant: an exit is an error unless the user asked for it.
ExitErringUnlessStopped(s) ==
  /\ step[s] = "alive"
  /\ rec' = IF rec[s].status = "stopped" THEN rec ELSE Marked(s, "error")
  /\ EndTask(s, IF out[s] = "none" THEN "mute" ELSE "exited")
  /\ UNCHANGED <<out, toSave, fileVars, told, forgot>>

\* Faulty variant: exit leaves the record as it is.
ExitUnmarked(s) ==
  /\ step[s] = "alive"
  /\ EndTask(s, IF out[s] = "none" THEN "mute" ELSE "exited")
  /\ UNCHANGED <<out, rec, toSave, fileVars, told, forgot>>

\* Faulty variant: nothing starts the next task.
ExitWithoutPump(s) ==
  /\ step[s] = "alive"
  /\ rec' = IF rec[s].status = "running" THEN Marked(s, "error") ELSE rec
  /\ step' = [step EXCEPT ![s] = IF out[s] = "none" THEN "mute" ELSE "exited"]
  /\ UNCHANGED <<out, waiting, toSave, fileVars, told, forgot>>

\* A subagent that did not complete has failed, if it was running.
Exit(s) ==
  /\ step[s] = "alive"
  /\ rec' = IF rec[s].status = "running" THEN Marked(s, "error") ELSE rec
  /\ EndTask(s, IF out[s] = "none" THEN "mute" ELSE "exited")
  /\ UNCHANGED <<out, toSave, fileVars, told, forgot>>

-----------------------------------------------------------------------------
(* A Task tool call of the chat's own CLI, recorded as a running subagent. *)

TaskStart(s, c, p) ==
  /\ step[s] = "none"
  /\ rec'  = [rec EXCEPT ![s] = [status |-> "running", chat |-> c, parent |-> p, injected |-> FALSE]]
  /\ step' = [step EXCEPT ![s] = "task"]
  /\ Save
  /\ UNCHANGED <<out, waiting, fileVars, told, forgot>>

\* If the record was pruned, its announcement ends the bridge's process.
TaskEnd(s, status) ==
  /\ step[s] = "task"
  /\ IF rec[s].status = "none"
     THEN Restart
     ELSE /\ step' = [step EXCEPT ![s] = "answered"]
          /\ rec' \in MarkedAndPruned(s, status)
          /\ Save
          /\ UNCHANGED <<out, waiting, fileVars, told, forgot>>

\* The CLI that made the call ended without answering it: no handler sees it.
TaskLost(s) ==
  /\ step[s] = "task"
  /\ step' = [step EXCEPT ![s] = "lost"]
  /\ UNCHANGED <<rec, out, waiting, toSave, fileVars, told, forgot>>

-----------------------------------------------------------------------------
(* The user's commands, and the prompts that take the results up.          *)

\* /subagents stop marks the record; its process is not told.
Stop(s) ==
  /\ s \in Active(rec)
  /\ rec' = [rec EXCEPT ![s].status = "stopped"]
  /\ UNCHANGED <<runVars, toSave, fileVars, told, forgot>>

\* /subagents stop all, and /stop.
StopAll(c) ==
  /\ ActiveOf(c) # {}
  /\ rec' = [s \in Subs |-> IF s \in ActiveOf(c) THEN [rec[s] EXCEPT !.status = "stopped"] ELSE rec[s]]
  /\ UNCHANGED <<runVars, toSave, fileVars, told, forgot>>

\* Faulty variant: results that were told are told again.
PendingAgain(rs, c, p) ==
  {s \in Subs : /\ rs[s].status \in {"completed", "error"}
                /\ rs[s].chat = c /\ rs[s].parent = p}

\* The results that wait for the session p of chat c.
Pending(rs, c, p) ==
  {s \in Subs : /\ rs[s].status \in {"completed", "error"}
                /\ ~rs[s].injected
                /\ rs[s].chat = c /\ rs[s].parent = p}

\* processMessage of chat c resumes session p: records older than the time to
\* live are dropped (any that are done may be that old), then the pending
\* results go into the prompt.
Inject(c, p) ==
  \E expired \in SUBSET Done(rec) :
    /\ LET kept == [s \in Subs |-> IF s \in expired THEN NoRecord ELSE rec[s]]
       IN  rec' = [s \in Subs |-> IF s \in Pending(kept, c, p)
                                  THEN [kept[s] EXCEPT !.injected = TRUE] ELSE kept[s]]
           /\ told' = [s \in Subs |-> IF s \in Pending(kept, c, p) THEN told[s] + 1 ELSE told[s]]
    /\ UNCHANGED <<runVars, toSave, fileVars, forgot>>

-----------------------------------------------------------------------------
Lifecycle(s) == Submit(s) \/ Launch(s) \/ LaunchFails(s) \/ Started(s) \/ Completed(s) \/ Exit(s)

TaskCall(s) == TaskLost(s) \/ \E status \in {"completed", "error"} : TaskEnd(s, status)

Next ==
  \/ \E s \in Subs : Lifecycle(s) \/ TaskCall(s) \/ Stop(s)
  \/ \E s \in Subs, c \in Chats, p \in Sessions \cup {None} : Spawn(s, c, p)
  \/ \E s \in Subs, c \in Chats, p \in Sessions : TaskStart(s, c, p)
  \/ \E c \in Chats : StopAll(c)
  \/ \E c \in Chats, p \in Sessions : Inject(c, p)
  \/ TakeRecords \/ WriteRecords \/ Restart

Spec == Init /\ [][Next]_vars

\* Awaited sends and file reads return, and a CLI ends.
Fairness ==
  \A s \in Subs : WF_vars(Submit(s)) /\ WF_vars(Launch(s) \/ LaunchFails(s)) /\ WF_vars(Exit(s))

FairSpec == Spec /\ Fairness

-----------------------------------------------------------------------------
(* Properties.                                                             *)

\* Types: in particular a pruned record, whose process may still print, is
\* never brought back in part.
TypeOK ==
  /\ rec \in [Subs -> Record]
  /\ step \in [Subs -> Steps]
  /\ out \in [Subs -> Outputs]
  /\ waiting \in Seq(Subs)
  /\ file \in [Subs -> Record] /\ writing \in [Subs -> Record] \cup {None}

\* The lane neither exceeds its limit nor idles: a task waits only while
\* MaxLane others hold a place, whatever happened to their records.
LaneIsFull ==
  /\ Cardinality(Slots(step)) <= MaxLane
  /\ waiting # <<>> => Cardinality(Slots(step)) = MaxLane

\* A record that counts as active, and so keeps its chat from spawning, is of
\* a subagent that has not completed and whose end is still to come, in
\* whatever order it was stopped, pruned, completed and read to its end.  The
\* exceptions are all there are.  The first is against the comment of the exit
\* handler ("If exited without completing, mark as error", jsonl-bridge.ts:1145):
\* a process that exited before its start was read stays queued, or running if
\* the start is read after, since 1147 marks only a record that is running.  The
\* others are a call of a CLI that ended without an answer, and what a restart
\* loads as queued or running.
OverIsNotActiveUnlessExcused ==
  \A s \in Active(rec) :
    /\ out[s] # "completed"
    /\ \/ step[s] \in {"confirming", "waiting", "starting", "alive", "task"}
       \/ step[s] = "mute" /\ (rec[s].status = "queued" <=> out[s] = "none")
       \/ step[s] \in {"lost", "gone"}

\* Every subagent that waits for the lane gets its turn, however the records
\* of those before it were stopped or pruned, unless a process failed to
\* spawn: its task never ends, and the lane is one place smaller for good.
WaitingIsStarted ==
  \A s \in Subs : step[s] = "waiting" ~> step[s] # "waiting" \/ \E f \in Subs : step[f] = "failed"

\* What a record says of its end stands.  A result is kept until it is
\* dropped: neither exit, /stop nor a late line changes it.  An error gives
\* way to one thing only, the result in a line that is read after the exit.
\* /stop only marks the record, so a subagent that waited, or was starting,
\* runs all the same; the mark is taken away by what the subagent itself then
\* reports, by its failing spawn or by its answer as a Task call.  Only a
\* restart may load an older status.
StatusIsFinal ==
  [][~Restart => \A s \in Subs :
       /\ rec[s].status = "completed" => rec'[s].status \in {"completed", "none"}
       /\ rec[s].status = "error" =>
            \/ rec'[s].status \in {"error", "none"}
            \/ rec'[s].status = "completed" /\ out[s] # "completed" /\ out'[s] = "completed"
       /\ rec[s].status = "stopped" =>
            \/ rec'[s].status \in {"stopped", "none"}
            \/ out'[s] # out[s]
            \/ step[s] = "starting" /\ step'[s] = "failed"
            \/ step[s] = "task" /\ step'[s] = "answered"]_vars

\* A result gets into one prompt, unless the mark that it did was not in the
\* file when the process ended.
ToldOnce == \A s \in Subs : told[s] > 1 => s \in forgot
=============================================================================

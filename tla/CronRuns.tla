------------------------------ MODULE CronRuns ------------------------------
(***************************************************************************)
(* What becomes of a cron job once CronService fires it (queueDueJob in    *)
(* src/cron/service.ts, runCronJobMain, runCronJobIsolated and             *)
(* triggerHeartbeat in src/bridge/jsonl-bridge.ts, run-history.ts).  A     *)
(* main job's prompt goes to the chat as a message; an isolated job gets a *)
(* CLI process of its own on the Cron lane and two lines in the history of *)
(* its job, one when it is fired and one when it is over.  The lane is     *)
(* taken as Executor describes it.                                         *)
(***************************************************************************)
EXTENDS Naturals, Sequences, FiniteSets

CONSTANTS
  Jobs,            \* the jobs
  Mode,            \* Mode[j]: "main", "isolated", or "heartbeat"
  Times,           \* Times[j]: bounds how often j is fired
  ChatConfigured,  \* whether allowedChatIds names the chat cron jobs go to
  Flaky,           \* whether the CLI may fail to spawn
  MaxCrashes,      \* bounds the ends of the process
  None             \* undefined, null

ASSUME CronRunsAssumption ==
  /\ Mode \in [Jobs -> {"main", "isolated", "heartbeat"}]
  /\ Times \in [Jobs -> Nat]
  /\ ChatConfigured \in BOOLEAN /\ Flaky \in BOOLEAN
  /\ MaxCrashes \in Nat
  /\ None \notin Jobs \X Nat

\* The runs of a job, in the order in which they are fired.
Runs     == UNION {{j} \X (1 .. Times[j]) : j \in Jobs}
JobOf(r) == r[1]

VARIABLES
  run,         \* every run, and how far it is
  active,      \* activeRuns: the record of each job that is to be completed
  history,     \* the lines of each job's history file
  pending,     \* pendingHeartbeat
  primary,     \* whether primaryChatId is set
  waiting, running, finished, discarded, limit,  \* the Cron lane
  crashes,
  overlapped   \* ghost: the jobs fired while a run of theirs was not over

laneVars == <<waiting, running, finished, discarded, limit>>
vars     == <<run, active, history, pending, primary, laneVars, crashes, overlapped>>

CronLane == INSTANCE Executor WITH Tasks <- Runs, Limits <- {}

-----------------------------------------------------------------------------
(* A run is fired, recorded (isolated jobs) or kept for a heartbeat; its   *)
(* steps are planned; its prompt is handed to the chat, where this module  *)
(* leaves it, or to a process of its own, whose end is marked and saved.   *)
Phases ==
  {"none", "recording", "pending", "planning", "queued", "running", "marking",
   "saving", "over", "dropped", "lost"}

\* proc: its CLI process; heard: its completed event was handled; outcome:
\* what the run is marked with; rec: the record that markIsolatedComplete
\* found; after: the heartbeat jobs that triggerHeartbeat goes on with.
NotFired == [phase |-> "none", proc |-> "none", heard |-> FALSE,
             outcome |-> "none", rec |-> None, after |-> <<>>]

Settled == {"over", "dropped", "lost"}

Init ==
  /\ run = [r \in Runs |-> NotFired]
  /\ active = [j \in Jobs |-> None]
  /\ history = [j \in Jobs |-> <<>>]
  /\ pending = <<>>
  /\ primary = ChatConfigured
  /\ CronLane!Init
  /\ crashes = 0
  /\ overlapped = {}

-----------------------------------------------------------------------------
(* queueDueJob, called by a check, by /cron run, or for a missed run.      *)

IsNext(r) ==
  /\ run[r].phase = "none"
  /\ r[2] > 1 => run[<<r[1], r[2] - 1>>].phase # "none"

\* Without a chat the listener drops the job, and its record stays running.
Listened(phase) == IF primary THEN phase ELSE "dropped"

\* A main job goes to the chat, or is marked as failed, once its steps are
\* planned: a wait that nothing in this module can interfere with.
FireMain(r) ==
  /\ IsNext(r) /\ Mode[JobOf(r)] = "main"
  /\ run' = [run EXCEPT ![r].phase = Listened("over")]
  /\ UNCHANGED <<active, history, pending, primary, laneVars, crashes, overlapped>>

\* A job that waits for a heartbeat is a main job then, isolated or not.
FireHeartbeat(r) ==
  /\ IsNext(r) /\ Mode[JobOf(r)] = "heartbeat"
  /\ run' = [run EXCEPT ![r].phase = "pending"]
  /\ pending' = Append(pending, r)
  /\ UNCHANGED <<active, history, primary, laneVars, crashes, overlapped>>

\* The record replaces the job's earlier one at once; its line is appended
\* meanwhile.
FireIsolated(r) ==
  LET open == {s \in Runs : JobOf(s) = JobOf(r) /\ run[s].phase \notin Settled \cup {"none"}}
  IN  /\ IsNext(r) /\ Mode[JobOf(r)] = "isolated"
      /\ run' = [run EXCEPT ![r].phase = "recording"]
      /\ active' = [active EXCEPT ![JobOf(r)] = r]
      /\ overlapped' = IF open = {} THEN overlapped ELSE overlapped \cup {JobOf(r)}
      /\ UNCHANGED <<history, pending, primary, laneVars, crashes>>

Line(r, status) == [run |-> r, status |-> status]

Appended(r, status) ==
  history' = [history EXCEPT ![JobOf(r)] = Append(@, Line(r, status))]

\* The append returns, or fails and is logged; either way the event is
\* emitted.
Recorded(r) ==
  /\ run[r].phase = "recording"
  /\ run' = [run EXCEPT ![r].phase = Listened("planning")]
  /\ \/ Appended(r, "running")
     \/ UNCHANGED history
  /\ UNCHANGED <<active, pending, primary, laneVars, crashes, overlapped>>

-----------------------------------------------------------------------------
(* Heartbeats: triggerHeartbeat at the head of handleMessage.              *)

\* runCronJobMain of the first job of a list, up to its first await.
Begins(rs, list) ==
  IF list = <<>> THEN rs
  ELSE [rs EXCEPT ![Head(list)].phase = "planning", ![Head(list)].after = Tail(list)]

\* Faulty variant: the jobs are not awaited one after the other.
UserMessageDroppingAll ==
  /\ primary' = TRUE
  /\ pending' = <<>>
  /\ \/ /\ primary \/ pending = <<>>
        /\ run' = Begins(run, pending)
     \/ /\ ~primary /\ pending # <<>>
        /\ run' = [r \in Runs |-> IF \E i \in DOMAIN pending : pending[i] = r
                                 THEN [run[r] EXCEPT !.phase = "dropped"] ELSE run[r]]
  /\ UNCHANGED <<active, history, laneVars, crashes, overlapped>>

\* The first job runs into the check of primaryChatId before the message
\* sets it, the others do not.
UserMessage ==
  /\ primary' = TRUE
  /\ pending' = <<>>
  /\ \/ /\ primary \/ pending = <<>>
        /\ run' = Begins(run, pending)
     \/ /\ ~primary /\ pending # <<>>
        /\ run' = Begins([run EXCEPT ![Head(pending)].phase = "dropped"], Tail(pending))
  /\ UNCHANGED <<active, history, laneVars, crashes, overlapped>>

\* buildCronStepPlan has read its files: the prompt goes to the chat as a
\* message of its own (ChatBridge takes it from there), or a required file is
\* missing and the job is marked as failed.  The heartbeat goes on.
PlanMain(r) ==
  /\ run[r].phase = "planning" /\ Mode[JobOf(r)] # "isolated"
  /\ run' = Begins([run EXCEPT ![r].phase = "over", ![r].after = <<>>], run[r].after)
  /\ UNCHANGED <<active, history, pending, primary, laneVars, crashes, overlapped>>

-----------------------------------------------------------------------------
(* Isolated runs.                                                          *)

\* finish, or the plan of a run that is not to start: markIsolatedComplete
\* looks up the job's record and appends the line that completes it.
Marking(rs, r, outcome) ==
  [rs EXCEPT ![r].phase = "marking", ![r].outcome = outcome, ![r].rec = active[JobOf(r)]]

\* A required file is missing, or the default CLI has no adapter.
PlanFails(r) ==
  /\ run[r].phase = "planning" /\ Mode[JobOf(r)] = "isolated"
  /\ run' = Marking(run, r, "error")
  /\ UNCHANGED <<active, history, pending, primary, laneVars, crashes, overlapped>>

PlanIsolated(r) ==
  /\ run[r].phase = "planning" /\ Mode[JobOf(r)] = "isolated"
  /\ run' = [run EXCEPT ![r].phase = "queued"]
  /\ CronLane!Submit(r)
  /\ UNCHANGED <<active, history, pending, primary, crashes, overlapped>>

\* The lane starts the task that has waited longest, which starts a CLI.  A
\* process that fails to spawn reports error, which finish takes.
StartNext ==
  /\ CronLane!Start
  /\ LET r == Head(waiting)
     IN  \/ run' = [run EXCEPT ![r].phase = "running", ![r].proc = "alive"]
         \/ /\ Flaky
            /\ run' = Marking([run EXCEPT ![r].proc = "failed"], r, "error")
  /\ UNCHANGED <<active, history, pending, primary, crashes, overlapped>>

\* The lane's promise: resolving it twice is resolving it once.
Resolve(r) == IF r \in running THEN CronLane!Finish(r) ELSE UNCHANGED laneVars

\* Faulty variant: the promise is resolved with the answer.
CompletedResolvingAtOnce(r) ==
  /\ run[r].proc \in {"alive", "exited"} /\ ~run[r].heard
  /\ \/ /\ run[r].phase = "running"
        /\ \E outcome \in {"ok", "error"} :
             run' = Marking([run EXCEPT ![r].heard = TRUE], r, outcome)
     \/ /\ run[r].phase # "running"
        /\ run' = [run EXCEPT ![r].heard = TRUE]
  /\ Resolve(r)
  /\ UNCHANGED <<active, history, pending, primary, crashes, overlapped>>

\* An answer that is an error, or misses what the job's steps expect, ends
\* the run with an error.  A second call of finish returns at once, and the
\* promise is resolved although the first call is not done.
Completed(r) ==
  /\ run[r].proc \in {"alive", "exited"} /\ ~run[r].heard
  /\ \/ /\ run[r].phase = "running"
        /\ \E outcome \in {"ok", "error"} :
             run' = Marking([run EXCEPT ![r].heard = TRUE], r, outcome)
        /\ UNCHANGED laneVars
     \/ /\ run[r].phase # "running"
        /\ run' = [run EXCEPT ![r].heard = TRUE]
        /\ Resolve(r)
  /\ UNCHANGED <<active, history, pending, primary, crashes, overlapped>>

\* Faulty variant: the exit ends a run that has answered, too.
ExitUnguarded(r) ==
  /\ run[r].proc = "alive"
  /\ run' = Marking([run EXCEPT ![r].proc = "exited"], r, "error")
  /\ UNCHANGED <<active, history, pending, primary, laneVars, crashes, overlapped>>

\* Faulty variant: the exit is not listened to.
ExitUnheard(r) ==
  /\ run[r].proc = "alive"
  /\ run' = [run EXCEPT ![r].proc = "exited"]
  /\ UNCHANGED <<active, history, pending, primary, laneVars, crashes, overlapped>>

\* The exit of a process that has not answered ends the run with an error,
\* also when its answer is still to be read.
Exit(r) ==
  /\ run[r].proc = "alive"
  /\ LET exited == [run EXCEPT ![r].proc = "exited"]
     IN  run' = IF run[r].phase = "running" THEN Marking(exited, r, "error") ELSE exited
  /\ UNCHANGED <<active, history, pending, primary, laneVars, crashes, overlapped>>

\* The append returns.  Whatever record the job has by now is forgotten.
Marked(r) ==
  /\ run[r].phase = "marking"
  /\ run' = [run EXCEPT ![r].phase = "saving", ![r].rec = None]
  /\ \/ /\ run[r].rec = None
        /\ UNCHANGED <<active, history>>
     \/ /\ run[r].rec # None
        /\ Appended(run[r].rec, run[r].outcome)
        /\ active' = [active EXCEPT ![JobOf(r)] = None]
  /\ UNCHANGED <<pending, primary, laneVars, crashes, overlapped>>

\* The service has saved its jobs and the chat was told; a run that was on
\* the lane resolves its promise.  What its process does from now on has no
\* effect and is forgotten.
Saved(r) ==
  /\ run[r].phase = "saving"
  /\ run' = [run EXCEPT ![r].phase = "over", ![r].proc = "none", ![r].heard = FALSE]
  /\ Resolve(r)
  /\ UNCHANGED <<active, history, pending, primary, crashes, overlapped>>

-----------------------------------------------------------------------------
\* The process ends: killed, or because markIsolatedComplete rejected (an
\* append or a save failed), which nothing handles.  Only the files stay; the
\* service starts again.
Crash ==
  /\ crashes < MaxCrashes
  /\ crashes' = crashes + 1
  /\ run' = [r \in Runs |->
       IF run[r].phase \in Settled \cup {"none"} THEN run[r]
       ELSE [NotFired EXCEPT !.phase = "lost"]]
  /\ active' = [j \in Jobs |-> None]
  /\ pending' = <<>>
  /\ primary' = ChatConfigured
  /\ waiting' = <<>> /\ running' = {} /\ finished' = {} /\ discarded' = {} /\ limit' = 1
  /\ UNCHANGED <<history, overlapped>>

RunStep(r) ==
  \/ Recorded(r) \/ PlanMain(r) \/ PlanFails(r) \/ PlanIsolated(r)
  \/ Marked(r) \/ Saved(r)

Next ==
  \/ \E r \in Runs : FireMain(r) \/ FireHeartbeat(r) \/ FireIsolated(r)
  \/ UserMessage
  \/ \E r \in Runs : RunStep(r) \/ Completed(r) \/ Exit(r)
  \/ StartNext
  \/ Crash

Spec == Init /\ [][Next]_vars

\* File operations and requests return, the lane starts what it can, and a
\* CLI process ends: nothing in the bridge limits its time.  Runs are
\* bounded, so that it is enough that one of these steps is always taken.
Progress == StartNext \/ \E r \in Runs : RunStep(r) \/ Exit(r)

FairSpec == Spec /\ WF_vars(Progress)

-----------------------------------------------------------------------------
(* Properties.                                                             *)

RunType ==
  [phase : Phases, proc : {"none", "alive", "exited", "failed"}, heard : BOOLEAN,
   outcome : {"none", "ok", "error"}, rec : Runs \cup {None}, after : Seq(Runs)]

\* Types: a record that is completed is one of the same job.
TypeOK ==
  /\ run \in [Runs -> RunType]
  /\ \A r \in Runs : run[r].rec # None => JobOf(run[r].rec) = JobOf(r)
  /\ active \in [Jobs -> Runs \cup {None}]
  /\ \A j \in Jobs : active[j] # None => JobOf(active[j]) = j
  /\ history \in [Jobs -> Seq([run : Runs, status : {"running", "ok", "error"}])]
  /\ pending \in Seq(Runs)
  /\ primary \in BOOLEAN
  /\ waiting \in Seq(Runs) /\ running \subseteq Runs /\ finished \subseteq Runs
  /\ discarded = {} /\ limit = 1
  /\ crashes \in 0 .. MaxCrashes
  /\ overlapped \subseteq Jobs

Lines(j, r, statuses) ==
  {i \in DOMAIN history[j] : history[j][i].run = r /\ history[j][i].status \in statuses}

\* The history of a job whose runs never overlapped tells what happened: a
\* run that is over left one line that says how it ended, in its own name
\* and after the line that says it was running, and nothing else did.
HistoryTellsRuns ==
  \A r \in Runs :
    Mode[JobOf(r)] = "isolated" /\ JobOf(r) \notin overlapped =>
      LET began == Lines(JobOf(r), r, {"running"})
          ended == Lines(JobOf(r), r, {"ok", "error"})
      IN  /\ run[r].phase = "over" => Cardinality(ended) = 1
          /\ Cardinality(began) <= 1 /\ Cardinality(ended) <= 1
          /\ \A b \in began, e \in ended : b < e
          /\ \A e \in ended : run[r].phase = "lost" \/ history[JobOf(r)][e].status = run[r].outcome

\* The Cron lane goes on to the next run only when the one before is in the
\* history, saved and announced, unless its process exited before its answer
\* was read.
LaneWaitsForRun ==
  \A r \in finished :
    run[r].phase = "over" \/ (run[r].proc = "exited" /\ run[r].heard /\ run[r].outcome = "error")

\* The first message of a process without a configured chat drops one of the
\* jobs that waited for it, and no later message drops any.
FirstMessageDropsOne ==
  Cardinality({r \in Runs : Mode[JobOf(r)] = "heartbeat" /\ run[r].phase = "dropped"}) <= 1 + crashes

\* Whatever its process does, a run that was fired, or taken from the pending
\* heartbeat jobs, is in the end over, dropped, or lost in a crash: there is a
\* time after which (runs are bounded) no run is open.
Open(r) ==
  /\ run[r].phase \notin Settled \cup {"none"}
  /\ \A i \in DOMAIN pending : pending[i] # r

EveryRunSettles == <>[](\A r \in Runs : ~Open(r))
=============================================================================

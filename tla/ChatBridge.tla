----------------------------- MODULE ChatBridge -----------------------------
(***************************************************************************)
(* One chat of the JSONL bridge: src/bridge/jsonl-bridge.ts (startBridge,  *)
(* parseCommand) with the session store and the CLI sessions of            *)
(* src/bridge/jsonl-session.ts.                                            *)
(*                                                                         *)
(* Every map of the session store is keyed by chat, so a chat is modelled  *)
(* alone.  An action is the code one callback runs between two points      *)
(* where the event loop may run another: the awaits of processMessage      *)
(* before sessionStore.set, of the completed handler, of /new and of       *)
(* /interrupt are where two actions meet.                                  *)
(*                                                                         *)
(* A run <<m, d>> is one call of processMessage: d = 0 for message m       *)
(* itself, d > 0 for the d-th prompt that carries a tool result back.      *)
(***************************************************************************)
EXTENDS Naturals, Sequences, FiniteSets

CONSTANTS
  Messages,      \* the messages the chat sends that are not commands
  CronMsgs,      \* those of them delivered by a cron job
  Clis,          \* the CLI names
  Manifests,     \* the CLIs an adapter was loaded for
  Flaky,         \* the CLIs whose process may fail to spawn
  NewCmds,       \* the /new commands that may be in progress together
  MaxQueue,      \* 5 in the code
  MaxToolDepth,  \* 4 in the code: 2 memory tools and 2 session tools
  MaxTools,      \* bounds the tool calls of all runs together
  None           \* undefined

Runs == Messages \X (0..MaxToolDepth)

ASSUME ChatBridgeAssumption ==
  /\ CronMsgs \subseteq Messages
  /\ Manifests \subseteq Clis
  /\ Flaky \subseteq Manifests
  /\ MaxQueue \in Nat \ {0}
  /\ MaxToolDepth \in Nat /\ MaxTools \in Nat
  /\ None \notin Runs
  /\ None \notin Clis

VARIABLES
  fate,      \* what has become of every message
  queue,     \* sessionStore.messageQueue of the chat
  entry,     \* sessionStore.sessions of the chat: a run, or None
  token,     \* sessionStore.resumeTokens: the conversation each CLI resumes
  cli,       \* the chat's active CLI
  run,       \* every call of processMessage with its CLI process
  newCmd,    \* the /new commands in progress
  flushes    \* the /interrupt commands about to flush the queue

vars == <<fate, queue, entry, token, cli, run, newCmd, flushes>>

-----------------------------------------------------------------------------
(* Runs.  A conversation is named by the run that began it: a run that     *)
(* resumes a token continues that conversation, any other begins its own.  *)

\* "starting" is processMessage before sessionStore.set, "running" a process
\* that has not reported exit, "failed" a process that never spawned.
Phases == {"none", "starting", "running", "exited", "failed", "notfound"}

\* What the process has printed: system init, then its result.
Outputs == {"none", "started", "completed"}

\* Where the bridge's handler of the completed event waits.
Handlers == {"idle", "flushing", "tool", "done"}

RunState == [phase : Phases, out : Outputs, handler : Handlers,
             killed : BOOLEAN, marked : BOOLEAN,
             resume : Runs \cup {None}, cli : Clis \cup {None}]

NotBegun == [phase |-> "none", out |-> "none", handler |-> "idle",
             killed |-> FALSE, marked |-> FALSE, resume |-> None, cli |-> None]

\* processMessage up to its first await: it reads the CLI and the token.
Begun == [NotBegun EXCEPT !.phase = "starting", !.cli = cli, !.resume = token[cli]]

Conversation(r) == IF run[r].resume = None THEN r ELSE run[r].resume

IsCron(r) == r[1] \in CronMsgs

\* session.terminate(): a process that has exited is no longer referenced.
Terminated(rs, r) ==
  IF rs[r].phase \in {"running", "failed"} THEN [rs EXCEPT ![r].killed = TRUE] ELSE rs

IsBusy == entry # None

\* Faulty variant: pop instead of shift.
FlushNewest(rs) ==
  \/ /\ queue = <<>>
     /\ run' = rs
     /\ UNCHANGED <<fate, queue>>
  \/ /\ queue # <<>>
     /\ queue' = SubSeq(queue, 1, Len(queue) - 1)
     /\ fate' = [fate EXCEPT ![queue[Len(queue)]] = "accepted"]
     /\ run' = [rs EXCEPT ![<<queue[Len(queue)], 0>>] = Begun]

\* flushQueue, called when the runs are rs: the oldest queued message, if
\* there is one, goes to processMessage with no look at isBusy.
FlushQueue(rs) ==
  \/ /\ queue = <<>>
     /\ run' = rs
     /\ UNCHANGED <<fate, queue>>
  \/ /\ queue # <<>>
     /\ queue' = Tail(queue)
     /\ fate' = [fate EXCEPT ![Head(queue)] = "accepted"]
     /\ run' = [rs EXCEPT ![<<Head(queue), 0>>] = Begun]

-----------------------------------------------------------------------------
Init ==
  /\ fate     = [m \in Messages |-> "new"]
  /\ queue    = <<>>
  /\ entry    = None
  /\ token    = [c \in Clis |-> None]
  /\ cli      \in Clis
  /\ run      = [r \in Runs |-> NotBegun]
  /\ newCmd   = [n \in NewCmds |-> [step |-> "idle", session |-> None, cli |-> None]]
  /\ flushes  = 0

(* The messages of the chat: handleMessage after parseCommand declined.    *)

QueueFull(m) ==
  /\ fate[m] = "new"
  /\ IsBusy
  /\ Len(queue) >= MaxQueue
  /\ fate' = [fate EXCEPT ![m] = "dropped"]
  /\ UNCHANGED <<queue, entry, token, cli, run, newCmd, flushes>>

Enqueue(m) ==
  /\ fate[m] = "new"
  /\ IsBusy
  /\ Len(queue) < MaxQueue
  /\ fate'  = [fate EXCEPT ![m] = "queued"]
  /\ queue' = Append(queue, m)
  /\ UNCHANGED <<entry, token, cli, run, newCmd, flushes>>

ProcessNow(m) ==
  /\ fate[m] = "new"
  /\ ~IsBusy
  /\ fate' = [fate EXCEPT ![m] = "accepted"]
  /\ run'  = [run EXCEPT ![<<m, 0>>] = Begun]
  /\ UNCHANGED <<queue, entry, token, cli, newCmd, flushes>>

(* processMessage after its awaits.                                        *)

\* No adapter: the reply says so, and nothing flushes the queue.
CliNotFound(r) ==
  /\ run[r].cli \notin Manifests
  /\ run' = [run EXCEPT ![r].phase = "notfound"]
  /\ UNCHANGED <<fate, queue, entry, token, cli, newCmd, flushes>>

SpawnSession(r) ==
  /\ run[r].cli \in Manifests
  /\ entry' = r
  /\ run' = [run EXCEPT ![r].phase = "running"]
  /\ UNCHANGED <<fate, queue, token, cli, newCmd, flushes>>

\* The child process reports error and, as it never ran, no exit.
SpawnFails(r) ==
  /\ run[r].cli \in Flaky
  /\ entry' = r
  /\ run' = [run EXCEPT ![r].phase = "failed", ![r].marked = IsCron(r)]
  /\ UNCHANGED <<fate, queue, token, cli, newCmd, flushes>>

(* The events of a session.  Its listeners stay attached after terminate,  *)
(* and lines still buffered are read after the process has exited.         *)

\* Faulty variant: the token is saved under the CLI that is active now.
StartedForActiveCli(r) ==
  /\ run[r].phase \in {"running", "exited"}
  /\ run[r].out = "none"
  /\ token' = [token EXCEPT ![cli] = Conversation(r)]
  /\ run' = [run EXCEPT ![r].out = "started"]
  /\ UNCHANGED <<fate, queue, entry, cli, newCmd, flushes>>

Started(r) ==
  /\ run[r].phase \in {"running", "exited"}
  /\ run[r].out = "none"
  /\ token' = [token EXCEPT ![run[r].cli] = Conversation(r)]
  /\ run' = [run EXCEPT ![r].out = "started"]
  /\ UNCHANGED <<fate, queue, entry, cli, newCmd, flushes>>

\* The handler saves the token and is done, or goes on to run a tool the
\* answer asks for.
SaveToken(r) ==
  LET calls == {s \in Runs : run[s].handler = "tool" \/ (s[2] > 0 /\ run[s].phase # "none")}
  IN
  \E next \in {"done"} \cup
               (IF r[2] < MaxToolDepth /\ Cardinality(calls) < MaxTools THEN {"tool"} ELSE {}) :
    /\ token' = [token EXCEPT ![run[r].cli] = Conversation(r)]
    /\ run' = [run EXCEPT ![r].out = "completed", ![r].handler = next,
                          ![r].marked = @ \/ IsCron(r)]

Completed(r) ==
  /\ run[r].phase \in {"running", "exited"}
  /\ run[r].out = "started"
  /\ \/ SaveToken(r)
     \/ \* streaming, or a failed cron expectation: an await comes first
        /\ run' = [run EXCEPT ![r].out = "completed", ![r].handler = "flushing",
                              ![r].marked = @ \/ IsCron(r)]
        /\ UNCHANGED token
  /\ UNCHANGED <<fate, queue, entry, cli, newCmd, flushes>>

StreamFlushed(r) ==
  /\ run[r].handler = "flushing"
  /\ SaveToken(r)
  /\ UNCHANGED <<fate, queue, entry, cli, newCmd, flushes>>

\* Faulty variant: the handler does not stop after handing the result on.
ToolAnsweredAgain(r) ==
  /\ run[r].handler = "tool"
  /\ run' = [run EXCEPT ![<<r[1], r[2] + 1>>] = Begun]
  /\ UNCHANGED <<fate, queue, entry, token, cli, newCmd, flushes>>

\* The tool's result goes to a processMessage of its own, whether or not the
\* process that asked for it has exited.
ToolAnswered(r) ==
  /\ run[r].handler = "tool"
  /\ run' = [run EXCEPT ![r].handler = "done", ![<<r[1], r[2] + 1>>] = Begun]
  /\ UNCHANGED <<fate, queue, entry, token, cli, newCmd, flushes>>

ToolFailed(r) ==
  /\ run[r].handler = "tool"
  /\ run' = [run EXCEPT ![r].handler = "done"]
  /\ UNCHANGED <<fate, queue, entry, token, cli, newCmd, flushes>>

\* Faulty variant: a session that is no longer the chat's flushes nothing.
ExitFlushesOwnOnly(r) ==
  /\ run[r].phase = "running"
  /\ LET exited == [run EXCEPT ![r].phase = "exited", ![r].marked = @ \/ IsCron(r)]
     IN  \/ /\ entry = r
            /\ entry' = None
            /\ FlushQueue(exited)
         \/ /\ entry # r
            /\ run' = exited
            /\ UNCHANGED <<fate, queue, entry>>
  /\ UNCHANGED <<token, cli, newCmd, flushes>>

\* Faulty variant: a cron job hears nothing of a process that died.
ExitUnmarked(r) ==
  /\ run[r].phase = "running"
  /\ entry' = None
  /\ FlushQueue([run EXCEPT ![r].phase = "exited"])
  /\ UNCHANGED <<token, cli, newCmd, flushes>>

\* Faulty variant: exit flushes nothing.
ExitWithoutFlush(r) ==
  /\ run[r].phase = "running"
  /\ entry' = None
  /\ run' = [run EXCEPT ![r].phase = "exited", ![r].marked = @ \/ IsCron(r)]
  /\ UNCHANGED <<fate, queue, token, cli, newCmd, flushes>>

\* exit deletes the chat's entry, whichever session it holds by now.  That the
\* process was killed matters to nothing any more.
Exit(r) ==
  /\ run[r].phase = "running"
  /\ entry' = None
  /\ FlushQueue([run EXCEPT ![r].phase = "exited", ![r].killed = FALSE,
                            ![r].marked = @ \/ IsCron(r)])
  /\ UNCHANGED <<token, cli, newCmd, flushes>>

(* The commands: parseCommand, run at once even when the chat is busy.     *)

Use(c) ==
  /\ c \in Manifests
  /\ cli' = c
  /\ UNCHANGED <<fate, queue, entry, token, run, newCmd, flushes>>

Stop ==
  /\ entry # None
  /\ run' = Terminated(run, entry)
  /\ entry' = None
  /\ UNCHANGED <<fate, queue, token, cli, newCmd, flushes>>

Interrupt ==
  /\ entry # None
  /\ run' = Terminated(run, entry)
  /\ entry' = None
  /\ flushes' = flushes + 1
  /\ UNCHANGED <<fate, queue, token, cli, newCmd>>

\* The reply to /interrupt has been sent.
InterruptFlush ==
  /\ flushes > 0
  /\ flushes' = flushes - 1
  /\ FlushQueue(run)
  /\ UNCHANGED <<entry, token, cli, newCmd>>

\* /new reads the session, then waits for the memory sync.
NewBegin(n) ==
  /\ newCmd[n].step = "idle"
  /\ newCmd' = [newCmd EXCEPT ![n] = [step |-> "syncing", session |-> entry, cli |-> cli]]
  /\ UNCHANGED <<fate, queue, entry, token, cli, run, flushes>>

NewClear(n) ==
  /\ newCmd[n].step = "syncing"
  /\ newCmd' = [newCmd EXCEPT ![n].step = "clearing"]
  /\ token' = [token EXCEPT ![newCmd[n].cli] = None]
  /\ UNCHANGED <<fate, queue, entry, cli, run, flushes>>

\* Faulty variant: the entry stays.
NewFinishKeepingEntry(n) ==
  /\ newCmd[n].step = "clearing"
  /\ newCmd' = [newCmd EXCEPT ![n] = [step |-> "idle", session |-> None, cli |-> None]]
  /\ \/ /\ newCmd[n].session = None
        /\ UNCHANGED run
     \/ /\ newCmd[n].session # None
        /\ run' = Terminated(run, newCmd[n].session)
  /\ token' = [c \in Clis |-> None]
  /\ UNCHANGED <<fate, queue, entry, cli, flushes>>

\* Faulty variant: the tokens are not cleared once more at the end.
NewFinishKeepingTokens(n) ==
  /\ newCmd[n].step = "clearing"
  /\ newCmd' = [newCmd EXCEPT ![n] = [step |-> "idle", session |-> None, cli |-> None]]
  /\ \/ /\ newCmd[n].session = None
        /\ UNCHANGED <<entry, run>>
     \/ /\ newCmd[n].session # None
        /\ run' = Terminated(run, newCmd[n].session)
        /\ entry' = None
  /\ UNCHANGED <<fate, queue, token, cli, flushes>>

\* It terminates the session it read, deletes the one the chat has now,
\* clears the tokens of every CLI and answers "Starting fresh."
NewFinish(n) ==
  /\ newCmd[n].step = "clearing"
  /\ newCmd' = [newCmd EXCEPT ![n] = [step |-> "idle", session |-> None, cli |-> None]]
  /\ \/ /\ newCmd[n].session = None
        /\ UNCHANGED <<entry, run>>
     \/ /\ newCmd[n].session # None
        /\ run' = Terminated(run, newCmd[n].session)
        /\ entry' = None
  /\ token' = [c \in Clis |-> None]
  /\ UNCHANGED <<fate, queue, cli, flushes>>

-----------------------------------------------------------------------------
Receive(m) == QueueFull(m) \/ Enqueue(m) \/ ProcessNow(m)

StartRun(r) ==
  /\ run[r].phase = "starting"
  /\ CliNotFound(r) \/ SpawnSession(r) \/ SpawnFails(r)

HandleEvent(r) ==
  \/ Started(r) \/ Completed(r) \/ StreamFlushed(r)
  \/ ToolAnswered(r) \/ ToolFailed(r) \/ Exit(r)

Command ==
  \/ Stop \/ Interrupt \/ InterruptFlush
  \/ \E c \in Clis : Use(c)
  \/ \E n \in NewCmds : NewBegin(n) \/ NewClear(n) \/ NewFinish(n)

Next ==
  \/ \E m \in Messages : Receive(m)
  \/ \E r \in Runs : StartRun(r) \/ HandleEvent(r)
  \/ Command

Spec == Init /\ [][Next]_vars

(* processMessage's awaits return, a CLI ends or is killed, an answered     *)
(* /interrupt goes on to its flush.  The user and a CLI's output owe        *)
(* nothing.                                                                 *)
Fairness ==
  /\ \A r \in Runs : WF_vars(StartRun(r)) /\ WF_vars(Exit(r))
  /\ WF_vars(InterruptFlush)

FairSpec == Spec /\ Fairness

-----------------------------------------------------------------------------
(* Properties.                                                             *)

\* Every variable stays in its range; the queue never outgrows MaxQueue
\* (the limit handleMessage checks before it enqueues).
TypeOK ==
  /\ fate \in [Messages -> {"new", "queued", "accepted", "dropped"}]
  /\ queue \in Seq(Messages)
  /\ Len(queue) <= MaxQueue
  /\ entry \in Runs \cup {None}
  /\ token \in [Clis -> Runs \cup {None}]
  /\ cli \in Clis
  /\ run \in [Runs -> RunState]
  /\ newCmd \in [NewCmds -> [step : {"idle", "syncing", "clearing"},
                             session : Runs \cup {None}, cli : Clis \cup {None}]]
  /\ flushes \in Nat

\* However exits, /new, /stop, /interrupt and the two callers of flushQueue
\* interleave, the chat's messages go through a bounded FIFO mailbox: none is
\* handed over twice, overtaken in the queue, or refused while there is room.
MailboxOf == INSTANCE Mailbox
MailboxSpec == MailboxOf!Spec

\* A chat is busy only because of a session that can still be stopped: its
\* entry never names a process that has exited or was already terminated,
\* though any exit, and any /new, deletes whatever entry it finds.
EntryIsStoppable ==
  entry # None => /\ run[entry].phase \in {"running", "failed"}
                  /\ ~run[entry].killed

\* processMessage runs for a message exactly when the mailbox handed it over,
\* and for a tool result only once the run before it has answered.
RunsAreAccountedFor ==
  /\ \A m \in Messages : run[<<m, 0>>].phase # "none" <=> fate[m] = "accepted"
  /\ \A r \in Runs : run[r].phase # "none" /\ r[2] > 0 =>
       run[<<r[1], r[2] - 1>>].handler = "done"

\* A process that will exit, or a call that will start one or flush.
WillFlush ==
  \/ flushes > 0
  \/ \E r \in Runs : run[r].phase \in {"starting", "running"}

\* Queued messages can be stranded in one way only: a CLI failed to spawn,
\* so that no exit event follows.  No order of commands, exits and tool
\* results strands them otherwise.
StrandedOnlyBySpawnFailure ==
  queue # <<>> => WillFlush \/ \E r \in Runs : run[r].phase = "failed"

\* A resume token names a conversation that a process of that same CLI
\* reported, and a run resumes only such a token: /use between the start of
\* a run and its events never hands one CLI's session to another.
TokensBelongToTheirCli ==
  /\ \A c \in Clis : token[c] # None =>
       /\ run[token[c]].cli = c
       /\ run[token[c]].resume = None
       /\ run[token[c]].out # "none"
  /\ \A r \in Runs : run[r].resume # None =>
       /\ run[run[r].resume].cli = run[r].cli
       /\ run[run[r].resume].resume = None
       /\ run[run[r].resume].out # "none"

\* A run made for a cron job has reported to cronService.markComplete once
\* its process answered, exited or failed to spawn, and never before.
CronIsMarkedByItsRun ==
  \A r \in Runs :
    run[r].marked <=> /\ IsCron(r)
                      /\ \/ run[r].out = "completed"
                         \/ run[r].phase \in {"exited", "failed"}

\* A message that waits is processed in the end, whatever the user types,
\* unless a CLI failed to spawn.
QueuedIsProcessed ==
  \A m \in Messages :
    fate[m] = "queued" ~> fate[m] = "accepted" \/ \E r \in Runs : run[r].phase = "failed"

=============================================================================

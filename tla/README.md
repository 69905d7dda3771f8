# Verification of bitesbot's bridge and scheduler

bitesbot lets a Telegram chat talk to command-line agents (Claude, Droid,
Codex, Pi). A *gateway* turns Telegram updates into WebSocket events and HTTP
requests into Telegram calls; a *bridge* reads those events, runs one CLI
process per answer and sends its output back; a *cron service* and a registry
of *subagents* start processes of their own. This directory holds TLA+ modules
for the parts of it that keep state and meet each other, TLC configurations
that check them on small instances, and proofs, checked by TLAPS, of every
safety property that the passing runs check.

Contents: 1 the system; 2 the modules; 3 the runs; 4 bounds; 5 fairness;
6 proofs; 7 what the code does otherwise than its documents say; 8 what is not
modelled; 9 the plan and where it stands.

Line numbers are those of the files under `src/`. `jsonl-bridge.ts`,
`jsonl-session.ts` and the like are under `src/src/bridge/`.

## 1. The system

### Components, state, operations

| component | where | state | operations |
|---|---|---|---|
| Chat session | `jsonl-bridge.ts` (`startBridge`, `parseCommand`, `processMessage`), session store of `jsonl-session.ts` | per chat: the current session, a queue of at most 5 messages, a resume token per CLI, the active CLI | message, cron prompt, `/use`, `/new`, `/stop`, `/interrupt`; start, result and exit of a CLI; tool results that become prompts |
| CLI session | `jsonl-session.ts` | process, last text, pending tools | a line of any CLI's format becomes events; terminate |
| Answers | `jsonl-bridge.ts` 1434-1570, 1628-1893, `normalize.ts`, `gateway/telegram-renderer.ts` | stream buffer, timer, chain of flushes, the message being edited, normalised events | text event, timer, flush, splitting, delivery of the answer by the bridge or by the gateway, `/stream` |
| Command lanes | `command-queue.ts` | per lane: queue, active, maxConcurrent, draining | enqueue, setLaneConcurrency, clearLane, drain |
| Subagents | `subagent-registry.ts`, `spawnSubagentInternal` | records of a chat's subagents, their processes, the Subagent lane | spawn, Task calls, start, result, exit, stop, prune, injection of results |
| Cron service | `cron/service.ts`, `scheduler.ts`, `store.ts` | jobs with nextRunAtMs and lastRunAtMs, the file, one timer, checkInProgress, pendingHeartbeat | start, check, add, remove, enable, run, markComplete, flush of heartbeats |
| Cron runs | `cron/run-history.ts`, `jsonl-bridge.ts` 2222-2343 | activeRuns, run history, Cron lane | isolated and main runs, heartbeat, completion |
| Persistent store | `session-store.ts` | tokens, active CLI, settings in memory and in a file | load at the start of a bridge, set, clear, write of the whole file |
| Session memory | `memory-sync.ts`, `auto-memory-flush.ts`, log of `session-store.ts` | daily logs, memory files, flush states | append; sync at the start, at `/new`, by the automatic flush |
| Gateway | `gateway/server.ts` | messages fetched and not confirmed, sockets, one HTTP server | fetch, broadcast, send, edit, close |
| Daemon | `daemon/*.ts`, `/restart` | processes, pid file | start, stop, restart, `/restart`, signals, shutdown |
| the rest | parsing, rendering, media, recall, workspace, skills, logging | none, or an index rebuilt from files | see section 8 |

### Interactions

* A message comes from the gateway's socket into `handleMessage`; a busy chat
  enqueues it, otherwise `processMessage` spawns a CLI. Its lines arrive as
  events of the session; the exit of the process deletes the chat's session
  and flushes the queue.
* The answer is scanned for `/spawn` and tool calls. A tool's result becomes
  another call of `processMessage`, while the process that asked for it may
  still be alive.
* A CLI's Task tool or `/spawn` makes a record in the registry and, for
  `/spawn`, a process on the Subagent lane; results wait there until a later
  message of the same parent session takes them into its prompt.
* The cron service calls the bridge back with events; an isolated job runs on
  the Cron lane, a main job is put to the chat like a message and so may be
  queued. The completed, error and exit handlers tell the service with
  `markComplete`.
* Gateway and bridge run in one process and talk over a WebSocket that is opened
  once. The command line knows a running process by the pid file only, so two
  processes may be alive at once and share every file.
* `/new`, the start of a bridge and the automatic flush after an answer each
  summarise the daily log into the memory file, independently of one another.

### What is hard here

Everything runs on one event loop, so a step is never torn; but every `await`
lets any other handler run. The hazards, each at its line in `PROJECT.json`:

* a test before an `await` and the act after it (`isBusy` at 2087 and
  `sessionStore.set` at 1432; `canSpawn`; the token read at 1289);
* two processes of one chat alive at once, each with handlers that delete or
  overwrite what the other put into the session store;
* events read after what they belong to was replaced: a `started` after
  `/new`, a result after `/stop`, a line after the exit;
* two sources for one wake-up (queue flush, lane drain, cron timer), where a
  missing one stops everything behind it;
* files written whole and not in order, by one process or by two, and crashes
  between an effect and the save that records it;
* a process that is told to end while it starts, or to start while another ends;
* a value compared after an `await` with what was sent before it (1507).

### What makes each part correct

Chat: messages go through a bounded FIFO queue, none stranded; the store names
only a process that can be stopped; tokens belong to their CLI; `/new` is final;
a cron job hears from its run. Lanes: FIFO, never above the limit, no lost
wake-up, every task settles. Subagents: the lane neither overfills nor idles;
what is over is not active, but for named reasons; results are final and told
once. Cron: no run twice, every enabled job armed and scheduled as long as its
schedule names a later run, what is due is fired; the history tells
which runs there were and how they ended, and every run settles. Answers: the
answer appears whole, in order, and nothing shown is taken back. Store: writes
that do not overlap lose nothing. Memory: what is in the memory file stays, and
a `/new` whose sync writes saves what the session said. Gateway: no message is
lost or handed over twice in silence, and a process can be found as long as it
serves.

## 2. The modules

| module | models | lines up with the code as follows |
|---|---|---|
| `Mailbox` | *abstract*: the messages of a chat as a bounded FIFO mailbox | - |
| `ChatBridge` | one chat: `handleMessage`, `processMessage`, the session's handlers, `/use`, `/new`, `/stop`, `/interrupt` | an action is the code one callback runs between two awaits. A *run* `<<m, d>>` is one call of `processMessage`: for message `m` (`d = 0`), or for the `d`-th tool result. `run[r].phase` is its process, `.out` what was read of it, `.handler` where the completed handler waits |
| `ChatBridgeFresh` | the same with the history `/new` is judged by | ghost variables beside `NewFinish` only |
| `ChatBridgeProofs` | proofs about `ChatBridge` and `ChatBridgeFresh` | - |
| `Executor` | *abstract*: what a lane promises its callers | - |
| `CommandLane` | `drainLane`, `pump`, `enqueue`, `setLaneConcurrency`, `clearLane` | `stack` is the call stack: a task may call into its lane before its first await, and a pump may run inside another |
| `CommandLaneProofs` | proofs about `CommandLane` | - |
| `Subagents` | the registry, `spawnSubagentInternal`, Task calls | `rec` the record, `step` the life of the subagent itself, `waiting` the lane (which starts tasks as `Executor` says); `toSave`, `writing` and `file` are the saves of the registry and its file, which the action `Restart` loads |
| `SubagentsProofs` | proofs about `Subagents` | - |
| `CronService` | `start`, `check`, `queueDueJob`, `armTimer`, the commands and the file | `loop` is `start()` or `check()` with the runs left and what it awaits; `op` the commands in progress; a save carries the store as it was when it was called |
| `CronServiceProofs` | proofs about `CronService` | - |
| `CronRuns` | a run of a job from `queueDueJob` to its end: heartbeat jobs and `triggerHeartbeat`, `runCronJobMain`, `runCronJobIsolated`, `activeRuns`, the history | `run[r].phase` is how far run `r` is; `active`, `history`, `pending`, `primary` are the variables of the code; the Cron lane is `Executor` |
| `CronRunsProofs` | proofs about `CronRuns` | - |
| `SessionMemory` | `logSessionMessage`, `syncSessionToMemory`, `maybeAutoFlushSessionToMemory` | `syncs` and `flushes` are calls in progress, each with the next await, and each await may fail; a line of `log` may be `Torn`; `objects` and `current` the flush states and the map that holds one |
| `SessionMemoryProofs` | proofs about `SessionMemory` | - |
| `SessionStore` | `session-store.ts` and the tokens of `createSessionStore`, per process | `kept` is the store in memory, `file` what is on disk, `saves` the writes in flight, each an open and a write |
| `Gateway` | the processes of the gateway, the command line, `/restart`, the pid file, and the way of a message from Telegram to the bridge | `phase[p]` is how far process `p` is in `run.ts`, `job[j]` an invocation of `cli.ts`, `at[m]` where a message is |
| `Restart` | `Gateway` and `SessionStore` composed | an end of a process in `Gateway` loses its writes in `SessionStore` |
| `RestartProofs` | proofs about `Gateway`, about `Restart`, which extends it, and, in it, `SessionStore` | - |
| `AnswerStream` | one run's answer: `translateEvent`, the stream buffer and its flushes, `case 'completed'`, `splitMessage`, `normalize.ts` and the gateway's renderer | `requests` are HTTP requests under way, `chain` the flushes waiting on `streamFlushChain`, `timer` `streamTimer`, `merged` the normalised events; `toSend` is the text that is still to be split, each message being cut off as it is sent |
| `AnswerStreamProofs` | proofs about `AnswerStream` | - |
| `MC...` | constants for TLC | - |

Composition: `ChatBridge` implements `Mailbox` (`MailboxSpec`), `CommandLane`
implements `Executor` (`ExecutorSpec`, with `Running`, the ended and the
cleared tasks as refinement mapping). `Subagents` uses the lane at the level of
`Executor`, and `CronRuns` instantiates `Executor` for the Cron lane; the step
from `Executor` to the code is `CommandLane`'s. `Restart` extends `Gateway` and
instantiates `SessionStore`: its steps are the gateway's, with what they do to
the stores, and the stores' own in processes that are in the phase for them.
`CronRuns` begins where `CronService` fires a run; `RunsAreAccountedFor` and
`CronIsMarkedByItsRun` of the chat take up a main job's prompt where `CronRuns`
leaves it.

What the abstractions keep and leave out:

* `ChatBridge`: every map of the store is keyed by chat, so a chat is modelled
  alone. A conversation is named by the run that began it. Whether an answer
  contains a tool call is the CLI's choice; `MaxToolDepth` bounds them as the
  code's two counters do. A process that is terminated may still have lines
  that are read. Texts, prompts and replies are left out; no test of the code
  reads them back.
* `CommandLane`: a task is an opaque identity that calls the lane, awaits,
  throws or ends. Lanes do not share state, so one is modelled. An entry's
  warning after a wait is logging and left out.
* `Subagents`: a record's age for the time to live is a choice (any record that
  is done may be that old). The announcement texts are left out.
* `CronService`: time is a number; a cron expression is the set of times it
  names, which may be empty or used up. The module keeps a run's append and save
  as separate awaits. `owed`, `taken` and `twice` are ghosts.
* `CronRuns`: when a job is fired is a choice here, `CronService` has it. A
  history line is which run it is about and how that was. Its summary, cost and
  times are left out.
* `AnswerStream`: a text is a sequence of letters and line breaks, which are the
  only white space. It carries no directive and no Markdown, and no tool runs. That
  Pi's `message_end`, `turn_end` or `agent_end` gives a text of its own
  (`jsonl-session.ts:531-539`, `632-650`) is a choice when the answer is
  completed, where alone it is used. A request may be refused, which the code
  treats like any answer without an id.
* `Gateway`: outside launchd. `restart` of the command line sleeps for a time
  that may be longer or shorter than the shutdown. Contents, downloads and the
  other HTTP routes are left out.
* `SessionStore`: the settings are one switch, which is what merging them and
  writing them can get wrong. A write truncates the file and then puts its text
  over what is there; a file that is no JSON is read as an empty store, as the
  code does.
* `SessionMemory`: one day and one chat. A summary is the set of entries it
  shows; an entry's append is over before the next message of the same chat is
  handled, since seconds pass between them. The log and the memory file may be
  there and not be read, `mkdir` and `writeFile` may fail, `writeFile` also after
  it has truncated, and a crash may cut off an append: one illegible line makes
  the whole log unreadable, as `JSON.parse` does. A write that fails is not told
  apart by how much of it is there. An append or the sync of an automatic flush
  that fails ends the process, since nobody handles the rejection (1764), and is
  part of `Crash`.

The operators marked "Faulty variant" are the definitions of that name with one
plausible mistake. They are used by no specification; `PROJECT.json` names each
under "mutants", and a check with it in place of the right definition violates
the property named there.

## 3. The runs

Distinct states and times with two workers. A passing run finishes with no
error; a deviation is found within seconds.

| run | states | asks |
|---|---|---|
| `chat_queue` | 910,873, 150 s | Does a chat with more messages than its queue holds and a tool call in each, with `/stop` and `/interrupt` at any moment, still implement `Mailbox`? Which runs exist (`RunsAreAccountedFor`), and is any queued message left with nothing to flush it (`StrandedOnlyBySpawnFailure`)? |
| `chat_sessions` | 603,886, 95 s | With `/new`, `/use` and `/stop` between any two steps of two runs on three CLIs, one that may not spawn and one without an adapter, one run a cron job's: does the entry name a process that can be stopped, a token its own CLI's conversation, does a conversation from before `/new` come back only through a process still alive or being read then, is the job marked exactly when its run is over, and is a queued message processed in the end? |
| `lane` | 11,106, 6 s | Four tasks that call back into the lane, throw at once, or end while others drain, with limits 0 and 2, and `clearLane`: lost wake-ups, the count, the refinement of `Executor`, and that every task settles. |
| `subagents` | 328,190, 32 s | Two subagents or Task calls on a lane of one, with `/stop`, pruning, overlapping saves and a restart: is the lane full whenever something waits, which records count as active and why, is a result told once and final, does each waiting subagent get its turn? |
| `cron` | 358,547, 62 s | An isolated job of an expression that names two times and a heartbeat job that repeats at every interval, a command at every await of a check, saves that fail or land late, one crash: is a run fired twice, is an enabled job unarmed or without a next run, is every due run taken up? |
| `cron_runs` | 855,432, 95 s | Runs of an isolated, a heartbeat and a main job, overlapping, failing to spawn, failing to append or to save, with one end of the process: does the history tell what happened, does the lane wait for it, which jobs does the first message drop, does every run settle? |
| `answer_stream` | 1,520,819, 136 s | Texts with and without line breaks in every CLI's events, with slow and refused requests, the timer, `/stream` and either way of delivery: is the answer shown whole, in order, without taking anything back, and does the handler end? |
| `gateway` | 64,990, 41 s | `start`, `stop`, `restart` and `/restart` at any moment of two processes' lives, with messages under way and a crash: can a serving process be found, is every message accounted for, does everything settle? |
| `restart` | 395,488, 38 s | Two processes, one after the other or overlapping, that change tokens, active CLI and settings: does the file hold what its owner has, and does a run resume the conversation that its process's store has? |
| `memory` | 2,371,642, 58 s | `/new`, automatic flushes, a start and notes of the CLI that sync at once, with failing reads and writes: what can take anything out of the memory file, does a `/new` that writes save what the session said, are two flushes apart? |
| `cron_restart`, `answer_late` | - | deviations, section 7 |

Every module has a type invariant. It is an invariant of a run where it says
more than ranges (`subagents`: no half of a pruned record comes back; `cron`: a
removed job has no next run; `answer_stream`: no chunk is empty or too long);
all are proved.

Deadlock is not checked: a chat, lane, job or process whose inputs are used up
stops, and so does one that the user leaves alone.

## 4. Bounds, and why they are enough

* `chat_queue`: four messages, a queue of two, one tool call per message. One
  message is processed while two wait and a fourth is refused, or after a flush
  accepted; a FIFO violation needs two that wait; the run of a result overlaps
  both the run that asked and one of another message. The messages are
  interchangeable, hence the symmetry; the refinement checked there is of a
  safety specification. Resume tokens decide only what later runs resume, so
  the view leaves them out. No `/new` and one CLI, because neither touches the
  queue except through the exit of a process.
* `chat_sessions`: two runs overlap whenever the second message arrives before
  `sessionStore.set` or after `/stop`; every hazard about entries, tokens and
  cron marks takes two runs and one command. Three CLIs, so that `/use` means
  something and a spawn can fail in both ways; one `/new` is enough to bring an
  old conversation back. A queue of one is enough to wait in.
* `lane`: four tasks and limits one and two: a nested pump that starts a task
  while another waits needs three, the fourth can end in between.
* `subagents`: two subagents on a lane of one, so that one waits; at most one
  active per chat, so that the limit is met; one record is kept, so that a
  completed record is pruned while the other lives; one restart, with a save
  before it, one at work and one outstanding.
* `cron`: one command at any await of a check, and the command's own save may
  outlast the check. The clock ends at 2 with an interval of 1: the expression's
  first time comes due together with the other job's run, its second stays to be
  scheduled, and the timer may be the interval's or a job's. One crash at any
  point; saves of a check may fail. An expression that is used up, the missed runs
  that `start()` finds, which take a run before the crash and another after it,
  two commands on one job and "every 0m" need more time, more commands or a job
  more; they are in the module, and the proofs of section 6 cover them, but
  for `DueIsFired`.
* `cron_runs`: the isolated and the heartbeat job may be fired twice, so that
  two runs of a job overlap, one on the lane and one waiting, and a message finds
  two jobs pending; the main job is fired once beside them. No chat is
  configured, which is the case in which a job may be dropped. One crash.
* `answer_stream`: flush at 4, messages of 4, texts of 7 in events of 1, 2 or 4:
  the answer is below the length of a message, at it and above it, its second
  chunk is not empty, and a split may fall at a line break, beside one or away
  from it. The pieces make an event a prefix of the buffer, an extension, or
  neither, with white space in front, inside and behind, so that trimming
  changes what is sent. Seven is the least at which a text that was cut grows
  past a break it was not cut at, which is how the exception for refusals in
  `ShownOnlyGrows` comes about. `/stream` once, since a second time brings back
  the first setting.
* `gateway`: two processes and three invocations: one starts the first process,
  the others stop it and start the second in any order, the last may be the
  restart that `/restart` runs. One crash. A message and a `/restart` may be
  fetched by either process.
* `restart`: two changes, so that two writes overlap in a process or across
  two; one crash, in a write or between writes. The invocations are
  interchangeable, hence the symmetry; only safety properties are checked.
* `memory`: two turns reach the threshold twice; four syncs let a start, a
  `/new` and two flushes overlap. A summary shows one message of two, so that
  what it shows differs from what it has read. One note, one crash, time 1; any
  operation on files may fail.

The proofs of section 6 need none of these bounds: where a module bounds its
clock, its crashes or its commands, the bound is any natural number.

## 5. Fairness, and why the code justifies it

* `ChatBridge`: weak fairness of the awaits of `processMessage` (file reads and
  HTTP requests that return or fail), of the exit of a process (a CLI in print
  mode ends, or is killed) and of the rest of `/interrupt` once it answered.
  Nothing is assumed of the user, of `/new`, or of a CLI ever printing.
* `CommandLane`: weak fairness of a pump, which is synchronous code; strong
  fairness of a task's return and of its end. A task that calls the lane only
  finitely often before it awaits is enabled to return again and again; the
  callback of a settled promise is run by the event loop even if other code
  keeps calling the lane before it, each such call disabling it for a moment.
  That tasks end is what the lane assumes of its callers.
* `Subagents`: the awaits before a process starts return, a process exits.
  A process that fails to spawn gives its place back never, and
  `WaitingIsStarted` says so. Saves of the registry owe nothing.
* `CronService`: a timer fires when its time has come, file operations return,
  commands go on. The clock owes nothing.
* `CronRuns`: file operations and requests return or fail, the lane starts what
  it can, a CLI process ends. One weak fairness of all of these is enough, as
  the runs are bounded and no step can be taken for ever.
* `AnswerStream`: the gateway answers or refuses each request, a timer fires,
  awaited code goes on. The CLI owes nothing.
* `Gateway`: for each process its own steps, its timers and its polling go on
  until it is gone; connections of a closing process end; a restart that was
  begun starts its process. Nobody owes an invocation of the command line or a
  message, and processes may crash, but finitely often.
* `Restart` and `SessionMemory` are checked for safety only.

## 6. Proofs

Eight modules hold theorems. Each has one inductive invariant, `IInv` (for the
gateway `GatewayInv`), in which TLC found no violation on an instance like
the run's before it was proved; a lemma says of each action that it keeps the
invariant, and the theorems follow. What is assumed are the modules' named
assumptions on their constants, which the runs evaluate, and nothing else.

### CommandLaneProofs

From the module's assumption on the constants alone (`Limits` natural numbers,
`None` no task), for any set of tasks:

* `TypeCorrect`: `Spec => []TypeOK`;
* `ActiveIsExact`: `active` is the number of tasks called and not ended;
* `NoLostWakeup`: `WorkConserving`: when the call stack is empty, the draining
  flag is down and a task waits only at the limit;
* `Bookkeeping`: the inductive invariant `IInv` itself;
* `LaneIsExecutor`: `Spec => ExecutorSpec`.

`WorkConserving` is not inductive: while the stack is not empty nothing is said,
and when it empties one must know that the pump that returns has just looked at
the queue. `IInv` therefore adds the exact content of the queue (each waiting
task once, none missing), of the call stack (a pump at the bottom, each task at
most once, in the state its frame says) and `active` as a cardinality, with
`Running` finite so that adding and removing one task changes it by one. The
proof of its preservation has a step for every action and under it one for every
conjunct; the refinement then maps every action to a step of `Executor` or to a
stutter. The cardinality facts come from `FiniteSetTheorems`.

### CronServiceProofs

For any jobs, schedules, modes, number of commands, interval and bounds:

* `TypeCorrect`: the types, which also say that no job that was removed has a
  next run, in memory, in the file or in a save in flight;
* `NoLostWakeup`: `EnabledIsArmed`: at rest the timer is no later than the next
  run of any enabled job;
* `NoRunTwice`: `FiresOnce`: no check fires a run that a check fired before,
  except of a job of "every 0m", whose next run is the moment it is fired at;
* `RepeatsForever`: `NeverRunsOut`: an enabled job has a next run while its
  schedule names one after the clock.

`FiresOnce` needs an ordering that only the strengthening states. `RunsMoveOn`
says that each run a check has left, and each next run, is later than the last
run fired, but for jobs of "every 0m" and the one job whose record is being
appended: between
`queueDueJob` and `scheduleNextRun` its stored next run is the one just fired.
`AwaitsAreWhole` says that what an awaiting loop will continue with is there. A
crash is where this is delicate: the file may hold any save that was called, so
the restart's recomputation of every next run from the clock is what keeps
`RunsMoveOn`; keeping a stored next run that has passed (the faulty variant
`BootKeepingNext`) breaks it.

### ChatBridgeProofs

For any messages, CLIs with or without an adapter, tool depth, queue length and
number of commands; any of the CLIs with an adapter may fail to spawn.

* `TypeIsCorrect`; `BusyMeansStoppable`: `EntryIsStoppable`;
  `EveryRunIsAccountedFor`: `RunsAreAccountedFor`;
  `QueueIsStrandedOnlyBySpawnFailure`: `StrandedOnlyBySpawnFailure`;
  `TokensStayWithTheirCli`: `TokensBelongToTheirCli`; `CronHearsOfItsRun`:
  `CronIsMarkedByItsRun`;
* `ImplementsMailbox`: `Spec => MailboxSpec`, every step is one of the mailbox
  or a stutter;
* `NewStartsFreshUnlessLate`: `FreshSpec => []FreshUnlessLate`.

A queue is flushed by the exit of a process that the entry may no longer name,
so `SomethingWillFlush` speaks of the processes and not of the entry: a queue
that is not empty has a flush on its way or a process that exits, or failed to
spawn. For a queue to be handed over at that moment the chat's CLI must have an
adapter, which `AdapterStays` knows because `/use` takes no other. `RunsAreWhole`
ties the five parts of a run together, and `ToolsAreUnanswered` says that the
result of a running tool has made no run yet, without which a run might be begun
twice. For `/new` the strengthening is that every run that could still report an
old conversation was among the late ones when `/new` answered.

### SubagentsProofs

For any subagents, chats, sessions and limits, with crashes and overlapping
saves:

* `TypeIsCorrect`: `TypeOK`; `LaneStaysFull`: `LaneIsFull`; `ActiveIsExplained`:
  `OverIsNotActiveUnlessExcused`; `ResultsAreToldOnce`: `ToldOnce`; `EndsAreFinal`:
  `StatusIsFinal`, an action property.

`LaneIsFull` needs the content of the lane (`WaitingIsExact`) and that the tasks
in it are finitely many. `ToldOnce` needs to know that a result told is marked,
or pruned for good, or was forgotten by a restart that loaded an older file; for
this a subagent that nobody spawned must be in no record of any save in flight
(`RecordsAreOfSpawned`). `StatusIsFinal` needs `CompletedIsReported`: what is
completed was reported by the subagent itself or came back with a restart.

### CronRunsProofs

For any jobs, modes, numbers of runs and crashes, with or without a configured
chat:

* `TypeIsCorrect`; `LaneWaits`: `LaneWaitsForRun`; `OneIsDropped`:
  `FirstMessageDropsOne`; `HistoryIsTrue`: `HistoryTellsRuns`.

`HistoryTellsRuns` has the longest argument. A run of a job whose runs never
overlapped is the only open one of its job, and until it is marked the record in
`activeRuns` is its own (`StandsAlone`); from this `LinesFit` says for every
phase which lines the history has of the run and in which order. Jobs that wait
for a heartbeat are in one list, once (`ListsArePending`), or a run could be
taken twice. `FirstMessageDropsOne` counts: the runs dropped are at most the
times `primaryChatId` was set, once for each process (`DropsAreCounted`).

### RestartProofs: the gateway

For any processes, invocations, messages and crashes:

* `PidFileIsTrue`: `PidFileNamesTheServer`;
* `NoMessageIsLost`: `MessagesAreAccountedFor`;
* `GatewayInvariantHolds`: with the types, at most one process listens.

A process that told its chats it runs must be one that `outlived` every process
that still drains (`DrainingIsOutlived`): only such a one may lose its pid file
to another's shutdown. A message that was handed over is with its process until
Telegram was told of it, and the timers that `/restart` sets are of messages
handled (`TimersAreOfHandled`); a message comes back from Telegram only after the
end of the process that fetched it.

### RestartProofs: the stores

For any processes, any finite set of CLIs (the size of a file counts tokens; the
code's CLIs are the adapters of a directory) and any number of changes:

* `FileKeepsUp`: `FileIsItsOwners`; `ResumesWhatItKeeps`: `ResumesUnlessRestarted`,
  an action property; `TypeIsCorrect`;
* `GatewayKeepsItsPromises`: the composition keeps `GatewayInv`. Its steps of
  the gateway are `Gateway`'s own, so this is what was proved of it and a lemma
  that the store's steps leave the gateway alone.

`SavesAreSound` says that a write which has met no other is the only one in
flight, writes what its process has in memory and has opened an empty file; the
file holds its text only therefore. `ProcessIsSound` says what the memory of one
process holds: tokens of its own, and a store from the moment it has started.
`ResumesUnlessRestarted` needs `TokenInv` beside it: no file, save or store names
a process before that has told a run its token, so the store a process starts with
names it nowhere, and from then on its sessions have each token of its own that
its store has, since completed sets both and `/new` clears both.

### SessionMemoryProofs

For any number of messages, notes, `/new`s, syncs and crashes, any threshold and
any interval, whatever fails:

* `MemoryGrows`: `MemoryOnlyGrows`; `NewSaves`: `NewSavesTheSession`;
  `FlushesKeepApart`: `FlushesAreApart`; `TypeIsCorrect`.

A sync reads the memory file at one await and writes it at another.
`SyncsAreSound` says that a sync which is alone has read all that must stay (a
file that is there and was not read takes everything out of what must), that
beside one that is not nothing has to stay any more, and that the summary of what
a `/new` has read covers what was in the log when it began: a log that grows
keeps its first messages, and its last answer unless a later one comes
(`SummaryGrows`, `CarriedOn`). Syncs are told apart by their ids, and a
sync of a flush has its flush to return to. For the flushes the argument is what
a state knows: once a flush that was alone is stored, every state that is in use,
the current one and those that flushes in progress have taken, has its time and
its size or later ones (`FlushesAreSound`), for nobody has a state from before
it.

### AnswerStreamProofs

For texts, messages and runs of any length, any set of letters and pieces, any
threshold and any length of a message:

* `TypeIsCorrect`: `TypeOK`; `MessagesOnlyGrow`: `ShownOnlyGrows`;
  `AnswersKeepTheirOrder`: `ShownInOrder`; `AnswersAreShown`:
  `AnswerShownUnlessExcused`.

The two last ones compare what several messages show with what the CLI said, so
the proof needs to know what `Ink` (a text without its line breaks) and
`Together` (all messages of the chat) compute for texts of any length. Both are
recursive functions. That a function exists that satisfies such an equation, and
that it is the only one, are lemmas (`ComputationExists`, `ComputationUnique`),
proved for sets rather than operators: the library's theorem that the naturals
are well-founded gives every set of naturals a smallest element
(`SmallestElement`), and from it a set that holds 0 and each successor holds all
(`Induction`). From there the lemmas say that `Ink` and `Together` map
concatenation to concatenation, that trimming and splitting lose no ink
(`InkTrim`, `ChunkFacts`), that trimming keeps prefixes (`TrimPrefix`), and that
the first chunk of a text that grows either grows or is cut for good
(`FirstChunkGrows`, `SameFirstChunk`).

The invariant has four parts. `RequestInv` and `MessageInv` say which state of
the buffer the one request under way and the streamed message hold: a prefix of
it, all of it unless text came late. They are needed because the handler that
lands compares with the buffer of that moment and not with what it sent.
`StreamInv`, `TimerInv` and `NewsInv` say what each phase of the completed
handler leaves possible: no request and no timer while it delivers, nothing that
is news once the last flush is over. `OrderInv` and `DeliverInv` add what is
still to be sent to what is shown: a beginning of what was said, and all of the
answer. The step of `Deliver`, where the remainder is computed from `edited` and
`truncated`, establishes both (`DeliverOrder`, `DeliverShows`), and each message
that is sent moves its ink from one summand to the other (`ToldShows`). For the
streamed message every action is one of three kinds, a flush, an answer of the
gateway, or neither (`StepKinds`).

### Only model-checked

* Liveness (`EveryTaskSettles`, `WaitingIsStarted`, `QueuedIsProcessed`,
  `DueIsFired`, `CompletedEnds`, `EveryRunSettles`, `EverythingSettles`): the
  prover has no rule for fairness in reach.

Neither checked nor proved is that the lanes in `Subagents` and `CronRuns`
implement `Executor`. `CronRuns` uses the actions of `Executor` themselves
between two crashes, so there is nothing to show beyond what `CommandLane`'s
refinement shows. `Subagents` joins two of its steps in one (a submission and
its start, an end and the next start), and a crash empties both lanes, which
`Executor` does not describe.

## 7. What the code does otherwise than its documents say

Two deviations are runs of their own, in which TLC finds the property violated:

* `cron_restart` / `RestartMissesNothing`. The comments of `start()`
  (`service.ts:81-82`, `94`) say that missed jobs are run. A stored next run
  that has passed is overwritten at line 83, missed runs are sought only for
  cron expressions with a last run, and they are emitted before the bridge
  listens.
* `answer_late` / `AnswerIsShown`. `docs/e2e-test-plan.md:105`: with streaming,
  the final message contains the whole answer. Text that arrives while a flush
  awaits the gateway is counted as streamed when the request lands (1507), so
  the chained flush finds nothing new and completed sends nothing.
  `AnswerShownUnlessExcused` shows that, refusals and `/stream` apart, this is
  the only way to lose part of an answer the buffer has heard.

The others are stated as the exception of a property that holds, which shows in
addition that nothing else goes wrong there:

* `docs/e2e-test-plan.md:301-310` ("Session Resume") expects the message after a
  `/restart` to resume the conversation: "Contains "PERSIST123" (session resumed)".
  The code never does. The tokens are loaded, counted in the log (1203) and written
  again, but `processMessage` asks only the store in memory (1289), which starts
  empty. `ResumesUnlessRestarted` has it as its exception: it speaks of the
  conversations of the process itself and claims nothing of an earlier one's.
* The comment at 1145 says "If exited without completing, mark as error". The
  handler below it asks for a record that is running (1147): a process that exits
  before its `started` line is read, or prints none, leaves its record queued, or
  running if the line is read after. Its end is announced to nobody, and it counts
  against the four of its chat until a stop. It is the first of the three
  exceptions in `OverIsNotActiveUnlessExcused`; the others are a Task call that
  gets no answer because its CLI ended, and a record that a restart loads as
  queued or running.
* `/new` answers "Session saved to memory" (335) whatever its sync did: it does not
  ask whether anything was written, and catches a sync that failed (317). Nothing
  is written after one line that does not parse, as an append that a crash cut off
  leaves it, for `readSessionLog` then returns an empty log
  (`memory-sync.ts:38-44`), nor when the log cannot be read. `NewSavesTheSession`
  speaks of a `/new` whose sync wrote, and shows that it has saved the session.
* `plans/subagent-system.md:20` draws one session per chat. Two messages that
  arrive while the first is between the busy test (2087) and
  `sessionStore.set` (1432) run two processes; the store names one of them, so
  that `/stop` reaches only that one. `EntryIsStoppable` holds in spite of it.
* A CLI that fails to spawn emits no exit, so that messages behind it stay
  queued until a command (1896): `StrandedOnlyBySpawnFailure`.
* `plans/subagents.md:37`: `/stop` also stops all subagents of the chat.
  `stopAll` marks the records; a subagent that waits in the lane or whose start
  was not read yet runs, and `markRunning` revives its record. `StatusIsFinal`
  names that and the restart as the only ways.
* An announcement of a subagent whose record was pruned reads a record that is
  gone (1137, 1614), which ends the process; `Subagents` has it as a restart.
* `resultInjected` and the mark of a stop are set without a save, so that after
  a restart a result may be told again: the exception in `ToldOnce`.
* Two overlapping isolated runs of a job share one record in `activeRuns`, and
  the first to end completes the record of the second (`service.ts:274`):
  `HistoryTellsRuns` speaks of jobs whose runs never overlapped. Nothing catches
  an append or save that fails in `finish` (2306): the process ends.
* The first message of a process without a configured chat runs
  `triggerHeartbeat` (1952) before it sets `primaryChatId` (2002), so the first
  pending heartbeat job is dropped: `FirstMessageDropsOne`.
* `docs/e2e-test-plan.md:283-290` expects a message that Telegram refuses to be
  sent again, by backoff and retries. `sendToGateway` (784) takes a refusal for an
  answer without an id, and neither it nor the gateway repeats the request: a
  refusal is an excuse in `AnswerShownUnlessExcused`, `ShownInOrder` and
  `ShownOnlyGrows`.
* `syncSessionToMemory` takes every error of its read for a missing file
  (`memory-sync.ts:154`, whose comment says that the file does not exist) and then
  writes the file anew; a write may fail after it has truncated. Beside syncs that
  overlap and a crash in a write these are the only ways out of the memory file
  that `MemoryOnlyGrows` allows.
* A sync of the automatic flush that fails ends the process, since the promise is
  not awaited in its `try` block (1764), although the comment calls the flush
  best-effort (1761).
* "every 0m" is accepted (`scheduler.ts:73-77`) and due in every check, so that the
  timer never rests: the exception in `FiresOnce`. An expression that is invalid
  or used up leaves an enabled job without a next run (`scheduler.ts:6-16`), which
  `NeverRunsOut` allows.
* A process signalled before its handlers are set (`run.ts:54`) leaves its pid
  file behind, and one that closes for longer than `restart` sleeps takes away
  its successor's: `PidFileNamesTheServer` shows that no other way leaves a
  serving process without its pid file, or the file with a dead one, but a
  crash or a port that is taken.
* A streamed message that outgrows a message is cut at a line break, so that
  the end of what it showed disappears once and comes back in the next message:
  the exception in `ShownOnlyGrows`. When the request with the cut is refused,
  `streamTruncated` is set although the chat still shows the uncut message, and
  the next flush takes the end back then: the property's other exception.
* A Pi delta that happens to equal the beginning of the buffer is taken for an
  older snapshot and dropped from the stream (1558); the normalised output
  merges by the same rule (`normalize.ts:33`) and repeats Claude's last block.
  `ShownInOrder` therefore speaks only of Pi's single messages, and
  `AnswerShownUnlessExcused` of answers the buffer has heard.

## 8. What is not modelled, and why

* Parsing and translation of text (`manifest.ts`, `env-file.ts`,
  `subagent-commands.ts`, `sendfile.ts`): functions without state; their results
  are inputs of the models.
* Markdown escaping, tools and errors in `normalize.ts` and the renderer, media,
  logging, recall, skills, the client and type declarations: formatting or calls
  of other services, with no state to protect. That a rendered chunk may be cut
  inside an escape is therefore not seen.
* `launchd`, the status commands, the gateway's other HTTP routes, downloads and
  the configuration: they read state or hand it to other programs.
* Session tools read logs; those that act end in `spawnSubagentInternal` or in
  the gateway's `/send`.
* Workspace concepts and links: an index rebuilt from files.
* Attachments, typing indicators, costs and the wording of replies inside the
  modelled handlers: they change no state that is read again.
* Cron expressions: `croner` computes their times; here they are given.

## 9. The plan and where it stands

1. Done: `Mailbox`, `ChatBridge`, `ChatBridgeFresh`; `Executor`, `CommandLane`
   and its proofs; `Subagents` with its file and restarts; `CronService` and its
   proofs; `AnswerStream` with white space, splitting and normalised output.
2. Done: `CronRuns`, isolated runs on the Cron lane at the level of `Executor`.
3. Done: `SessionStore`, `Restart`, `SessionMemory`.
4. Done: `Gateway`, the delivery of messages and the daemon.
5. Done: the inductive invariants of all modules, every safety property that a
   passing run checks, and the refinements of `Executor` and `Mailbox`.
6. Left: an `Executor` with crashes and joined steps, which the lane inside
   `Subagents` would implement; liveness, which the provers do not reach; and
   the components listed in section 8.

Runs are few on purpose: a later module shares a run with an existing one, or
replaces it, where the two ask the same question.

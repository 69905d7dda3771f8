--------------------------- MODULE ChatBridgeProofs ---------------------------
(***************************************************************************)
(* Proofs about ChatBridge and ChatBridgeFresh, for any messages, CLIs,    *)
(* adapters, commands and bounds.                                          *)
(***************************************************************************)
EXTENDS ChatBridgeFresh, TLAPS

-----------------------------------------------------------------------------
(* The inductive invariant.                                                *)

\* The queue holds waiting messages, each once.
QueueHoldsWaiting ==
  /\ \A i \in 1 .. Len(queue) : fate[queue[i]] = "queued"
  /\ \A i, k \in 1 .. Len(queue) : queue[i] = queue[k] => i = k

\* How far the parts of one run may be apart.
RunsAreWhole ==
  \A r \in Runs :
    /\ run[r].phase = "none" => run[r] = NotBegun
    /\ run[r].phase = "starting" => ~run[r].killed
    /\ run[r].phase \in {"running", "exited", "failed"} => run[r].cli \in Manifests
    /\ run[r].out # "none" => run[r].phase \in {"running", "exited"}
    /\ run[r].handler # "idle" => run[r].out = "completed"

\* A tool that is running has not been answered, and its answer will be one
\* of the runs.
ToolsAreUnanswered ==
  \A r \in Runs : run[r].handler = "tool" =>
    r[2] < MaxToolDepth /\ run[<<r[1], r[2] + 1>>].phase = "none"

\* Once a run was begun for a CLI that has an adapter, the chat's CLI has one:
\* /use takes no other, and a message waits only behind a process.
AdapterStays ==
  /\ \A r \in Runs : run[r].cli \in Manifests => cli \in Manifests
  /\ queue # <<>> \/ flushes > 0 => cli \in Manifests

\* What a queued message waits for will not end without a flush, unless the
\* process failed to spawn.
SomethingWillFlush ==
  queue # <<>> =>
    \/ flushes > 0
    \/ \E r \in Runs : \/ run[r].phase \in {"running", "failed"}
                       \/ run[r].phase = "starting" /\ run[r].cli \in Manifests

IInv ==
  /\ TypeOK
  /\ QueueHoldsWaiting
  /\ RunsAreWhole
  /\ ToolsAreUnanswered
  /\ AdapterStays
  /\ SomethingWillFlush
  /\ EntryIsStoppable
  /\ RunsAreAccountedFor
  /\ TokensBelongToTheirCli
  /\ CronIsMarkedByItsRun

\* With the history of /new: no run that could report an old conversation
\* escaped late, and an old conversation is one that has begun.
FreshInv ==
  /\ FreshUnlessLate
  /\ \A r \in Runs : MayStillReport(r) /\ Conversation(r) \in outdated => Conversation(r) \in late
  /\ \A r \in outdated : r \in Runs /\ run[r].phase # "none"

-----------------------------------------------------------------------------
(* Facts about sequences and runs.                                         *)

LEMMA AppendProperties ==
  ASSUME NEW S, NEW s \in Seq(S), NEW x \in S
  PROVE  /\ Append(s, x) \in Seq(S) /\ Len(Append(s, x)) = Len(s) + 1 /\ Len(s) \in Nat
         /\ \A i \in 1 .. Len(s) : Append(s, x)[i] = s[i]
         /\ Append(s, x)[Len(s) + 1] = x
OBVIOUS

LEMMA TailProperties ==
  ASSUME NEW S, NEW s \in Seq(S), s # <<>>
  PROVE  /\ Head(s) \in S /\ Tail(s) \in Seq(S) /\ Len(s) \in Nat \ {0}
         /\ Len(Tail(s)) = Len(s) - 1
         /\ Head(s) = s[1] /\ 1 \in 1 .. Len(s)
         /\ \A i \in 1 .. Len(Tail(s)) : Tail(s)[i] = s[i + 1] /\ i + 1 \in 1 .. Len(s)
OBVIOUS

LEMMA BegunProperties ==
  ASSUME TypeOK
  PROVE  /\ Begun \in RunState
         /\ Begun.phase = "starting" /\ Begun.out = "none" /\ Begun.handler = "idle"
         /\ ~Begun.killed /\ ~Begun.marked
         /\ Begun.cli = cli /\ Begun.resume = token[cli]
BY DEF TypeOK, Begun, NotBegun, RunState, Phases, Outputs, Handlers

\* terminate() marks one process as killed, if it is one that can be.
LEMMA TerminatedProperties ==
  ASSUME TypeOK, NEW r \in Runs
  PROVE  /\ Terminated(run, r) \in [Runs -> RunState]
         /\ \A s \in Runs : s # r => Terminated(run, r)[s] = run[s]
         /\ \/ Terminated(run, r)[r] = run[r]
            \/ /\ run[r].phase \in {"running", "failed"}
               /\ Terminated(run, r)[r] = [run[r] EXCEPT !.killed = TRUE]
BY ZenonT(40) DEF TypeOK, Terminated, RunState

-----------------------------------------------------------------------------
(* The invariant holds at first, and every action keeps it.                *)

LEMMA InitHolds == Init => IInv
<1> SUFFICES ASSUME Init PROVE IInv
  OBVIOUS
<1> USE ChatBridgeAssumption
<1>1. TypeOK
  BY DEF Init, TypeOK, NotBegun, RunState, Phases, Outputs, Handlers
<1>2. QueueHoldsWaiting /\ SomethingWillFlush /\ EntryIsStoppable
  BY DEF Init, QueueHoldsWaiting, SomethingWillFlush, EntryIsStoppable
<1>3. RunsAreWhole /\ ToolsAreUnanswered /\ RunsAreAccountedFor
  BY DEF Init, RunsAreWhole, ToolsAreUnanswered, RunsAreAccountedFor, NotBegun, Runs
<1>4. AdapterStays /\ TokensBelongToTheirCli /\ CronIsMarkedByItsRun
  BY DEF Init, AdapterStays, TokensBelongToTheirCli, CronIsMarkedByItsRun, NotBegun
<1>5. QED
  BY <1>1, <1>2, <1>3, <1>4 DEF IInv

LEMMA ReceiveKeeps ==
  ASSUME IInv, NEW m \in Messages, QueueFull(m) \/ Enqueue(m)
  PROVE  IInv'
<1>1. /\ UNCHANGED <<entry, token, cli, run, newCmd, flushes>>
      /\ fate[m] = "new" /\ entry # None
      /\ fate' \in [Messages -> {"new", "queued", "accepted", "dropped"}]
      /\ fate'[m] \in {"queued", "dropped"} /\ \A k \in Messages : k # m => fate'[k] = fate[k]
  BY DEF IInv, TypeOK, QueueFull, Enqueue, IsBusy
<1>2. \/ fate'[m] = "dropped" /\ queue' = queue
      \/ fate'[m] = "queued" /\ queue' = Append(queue, m) /\ Len(queue) < MaxQueue
  BY DEF IInv, TypeOK, QueueFull, Enqueue
<1>3. TypeOK'
  BY <1>1, <1>2, ChatBridgeAssumption DEF IInv, TypeOK
<1>4. QueueHoldsWaiting'
  <2>1. queue \in Seq(Messages) /\ QueueHoldsWaiting
    BY DEF IInv, TypeOK
  <2>2. \A i \in 1 .. Len(queue) : queue[i] \in Messages /\ fate'[queue[i]] = "queued" /\ queue[i] # m
    BY <1>1, <2>1 DEF QueueHoldsWaiting
  <2>3. CASE queue' = queue
    BY <2>1, <2>2, <2>3 DEF QueueHoldsWaiting
  <2>4. CASE fate'[m] = "queued" /\ queue' = Append(queue, m)
    BY <2>1, <2>2, <2>4, AppendProperties DEF QueueHoldsWaiting
  <2>5. QED
    BY <1>2, <2>3, <2>4
<1>5. AdapterStays' /\ SomethingWillFlush'
  BY <1>1 DEF IInv, TypeOK, AdapterStays, SomethingWillFlush, EntryIsStoppable, RunsAreWhole
<1>6. RunsAreAccountedFor'
  BY <1>1 DEF IInv, RunsAreAccountedFor
<1>7. QED
  BY <1>1, <1>3, <1>4, <1>5, <1>6 DEF IInv, RunsAreWhole, ToolsAreUnanswered, EntryIsStoppable,
     TokensBelongToTheirCli, CronIsMarkedByItsRun, IsCron

\* The shape of a step that begins run x and changes nothing else of any run.
LEMMA BeginKeeps ==
  ASSUME IInv, NEW x \in Runs, run[x].phase = "none",
         run' = [run EXCEPT ![x] = Begun],
         \/ x[2] = 0
         \/ x[2] > 0 /\ run'[<<x[1], x[2] - 1>>].handler = "done",
         UNCHANGED <<token, cli>>
  PROVE  /\ run' \in [Runs -> RunState]
         /\ RunsAreWhole'
         /\ TokensBelongToTheirCli'
         /\ CronIsMarkedByItsRun'
         /\ \A r \in Runs : run'[r].cli \in Manifests => cli' \in Manifests
         /\ \A r \in Runs : r # x => run'[r] = run[r]
         /\ run'[x] = Begun /\ run'[x].phase = "starting" /\ run'[x].cli = cli
<1> USE DEF IInv
<1>1. /\ run \in [Runs -> RunState] /\ run' \in [Runs -> RunState]
      /\ \A r \in Runs : r # x => run'[r] = run[r]
      /\ run'[x] = Begun
  BY BegunProperties DEF TypeOK
<1>2. RunsAreWhole'
  BY <1>1, BegunProperties DEF RunsAreWhole
<1>3. TokensBelongToTheirCli'
  BY <1>1, BegunProperties, ChatBridgeAssumption DEF TokensBelongToTheirCli, RunsAreWhole, TypeOK
<1>4. CronIsMarkedByItsRun'
  BY <1>1, BegunProperties DEF CronIsMarkedByItsRun, IsCron
<1>5. QED
  BY <1>1, <1>2, <1>3, <1>4, BegunProperties DEF AdapterStays

LEMMA ProcessNowKeeps ==
  ASSUME IInv, NEW m \in Messages, ProcessNow(m)
  PROVE  IInv'
<1> DEFINE x == <<m, 0>>
<1>1. /\ x \in Runs /\ run[x].phase = "none" /\ run' = [run EXCEPT ![x] = Begun]
      /\ UNCHANGED <<queue, entry, token, cli, newCmd, flushes>>
      /\ entry = None /\ fate[m] = "new" /\ fate' = [fate EXCEPT ![m] = "accepted"]
  BY ChatBridgeAssumption DEF ProcessNow, IsBusy, IInv, RunsAreAccountedFor, Runs
<1>2. x[1] = m /\ x[2] = 0
  OBVIOUS
<1> HIDE DEF x
<1>3. /\ run' \in [Runs -> RunState]
      /\ RunsAreWhole' /\ TokensBelongToTheirCli' /\ CronIsMarkedByItsRun'
      /\ \A r \in Runs : run'[r].cli \in Manifests => cli' \in Manifests
      /\ \A r \in Runs : r # x => run'[r] = run[r]
      /\ run'[x] = Begun /\ run'[x].phase = "starting" /\ run'[x].cli = cli
  BY <1>1, <1>2, BeginKeeps
<1>4. TypeOK'
  BY <1>1, <1>3 DEF IInv, TypeOK
<1>5. QueueHoldsWaiting'
  BY <1>1 DEF IInv, TypeOK, QueueHoldsWaiting
<1>6. ToolsAreUnanswered'
  BY <1>1, <1>2, <1>3, BegunProperties DEF IInv, ToolsAreUnanswered, Runs
<1>7. RunsAreAccountedFor'
  BY <1>1, <1>2, <1>3, BegunProperties, SMTT(30) DEF IInv, TypeOK, RunsAreAccountedFor, RunsAreWhole, Runs
<1>8. AdapterStays' /\ SomethingWillFlush' /\ EntryIsStoppable'
  BY <1>1, <1>3 DEF IInv, AdapterStays, SomethingWillFlush, EntryIsStoppable
<1>9. QED
  BY <1>3, <1>4, <1>5, <1>6, <1>7, <1>8 DEF IInv

\* The outcomes of processMessage after its awaits change the phase of r only.
LEMMA StartRunKeeps ==
  ASSUME IInv, NEW r \in Runs, StartRun(r)
  PROVE  IInv'
<1> USE ChatBridgeAssumption
<1>1. /\ run[r].phase = "starting"
      /\ UNCHANGED <<fate, queue, token, cli, newCmd, flushes>>
      /\ run' \in [Runs -> RunState]
      /\ \A s \in Runs : s # r => run'[s] = run[s]
      /\ run'[r].out = run[r].out /\ run'[r].handler = run[r].handler
      /\ run'[r].killed = run[r].killed
      /\ run'[r].resume = run[r].resume /\ run'[r].cli = run[r].cli
      /\ \/ /\ run'[r].phase = "notfound" /\ entry' = entry /\ run[r].cli \notin Manifests
            /\ run'[r].marked = run[r].marked
         \/ /\ run'[r].phase = "running" /\ entry' = r /\ run[r].cli \in Manifests
            /\ run'[r].marked = run[r].marked
         \/ /\ run'[r].phase = "failed" /\ entry' = r /\ run[r].cli \in Manifests
            /\ run'[r].marked = IsCron(r)
  <2>0. run \in [Runs -> RunState] /\ run[r] \in RunState /\ IsCron(r) \in BOOLEAN
    BY DEF IInv, TypeOK, IsCron
  <2>1. CASE run[r].phase = "starting" /\ CliNotFound(r)
    BY <2>0, <2>1 DEF CliNotFound, RunState, Phases
  <2>2. CASE run[r].phase = "starting" /\ SpawnSession(r)
    BY <2>0, <2>2 DEF SpawnSession, RunState, Phases
  <2>3. CASE run[r].phase = "starting" /\ SpawnFails(r)
    BY <2>0, <2>3 DEF SpawnFails, RunState, Phases
  <2>4. QED
    BY <2>1, <2>2, <2>3 DEF StartRun
<1>2. /\ run[r].out = "none" /\ run[r].handler = "idle" /\ ~run[r].killed
  BY <1>1 DEF IInv, TypeOK, RunState, RunsAreWhole
<1>3. TypeOK'
  BY <1>1 DEF IInv, TypeOK
<1>4. QueueHoldsWaiting'
  BY <1>1 DEF IInv, QueueHoldsWaiting
<1>5. RunsAreWhole'
  BY <1>1, <1>2 DEF IInv, RunsAreWhole
<1>6. ToolsAreUnanswered'
  BY <1>1, <1>2 DEF IInv, ToolsAreUnanswered, Runs
<1>7. RunsAreAccountedFor'
  BY <1>1 DEF IInv, RunsAreAccountedFor, Runs
<1>8. AdapterStays' /\ SomethingWillFlush'
  BY <1>1 DEF IInv, AdapterStays, SomethingWillFlush
<1>9. EntryIsStoppable'
  <2>1. entry # None => entry \in Runs
    BY DEF IInv, TypeOK
  <2>2. QED
    BY <1>1, <1>2, <2>1 DEF IInv, EntryIsStoppable
<1>10. TokensBelongToTheirCli'
  BY <1>1, SMTT(30) DEF IInv, TokensBelongToTheirCli, TypeOK, RunState
<1>11. CronIsMarkedByItsRun'
  BY <1>1, <1>2 DEF IInv, CronIsMarkedByItsRun, IsCron
<1>12. QED
  BY <1>3, <1>4, <1>5, <1>6, <1>7, <1>8, <1>9, <1>10, <1>11 DEF IInv

\* What a session prints, and what its handlers do with it, changes r itself
\* and the token of its CLI.
LEMMA SaveTokenProperties ==
  ASSUME TypeOK, NEW r \in Runs, SaveToken(r)
  PROVE  /\ token' = [token EXCEPT ![run[r].cli] = Conversation(r)]
         /\ run' \in [Runs -> RunState]
         /\ \A s \in Runs : s # r => run'[s] = run[s]
         /\ run'[r].phase = run[r].phase /\ run'[r].killed = run[r].killed
         /\ run'[r].resume = run[r].resume /\ run'[r].cli = run[r].cli
         /\ run'[r].out = "completed" /\ run'[r].handler \in {"done", "tool"}
         /\ run'[r].handler = "tool" => r[2] < MaxToolDepth
         /\ run'[r].marked = (run[r].marked \/ IsCron(r))
<1>1. PICK next \in {"done", "tool"} :
        /\ next = "tool" => r[2] < MaxToolDepth
        /\ token' = [token EXCEPT ![run[r].cli] = Conversation(r)]
        /\ run' = [run EXCEPT ![r].out = "completed", ![r].handler = next,
                              ![r].marked = @ \/ IsCron(r)]
  BY DEF SaveToken
<1>2. run \in [Runs -> RunState] /\ run[r] \in RunState /\ next \in Handlers
  BY DEF TypeOK, Handlers
<1> DEFINE b == run[r].marked \/ IsCron(r)
<1>3. run' = [run EXCEPT ![r] = [run[r] EXCEPT !.out = "completed", !.handler = next, !.marked = b]]
  BY <1>1, <1>2 DEF RunState
<1>4. b \in BOOLEAN
  OBVIOUS
<1> HIDE DEF b
<1>5. run'[r] = [run[r] EXCEPT !.out = "completed", !.handler = next, !.marked = b]
  BY <1>2, <1>3
<1>6. run'[r] \in RunState
  BY <1>2, <1>4, <1>5 DEF RunState, Outputs
<1>7. /\ run'[r].phase = run[r].phase /\ run'[r].killed = run[r].killed
      /\ run'[r].resume = run[r].resume /\ run'[r].cli = run[r].cli
      /\ run'[r].out = "completed" /\ run'[r].handler = next
      /\ run'[r].marked = b
  BY <1>2, <1>5 DEF RunState
<1>8. run' \in [Runs -> RunState] /\ \A s \in Runs : s # r => run'[s] = run[s]
  BY <1>2, <1>3, <1>5, <1>6
<1>9. QED
  BY <1>1, <1>7, <1>8 DEF b

\* The completed handler that saves the token only after an await.
LEMMA AwaitProperties ==
  ASSUME TypeOK, NEW r \in Runs,
         run' = [run EXCEPT ![r].out = "completed", ![r].handler = "flushing",
                            ![r].marked = @ \/ IsCron(r)]
  PROVE  /\ run' \in [Runs -> RunState]
         /\ \A s \in Runs : s # r => run'[s] = run[s]
         /\ run'[r].phase = run[r].phase /\ run'[r].killed = run[r].killed
         /\ run'[r].resume = run[r].resume /\ run'[r].cli = run[r].cli
         /\ run'[r].out = "completed" /\ run'[r].handler = "flushing"
         /\ run'[r].marked = (run[r].marked \/ IsCron(r))
<1>2. run \in [Runs -> RunState] /\ run[r] \in RunState
  BY DEF TypeOK
<1> DEFINE b == run[r].marked \/ IsCron(r)
<1>3. run' = [run EXCEPT ![r] = [run[r] EXCEPT !.out = "completed", !.handler = "flushing", !.marked = b]]
  BY <1>2 DEF RunState
<1>4. b \in BOOLEAN
  OBVIOUS
<1> HIDE DEF b
<1>5. run'[r] = [run[r] EXCEPT !.out = "completed", !.handler = "flushing", !.marked = b]
  BY <1>2, <1>3
<1>6. run'[r] \in RunState
  BY <1>2, <1>4, <1>5 DEF RunState, Outputs, Handlers
<1>7. /\ run'[r].phase = run[r].phase /\ run'[r].killed = run[r].killed
      /\ run'[r].resume = run[r].resume /\ run'[r].cli = run[r].cli
      /\ run'[r].out = "completed" /\ run'[r].handler = "flushing"
      /\ run'[r].marked = b
  BY <1>2, <1>5 DEF RunState
<1>8. run' \in [Runs -> RunState] /\ \A s \in Runs : s # r => run'[s] = run[s]
  BY <1>2, <1>3, <1>5, <1>6
<1>9. QED
  BY <1>7, <1>8 DEF b

LEMMA OutputKeeps ==
  ASSUME IInv, NEW r \in Runs, Started(r) \/ Completed(r) \/ StreamFlushed(r)
  PROVE  IInv'
<1> USE ChatBridgeAssumption
<1>0. /\ run[r].marked <=> IsCron(r) /\ (run[r].out = "completed" \/ run[r].phase \in {"exited", "failed"})
      /\ run[r] \in RunState /\ run \in [Runs -> RunState] /\ TypeOK
      /\ run[r].out # "none" => run[r].phase \in {"running", "exited"}
      /\ run[r].handler # "idle" => run[r].out = "completed"
  BY DEF IInv, TypeOK, CronIsMarkedByItsRun, IsCron, RunsAreWhole
<1> DEFINE Step ==
      /\ UNCHANGED <<fate, queue, entry, cli, newCmd, flushes>>
      /\ run' \in [Runs -> RunState]
      /\ \A s \in Runs : s # r => run'[s] = run[s]
      /\ run'[r].phase = run[r].phase /\ run'[r].killed = run[r].killed
      /\ run'[r].resume = run[r].resume /\ run'[r].cli = run[r].cli
      /\ token' \in {token, [token EXCEPT ![run[r].cli] = Conversation(r)]}
      /\ run[r].phase \in {"running", "exited"}
      /\ run[r].handler \in {"idle", "flushing"}
      /\ run'[r].out # "none"
      /\ run'[r].handler # "idle" => run'[r].out = "completed"
      /\ run'[r].handler = "tool" => r[2] < MaxToolDepth
      /\ run'[r].marked <=> IsCron(r) /\ (run'[r].out = "completed" \/ run[r].phase = "exited")
<1>1. Step
  <2>1. CASE Started(r)
    BY <1>0, <2>1 DEF Started, RunState, Outputs, Handlers
  <2>2. CASE Completed(r) /\ SaveToken(r)
    BY <1>0, <2>2, SaveTokenProperties DEF Completed, RunState, Handlers
  <2>3. CASE Completed(r) /\ ~SaveToken(r)
    BY <1>0, <2>3, AwaitProperties DEF Completed, RunState, Handlers
  <2>4. CASE StreamFlushed(r)
    BY <1>0, <2>4, SaveTokenProperties DEF StreamFlushed
  <2>5. QED
    BY <2>1, <2>2, <2>3, <2>4
<1>3. TypeOK'
  BY <1>1 DEF IInv, TypeOK, Conversation, RunState
<1>4. QueueHoldsWaiting' /\ EntryIsStoppable'
  BY <1>1 DEF IInv, TypeOK, QueueHoldsWaiting, EntryIsStoppable
<1>5. RunsAreWhole'
  BY <1>1 DEF IInv, RunsAreWhole
\* A run that follows r has begun only if r's handler was done.
<1>6. <<r[1], r[2] + 1>> \in Runs => run[<<r[1], r[2] + 1>>].phase = "none"
  BY <1>1 DEF IInv, RunsAreAccountedFor, Runs
<1>7. ToolsAreUnanswered'
  BY <1>1, <1>6 DEF IInv, ToolsAreUnanswered, Runs
<1>8. RunsAreAccountedFor'
  BY <1>1 DEF IInv, RunsAreAccountedFor, Runs
<1>9. AdapterStays' /\ SomethingWillFlush'
  BY <1>1 DEF IInv, AdapterStays, SomethingWillFlush
<1>10. TokensBelongToTheirCli'
  <2>1. /\ Conversation(r) \in Runs
        /\ run'[Conversation(r)].cli = run[r].cli
        /\ run'[Conversation(r)].resume = None
        /\ run'[Conversation(r)].out # "none"
    BY <1>1 DEF IInv, TypeOK, RunState, Conversation, TokensBelongToTheirCli
  <2>2. \A c \in Clis : token'[c] # None =>
          token'[c] = token[c] \/ (c = run[r].cli /\ token'[c] = Conversation(r))
    BY <1>0, <1>1 DEF TypeOK
  \* What a token named is as it was, or is r, which has printed something.
  <2>3. \A s \in Runs : /\ run'[s].cli = run[s].cli /\ run'[s].resume = run[s].resume
                        /\ run[s].out # "none" => run'[s].out # "none"
    BY <1>1
  <2>4. \A c \in Clis : token[c] \in Runs \cup {None}
    BY DEF IInv, TypeOK
  <2>5. \A s \in Runs : run[s].resume \in Runs \cup {None}
    BY DEF IInv, TypeOK, RunState
  <2>6. TokensBelongToTheirCli
    BY DEF IInv
  <2>7. ASSUME NEW c \in Clis, token'[c] # None
        PROVE  run'[token'[c]].cli = c /\ run'[token'[c]].resume = None /\ run'[token'[c]].out # "none"
    BY <2>1, <2>2, <2>3, <2>4, <2>6, <2>7 DEF TokensBelongToTheirCli
  <2>8. ASSUME NEW s \in Runs, run'[s].resume # None
        PROVE  /\ run'[run'[s].resume].cli = run'[s].cli
               /\ run'[run'[s].resume].resume = None /\ run'[run'[s].resume].out # "none"
    BY <2>3, <2>5, <2>6, <2>8 DEF TokensBelongToTheirCli
  <2>9. QED
    BY <2>7, <2>8 DEF TokensBelongToTheirCli
<1>11. CronIsMarkedByItsRun'
  BY <1>1 DEF IInv, CronIsMarkedByItsRun, IsCron
<1>12. QED
  BY <1>3, <1>4, <1>5, <1>7, <1>8, <1>9, <1>10, <1>11 DEF IInv

LEMMA ToolKeeps ==
  ASSUME IInv, NEW r \in Runs, ToolAnswered(r) \/ ToolFailed(r)
  PROVE  IInv'
<1> USE ChatBridgeAssumption
<1> DEFINE x == <<r[1], r[2] + 1>>
<1>0. /\ UNCHANGED <<fate, queue, entry, token, cli, newCmd, flushes>>
      /\ run[r].handler = "tool"
      /\ run \in [Runs -> RunState] /\ run[r] \in RunState /\ TypeOK
      /\ run[r].out = "completed" /\ run[r].phase \in {"running", "exited"}
  BY DEF ToolAnswered, ToolFailed, IInv, TypeOK, RunsAreWhole
<1>1. /\ x \in Runs /\ r # x /\ run[x].phase = "none" /\ x[2] > 0 /\ <<x[1], x[2] - 1>> = r
      /\ r[2] \in Nat
  BY <1>0 DEF IInv, ToolsAreUnanswered, Runs
<1> HIDE DEF x
\* The run r is as before, but for its handler, and x is new or as before.
<1>2. /\ run' \in [Runs -> RunState]
      /\ \A s \in Runs : s \notin {r, x} => run'[s] = run[s]
      /\ run'[r] = [run[r] EXCEPT !.handler = "done"]
      /\ run'[x] \in {run[x], Begun}
  <2>1. CASE ToolAnswered(r)
    <3>1. run' = [run EXCEPT ![r] = [run[r] EXCEPT !.handler = "done"], ![x] = Begun]
      BY <2>1, <1>0, <1>1 DEF ToolAnswered, RunState, x
    <3>2. [run[r] EXCEPT !.handler = "done"] \in RunState
      BY <1>0 DEF RunState, Handlers
    <3>3. QED
      BY <3>1, <3>2, <1>0, <1>1, BegunProperties
  <2>2. CASE ToolFailed(r)
    <3>1. run' = [run EXCEPT ![r] = [run[r] EXCEPT !.handler = "done"]]
      BY <2>2, <1>0 DEF ToolFailed, RunState
    <3>2. [run[r] EXCEPT !.handler = "done"] \in RunState
      BY <1>0 DEF RunState, Handlers
    <3>3. QED
      BY <3>1, <3>2, <1>0, <1>1
  <2>3. QED
    BY <2>1, <2>2
<1>3. /\ run'[r].phase = run[r].phase /\ run'[r].out = run[r].out /\ run'[r].handler = "done"
      /\ run'[r].killed = run[r].killed /\ run'[r].marked = run[r].marked
      /\ run'[r].resume = run[r].resume /\ run'[r].cli = run[r].cli
  BY <1>0, <1>2 DEF RunState
<1>4. /\ run[x].phase = "none" /\ run[x].out = "none" /\ run[x].handler = "idle"
      /\ ~run[x].killed /\ ~run[x].marked /\ run[x].resume = None /\ run[x].cli = None
      /\ run'[x].phase \in {"none", "starting"} /\ run'[x].out = "none" /\ run'[x].handler = "idle"
      /\ ~run'[x].killed /\ ~run'[x].marked
      /\ run'[x].phase = "none" => run'[x] = NotBegun /\ run'[x].resume = None /\ run'[x].cli = None
      /\ run'[x].phase = "starting" => run'[x].cli = cli /\ run'[x].resume = token[cli]
  <2>1. run[x] = NotBegun
    BY <1>1 DEF IInv, RunsAreWhole
  <2>2. CASE run'[x] = run[x]
    BY <2>1, <2>2 DEF NotBegun
  <2>3. CASE run'[x] = Begun
    BY <2>1, <2>3, <1>0, BegunProperties DEF NotBegun
  <2>4. QED
    BY <1>2, <2>2, <2>3
<1>5. TypeOK'
  BY <1>0, <1>2 DEF TypeOK
<1>6. QueueHoldsWaiting' /\ SomethingWillFlush' /\ AdapterStays'
  <2>1. QueueHoldsWaiting'
    BY <1>0 DEF IInv, QueueHoldsWaiting
  <2>2. AdapterStays'
    <3>1. ASSUME NEW s \in Runs, run'[s].cli \in Manifests PROVE cli \in Manifests
      <4>1. CASE s = x
        BY <3>1, <4>1, <1>4, ChatBridgeAssumption
      <4>2. CASE s # x
        BY <3>1, <4>2, <1>2, <1>3 DEF IInv, AdapterStays
      <4>3. QED
        BY <4>1, <4>2
    <3>2. QED
      BY <3>1, <1>0 DEF IInv, AdapterStays
  <2>3. SomethingWillFlush'
    <3>1. \A s \in Runs : run[s].phase # "none" =>
            run'[s].phase = run[s].phase /\ run'[s].cli = run[s].cli
      BY <1>2, <1>3, <1>4
    <3>2. SomethingWillFlush
      BY DEF IInv
    <3>3. QED
      BY <1>0, <3>1, <3>2 DEF SomethingWillFlush
  <2>4. QED
    BY <2>1, <2>2, <2>3
<1>7. RunsAreWhole'
  <2>1. ASSUME NEW s \in Runs
        PROVE  /\ run'[s].phase = "none" => run'[s] = NotBegun
               /\ run'[s].phase = "starting" => ~run'[s].killed
               /\ run'[s].phase \in {"running", "exited", "failed"} => run'[s].cli \in Manifests
               /\ run'[s].out # "none" => run'[s].phase \in {"running", "exited"}
               /\ run'[s].handler # "idle" => run'[s].out = "completed"
    <3>1. CASE s = r
      BY <3>1, <1>0, <1>3 DEF IInv, RunsAreWhole
    <3>2. CASE s = x
      BY <3>2, <1>4
    <3>3. CASE s \notin {r, x}
      BY <3>3, <1>2 DEF IInv, RunsAreWhole
    <3>4. QED
      BY <3>1, <3>2, <3>3
  <2>2. QED
    BY <2>1 DEF RunsAreWhole
<1>8. ToolsAreUnanswered'
  <2>1. ASSUME NEW s \in Runs, run'[s].handler = "tool"
        PROVE  s[2] < MaxToolDepth /\ run'[<<s[1], s[2] + 1>>].phase = "none"
    <3>1. s \notin {r, x} /\ run'[s] = run[s]
      BY <2>1, <1>2, <1>3, <1>4
    <3>2. s[2] < MaxToolDepth /\ run[<<s[1], s[2] + 1>>].phase = "none" /\ <<s[1], s[2] + 1>> \in Runs
      BY <2>1, <3>1 DEF IInv, ToolsAreUnanswered, Runs
    <3>3. <<s[1], s[2] + 1>> \notin {r, x}
      BY <3>1, <3>2, <1>0, <1>1 DEF Runs
    <3>4. QED
      BY <3>2, <3>3, <1>2
  <2>2. QED
    BY <2>1 DEF ToolsAreUnanswered
<1>9. RunsAreAccountedFor'
  <2>1. \A m \in Messages : <<m, 0>> \in Runs /\ <<m, 0>> # x
    BY <1>1 DEF Runs
  <2>2. \A m \in Messages : run'[<<m, 0>>].phase # "none" <=> fate'[m] = "accepted"
    BY <2>1, <1>0, <1>2, <1>3, ZenonT(40) DEF IInv, RunsAreAccountedFor
  <2>3. ASSUME NEW s \in Runs, run'[s].phase # "none", s[2] > 0
        PROVE  run'[<<s[1], s[2] - 1>>].handler = "done"
    <3>1. CASE s = x
      BY <3>1, <1>1, <1>3
    <3>2. CASE s # x
      <4>1. run[s].phase # "none"
        BY <2>3, <3>2, <1>2, <1>3
      <4>2. run[<<s[1], s[2] - 1>>].handler = "done" /\ <<s[1], s[2] - 1>> \in Runs
        BY <2>3, <4>1 DEF IInv, RunsAreAccountedFor, Runs
      <4>3. QED
        BY <4>2, <1>2, <1>3, <1>4
    <3>3. QED
      BY <3>1, <3>2
  <2>4. QED
    BY <2>2, <2>3 DEF RunsAreAccountedFor
<1>10. EntryIsStoppable'
  BY <1>0, <1>2, <1>3, <1>4 DEF IInv, TypeOK, EntryIsStoppable
<1>11. TokensBelongToTheirCli'
  <2>1. \A s \in Runs : /\ run[s].out # "none" => /\ run'[s].cli = run[s].cli
                                                  /\ run'[s].resume = run[s].resume
                                                  /\ run'[s].out # "none"
    BY <1>2, <1>3, <1>4, ZenonT(40)
  <2>2. \A s \in Runs : s # x => run'[s].cli = run[s].cli /\ run'[s].resume = run[s].resume
    BY <1>2, <1>3
  <2>3. \A c \in Clis : token[c] \in Runs \cup {None}
    BY DEF IInv, TypeOK
  <2>4. \A s \in Runs : run[s].resume \in Runs \cup {None}
    BY DEF IInv, TypeOK, RunState
  <2>5. TokensBelongToTheirCli /\ cli \in Clis
    BY DEF IInv, TypeOK
  <2>6. ASSUME NEW c \in Clis, token'[c] # None
        PROVE  run'[token'[c]].cli = c /\ run'[token'[c]].resume = None /\ run'[token'[c]].out # "none"
    BY <1>0, <2>1, <2>3, <2>5, <2>6 DEF TokensBelongToTheirCli
  <2>7. ASSUME NEW s \in Runs, run'[s].resume # None
        PROVE  /\ run'[run'[s].resume].cli = run'[s].cli
               /\ run'[run'[s].resume].resume = None /\ run'[run'[s].resume].out # "none"
    <3>1. CASE s = x
      BY <3>1, <2>7, <1>4, <2>1, <2>3, <2>5 DEF TokensBelongToTheirCli
    <3>2. CASE s # x
      BY <3>2, <2>7, <2>1, <2>2, <2>4, <2>5 DEF TokensBelongToTheirCli
    <3>3. QED
      BY <3>1, <3>2
  <2>8. QED
    BY <2>6, <2>7 DEF TokensBelongToTheirCli
<1>12. CronIsMarkedByItsRun'
  BY <1>0, <1>2, <1>3, <1>4, ZenonT(40) DEF IInv, CronIsMarkedByItsRun, IsCron
<1>13. QED
  BY <1>5, <1>6, <1>7, <1>8, <1>9, <1>10, <1>11, <1>12 DEF IInv

\* What exit and the answer to /interrupt share: the runs of E, if any, exit,
\* and the head of the queue, if there is one, begins to be processed.
LEMMA FlushKeeps ==
  ASSUME IInv, NEW E \in SUBSET Runs, \A r \in E : run[r].phase = "running",
         NEW rs \in [Runs -> RunState],
         \A s \in Runs \ E : rs[s] = run[s],
         \A s \in E : /\ rs[s].phase = "exited" /\ ~rs[s].killed
                      /\ rs[s].out = run[s].out /\ rs[s].handler = run[s].handler
                      /\ rs[s].resume = run[s].resume /\ rs[s].cli = run[s].cli
                      /\ rs[s].marked <=> IsCron(s),
         FlushQueue(rs),
         entry' = None \/ (entry' = entry /\ E = {}),
         flushes' \in Nat, flushes' <= flushes,
         queue = <<>> => E # {} \/ flushes' < flushes,
         UNCHANGED <<token, cli, newCmd>>
  PROVE  IInv'
<1> USE ChatBridgeAssumption
<1>0. TypeOK /\ QueueHoldsWaiting /\ queue \in Seq(Messages) /\ run \in [Runs -> RunState]
  BY DEF IInv, TypeOK
\* rs is run as far as the invariant looks, but for what exited.
<1>1. \A s \in Runs :
        /\ rs[s] \in RunState
        /\ rs[s].out = run[s].out /\ rs[s].handler = run[s].handler
        /\ rs[s].resume = run[s].resume /\ rs[s].cli = run[s].cli
        /\ \/ rs[s] = run[s] /\ s \notin E
           \/ /\ s \in E /\ run[s].phase = "running" /\ rs[s].phase = "exited"
              /\ ~rs[s].killed /\ rs[s].marked <=> IsCron(s)
  OBVIOUS
<1>2. CASE queue = <<>>
  <2>1. run' = rs /\ UNCHANGED <<fate, queue>>
    BY <1>2 DEF FlushQueue
  <2>2. TypeOK'
    BY <1>0, <2>1 DEF TypeOK
  <2>3. QueueHoldsWaiting' /\ SomethingWillFlush' /\ AdapterStays'
    BY <1>0, <1>1, <1>2, <2>1 DEF IInv, QueueHoldsWaiting, SomethingWillFlush, AdapterStays, TypeOK
  <2>4. RunsAreWhole' /\ CronIsMarkedByItsRun'
    BY <1>1, <2>1 DEF IInv, RunsAreWhole, CronIsMarkedByItsRun, IsCron
  <2>5. ToolsAreUnanswered'
    BY <1>1, <2>1 DEF IInv, ToolsAreUnanswered, Runs
  <2>6. RunsAreAccountedFor'
    BY <1>1, <2>1 DEF IInv, RunsAreAccountedFor, Runs
  <2>7. EntryIsStoppable'
    BY <1>0, <1>1, <2>1 DEF IInv, EntryIsStoppable, TypeOK
  <2>8. TokensBelongToTheirCli'
    BY <1>0, <1>1, <2>1 DEF IInv, TokensBelongToTheirCli, TypeOK, RunState
  <2>9. QED
    BY <2>2, <2>3, <2>4, <2>5, <2>6, <2>7, <2>8 DEF IInv
<1>3. CASE queue # <<>>
  <2> DEFINE m == Head(queue)
             x == <<m, 0>>
  <2>1. /\ queue' = Tail(queue) /\ fate' = [fate EXCEPT ![m] = "accepted"]
        /\ run' = [rs EXCEPT ![x] = Begun]
    BY <1>3 DEF FlushQueue
  <2>2. m \in Messages /\ m = queue[1] /\ fate[m] = "queued"
    BY <1>0, <1>3, TailProperties DEF QueueHoldsWaiting
  <2>3. x \in Runs /\ x[1] = m /\ x[2] = 0
    BY <2>2 DEF Runs
  <2> HIDE DEF m, x
  <2>4. run[x].phase = "none"
    <3>1. run[<<m, 0>>].phase # "none" <=> fate[m] = "accepted"
      BY <2>2 DEF IInv, RunsAreAccountedFor
    <3>2. QED
      BY <3>1, <2>2 DEF x
  <2>5. /\ x \notin E /\ rs[x] = run[x]
        /\ run[x].out = "none" /\ run[x].handler = "idle" /\ run[x].resume = None
    BY <2>3, <2>4, <1>1 DEF IInv, RunsAreWhole, NotBegun
  <2>6. cli \in Manifests
    BY <1>3 DEF IInv, AdapterStays
  <2>7. /\ \A s \in Runs : s # x => run'[s] = rs[s]
        /\ run' \in [Runs -> RunState]
        /\ run'[x].phase = "starting" /\ run'[x].out = "none" /\ run'[x].handler = "idle"
        /\ ~run'[x].killed /\ ~run'[x].marked
        /\ run'[x].cli = cli /\ run'[x].resume = token[cli]
    BY <1>0, <2>1, <2>3, BegunProperties
  <2>8. TypeOK'
    BY <1>0, <1>3, <2>1, <2>2, <2>7, TailProperties DEF TypeOK
  <2>9. QueueHoldsWaiting'
    BY <1>0, <1>3, <2>1, <2>2, TailProperties DEF QueueHoldsWaiting, TypeOK
  <2>10. AdapterStays' /\ SomethingWillFlush'
    BY <2>3, <2>6, <2>7 DEF AdapterStays, SomethingWillFlush
  <2>11. ASSUME NEW s \in Runs
         PROVE  /\ run'[s].phase = "none" => run'[s] = NotBegun
                /\ run'[s].phase = "starting" => ~run'[s].killed
                /\ run'[s].phase \in {"running", "exited", "failed"} => run'[s].cli \in Manifests
                /\ run'[s].out # "none" => run'[s].phase \in {"running", "exited"}
                /\ run'[s].handler # "idle" => run'[s].out = "completed"
                /\ run'[s].marked <=> /\ IsCron(s)
                                      /\ \/ run'[s].out = "completed"
                                         \/ run'[s].phase \in {"exited", "failed"}
    <3>1. CASE s = x
      BY <3>1, <2>7
    <3>2. CASE s # x
      BY <3>2, <2>7, <1>1 DEF IInv, RunsAreWhole, CronIsMarkedByItsRun, IsCron
    <3>3. QED
      BY <3>1, <3>2
  <2>12. RunsAreWhole' /\ CronIsMarkedByItsRun'
    BY <2>11 DEF RunsAreWhole, CronIsMarkedByItsRun, IsCron
  <2>13. ToolsAreUnanswered'
    <3>1. ASSUME NEW s \in Runs, run'[s].handler = "tool"
          PROVE  s[2] < MaxToolDepth /\ run'[<<s[1], s[2] + 1>>].phase = "none"
      <4>1. s # x /\ run[s].handler = "tool"
        BY <3>1, <2>7, <1>1
      <4>2. s[2] < MaxToolDepth /\ run[<<s[1], s[2] + 1>>].phase = "none"
            /\ <<s[1], s[2] + 1>> \in Runs /\ <<s[1], s[2] + 1>> # x
        BY <4>1, <2>3 DEF IInv, ToolsAreUnanswered, Runs
      <4>3. QED
        BY <4>2, <2>7, <1>1
    <3>2. QED
      BY <3>1 DEF ToolsAreUnanswered
  <2>14. RunsAreAccountedFor'
    <3>1. ASSUME NEW k \in Messages
          PROVE  run'[<<k, 0>>].phase # "none" <=> fate'[k] = "accepted"
      <4>1. CASE k = m
        BY <4>1, <2>1, <2>2, <2>7, <1>0 DEF x, TypeOK
      <4>2. CASE k # m
        <5>1. <<k, 0>> \in Runs /\ <<k, 0>> # x
          BY <4>2 DEF Runs, x
        <5>2. run[<<k, 0>>].phase # "none" <=> fate[k] = "accepted"
          BY DEF IInv, RunsAreAccountedFor
        <5>3. QED
          BY <5>1, <5>2, <4>2, <2>1, <2>7, <1>0, <1>1 DEF TypeOK
      <4>3. QED
        BY <4>1, <4>2
    <3>2. ASSUME NEW s \in Runs, run'[s].phase # "none", s[2] > 0
          PROVE  run'[<<s[1], s[2] - 1>>].handler = "done"
      <4>1. s # x /\ run[s].phase # "none"
        BY <3>2, <2>3, <2>7, <1>1
      <4>2. run[<<s[1], s[2] - 1>>].handler = "done" /\ <<s[1], s[2] - 1>> \in Runs
        BY <3>2, <4>1 DEF IInv, RunsAreAccountedFor, Runs
      <4>3. QED
        BY <4>2, <2>5, <2>7, <1>1
    <3>3. QED
      BY <3>1, <3>2 DEF RunsAreAccountedFor
  <2>15. EntryIsStoppable'
    BY <1>0, <1>1, <2>4, <2>7 DEF IInv, EntryIsStoppable, TypeOK
  <2>16. TokensBelongToTheirCli'
    <3>1. \A s \in Runs : /\ run[s].out # "none" => /\ run'[s].cli = run[s].cli
                                                    /\ run'[s].resume = run[s].resume
                                                    /\ run'[s].out # "none"
      BY <2>5, <2>7, <1>1
    <3>2. \A s \in Runs : s # x => run'[s].cli = run[s].cli /\ run'[s].resume = run[s].resume
      BY <2>7, <1>1
    <3>3. \A c \in Clis : token[c] \in Runs \cup {None}
      BY DEF IInv, TypeOK
    <3>4. \A s \in Runs : run[s].resume \in Runs \cup {None}
      BY <1>0 DEF RunState
    <3>5. TokensBelongToTheirCli /\ cli \in Clis
      BY DEF IInv, TypeOK
    <3>6. ASSUME NEW c \in Clis, token'[c] # None
          PROVE  run'[token'[c]].cli = c /\ run'[token'[c]].resume = None /\ run'[token'[c]].out # "none"
      BY <3>1, <3>3, <3>5, <3>6 DEF TokensBelongToTheirCli
    <3>7. ASSUME NEW s \in Runs, run'[s].resume # None
          PROVE  /\ run'[run'[s].resume].cli = run'[s].cli
                 /\ run'[run'[s].resume].resume = None /\ run'[run'[s].resume].out # "none"
      <4>1. CASE s = x
        BY <4>1, <3>7, <2>7, <3>1, <3>3, <3>5 DEF TokensBelongToTheirCli
      <4>2. CASE s # x
        BY <4>2, <3>7, <3>1, <3>2, <3>4, <3>5 DEF TokensBelongToTheirCli
      <4>3. QED
        BY <4>1, <4>2
    <3>8. QED
      BY <3>6, <3>7 DEF TokensBelongToTheirCli
  <2>17. QED
    BY <2>8, <2>9, <2>10, <2>12, <2>13, <2>14, <2>15, <2>16 DEF IInv
<1>4. QED
  BY <1>2, <1>3

LEMMA ExitKeeps ==
  ASSUME IInv, NEW r \in Runs, Exit(r)
  PROVE  IInv'
<1> DEFINE b == run[r].marked \/ IsCron(r)
           rs == [run EXCEPT ![r] = [run[r] EXCEPT !.phase = "exited", !.killed = FALSE, !.marked = b]]
<1>1. run \in [Runs -> RunState] /\ run[r] \in RunState /\ run[r].phase = "running"
  BY DEF IInv, TypeOK, Exit
<1>2. FlushQueue(rs) /\ entry' = None /\ UNCHANGED <<token, cli, newCmd, flushes>>
  BY <1>1 DEF Exit, RunState
<1>3. b \in BOOLEAN /\ (b <=> IsCron(r))
  BY DEF IInv, CronIsMarkedByItsRun, IsCron
<1> HIDE DEF b
<1>4. /\ rs[r] \in RunState
      /\ rs[r].phase = "exited" /\ rs[r].killed = FALSE /\ rs[r].marked = b
      /\ rs[r].out = run[r].out /\ rs[r].handler = run[r].handler
      /\ rs[r].resume = run[r].resume /\ rs[r].cli = run[r].cli
  BY <1>1, <1>3 DEF RunState, Phases
<1>5. rs \in [Runs -> RunState] /\ \A s \in Runs \ {r} : rs[s] = run[s]
  BY <1>1, <1>4
<1> HIDE DEF rs
<1>6. flushes \in Nat
  BY DEF IInv, TypeOK
<1>7. PICK E \in SUBSET Runs : E = {r}
  OBVIOUS
<1>8. /\ \A s \in E : run[s].phase = "running"
      /\ \A s \in Runs \ E : rs[s] = run[s]
      /\ \A s \in E : /\ rs[s].phase = "exited" /\ ~rs[s].killed
                      /\ rs[s].out = run[s].out /\ rs[s].handler = run[s].handler
                      /\ rs[s].resume = run[s].resume /\ rs[s].cli = run[s].cli
                      /\ rs[s].marked <=> IsCron(s)
      /\ flushes' \in Nat /\ flushes' <= flushes
      /\ queue = <<>> => E # {} \/ flushes' < flushes
  BY <1>1, <1>2, <1>3, <1>4, <1>5, <1>6, <1>7
<1>9. entry' = None \/ (entry' = entry /\ E = {})
  BY <1>2
<1>10. QED
  BY <1>2, <1>5, <1>8, <1>9, FlushKeeps

LEMMA InterruptFlushKeeps ==
  ASSUME IInv, InterruptFlush
  PROVE  IInv'
<1>1. /\ run \in [Runs -> RunState] /\ FlushQueue(run) /\ flushes \in Nat
      /\ flushes' \in Nat /\ flushes' < flushes
      /\ UNCHANGED <<entry, token, cli, newCmd>>
  BY DEF IInv, TypeOK, InterruptFlush
<1>2. PICK E \in SUBSET Runs : E = {}
  OBVIOUS
<1>3. /\ \A s \in E : run[s].phase = "running"
      /\ \A s \in Runs \ E : run[s] = run[s]
      /\ \A s \in E : /\ run[s].phase = "exited" /\ ~run[s].killed
                      /\ run[s].out = run[s].out /\ run[s].handler = run[s].handler
                      /\ run[s].resume = run[s].resume /\ run[s].cli = run[s].cli
                      /\ run[s].marked <=> IsCron(s)
      /\ flushes' <= flushes
      /\ queue = <<>> => E # {} \/ flushes' < flushes
      /\ entry' = None \/ (entry' = entry /\ E = {})
  BY <1>1, <1>2
<1>4. QED
  BY <1>1, <1>3, FlushKeeps

\* /stop, /interrupt and the end of /new terminate one session and delete the
\* chat's entry.
LEMMA TerminateKeeps ==
  ASSUME IInv, NEW r \in Runs, run' = Terminated(run, r), entry' = None,
         token' = token \/ token' = [c \in Clis |-> None],
         flushes' \in Nat, flushes' >= flushes,
         flushes' > flushes => cli \in Manifests,
         newCmd' \in [NewCmds -> [step : {"idle", "syncing", "clearing"},
                                  session : Runs \cup {None}, cli : Clis \cup {None}]],
         UNCHANGED <<fate, queue, cli>>
  PROVE  IInv'
<1> USE ChatBridgeAssumption
<1>1. /\ TypeOK /\ run' \in [Runs -> RunState]
      /\ \A s \in Runs : s # r => run'[s] = run[s]
      /\ \/ run'[r] = run[r]
         \/ /\ run[r].phase \in {"running", "failed"}
            /\ run'[r] = [run[r] EXCEPT !.killed = TRUE]
  BY TerminatedProperties DEF IInv
<1>2. \A s \in Runs :
        /\ run'[s].phase = run[s].phase /\ run'[s].out = run[s].out
        /\ run'[s].handler = run[s].handler /\ run'[s].marked = run[s].marked
        /\ run'[s].resume = run[s].resume /\ run'[s].cli = run[s].cli
        /\ run[s].phase \notin {"running", "failed"} => run'[s] = run[s]
  BY <1>1 DEF TypeOK, RunState
<1>3. TypeOK'
  BY <1>1 DEF TypeOK
<1>4. QueueHoldsWaiting' /\ EntryIsStoppable'
  BY DEF IInv, QueueHoldsWaiting, EntryIsStoppable
<1>5. RunsAreWhole' /\ CronIsMarkedByItsRun'
  BY <1>2 DEF IInv, RunsAreWhole, CronIsMarkedByItsRun, IsCron
<1>6. ToolsAreUnanswered' /\ RunsAreAccountedFor'
  BY <1>2 DEF IInv, ToolsAreUnanswered, RunsAreAccountedFor, Runs
<1>7. AdapterStays' /\ SomethingWillFlush'
  <2>1. flushes \in Nat /\ AdapterStays /\ SomethingWillFlush
    BY DEF IInv, TypeOK
  <2>2. AdapterStays'
    BY <2>1, <1>2 DEF AdapterStays
  <2>3. SomethingWillFlush'
    BY <2>1, <1>2 DEF SomethingWillFlush
  <2>4. QED
    BY <2>2, <2>3
<1>8. TokensBelongToTheirCli'
  BY <1>1, <1>2 DEF IInv, TokensBelongToTheirCli, TypeOK, RunState
<1>9. QED
  BY <1>3, <1>4, <1>5, <1>6, <1>7, <1>8 DEF IInv

LEMMA CommandKeeps ==
  ASSUME IInv, Command
  PROVE  IInv'
<1> USE ChatBridgeAssumption
<1>0. /\ TypeOK
      /\ entry # None => entry \in Runs /\ cli \in Manifests
  BY DEF IInv, TypeOK, EntryIsStoppable, RunsAreWhole, AdapterStays
<1>1. CASE Stop
  BY <1>0, <1>1, TerminateKeeps DEF Stop, TypeOK
<1>2. CASE Interrupt
  BY <1>0, <1>2, TerminateKeeps DEF Interrupt, TypeOK
<1>3. CASE InterruptFlush
  BY <1>3, InterruptFlushKeeps
<1>4. ASSUME NEW c \in Clis, Use(c) PROVE IInv'
  <2>1. /\ c \in Manifests /\ cli' = c
        /\ UNCHANGED <<fate, queue, entry, token, run, newCmd, flushes>>
    BY <1>4 DEF Use
  <2>2. TypeOK' /\ AdapterStays'
    BY <1>0, <2>1 DEF TypeOK, AdapterStays
  <2>3. QED
    BY <2>1, <2>2 DEF IInv, QueueHoldsWaiting, RunsAreWhole, ToolsAreUnanswered, SomethingWillFlush,
       EntryIsStoppable, RunsAreAccountedFor, TokensBelongToTheirCli, CronIsMarkedByItsRun, IsCron
<1>5. ASSUME NEW n \in NewCmds, NewBegin(n) PROVE IInv'
  <2>1. UNCHANGED <<fate, queue, entry, token, cli, run, flushes>>
    BY <1>5 DEF NewBegin
  <2>2. TypeOK'
    BY <1>0, <1>5 DEF TypeOK, NewBegin
  <2>3. QED
    BY <2>1, <2>2 DEF IInv, QueueHoldsWaiting, RunsAreWhole, ToolsAreUnanswered, SomethingWillFlush,
       AdapterStays, EntryIsStoppable, RunsAreAccountedFor, TokensBelongToTheirCli,
       CronIsMarkedByItsRun, IsCron
<1>6. ASSUME NEW n \in NewCmds, NewClear(n) PROVE IInv'
  <2>1. /\ UNCHANGED <<fate, queue, entry, cli, run, flushes>>
        /\ token' = [token EXCEPT ![newCmd[n].cli] = None]
    BY <1>6 DEF NewClear
  <2>2. TypeOK'
    BY <1>0, <1>6, ZenonT(40) DEF TypeOK, NewClear
  <2>3. \A c \in Clis : token'[c] = token[c] \/ token'[c] = None
    BY <1>0, <2>1 DEF TypeOK
  <2>4. TokensBelongToTheirCli'
    BY <2>1, <2>3 DEF IInv, TokensBelongToTheirCli
  <2>5. QED
    BY <2>1, <2>2, <2>4 DEF IInv, QueueHoldsWaiting, RunsAreWhole, ToolsAreUnanswered, SomethingWillFlush,
       AdapterStays, EntryIsStoppable, RunsAreAccountedFor, CronIsMarkedByItsRun, IsCron
<1>7. ASSUME NEW n \in NewCmds, NewFinish(n) PROVE IInv'
  <2>1. /\ UNCHANGED <<fate, queue, cli, flushes>>
        /\ token' = [c \in Clis |-> None]
        /\ newCmd' = [newCmd EXCEPT ![n] = [step |-> "idle", session |-> None, cli |-> None]]
    BY <1>7 DEF NewFinish
  <2>2. newCmd' \in [NewCmds -> [step : {"idle", "syncing", "clearing"},
                                 session : Runs \cup {None}, cli : Clis \cup {None}]]
    BY <1>0, <2>1 DEF TypeOK
  <2>3. CASE newCmd[n].session = None
    <3>1. UNCHANGED <<entry, run>>
      BY <1>7, <2>3 DEF NewFinish
    <3>2. TypeOK' /\ TokensBelongToTheirCli'
      BY <1>0, <2>1, <2>2, <3>1 DEF IInv, TypeOK, TokensBelongToTheirCli
    <3>3. QED
      BY <2>1, <3>1, <3>2 DEF IInv, QueueHoldsWaiting, RunsAreWhole, ToolsAreUnanswered, SomethingWillFlush,
         AdapterStays, EntryIsStoppable, RunsAreAccountedFor, CronIsMarkedByItsRun, IsCron
  <2>4. CASE newCmd[n].session # None
    <3>1. newCmd[n].session \in Runs /\ flushes \in Nat
      BY <1>0, <2>4 DEF TypeOK
    <3>2. run' = Terminated(run, newCmd[n].session) /\ entry' = None
      BY <1>7, <2>4 DEF NewFinish
    <3>3. QED
      BY <2>1, <2>2, <3>1, <3>2, TerminateKeeps
  <2>5. QED
    BY <2>3, <2>4
<1>8. QED
  BY <1>1, <1>2, <1>3, <1>4, <1>5, <1>6, <1>7 DEF Command

LEMMA NextKeeps ==
  ASSUME IInv, [Next]_vars
  PROVE  IInv'
<1>1. ASSUME NEW m \in Messages, Receive(m) PROVE IInv'
  BY <1>1, ReceiveKeeps, ProcessNowKeeps DEF Receive
<1>2. ASSUME NEW r \in Runs, StartRun(r) PROVE IInv'
  BY <1>2, StartRunKeeps
<1>3. ASSUME NEW r \in Runs, HandleEvent(r) PROVE IInv'
  BY <1>3, OutputKeeps, ToolKeeps, ExitKeeps DEF HandleEvent
<1>4. CASE Command
  BY <1>4, CommandKeeps
<1>5. CASE UNCHANGED vars
  BY <1>5 DEF vars, IInv, TypeOK, QueueHoldsWaiting, RunsAreWhole, ToolsAreUnanswered, SomethingWillFlush,
     AdapterStays, EntryIsStoppable, RunsAreAccountedFor, TokensBelongToTheirCli,
     CronIsMarkedByItsRun, IsCron
<1>6. QED
  BY <1>1, <1>2, <1>3, <1>4, <1>5 DEF Next

-----------------------------------------------------------------------------
(* The theorems.                                                           *)

\* However messages, commands, exits and tool results interleave, the parts of
\* a chat's session store stay in step with the runs of its processes.
THEOREM InvariantHolds == Spec => []IInv
<1>1. Init => IInv
  BY InitHolds
<1>2. IInv /\ [Next]_vars => IInv'
  BY NextKeeps
<1>3. QED
  BY <1>1, <1>2, PTL DEF Spec

\* Every variable stays in its range, and the queue never outgrows MaxQueue.
THEOREM TypeIsCorrect == Spec => []TypeOK
<1>1. IInv => TypeOK
  BY DEF IInv
<1>2. QED
  BY <1>1, InvariantHolds, PTL

\* A chat is busy only because of a process that can still be stopped, though
\* exit and /new delete whatever entry they find.
THEOREM BusyMeansStoppable == Spec => []EntryIsStoppable
<1>1. IInv => EntryIsStoppable
  BY DEF IInv
<1>2. QED
  BY <1>1, InvariantHolds, PTL

\* processMessage runs once for a message that was handed over, and for a tool
\* result only once the run that asked for it has answered.
THEOREM EveryRunIsAccountedFor == Spec => []RunsAreAccountedFor
<1>1. IInv => RunsAreAccountedFor
  BY DEF IInv
<1>2. QED
  BY <1>1, InvariantHolds, PTL

\* A queue is left behind only by a CLI that failed to spawn.
THEOREM QueueIsStrandedOnlyBySpawnFailure == Spec => []StrandedOnlyBySpawnFailure
<1>1. IInv => StrandedOnlyBySpawnFailure
  BY DEF IInv, SomethingWillFlush, StrandedOnlyBySpawnFailure, WillFlush
<1>2. QED
  BY <1>1, InvariantHolds, PTL

\* /use never hands one CLI's conversation to another.
THEOREM TokensStayWithTheirCli == Spec => []TokensBelongToTheirCli
<1>1. IInv => TokensBelongToTheirCli
  BY DEF IInv
<1>2. QED
  BY <1>1, InvariantHolds, PTL

\* A cron job hears of its run once the process answered, exited or failed to
\* spawn, never before.
THEOREM CronHearsOfItsRun == Spec => []CronIsMarkedByItsRun
<1>1. IInv => CronIsMarkedByItsRun
  BY DEF IInv
<1>2. QED
  BY <1>1, InvariantHolds, PTL

-----------------------------------------------------------------------------
(* The messages of a chat go through a mailbox.                            *)

LEMMA MailboxInit == Init => MailboxOf!Init
BY DEF Init, MailboxOf!Init

\* flushQueue delivers the head of the mailbox, or does nothing.
LEMMA FlushDelivers ==
  ASSUME IInv, NEW rs, FlushQueue(rs)
  PROVE  [MailboxOf!Next]_MailboxOf!vars
<1>1. CASE queue = <<>>
  BY <1>1 DEF FlushQueue, MailboxOf!vars
<1>2. CASE queue # <<>>
  <2>1. queue \in Seq(Messages) /\ QueueHoldsWaiting
    BY DEF IInv, TypeOK
  <2>2. fate[Head(queue)] = "queued"
    BY <1>2, <2>1, TailProperties DEF QueueHoldsWaiting
  <2>3. QED
    BY <1>2, <2>2 DEF FlushQueue, MailboxOf!Next, MailboxOf!DeliverHead
<1>3. QED
  BY <1>1, <1>2

LEMMA MailboxStep ==
  ASSUME IInv, [Next]_vars
  PROVE  [MailboxOf!Next]_MailboxOf!vars
<1>1. ASSUME NEW m \in Messages, Receive(m) PROVE MailboxOf!Next
  <2>1. Len(queue) \in Nat /\ MaxQueue \in Nat /\ Len(queue) <= MaxQueue
    BY ChatBridgeAssumption DEF IInv, TypeOK
  <2>2. CASE QueueFull(m)
    <3>1. Len(queue) = MaxQueue
      BY <2>1, <2>2 DEF QueueFull
    <3>2. MailboxOf!Refuse(m)
      BY <3>1, <2>2 DEF QueueFull, MailboxOf!Refuse
    <3>3. QED
      BY <3>2 DEF MailboxOf!Next
  <2>3. CASE Enqueue(m)
    BY <2>3 DEF Enqueue, MailboxOf!Next, MailboxOf!Wait
  <2>4. CASE ProcessNow(m)
    BY <2>4 DEF ProcessNow, MailboxOf!Next, MailboxOf!Handover
  <2>5. QED
    BY <1>1, <2>2, <2>3, <2>4 DEF Receive
<1>2. ASSUME NEW r \in Runs, StartRun(r) PROVE UNCHANGED MailboxOf!vars
  BY <1>2 DEF StartRun, CliNotFound, SpawnSession, SpawnFails, MailboxOf!vars
<1>3. ASSUME NEW r \in Runs, HandleEvent(r) PROVE [MailboxOf!Next]_MailboxOf!vars
  <2>1. CASE Exit(r)
    BY <2>1, FlushDelivers DEF Exit
  <2>2. CASE ~Exit(r)
    BY <1>3, <2>2 DEF HandleEvent, Started, Completed, StreamFlushed, ToolAnswered, ToolFailed, MailboxOf!vars
  <2>3. QED
    BY <2>1, <2>2
<1>4. CASE Command
  <2>1. CASE InterruptFlush
    BY <2>1, FlushDelivers DEF InterruptFlush
  <2>2. CASE ~InterruptFlush
    <3>1. UNCHANGED <<fate, queue>>
      <4>1. CASE Stop \/ Interrupt
        BY <4>1 DEF Stop, Interrupt
      <4>2. ASSUME NEW c \in Clis, Use(c) PROVE UNCHANGED <<fate, queue>>
        BY <4>2 DEF Use
      <4>3. ASSUME NEW n \in NewCmds, NewBegin(n) \/ NewClear(n) \/ NewFinish(n)
            PROVE  UNCHANGED <<fate, queue>>
        BY <4>3 DEF NewBegin, NewClear, NewFinish
      <4>4. QED
        BY <1>4, <2>2, <4>1, <4>2, <4>3 DEF Command
    <3>2. QED
      BY <3>1 DEF MailboxOf!vars
  <2>3. QED
    BY <2>1, <2>2
<1>5. CASE UNCHANGED vars
  BY <1>5 DEF vars, MailboxOf!vars
<1>6. QED
  BY <1>1, <1>2, <1>3, <1>4, <1>5 DEF Next

\* The bridge implements the mailbox: no message is handed over twice,
\* overtaken in the queue, or refused while there is room.
THEOREM ImplementsMailbox == Spec => MailboxSpec
<1>1. Init => MailboxOf!Init
  BY MailboxInit
<1>2. IInv /\ [Next]_vars => [MailboxOf!Next]_MailboxOf!vars
  BY MailboxStep
<1>3. QED
  BY <1>1, <1>2, InvariantHolds, PTL DEF Spec, MailboxSpec, MailboxOf!Spec

-----------------------------------------------------------------------------
(* What /new promises: ChatBridgeFresh.                                    *)

\* A step leaves a run in its conversation, with no more to report than before,
\* or begins it in the conversation the token of the chat's CLI names.
Continues(r) ==
  /\ run'[r].resume = run[r].resume
  /\ run[r].phase # "none" => run'[r].phase # "none"
  /\ \/ run'[r].phase \in {"starting", "running"}
     \/ run'[r].phase = "exited" /\ run'[r].out # "completed"
     \/ run'[r].handler = "flushing"
     => MayStillReport(r)

Begins(r) ==
  /\ run[r].phase = "none" /\ run'[r].phase = "starting"
  /\ run'[r].resume = token[cli]
  /\ token' = token

RunsContinue == \A r \in Runs : Continues(r) \/ Begins(r)

TokensAreReported ==
  \A c \in Clis : \/ token'[c] \in {token[c], None}
                  \/ \E r \in Runs : MayStillReport(r) /\ token'[c] = Conversation(r)

LEMMA UnchangedContinues ==
  ASSUME NEW r \in Runs, run'[r] = run[r]
  PROVE  Continues(r)
BY DEF Continues, MayStillReport

LEMMA FlushContinues ==
  ASSUME IInv, NEW rs \in [Runs -> RunState], FlushQueue(rs), token' = token,
         \A s \in Runs : /\ rs[s].resume = run[s].resume /\ rs[s].out = run[s].out
                         /\ rs[s].handler = run[s].handler
                         /\ \/ rs[s].phase = run[s].phase
                            \/ rs[s].phase = "exited" /\ run[s].phase = "running"
  PROVE  RunsContinue
<1> DEFINE x == <<Head(queue), 0>>
<1>1. ASSUME NEW r \in Runs, run'[r] = rs[r] PROVE Continues(r)
  BY <1>1 DEF Continues, MayStillReport
<1>2. CASE queue = <<>>
  BY <1>1, <1>2 DEF FlushQueue, RunsContinue
<1>3. CASE queue # <<>>
  <2>1. queue \in Seq(Messages) /\ QueueHoldsWaiting /\ TypeOK
    BY DEF IInv, TypeOK
  <2>2. Head(queue) \in Messages /\ fate[Head(queue)] = "queued"
    BY <1>3, <2>1, TailProperties DEF QueueHoldsWaiting
  <2>3. x \in Runs /\ run[x].phase = "none"
    BY <2>2, ChatBridgeAssumption DEF IInv, RunsAreAccountedFor, Runs
  <2>4. run' = [rs EXCEPT ![x] = Begun]
    BY <1>3 DEF FlushQueue
  <2> HIDE DEF x
  <2>5. Begins(x)
    BY <2>1, <2>3, <2>4, BegunProperties DEF Begins
  <2>6. \A r \in Runs : r # x => run'[r] = rs[r]
    BY <2>4
  <2>7. QED
    BY <1>1, <2>5, <2>6 DEF RunsContinue
<1>4. QED
  BY <1>2, <1>3

LEMMA TerminatedContinues ==
  ASSUME IInv, NEW x \in Runs, run' = Terminated(run, x)
  PROVE  \A r \in Runs : Continues(r)
<1>1. /\ \A s \in Runs : s # x => run'[s] = run[s]
      /\ run'[x] = run[x] \/ run'[x] = [run[x] EXCEPT !.killed = TRUE]
  BY TerminatedProperties DEF IInv
<1>2. run[x] \in RunState
  BY DEF IInv, TypeOK
<1>3. /\ run'[x].phase = run[x].phase /\ run'[x].out = run[x].out
      /\ run'[x].handler = run[x].handler /\ run'[x].resume = run[x].resume
  BY <1>1, <1>2 DEF RunState
<1>4. QED
  BY <1>1, <1>3 DEF Continues, MayStillReport

LEMMA OutputContinues ==
  ASSUME IInv, NEW r \in Runs, Started(r) \/ Completed(r) \/ StreamFlushed(r)
  PROVE  RunsContinue /\ TokensAreReported
<1>1. /\ TypeOK /\ run \in [Runs -> RunState]
      /\ run[r].handler # "idle" => run[r].out = "completed"
  BY DEF IInv, TypeOK, RunsAreWhole
<1>2. /\ MayStillReport(r)
      /\ \A s \in Runs : s # r => run'[s] = run[s]
      /\ run'[r].phase = run[r].phase /\ run'[r].resume = run[r].resume
      /\ token' \in {token, [token EXCEPT ![run[r].cli] = Conversation(r)]}
  <2>1. CASE Started(r)
    BY <1>1, <2>1 DEF Started, RunState, MayStillReport
  <2>2. CASE Completed(r) /\ SaveToken(r)
    BY <1>1, <2>2, SaveTokenProperties DEF Completed, MayStillReport
  <2>3. CASE Completed(r) /\ ~SaveToken(r)
    BY <1>1, <2>3, AwaitProperties DEF Completed, MayStillReport
  <2>4. CASE StreamFlushed(r)
    BY <1>1, <2>4, SaveTokenProperties DEF StreamFlushed, MayStillReport
  <2>5. QED
    BY <2>1, <2>2, <2>3, <2>4
<1>3. Continues(r)
  <2>1. run[r].phase # "none"
    BY DEF Started, Completed, StreamFlushed, IInv, RunsAreWhole
  <2>2. QED
    BY <1>2, <2>1 DEF Continues
<1>4. RunsContinue
  BY <1>2, <1>3, UnchangedContinues DEF RunsContinue
<1>5. TokensAreReported
  <2>1. \A c \in Clis : token'[c] \in {token[c], Conversation(r)}
    BY <1>1, <1>2 DEF TypeOK
  <2>2. QED
    BY <1>2, <2>1 DEF TokensAreReported
<1>6. QED
  BY <1>4, <1>5

LEMMA ContinuesWithoutNew ==
  ASSUME IInv, OtherThanNewFinish
  PROVE  RunsContinue /\ TokensAreReported
<1> USE ChatBridgeAssumption
<1>0. TypeOK /\ run \in [Runs -> RunState]
  BY DEF IInv, TypeOK
<1>1. ASSUME token' = token PROVE TokensAreReported
  BY <1>1 DEF TokensAreReported
<1>2. ASSUME run' = run PROVE RunsContinue
  BY <1>2, UnchangedContinues DEF RunsContinue
<1>3. ASSUME NEW m \in Messages, Receive(m) PROVE RunsContinue /\ TokensAreReported
  <2>1. CASE QueueFull(m) \/ Enqueue(m)
    BY <1>1, <1>2, <2>1 DEF QueueFull, Enqueue
  <2>2. CASE ProcessNow(m)
    <3>1. <<m, 0>> \in Runs /\ run[<<m, 0>>].phase = "none"
      BY <2>2 DEF ProcessNow, IInv, RunsAreAccountedFor, Runs
    <3>2. run' = [run EXCEPT ![<<m, 0>>] = Begun] /\ token' = token
      BY <2>2 DEF ProcessNow
    <3>3. Begins(<<m, 0>>)
      BY <1>0, <3>1, <3>2, BegunProperties DEF Begins
    <3>4. \A r \in Runs : r # <<m, 0>> => run'[r] = run[r]
      BY <1>0, <3>2
    <3>5. QED
      BY <1>1, <3>2, <3>3, <3>4, UnchangedContinues DEF RunsContinue
  <2>3. QED
    BY <1>3, <2>1, <2>2 DEF Receive
<1>4. ASSUME NEW r \in Runs, StartRun(r) PROVE RunsContinue /\ TokensAreReported
  <2>1. /\ token' = token /\ \A s \in Runs : s # r => run'[s] = run[s]
        /\ run[r].phase = "starting" /\ run'[r].phase # "none"
        /\ run'[r].resume = run[r].resume
    BY <1>0, <1>4 DEF StartRun, CliNotFound, SpawnSession, SpawnFails, RunState
  <2>2. Continues(r)
    BY <2>1 DEF Continues, MayStillReport
  <2>3. QED
    BY <1>1, <2>1, <2>2, UnchangedContinues DEF RunsContinue
<1>5. ASSUME NEW r \in Runs, HandleEvent(r) PROVE RunsContinue /\ TokensAreReported
  <2>1. CASE Started(r) \/ Completed(r) \/ StreamFlushed(r)
    BY <2>1, OutputContinues
  <2>2. CASE ToolFailed(r)
    <3>1. run' = [run EXCEPT ![r].handler = "done"] /\ token' = token
      BY <2>2 DEF ToolFailed
    <3>2. /\ \A s \in Runs : s # r => run'[s] = run[s]
          /\ run'[r].phase = run[r].phase /\ run'[r].out = run[r].out
          /\ run'[r].resume = run[r].resume /\ run'[r].handler = "done"
      BY <1>0, <3>1 DEF RunState
    <3>3. Continues(r)
      BY <3>2 DEF Continues, MayStillReport
    <3>4. QED
      BY <1>1, <3>1, <3>2, <3>3, UnchangedContinues DEF RunsContinue
  <2>3. CASE ToolAnswered(r)
    <3> DEFINE x == <<r[1], r[2] + 1>>
    <3>1. run[r].handler = "tool" /\ token' = token
          /\ run' = [run EXCEPT ![r].handler = "done", ![x] = Begun]
      BY <2>3 DEF ToolAnswered
    <3>2. x \in Runs /\ r # x /\ run[x].phase = "none"
      BY <3>1 DEF IInv, ToolsAreUnanswered, Runs
    <3> HIDE DEF x
    <3>3. /\ \A s \in Runs : s \notin {r, x} => run'[s] = run[s]
          /\ run'[r].phase = run[r].phase /\ run'[r].out = run[r].out
          /\ run'[r].resume = run[r].resume /\ run'[r].handler = "done"
          /\ run'[x] = Begun
      BY <1>0, <3>1, <3>2 DEF RunState
    <3>4. Continues(r) /\ Begins(x)
      BY <1>0, <3>1, <3>2, <3>3, BegunProperties DEF Continues, MayStillReport, Begins
    <3>5. QED
      BY <1>1, <3>1, <3>3, <3>4, UnchangedContinues DEF RunsContinue
  <2>4. CASE Exit(r)
    <3> DEFINE b == run[r].marked \/ IsCron(r)
               rs == [run EXCEPT ![r] = [run[r] EXCEPT !.phase = "exited", !.killed = FALSE, !.marked = b]]
    <3>1. FlushQueue(rs) /\ token' = token /\ run[r].phase = "running" /\ b \in BOOLEAN
      BY <1>0, <2>4 DEF Exit, RunState
    <3> HIDE DEF b
    <3>2. [run[r] EXCEPT !.phase = "exited", !.killed = FALSE, !.marked = b] \in RunState
      BY <1>0, <3>1, ZenonT(40) DEF RunState, Phases
    <3>3. /\ rs \in [Runs -> RunState]
          /\ \A s \in Runs : /\ rs[s].resume = run[s].resume /\ rs[s].out = run[s].out
                             /\ rs[s].handler = run[s].handler
                             /\ \/ rs[s].phase = run[s].phase
                                \/ rs[s].phase = "exited" /\ run[s].phase = "running"
      BY <1>0, <3>1, <3>2 DEF RunState
    <3> HIDE DEF rs
    <3>4. QED
      BY <1>1, <3>1, <3>3, FlushContinues
  <2>5. QED
    BY <1>5, <2>1, <2>2, <2>3, <2>4 DEF HandleEvent
<1>6. CASE Stop \/ Interrupt
  <2>1. token' = token /\ run' = Terminated(run, entry) /\ entry \in Runs
    BY <1>0, <1>6 DEF Stop, Interrupt, TypeOK
  <2>2. QED
    BY <1>1, <2>1, TerminatedContinues DEF RunsContinue
<1>7. CASE InterruptFlush
  <2>1. FlushQueue(run) /\ token' = token
    BY <1>7 DEF InterruptFlush
  <2>2. QED
    BY <1>0, <1>1, <2>1, FlushContinues
<1>8. ASSUME NEW c \in Clis, Use(c) PROVE RunsContinue /\ TokensAreReported
  BY <1>1, <1>2, <1>8 DEF Use
<1>9. ASSUME NEW n \in NewCmds, NewBegin(n) \/ NewClear(n) PROVE RunsContinue /\ TokensAreReported
  <2>1. run' = run
    BY <1>9 DEF NewBegin, NewClear
  <2>2. token' \in {token, [token EXCEPT ![newCmd[n].cli] = None]}
    BY <1>9 DEF NewBegin, NewClear
  <2>3. TokensAreReported
    BY <1>0, <2>2 DEF TokensAreReported, TypeOK
  <2>4. QED
    BY <1>2, <2>1, <2>3
<1>10. QED
  BY <1>3, <1>4, <1>5, <1>6, <1>7, <1>8, <1>9 DEF OtherThanNewFinish

LEMMA FreshInitHolds == FreshInit => FreshInv
BY DEF FreshInit, FreshInv, FreshUnlessLate

LEMMA ConversationsHaveBegun ==
  ASSUME IInv, NEW r \in Runs, run[r].phase # "none"
  PROVE  Conversation(r) \in Runs /\ run[Conversation(r)].phase # "none"
BY DEF IInv, TypeOK, RunState, Conversation, TokensBelongToTheirCli, RunsAreWhole

LEMMA RememberKeepsFresh ==
  ASSUME IInv, NEW n \in NewCmds, Remember(n)
  PROVE  FreshInv'
<1> USE ChatBridgeAssumption
<1>1. /\ NewFinish(n) /\ token' = [c \in Clis |-> None]
      /\ outdated' = {Conversation(r) : r \in {s \in Runs : run[s].phase # "none"}}
      /\ late' = {Conversation(r) : r \in {s \in Runs : MayStillReport(s)}}
  BY DEF Remember, NewFinish
<1>2. \A r \in Runs : Continues(r)
  <2>1. CASE newCmd[n].session = None
    BY <1>1, <2>1, UnchangedContinues DEF NewFinish
  <2>2. CASE newCmd[n].session # None
    <3>1. newCmd[n].session \in Runs
      BY <2>2 DEF IInv, TypeOK
    <3>2. run' = Terminated(run, newCmd[n].session)
      BY <1>1, <2>2 DEF NewFinish
    <3>3. QED
      BY <3>1, <3>2, TerminatedContinues
  <2>3. QED
    BY <2>1, <2>2
<1>3. \A r \in outdated' : r \in Runs /\ run[r].phase # "none"
  BY <1>1, ConversationsHaveBegun
<1>4. FreshUnlessLate'
  BY <1>1, <1>3 DEF FreshUnlessLate
<1>5. ASSUME NEW r \in Runs, MayStillReport(r)'
      PROVE  Conversation(r)' \in late'
  <2>1. MayStillReport(r) /\ Conversation(r)' = Conversation(r)
    BY <1>2, <1>5 DEF Continues, MayStillReport, Conversation
  <2>2. QED
    BY <1>1, <2>1
<1>6. \A r \in outdated' : r \in Runs /\ run'[r].phase # "none"
  BY <1>2, <1>3 DEF Continues
<1>7. QED
  BY <1>4, <1>5, <1>6 DEF FreshInv

LEMMA OthersKeepFresh ==
  ASSUME IInv, FreshInv, RunsContinue, TokensAreReported, UNCHANGED <<outdated, late>>
  PROVE  FreshInv'
<1> USE ChatBridgeAssumption
<1>1. \A r \in outdated : r \in Runs /\ run[r].phase # "none" /\ run'[r].phase # "none"
  BY DEF FreshInv, RunsContinue, Continues, Begins
<1>2. ASSUME NEW c \in Clis, token'[c] \in outdated
      PROVE  token'[c] \in late
  <2>1. token'[c] # None
    BY <1>1, <1>2
  <2>2. CASE token'[c] = token[c]
    BY <1>2, <2>2 DEF FreshInv, FreshUnlessLate
  <2>3. CASE \E r \in Runs : MayStillReport(r) /\ token'[c] = Conversation(r)
    BY <1>2, <2>3 DEF FreshInv
  <2>4. QED
    BY <2>1, <2>2, <2>3 DEF TokensAreReported
<1>3. ASSUME NEW r \in Runs, MayStillReport(r)', Conversation(r)' \in outdated
      PROVE  Conversation(r)' \in late
  <2>1. CASE Continues(r)
    <3>1. MayStillReport(r) /\ Conversation(r)' = Conversation(r)
      BY <1>3, <2>1 DEF Continues, MayStillReport, Conversation
    <3>2. QED
      BY <1>3, <3>1 DEF FreshInv
  \* It resumes a token that was late, or a conversation of its own, which had
  \* not begun.
  <2>2. CASE Begins(r)
    <3>1. Conversation(r)' # r /\ Conversation(r)' = token[cli] /\ cli \in Clis
      BY <1>1, <1>3, <2>2 DEF Begins, Conversation, IInv, TypeOK
    <3>2. QED
      BY <1>3, <3>1 DEF FreshInv, FreshUnlessLate
  <2>3. QED
    BY <2>1, <2>2 DEF RunsContinue
<1>4. QED
  BY <1>1, <1>2, <1>3 DEF FreshInv, FreshUnlessLate

LEMMA FreshNextKeeps ==
  ASSUME IInv, FreshInv, [FreshNext]_freshVars
  PROVE  IInv' /\ FreshInv'
<1>1. CASE \E n \in NewCmds : Remember(n)
  <2>1. PICK n \in NewCmds : Remember(n)
    BY <1>1
  <2>2. Command
    BY <2>1 DEF Remember, Command
  <2>3. QED
    BY <2>1, <2>2, CommandKeeps, RememberKeepsFresh
<1>2. CASE OtherThanNewFinish /\ UNCHANGED <<outdated, late>>
  <2>1. Next
    BY <1>2 DEF OtherThanNewFinish, Next, Command
  <2>2. IInv'
    BY <2>1, NextKeeps
  <2>3. QED
    BY <1>2, <2>2, ContinuesWithoutNew, OthersKeepFresh
<1>3. CASE UNCHANGED freshVars
  <2>1. UNCHANGED vars /\ run' = run /\ token' = token /\ UNCHANGED <<outdated, late>>
    BY <1>3 DEF freshVars, vars
  <2>2. RunsContinue /\ TokensAreReported
    BY <2>1, UnchangedContinues DEF RunsContinue, TokensAreReported
  <2>3. QED
    BY <2>1, <2>2, NextKeeps, OthersKeepFresh
<1>4. QED
  BY <1>1, <1>2, <1>3 DEF FreshNext

\* After /new has answered "Starting fresh.", a conversation that had begun
\* comes back as a resume token only if one of its runs was still starting,
\* running or being read at that moment.
THEOREM NewStartsFreshUnlessLate == FreshSpec => []FreshUnlessLate
<1>1. FreshInit => IInv /\ FreshInv
  BY InitHolds, FreshInitHolds DEF FreshInit
<1>2. IInv /\ FreshInv /\ [FreshNext]_freshVars => IInv' /\ FreshInv'
  BY FreshNextKeeps
<1>3. FreshInv => FreshUnlessLate
  BY DEF FreshInv
<1>4. QED
  BY <1>1, <1>2, <1>3, PTL DEF FreshSpec

=============================================================================

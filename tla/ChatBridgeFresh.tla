--------------------------- MODULE ChatBridgeFresh ---------------------------
(***************************************************************************)
(* ChatBridge with the history /new is judged by: what had begun, and what *)
(* could still report a session id, when it last answered "Starting        *)
(* fresh." (src/bridge/jsonl-bridge.ts, parseCommand).                     *)
(***************************************************************************)
EXTENDS ChatBridge

VARIABLES
  outdated,  \* the conversations begun before /new last answered
  late       \* those of them a run could still write as a resume token

freshVars == <<vars, outdated, late>>

MayStillReport(r) ==
  \/ run[r].phase \in {"starting", "running"}
  \/ run[r].phase = "exited" /\ run[r].out # "completed"
  \/ run[r].handler = "flushing"

FreshInit == Init /\ outdated = {} /\ late = {}

Remember(n) ==
  /\ NewFinish(n)
  /\ outdated' = {Conversation(r) : r \in {s \in Runs : run[s].phase # "none"}}
  /\ late' = {Conversation(r) : r \in {s \in Runs : MayStillReport(s)}}

OtherThanNewFinish ==
  \/ \E m \in Messages : Receive(m)
  \/ \E r \in Runs : StartRun(r) \/ HandleEvent(r)
  \/ Stop \/ Interrupt \/ InterruptFlush
  \/ \E c \in Clis : Use(c)
  \/ \E n \in NewCmds : NewBegin(n) \/ NewClear(n)

FreshNext ==
  \/ \E n \in NewCmds : Remember(n)
  \/ OtherThanNewFinish /\ UNCHANGED <<outdated, late>>

FreshSpec == FreshInit /\ [][FreshNext]_freshVars

FreshFairSpec == FreshSpec /\ Fairness

-----------------------------------------------------------------------------
\* After /new a conversation comes back only through a process that was
\* still starting, running or being read when /new answered: a token saved
\* later by anything else would be a session nobody can get rid of.
FreshUnlessLate ==
  \A c \in Clis : token[c] \in outdated => token[c] \in late
=============================================================================

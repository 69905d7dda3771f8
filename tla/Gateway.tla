------------------------------ MODULE Gateway -------------------------------
(***************************************************************************)
(* The processes of the gateway and what starts and stops them             *)
(* (src/daemon/run.ts, pid.ts and cli.ts, /restart in                      *)
(* src/bridge/jsonl-bridge.ts), and the way of a message from Telegram to  *)
(* the bridge (src/gateway/server.ts).  A process is started by the        *)
(* command line, which finds a running one by the pid file alone; server   *)
(* and bridge of a process talk over a WebSocket that is opened once.      *)
(* Outside of launchd, which is not modelled.                              *)
(***************************************************************************)
EXTENDS Naturals, FiniteSets

CONSTANTS
  Procs,       \* the processes, numbered as they are spawned
  Jobs,        \* the invocations of the command line
  Messages,    \* what users send
  Restarts,    \* the messages that are /restart
  MaxCrashes,  \* bounds the sudden ends of a process
  None         \* no such file

ASSUME GatewayAssumption ==
  /\ Procs \subseteq Nat
  /\ Restarts \subseteq Messages
  /\ MaxCrashes \in Nat
  /\ None \notin Procs

VARIABLES
  phase,     \* how far each process is
  socket,    \* whether its bridge is connected
  timers,    \* what its /restart has yet to do
  pidFile,   \* the process that the pid file names
  job,       \* how far each invocation is
  at,        \* where each message is
  handed,    \* how often it was handed to a bridge
  crashes,
  silent,    \* ghost: the processes that ended without their shutdown
  outlived,  \* ghost: those whose pid file was written during another's shutdown
  missed,    \* ghost: the messages broadcast with no bridge connected
  again      \* ghost: the messages fetched a second time

gatewayVars ==
  <<phase, socket, timers, pidFile, job, at, handed, crashes, silent, outlived,
    missed, again>>

procVars    == <<phase, socket, timers, pidFile, silent, outlived>>
messageVars == <<at, handed, missed, again>>

-----------------------------------------------------------------------------
(* A process loads its configuration, listens, writes the pid file, tells  *)
(* the chats, starts the bridge, and only then handles SIGTERM.  Closing,  *)
(* it tells the chats and stops the bot, and no longer listens; draining,  *)
(* it waits for connections to end; then the pid file goes, and it exits.  *)
Phases ==
  {"none", "starting", "listening", "announcing", "loading", "up", "closing",
   "draining", "dead"}

Listens(p)     == phase[p] \in {"listening", "announcing", "loading", "up", "closing"}
ShutsDown(p)   == phase[p] \in {"closing", "draining"}
IsAlive(p)     == phase[p] \notin {"none", "dead"}
Connected(p)   == socket[p]

\* Where a message is: with Telegram still or again, with a process, or done.
AtTelegram == <<None, "telegram">>
Confirmed  == <<None, "confirmed">>

GatewayInit ==
  /\ phase    = [p \in Procs |-> "none"]
  /\ socket   = [p \in Procs |-> FALSE]
  /\ timers   = [p \in Procs |-> {}]
  /\ pidFile  = None
  /\ job      = [j \in Jobs |-> "idle"]
  /\ at       = [m \in Messages |-> AtTelegram]
  /\ handed   = [m \in Messages |-> 0]
  /\ crashes  = 0
  /\ silent   = {}
  /\ outlived = {}
  /\ missed   = {}
  /\ again    = {}

-----------------------------------------------------------------------------
(* runGateway.                                                             *)

\* What Telegram was not told of when the process ends, it sends again; what
\* it was told of while it was being handled is gone.
Fetched(p) == {m \in Messages : at[m] \in {<<p, "handling">>, <<p, "handled">>}}
Told(p)    == {m \in Messages : at[m] = <<p, "told">>}

Ends(p) ==
  /\ phase' = [phase EXCEPT ![p] = "dead"]
  /\ socket' = [socket EXCEPT ![p] = FALSE]
  /\ at' = [m \in Messages |-> IF m \in Fetched(p) THEN AtTelegram
                               ELSE IF m \in Told(p) THEN Confirmed ELSE at[m]]
  /\ again' = again \cup Fetched(p)
  /\ missed' = missed \cup Told(p)
  /\ UNCHANGED handed

\* Faulty variant: the pid file is written before the server listens.
ListenPidFirst(p) ==
  /\ phase[p] = "starting"
  /\ pidFile' = p
  /\ IF \E q \in Procs : Listens(q)
     THEN Ends(p) /\ silent' = silent \cup {p}
     ELSE /\ phase' = [phase EXCEPT ![p] = "listening"]
          /\ UNCHANGED <<socket, messageVars, silent>>
  /\ UNCHANGED <<timers, job, crashes, outlived>>

\* Faulty variant: the error is caught, and listen awaited for ever.
ListenCaught(p) ==
  /\ phase[p] = "starting"
  /\ ~ \E q \in Procs : Listens(q)
  /\ phase' = [phase EXCEPT ![p] = "listening"]
  /\ UNCHANGED <<socket, messageVars, silent, timers, pidFile, job, crashes, outlived>>

\* listen has no error handler: with the port taken the process ends.
Listen(p) ==
  /\ phase[p] = "starting"
  /\ IF \E q \in Procs : Listens(q)
     THEN Ends(p) /\ silent' = silent \cup {p}
     ELSE /\ phase' = [phase EXCEPT ![p] = "listening"]
          /\ UNCHANGED <<socket, messageVars, silent>>
  /\ UNCHANGED <<timers, pidFile, job, crashes, outlived>>

WritePid(p) ==
  /\ phase[p] = "listening"
  /\ pidFile' = p
  /\ phase' = [phase EXCEPT ![p] = "announcing"]
  /\ outlived' = IF \E q \in Procs : phase[q] = "draining" THEN outlived \cup {p} ELSE outlived
  /\ UNCHANGED <<socket, timers, job, messageVars, crashes, silent>>

Announced(p) ==
  /\ phase[p] = "announcing"
  /\ phase' = [phase EXCEPT ![p] = "loading"]
  /\ UNCHANGED <<socket, timers, pidFile, job, messageVars, crashes, silent, outlived>>

\* startBridge has returned: its socket is on its way, SIGTERM is handled.
BridgeStarted(p) ==
  /\ phase[p] = "loading"
  /\ phase' = [phase EXCEPT ![p] = "up"]
  /\ UNCHANGED <<socket, timers, pidFile, job, messageVars, crashes, silent, outlived>>

Connect(p) ==
  /\ phase[p] = "up"
  /\ ~socket[p]
  /\ socket' = [socket EXCEPT ![p] = TRUE]
  /\ UNCHANGED <<phase, timers, pidFile, job, messageVars, crashes, silent, outlived>>

\* SIGTERM: shutdown begins, and a second one changes nothing.  Before its
\* handler is there the signal ends the process.
Signal(p) ==
  \/ /\ phase[p] = "up"
     /\ phase' = [phase EXCEPT ![p] = "closing"]
     /\ UNCHANGED <<socket, messageVars, silent>>
  \/ /\ ShutsDown(p)
     /\ UNCHANGED <<phase, socket, messageVars, silent>>
  \/ /\ IsAlive(p) /\ ~ShutsDown(p) /\ phase[p] # "up"
     /\ Ends(p)
     /\ silent' = silent \cup {p}

\* The bridge has called close on its socket.
Disconnect(p) ==
  /\ ShutsDown(p) /\ socket[p]
  /\ socket' = [socket EXCEPT ![p] = FALSE]
  /\ UNCHANGED <<phase, timers, pidFile, job, messageVars, crashes, silent, outlived>>

\* The chats were told, and bot.stop told Telegram what was fetched, what is
\* still being handled included; the server no longer listens.
Unbind(p) ==
  /\ phase[p] = "closing"
  /\ phase' = [phase EXCEPT ![p] = "draining"]
  /\ at' = [m \in Messages |->
              IF at[m] = <<p, "handled">> THEN Confirmed
              ELSE IF at[m] = <<p, "handling">> THEN <<p, "told">> ELSE at[m]]
  /\ UNCHANGED <<socket, timers, pidFile, job, handed, missed, again, crashes, silent, outlived>>

\* The last connection has ended; unlink takes whatever file is there.
Exit(p) ==
  /\ phase[p] = "draining" /\ ~socket[p]
  /\ pidFile' = None
  /\ Ends(p)
  /\ UNCHANGED <<timers, job, crashes, silent, outlived>>

\* The process is killed, or ends on an exception.
Crash(p) ==
  /\ IsAlive(p)
  /\ crashes < MaxCrashes
  /\ crashes' = crashes + 1
  /\ Ends(p)
  /\ silent' = silent \cup {p}
  /\ UNCHANGED <<timers, pidFile, job, outlived>>

-----------------------------------------------------------------------------
(* The command line.                                                       *)

Spawned == {p \in Procs : phase[p] # "none"}
IsNext(p) == phase[p] = "none" /\ \A q \in Procs : q < p => q \in Spawned

\* start --daemon.
Start(j, p) ==
  /\ job[j] \in {"idle", "slept"}
  /\ IsNext(p)
  /\ job' = [job EXCEPT ![j] = "over"]
  /\ phase' = [phase EXCEPT ![p] = "starting"]
  /\ UNCHANGED <<socket, timers, pidFile, messageVars, crashes, silent, outlived>>

\* stopGateway: no file, or a process that is gone, is no running gateway.
StopGateway(j, next) ==
  /\ job' = [job EXCEPT ![j] = next]
  /\ IF pidFile # None /\ IsAlive(pidFile)
     THEN Signal(pidFile)
     ELSE UNCHANGED <<phase, socket, messageVars, silent>>
  /\ UNCHANGED <<timers, pidFile, crashes, outlived>>

Stop(j) == job[j] = "idle" /\ StopGateway(j, "over")

\* restart signals, sleeps, and starts a process, whether the signal found
\* one or not, and whether that one has ended or not.
RestartStop(j) == job[j] \in {"idle", "restarting"} /\ StopGateway(j, "slept")

\* The timers of /restart: at 200 ms it runs the command line's restart, at
\* 500 ms it sends SIGTERM to its own process.
SpawnRestart(p, m, j) ==
  /\ IsAlive(p)
  /\ <<m, "spawn">> \in timers[p]
  /\ job[j] = "idle"
  /\ timers' = [timers EXCEPT ![p] = (@ \ {<<m, "spawn">>}) \cup {<<m, "term">>}]
  /\ job' = [job EXCEPT ![j] = "restarting"]
  /\ UNCHANGED <<phase, socket, pidFile, messageVars, crashes, silent, outlived>>

SignalSelf(p, m) ==
  /\ IsAlive(p)
  /\ <<m, "term">> \in timers[p]
  /\ Signal(p)
  /\ timers' = [timers EXCEPT ![p] = @ \ {<<m, "term">>}]
  /\ UNCHANGED <<pidFile, job, crashes, outlived>>

-----------------------------------------------------------------------------
(* The server: updates are handled one by one, and confirmed to Telegram   *)
(* with the next request for more.                                         *)

Confirming(p) ==
  [m \in Messages |-> IF at[m] = <<p, "handled">> THEN Confirmed ELSE at[m]]

IsHandling(p) == \E m \in Messages : at[m] = <<p, "handling">>

\* Faulty variant: an update is confirmed before it is handled.
FetchConfirming(p, m) ==
  /\ Listens(p) /\ ~IsHandling(p)
  /\ at[m] = AtTelegram
  /\ at' = [Confirming(p) EXCEPT ![m] = Confirmed]
  /\ UNCHANGED <<procVars, job, handed, missed, again, crashes>>

Fetch(p, m) ==
  /\ Listens(p) /\ ~IsHandling(p)
  /\ at[m] = AtTelegram
  /\ at' = [Confirming(p) EXCEPT ![m] = <<p, "handling">>]
  /\ UNCHANGED <<procVars, job, handed, missed, again, crashes>>

FetchNone(p) ==
  /\ Listens(p) /\ ~IsHandling(p)
  /\ Confirming(p) # at
  /\ at' = Confirming(p)
  /\ UNCHANGED <<procVars, job, handed, missed, again, crashes>>

\* Attachments are downloaded and transcribed; the event goes to the sockets
\* that are open.
Broadcast(p, m) ==
  /\ IsAlive(p)
  /\ at[m] \in {<<p, "handling">>, <<p, "told">>}
  /\ at' = [at EXCEPT ![m] = IF at[m] = <<p, "told">> THEN Confirmed ELSE <<p, "handled">>]
  /\ IF socket[p]
     THEN /\ handed' = [handed EXCEPT ![m] = @ + 1]
          /\ timers' = IF m \in Restarts THEN [timers EXCEPT ![p] = @ \cup {<<m, "spawn">>}]
                       ELSE timers
          /\ UNCHANGED missed
     ELSE /\ missed' = missed \cup {m}
          /\ UNCHANGED <<handed, timers>>
  /\ UNCHANGED <<phase, socket, pidFile, silent, outlived, job, again, crashes>>

-----------------------------------------------------------------------------
ProcessStep(p) ==
  \/ Listen(p) \/ WritePid(p) \/ Announced(p) \/ BridgeStarted(p) \/ Connect(p)
  \/ Disconnect(p) \/ Unbind(p) \/ Exit(p)

TimerStep(p) ==
  \E m \in Restarts : SignalSelf(p, m) \/ \E j \in Jobs : SpawnRestart(p, m, j)

ServerStep(p) == FetchNone(p) \/ \E m \in Messages : Fetch(p, m) \/ Broadcast(p, m)

CommandLine(j) == Stop(j) \/ RestartStop(j) \/ \E p \in Procs : Start(j, p)

GatewayNext ==
  \/ \E p \in Procs : ProcessStep(p) \/ TimerStep(p) \/ ServerStep(p) \/ Crash(p)
  \/ \E j \in Jobs : CommandLine(j)

\* A process goes on, as long as the connections of a closing one end; a
\* restart that was begun starts a process; the bot asks for more updates.
\* Nothing makes a user call the command line.
GatewayFairness ==
  /\ \A p \in Procs : /\ WF_gatewayVars(ProcessStep(p))
                      /\ WF_gatewayVars(TimerStep(p))
                      /\ WF_gatewayVars(ServerStep(p))
  /\ \A j \in Jobs : /\ WF_gatewayVars(job[j] = "restarting" /\ RestartStop(j))
                     /\ WF_gatewayVars(job[j] = "slept" /\ \E p \in Procs : Start(j, p))

GatewaySpec == GatewayInit /\ [][GatewayNext]_gatewayVars /\ GatewayFairness

-----------------------------------------------------------------------------
\* Every variable holds what its declaration says: a /restart has one thing
\* left to do at most, and a message is in one place.
GatewayTypeOK ==
  /\ phase \in [Procs -> Phases]
  /\ socket \in [Procs -> BOOLEAN]
  /\ timers \in [Procs -> SUBSET (Restarts \X {"spawn", "term"})]
  /\ \A p \in Procs : \A m \in Restarts : ~ {<<m, "spawn">>, <<m, "term">>} \subseteq timers[p]
  /\ pidFile \in Procs \cup {None}
  /\ job \in [Jobs -> {"idle", "restarting", "slept", "over"}]
  /\ at \in [Messages -> {AtTelegram, Confirmed} \cup (Procs \X {"handling", "handled", "told"})]
  /\ handed \in [Messages -> Nat]
  /\ crashes \in 0 .. MaxCrashes

\* From the moment it has told anybody that it runs, a process can be found
\* by the pid file, so that stop and restart reach it: a second start leaves
\* the file of the first alone, and only a process that was still waiting for
\* its connections, longer than restart sleeps, takes another's file away.  A
\* file that names a process which is gone means that it was killed, met a
\* taken port or was signalled before the bridge had started: never a shutdown.
PidFileNamesTheServer ==
  /\ \A p \in Procs :
       phase[p] \in {"announcing", "loading", "up", "closing"} =>
         pidFile = p \/ p \in outlived
  /\ pidFile # None /\ phase[pidFile] = "dead" => pidFile \in silent

\* A message that Telegram was told of reached a bridge, or found none
\* connected, and reaches two only if a process ended between.
MessagesAreAccountedFor ==
  \A m \in Messages :
    /\ at[m] = Confirmed => handed[m] > 0 \/ m \in missed
    /\ handed[m] > 1 => m \in again

\* A started process serves or ends with a reason, and a signalled one ends;
\* and as long as a bridge stays connected in the end, no message waits for
\* ever, whatever was restarted, signalled or crashed before.
EverythingSettles ==
  /\ \A p \in Procs :
       /\ phase[p] = "starting" ~> phase[p] = "up" \/ p \in silent
       /\ phase[p] = "closing" ~> phase[p] = "dead"
  /\ <>[](\E p \in Procs : Connected(p)) =>
       \A m \in Messages : <>(handed[m] > 0 \/ m \in missed)
=============================================================================

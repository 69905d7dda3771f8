---------------------------- MODULE RestartProofs ----------------------------
(***************************************************************************)
(* Proofs about Restart and about the Gateway it extends, for any          *)
(* processes, invocations, messages, CLIs and numbers of changes.          *)
(***************************************************************************)
EXTENDS Restart, FiniteSetTheorems, TLAPS

-----------------------------------------------------------------------------
(* THE GATEWAY, whose steps are Gateway's own.  Its inductive invariant.   *)

HasStarted(p) == phase[p] \in {"up", "closing", "draining"}
IsAnnounced(p) == phase[p] \in {"announcing", "loading", "up", "closing"}

\* The port is bound by one process at most, and a process writes the pid file
\* while it has the port: beside one that still drains, it writes it during
\* the other's shutdown.
OneListens == \A p, q \in Procs : Listens(p) /\ Listens(q) => p = q

DrainingIsOutlived ==
  \A p, q \in Procs : IsAnnounced(p) /\ phase[q] = "draining" => p \in outlived

\* Only a process that is alive has messages or a connected bridge.
OnlyTheLivingHandle ==
  /\ \A m \in Messages, p \in Procs :
       at[m] \in {<<p, "handling">>, <<p, "handled">>, <<p, "told">>} => IsAlive(p)
  /\ \A p \in Procs : socket[p] => HasStarted(p)

\* A message is with Telegram again only after its process ended: one that
\* was handed over is handled, and its timers are set once.
MessagesAreKept ==
  \A m \in Messages :
    /\ at[m] = Confirmed \/ (\E p \in Procs : at[m] = <<p, "handled">>) =>
         handed[m] > 0 \/ m \in missed
    /\ m \notin again => /\ handed[m] <= 1
                         /\ handed[m] > 0 => \/ at[m] = Confirmed
                                             \/ \E p \in Procs : at[m] = <<p, "handled">>

TimersAreOfHandled ==
  \A p \in Procs : \A t \in timers[p] :
    phase[p] = "dead" \/ at[t[1]] \in {<<p, "handled">>, Confirmed}

GatewayInv ==
  /\ GatewayTypeOK
  /\ OneListens
  /\ DrainingIsOutlived
  /\ PidFileNamesTheServer
  /\ OnlyTheLivingHandle
  /\ MessagesAreKept
  /\ TimersAreOfHandled

-----------------------------------------------------------------------------
(* What a step leaves alone.                                               *)

Places == {AtTelegram, Confirmed} \cup (Procs \X {"handling", "handled", "told"})

LEMMA PlacesDiffer ==
  /\ AtTelegram # Confirmed
  /\ \A p \in Procs, x \in {"handling", "handled", "told"} :
       <<p, x>> # AtTelegram /\ <<p, x>> # Confirmed
  /\ \A p, q \in Procs, x, y \in {"handling", "handled", "told"} :
       <<p, x>> = <<q, y>> <=> p = q /\ x = y
BY DEF AtTelegram, Confirmed

\* Messages and timers, as long as they and the living stay as they are.
LEMMA MessagesStay ==
  ASSUME GatewayInv, UNCHANGED messageVars,
         \A q \in Procs : /\ IsAlive(q) => IsAlive(q)'
                          /\ phase[q] = "dead" => phase'[q] = "dead"
                          /\ socket'[q] => HasStarted(q)'
                          /\ timers'[q] \subseteq timers[q]
  PROVE  OnlyTheLivingHandle' /\ MessagesAreKept' /\ TimersAreOfHandled'
<1>1. at' = at /\ handed' = handed /\ missed' = missed /\ again' = again
  BY DEF messageVars
<1>2. OnlyTheLivingHandle'
  BY <1>1 DEF GatewayInv, OnlyTheLivingHandle
<1>3. MessagesAreKept'
  BY <1>1 DEF GatewayInv, MessagesAreKept
<1>4. TimersAreOfHandled'
  BY <1>1 DEF GatewayInv, TimersAreOfHandled
<1>5. QED
  BY <1>2, <1>3, <1>4

\* The processes and the pid file, as long as nobody moves.
LEMMA ProcessesStay ==
  ASSUME GatewayInv, UNCHANGED <<phase, pidFile, silent, outlived>>
  PROVE  OneListens' /\ DrainingIsOutlived' /\ PidFileNamesTheServer'
BY DEF GatewayInv, OneListens, DrainingIsOutlived, PidFileNamesTheServer, Listens, IsAnnounced

LEMMA OneProcessMoves ==
  ASSUME GatewayTypeOK, NEW p \in Procs, NEW x \in Phases, phase' = [phase EXCEPT ![p] = x]
  PROVE  /\ phase' \in [Procs -> Phases] /\ phase'[p] = x
         /\ \A q \in Procs : q # p => phase'[q] = phase[q]
BY DEF GatewayTypeOK

\* The end of a process: what it fetched is with Telegram again, or lost.
LEMMA EndsKeepsMessages ==
  ASSUME GatewayInv, NEW p \in Procs, IsAlive(p), Ends(p),
         \A q \in Procs : timers'[q] \subseteq timers[q]
  PROVE  /\ phase' \in [Procs -> Phases] /\ socket' \in [Procs -> BOOLEAN]
         /\ at' \in [Messages -> Places] /\ handed' \in [Messages -> Nat]
         /\ phase'[p] = "dead" /\ \A q \in Procs : q # p => phase'[q] = phase[q]
         /\ OnlyTheLivingHandle' /\ MessagesAreKept' /\ TimersAreOfHandled'
<1>1. /\ phase \in [Procs -> Phases] /\ socket \in [Procs -> BOOLEAN]
      /\ at \in [Messages -> Places] /\ handed \in [Messages -> Nat]
  BY DEF GatewayInv, GatewayTypeOK, Places
<1>2. /\ phase' = [phase EXCEPT ![p] = "dead"] /\ socket' = [socket EXCEPT ![p] = FALSE]
      /\ handed' = handed /\ again' = again \cup Fetched(p) /\ missed' = missed \cup Told(p)
      /\ "dead" \in Phases
      /\ at' = [m \in Messages |-> IF m \in Fetched(p) THEN AtTelegram
                                   ELSE IF m \in Told(p) THEN Confirmed ELSE at[m]]
  BY DEF Ends, Phases
<1>3. /\ phase' \in [Procs -> Phases] /\ phase'[p] = "dead"
      /\ \A q \in Procs : q # p => phase'[q] = phase[q]
  BY <1>1, <1>2
<1>4. /\ socket' \in [Procs -> BOOLEAN] /\ ~socket'[p]
      /\ \A q \in Procs : q # p => socket'[q] = socket[q]
  BY <1>1, <1>2
<1>5. at' \in [Messages -> Places]
  BY <1>1, <1>2 DEF Places
<1>6. \A m \in Messages :
        \/ at[m] \in {<<p, "handling">>, <<p, "handled">>} /\ at'[m] = AtTelegram /\ m \in again'
        \/ at[m] = <<p, "told">> /\ at'[m] = Confirmed /\ m \in missed'
        \/ /\ at[m] \notin {<<p, "handling">>, <<p, "handled">>, <<p, "told">>} /\ at'[m] = at[m]
           /\ m \in again' <=> m \in again
           /\ m \in missed' <=> m \in missed
  BY <1>2, PlacesDiffer DEF Fetched, Told
<1>7. OnlyTheLivingHandle'
  <2>1. \A m \in Messages, q \in Procs :
          at'[m] \in {<<q, "handling">>, <<q, "handled">>, <<q, "told">>} => q # p /\ IsAlive(q)
    BY <1>6, PlacesDiffer DEF GatewayInv, OnlyTheLivingHandle
  <2>2. \A q \in Procs : socket'[q] => q # p /\ HasStarted(q)
    BY <1>4 DEF GatewayInv, OnlyTheLivingHandle
  <2>3. \A q \in Procs : q # p => /\ IsAlive(q) => IsAlive(q)'
                                  /\ HasStarted(q) => HasStarted(q)'
    BY <1>3 DEF IsAlive, HasStarted
  <2>4. QED
    BY <2>1, <2>2, <2>3 DEF OnlyTheLivingHandle
<1>8. MessagesAreKept'
  <2> SUFFICES ASSUME NEW m \in Messages
               PROVE  /\ at'[m] = Confirmed \/ (\E q \in Procs : at'[m] = <<q, "handled">>) =>
                           handed'[m] > 0 \/ m \in missed'
                      /\ m \notin again' =>
                           /\ handed'[m] <= 1
                           /\ handed'[m] > 0 => \/ at'[m] = Confirmed
                                                \/ \E q \in Procs : at'[m] = <<q, "handled">>
    BY DEF MessagesAreKept
  <2>1. /\ at[m] = Confirmed \/ (\E q \in Procs : at[m] = <<q, "handled">>) =>
             handed[m] > 0 \/ m \in missed
        /\ m \notin again => /\ handed[m] <= 1
                             /\ handed[m] > 0 => \/ at[m] = Confirmed
                                                 \/ \E q \in Procs : at[m] = <<q, "handled">>
    BY DEF GatewayInv, MessagesAreKept
  <2>2. m \in missed => m \in missed'
    BY <1>2
  <2>3. CASE at[m] \in {<<p, "handling">>, <<p, "handled">>} /\ at'[m] = AtTelegram /\ m \in again'
    BY <2>3, PlacesDiffer
  <2>4. CASE at[m] = <<p, "told">> /\ at'[m] = Confirmed /\ m \in missed'
    BY <1>2, <2>1, <2>4, PlacesDiffer
  <2>5. CASE /\ at'[m] = at[m]
             /\ m \in again' <=> m \in again
    BY <1>2, <2>1, <2>2, <2>5
  <2>6. QED
    BY <1>6, <2>3, <2>4, <2>5
<1>9. TimersAreOfHandled'
  <2> SUFFICES ASSUME NEW q \in Procs, NEW t \in timers'[q], q # p
               PROVE  phase'[q] = "dead" \/ at'[t[1]] \in {<<q, "handled">>, Confirmed}
    BY <1>3 DEF TimersAreOfHandled
  <2>1. phase[q] = "dead" \/ at[t[1]] \in {<<q, "handled">>, Confirmed}
    BY DEF GatewayInv, TimersAreOfHandled
  <2>2. t[1] \in Messages
    BY GatewayAssumption DEF GatewayInv, GatewayTypeOK
  <2>3. at[t[1]] \in {<<q, "handled">>, Confirmed} => at'[t[1]] = at[t[1]]
    BY <1>6, <2>2, PlacesDiffer
  <2>4. QED
    BY <1>3, <2>1, <2>3
<1>10. QED
  BY <1>2, <1>1, <1>3, <1>4, <1>5, <1>7, <1>8, <1>9

LEMMA EndsSilently ==
  ASSUME GatewayInv, NEW p \in Procs, IsAlive(p), Ends(p), silent' = silent \cup {p},
         UNCHANGED <<pidFile, outlived>>,
         timers' \in [Procs -> SUBSET (Restarts \X {"spawn", "term"})],
         \A q \in Procs : timers'[q] \subseteq timers[q],
         job' \in [Jobs -> {"idle", "restarting", "slept", "over"}],
         crashes' \in 0 .. MaxCrashes
  PROVE  GatewayInv'
<1>1. /\ phase' \in [Procs -> Phases] /\ socket' \in [Procs -> BOOLEAN]
      /\ at' \in [Messages -> Places] /\ handed' \in [Messages -> Nat]
      /\ phase'[p] = "dead" /\ \A q \in Procs : q # p => phase'[q] = phase[q]
      /\ OnlyTheLivingHandle' /\ MessagesAreKept' /\ TimersAreOfHandled'
  BY EndsKeepsMessages
<1>2. GatewayTypeOK'
  <2>1. \A q \in Procs : \A m \in Restarts : ~ {<<m, "spawn">>, <<m, "term">>} \subseteq timers'[q]
    BY ZenonT(40) DEF GatewayInv, GatewayTypeOK
  <2>2. pidFile' \in Procs \cup {None}
    BY DEF GatewayInv, GatewayTypeOK
  <2>3. QED
    BY <1>1, <2>1, <2>2 DEF GatewayTypeOK, Places
<1>3. OneListens'
  BY <1>1 DEF GatewayInv, OneListens, Listens
<1>4. DrainingIsOutlived'
  BY <1>1 DEF GatewayInv, DrainingIsOutlived, IsAnnounced
<1>5. PidFileNamesTheServer'
  BY <1>1 DEF GatewayInv, PidFileNamesTheServer, GatewayTypeOK
<1>6. QED
  BY <1>1, <1>2, <1>3, <1>4, <1>5 DEF GatewayInv

-----------------------------------------------------------------------------
(* Every step keeps the invariant.                                         *)

LEMMA InitHolds == GatewayInit => GatewayInv
<1> SUFFICES ASSUME GatewayInit PROVE GatewayInv
  OBVIOUS
<1>1. GatewayTypeOK
  BY GatewayAssumption DEF GatewayInit, GatewayTypeOK, Phases
<1>2. OneListens /\ DrainingIsOutlived /\ PidFileNamesTheServer
  BY DEF GatewayInit, OneListens, Listens, DrainingIsOutlived, IsAnnounced, PidFileNamesTheServer
<1>3. OnlyTheLivingHandle /\ MessagesAreKept /\ TimersAreOfHandled
  BY PlacesDiffer DEF GatewayInit, OnlyTheLivingHandle, MessagesAreKept, TimersAreOfHandled
<1>4. QED
  BY <1>1, <1>2, <1>3 DEF GatewayInv

LEMMA ListenKeeps ==
  ASSUME GatewayInv, NEW p \in Procs, Listen(p)
  PROVE  GatewayInv'
<1>1. /\ GatewayTypeOK /\ phase[p] = "starting" /\ IsAlive(p)
      /\ UNCHANGED <<timers, pidFile, job, crashes, outlived>>
  BY DEF GatewayInv, Listen, IsAlive
<1>2. CASE \E q \in Procs : Listens(q)
  <2>1. Ends(p) /\ silent' = silent \cup {p}
    BY <1>2 DEF Listen
  <2>2. QED
    BY <1>1, <2>1, EndsSilently DEF GatewayTypeOK
<1>3. CASE ~ \E q \in Procs : Listens(q)
  <2>1. /\ phase' = [phase EXCEPT ![p] = "listening"]
        /\ UNCHANGED <<socket, messageVars, silent>> /\ "listening" \in Phases
    BY <1>3 DEF Listen, Phases
  <2>2. /\ phase' \in [Procs -> Phases] /\ phase'[p] = "listening"
        /\ \A q \in Procs : q # p => phase'[q] = phase[q]
    BY <1>1, <2>1, OneProcessMoves
  <2>3. GatewayTypeOK'
    BY <1>1, <2>1, <2>2 DEF GatewayTypeOK, messageVars
  <2>4. OneListens'
    BY <1>3, <2>2 DEF OneListens, Listens
  <2>5. DrainingIsOutlived'
    BY <1>1, <2>2 DEF GatewayInv, DrainingIsOutlived, IsAnnounced
  <2>6. PidFileNamesTheServer'
    BY <1>1, <2>1, <2>2 DEF GatewayInv, PidFileNamesTheServer, GatewayTypeOK
  <2>7. OnlyTheLivingHandle' /\ MessagesAreKept' /\ TimersAreOfHandled'
    BY <1>1, <2>1, <2>2, MessagesStay DEF GatewayInv, IsAlive, HasStarted, OnlyTheLivingHandle
  <2>8. QED
    BY <2>3, <2>4, <2>5, <2>6, <2>7 DEF GatewayInv
<1>4. QED
  BY <1>2, <1>3

LEMMA WritePidKeeps ==
  ASSUME GatewayInv, NEW p \in Procs, WritePid(p)
  PROVE  GatewayInv'
<1>1. /\ GatewayTypeOK /\ phase[p] = "listening" /\ pidFile' = p
      /\ phase' = [phase EXCEPT ![p] = "announcing"] /\ "announcing" \in Phases
      /\ outlived' = IF \E q \in Procs : phase[q] = "draining" THEN outlived \cup {p} ELSE outlived
      /\ UNCHANGED <<socket, timers, job, messageVars, crashes, silent>>
  BY DEF GatewayInv, WritePid, Phases
<1>2. /\ phase' \in [Procs -> Phases] /\ phase'[p] = "announcing"
      /\ \A q \in Procs : q # p => phase'[q] = phase[q]
  BY <1>1, OneProcessMoves
<1>3. GatewayTypeOK'
  BY <1>1, <1>2 DEF GatewayTypeOK, messageVars
<1>4. OneListens'
  BY <1>1, <1>2 DEF GatewayInv, OneListens, Listens
<1>5. DrainingIsOutlived'
  BY <1>1, <1>2 DEF GatewayInv, DrainingIsOutlived, IsAnnounced
<1>6. PidFileNamesTheServer'
  <2>1. \A q \in Procs : q # p => ~IsAnnounced(q)
    BY <1>1 DEF GatewayInv, OneListens, Listens, IsAnnounced
  <2>2. QED
    BY <1>1, <1>2, <2>1 DEF PidFileNamesTheServer, IsAnnounced
<1>7. OnlyTheLivingHandle' /\ MessagesAreKept' /\ TimersAreOfHandled'
  BY <1>1, <1>2, MessagesStay DEF GatewayInv, IsAlive, HasStarted, OnlyTheLivingHandle
<1>8. QED
  BY <1>3, <1>4, <1>5, <1>6, <1>7 DEF GatewayInv

\* Up to the moment when it handles SIGTERM.
LEMMA StartingKeeps ==
  ASSUME GatewayInv, NEW p \in Procs, Announced(p) \/ BridgeStarted(p)
  PROVE  GatewayInv'
<1>1. PICK x \in {"loading", "up"} :
        /\ phase' = [phase EXCEPT ![p] = x]
        /\ phase[p] \in {"announcing", "loading"}
  BY DEF Announced, BridgeStarted
<1>2. /\ GatewayTypeOK /\ x \in Phases
      /\ UNCHANGED <<socket, timers, pidFile, job, messageVars, crashes, silent, outlived>>
  BY DEF GatewayInv, Announced, BridgeStarted, Phases
<1>3. /\ phase' \in [Procs -> Phases] /\ phase'[p] = x
      /\ \A q \in Procs : q # p => phase'[q] = phase[q]
  BY <1>1, <1>2, OneProcessMoves
<1>4. GatewayTypeOK'
  BY <1>2, <1>3 DEF GatewayTypeOK, messageVars
<1>5. OneListens' /\ DrainingIsOutlived'
  BY <1>1, <1>2, <1>3 DEF GatewayInv, OneListens, Listens, DrainingIsOutlived, IsAnnounced
<1>6. PidFileNamesTheServer'
  BY <1>1, <1>2, <1>3 DEF GatewayInv, PidFileNamesTheServer, GatewayTypeOK
<1>7. OnlyTheLivingHandle' /\ MessagesAreKept' /\ TimersAreOfHandled'
  BY <1>1, <1>2, <1>3, MessagesStay DEF GatewayInv, IsAlive, HasStarted, OnlyTheLivingHandle
<1>8. QED
  BY <1>4, <1>5, <1>6, <1>7 DEF GatewayInv

LEMMA SocketKeeps ==
  ASSUME GatewayInv, NEW p \in Procs, Connect(p) \/ Disconnect(p)
  PROVE  GatewayInv'
<1>1. /\ GatewayTypeOK
      /\ UNCHANGED <<phase, timers, pidFile, job, messageVars, crashes, silent, outlived>>
      /\ \/ socket' = [socket EXCEPT ![p] = TRUE] /\ phase[p] = "up"
         \/ socket' = [socket EXCEPT ![p] = FALSE]
  BY DEF GatewayInv, Connect, Disconnect
<1>2. /\ socket' \in [Procs -> BOOLEAN]
      /\ \A q \in Procs : socket'[q] => socket[q] \/ phase[q] = "up"
  BY <1>1 DEF GatewayTypeOK
<1>3. GatewayTypeOK'
  BY <1>1, <1>2 DEF GatewayTypeOK, messageVars
<1>4. OnlyTheLivingHandle' /\ MessagesAreKept' /\ TimersAreOfHandled'
  BY <1>1, <1>2, MessagesStay DEF GatewayInv, IsAlive, HasStarted, OnlyTheLivingHandle
<1>5. QED
  BY <1>1, <1>3, <1>4, ProcessesStay DEF GatewayInv

LEMMA SignalKeeps ==
  ASSUME GatewayInv, NEW p \in Procs, Signal(p),
         UNCHANGED <<pidFile, outlived>>,
         timers' \in [Procs -> SUBSET (Restarts \X {"spawn", "term"})],
         \A q \in Procs : timers'[q] \subseteq timers[q],
         job' \in [Jobs -> {"idle", "restarting", "slept", "over"}],
         crashes' \in 0 .. MaxCrashes
  PROVE  GatewayInv'
<1>0. \A q \in Procs : \A m \in Restarts : ~ {<<m, "spawn">>, <<m, "term">>} \subseteq timers'[q]
  BY ZenonT(40) DEF GatewayInv, GatewayTypeOK
<1>1. CASE /\ phase[p] = "up" /\ phase' = [phase EXCEPT ![p] = "closing"]
           /\ UNCHANGED <<socket, messageVars, silent>>
  <2>1. /\ phase' \in [Procs -> Phases] /\ phase'[p] = "closing"
        /\ \A q \in Procs : q # p => phase'[q] = phase[q]
    BY <1>1, OneProcessMoves DEF GatewayInv, Phases
  <2>2. GatewayTypeOK'
    BY <1>0, <1>1, <2>1 DEF GatewayInv, GatewayTypeOK, messageVars
  <2>3. OneListens' /\ DrainingIsOutlived'
    BY <1>1, <2>1 DEF GatewayInv, OneListens, Listens, DrainingIsOutlived, IsAnnounced
  <2>4. PidFileNamesTheServer'
    BY <1>1, <2>1 DEF GatewayInv, PidFileNamesTheServer, GatewayTypeOK
  <2>5. OnlyTheLivingHandle' /\ MessagesAreKept' /\ TimersAreOfHandled'
    BY <1>1, <2>1, MessagesStay DEF GatewayInv, IsAlive, HasStarted, OnlyTheLivingHandle
  <2>6. QED
    BY <2>2, <2>3, <2>4, <2>5 DEF GatewayInv
<1>2. CASE UNCHANGED <<phase, socket, messageVars, silent>>
  <2>1. GatewayTypeOK'
    BY <1>0, <1>2 DEF GatewayInv, GatewayTypeOK, messageVars
  <2>2. OnlyTheLivingHandle' /\ MessagesAreKept' /\ TimersAreOfHandled'
    BY <1>2, MessagesStay DEF GatewayInv, IsAlive, HasStarted, OnlyTheLivingHandle
  <2>3. QED
    BY <1>2, <2>1, <2>2, ProcessesStay DEF GatewayInv
<1>3. CASE IsAlive(p) /\ Ends(p) /\ silent' = silent \cup {p}
  BY <1>3, EndsSilently
<1>4. QED
  BY <1>1, <1>2, <1>3 DEF Signal

\* What was fetched is confirmed as the bot stops; only the one that listens
\* was found by the file.
LEMMA UnbindKeeps ==
  ASSUME GatewayInv, NEW p \in Procs, Unbind(p)
  PROVE  GatewayInv'
<1>1. /\ GatewayTypeOK /\ phase[p] = "closing" /\ IsAlive(p)
      /\ phase' = [phase EXCEPT ![p] = "draining"] /\ "draining" \in Phases
      /\ UNCHANGED <<socket, timers, pidFile, job, handed, missed, again, crashes, silent, outlived>>
      /\ at' = [m \in Messages |->
                  IF at[m] = <<p, "handled">> THEN Confirmed
                  ELSE IF at[m] = <<p, "handling">> THEN <<p, "told">> ELSE at[m]]
  BY DEF GatewayInv, Unbind, Phases, IsAlive
<1>2. /\ phase' \in [Procs -> Phases] /\ phase'[p] = "draining"
      /\ \A q \in Procs : q # p => phase'[q] = phase[q]
  BY <1>1, OneProcessMoves
<1>3. at \in [Messages -> Places]
  BY <1>1 DEF GatewayTypeOK, Places
<1>4. /\ at' \in [Messages -> Places]
      /\ \A m \in Messages :
           \/ at[m] = <<p, "handled">> /\ at'[m] = Confirmed
           \/ at[m] = <<p, "handling">> /\ at'[m] = <<p, "told">>
           \/ at[m] \notin {<<p, "handled">>, <<p, "handling">>} /\ at'[m] = at[m]
  BY <1>1, <1>3 DEF Places
<1>5. GatewayTypeOK'
  BY <1>1, <1>2, <1>4 DEF GatewayTypeOK, Places
<1>6. OneListens'
  BY <1>1, <1>2 DEF GatewayInv, OneListens, Listens
<1>7. DrainingIsOutlived'
  <2>1. \A q \in Procs : q # p => ~IsAnnounced(q)
    BY <1>1 DEF GatewayInv, OneListens, Listens, IsAnnounced
  <2>2. \A q \in Procs : ~IsAnnounced(q)'
    BY <1>2, <2>1 DEF IsAnnounced
  <2>3. QED
    BY <2>2 DEF DrainingIsOutlived
<1>8. PidFileNamesTheServer'
  BY <1>1, <1>2 DEF GatewayInv, PidFileNamesTheServer, GatewayTypeOK
<1>9. OnlyTheLivingHandle'
  <2>1. \A q \in Procs : /\ IsAlive(q) => IsAlive(q)'
                         /\ HasStarted(q) => HasStarted(q)'
    BY <1>1, <1>2 DEF IsAlive, HasStarted
  <2>2. ASSUME NEW m \in Messages, NEW q \in Procs,
               at'[m] \in {<<q, "handling">>, <<q, "handled">>, <<q, "told">>}
        PROVE  IsAlive(q)
    BY <1>1, <1>4, <2>2, PlacesDiffer DEF GatewayInv, OnlyTheLivingHandle
  <2>3. QED
    BY <1>1, <2>1, <2>2 DEF GatewayInv, OnlyTheLivingHandle
<1>10. MessagesAreKept'
  <2> SUFFICES ASSUME NEW m \in Messages
               PROVE  /\ at'[m] = Confirmed \/ (\E q \in Procs : at'[m] = <<q, "handled">>) =>
                           handed'[m] > 0 \/ m \in missed'
                      /\ m \notin again' =>
                           /\ handed'[m] <= 1
                           /\ handed'[m] > 0 => \/ at'[m] = Confirmed
                                                \/ \E q \in Procs : at'[m] = <<q, "handled">>
    BY DEF MessagesAreKept
  <2>1. /\ at[m] = Confirmed \/ (\E q \in Procs : at[m] = <<q, "handled">>) =>
             handed[m] > 0 \/ m \in missed
        /\ m \notin again => /\ handed[m] <= 1
                             /\ handed[m] > 0 => \/ at[m] = Confirmed
                                                 \/ \E q \in Procs : at[m] = <<q, "handled">>
    BY DEF GatewayInv, MessagesAreKept
  <2>2. handed' = handed /\ missed' = missed /\ again' = again
    BY <1>1
  <2>3. CASE at[m] = <<p, "handled">> /\ at'[m] = Confirmed
    BY <2>1, <2>2, <2>3
  <2>4. CASE at[m] = <<p, "handling">> /\ at'[m] = <<p, "told">>
    <3>1. ~(at[m] = Confirmed \/ \E q \in Procs : at[m] = <<q, "handled">>)
      BY <2>4, PlacesDiffer
    <3>2. ~(at'[m] = Confirmed \/ \E q \in Procs : at'[m] = <<q, "handled">>)
      BY <2>4, PlacesDiffer
    <3>3. QED
      BY <2>1, <2>2, <3>1, <3>2
  <2>5. CASE at'[m] = at[m]
    BY <2>1, <2>2, <2>5
  <2>6. QED
    BY <1>4, <2>3, <2>4, <2>5
<1>11. TimersAreOfHandled'
  <2> SUFFICES ASSUME NEW q \in Procs, NEW t \in timers[q]
               PROVE  phase'[q] = "dead" \/ at'[t[1]] \in {<<q, "handled">>, Confirmed}
    BY <1>1 DEF TimersAreOfHandled
  <2>1. phase[q] = "dead" \/ at[t[1]] \in {<<q, "handled">>, Confirmed}
    BY DEF GatewayInv, TimersAreOfHandled
  <2>2. t[1] \in Messages
    BY <1>1, GatewayAssumption DEF GatewayTypeOK
  <2>3. ASSUME NEW m \in Messages, at[m] \in {<<q, "handled">>, Confirmed}
        PROVE  at'[m] \in {<<q, "handled">>, Confirmed}
    <3>1. at[m] # <<p, "handling">>
      BY <2>3, PlacesDiffer
    <3>2. QED
      BY <1>4, <2>3, <3>1
  <2>4. phase[q] = "dead" => phase'[q] = "dead"
    BY <1>1, <1>2
  <2>5. QED
    BY <2>1, <2>2, <2>3, <2>4
<1>12. QED
  BY <1>5, <1>6, <1>7, <1>8, <1>9, <1>10, <1>11 DEF GatewayInv

\* Whoever is announced while this one drains is outlived, file or none.
LEMMA ExitKeeps ==
  ASSUME GatewayInv, NEW p \in Procs, Exit(p)
  PROVE  GatewayInv'
<1>1. /\ GatewayTypeOK /\ phase[p] = "draining" /\ IsAlive(p) /\ Ends(p) /\ pidFile' = None
      /\ UNCHANGED <<timers, job, crashes, silent, outlived>>
  BY DEF GatewayInv, Exit, IsAlive
<1>2. /\ phase' \in [Procs -> Phases] /\ socket' \in [Procs -> BOOLEAN]
      /\ at' \in [Messages -> Places] /\ handed' \in [Messages -> Nat]
      /\ phase'[p] = "dead" /\ \A q \in Procs : q # p => phase'[q] = phase[q]
      /\ OnlyTheLivingHandle' /\ MessagesAreKept' /\ TimersAreOfHandled'
  BY <1>1, EndsKeepsMessages
<1>3. GatewayTypeOK'
  BY <1>1, <1>2 DEF GatewayTypeOK, Places
<1>4. OneListens' /\ DrainingIsOutlived'
  BY <1>1, <1>2 DEF GatewayInv, OneListens, Listens, DrainingIsOutlived, IsAnnounced
<1>5. PidFileNamesTheServer'
  BY <1>1, <1>2 DEF GatewayInv, DrainingIsOutlived, PidFileNamesTheServer, IsAnnounced
<1>6. QED
  BY <1>2, <1>3, <1>4, <1>5 DEF GatewayInv

LEMMA CrashKeeps ==
  ASSUME GatewayInv, NEW p \in Procs, Crash(p)
  PROVE  GatewayInv'
<1>1. crashes' \in 0 .. MaxCrashes
  BY GatewayAssumption DEF GatewayInv, GatewayTypeOK, Crash
<1>2. QED
  BY <1>1, EndsSilently DEF GatewayInv, GatewayTypeOK, Crash

LEMMA StartKeeps ==
  ASSUME GatewayInv, NEW j \in Jobs, NEW p \in Procs, Start(j, p)
  PROVE  GatewayInv'
<1>1. /\ GatewayTypeOK /\ phase[p] = "none" /\ job' = [job EXCEPT ![j] = "over"]
      /\ phase' = [phase EXCEPT ![p] = "starting"] /\ "starting" \in Phases
      /\ UNCHANGED <<socket, timers, pidFile, messageVars, crashes, silent, outlived>>
  BY DEF GatewayInv, Start, IsNext, Phases
<1>2. /\ phase' \in [Procs -> Phases] /\ phase'[p] = "starting"
      /\ \A q \in Procs : q # p => phase'[q] = phase[q]
  BY <1>1, OneProcessMoves
<1>3. GatewayTypeOK'
  BY <1>1, <1>2 DEF GatewayTypeOK, messageVars
<1>4. OneListens' /\ DrainingIsOutlived'
  BY <1>1, <1>2 DEF GatewayInv, OneListens, Listens, DrainingIsOutlived, IsAnnounced
<1>5. PidFileNamesTheServer'
  BY <1>1, <1>2 DEF GatewayInv, PidFileNamesTheServer, GatewayTypeOK
<1>6. OnlyTheLivingHandle' /\ MessagesAreKept' /\ TimersAreOfHandled'
  BY <1>1, <1>2, MessagesStay DEF GatewayInv, IsAlive, HasStarted, OnlyTheLivingHandle
<1>7. QED
  BY <1>3, <1>4, <1>5, <1>6 DEF GatewayInv

LEMMA StopKeeps ==
  ASSUME GatewayInv, NEW j \in Jobs, Stop(j) \/ RestartStop(j)
  PROVE  GatewayInv'
<1>1. PICK next \in {"over", "slept"} : StopGateway(j, next)
  BY DEF Stop, RestartStop
<1>2. /\ GatewayTypeOK /\ job' = [job EXCEPT ![j] = next]
      /\ UNCHANGED <<timers, pidFile, crashes, outlived>>
  BY <1>1 DEF GatewayInv, StopGateway
<1>3. job' \in [Jobs -> {"idle", "restarting", "slept", "over"}]
  BY <1>2 DEF GatewayTypeOK
<1>4. CASE pidFile # None /\ IsAlive(pidFile)
  <2>1. pidFile \in Procs /\ Signal(pidFile)
    BY <1>1, <1>2, <1>4 DEF GatewayTypeOK, StopGateway
  <2>2. QED
    BY <1>2, <1>3, <2>1, SignalKeeps DEF GatewayTypeOK
<1>5. CASE ~(pidFile # None /\ IsAlive(pidFile))
  <2>1. UNCHANGED <<phase, socket, messageVars, silent>>
    BY <1>1, <1>5 DEF StopGateway
  <2>2. GatewayTypeOK'
    BY <1>2, <1>3, <2>1 DEF GatewayTypeOK, messageVars
  <2>3. OnlyTheLivingHandle' /\ MessagesAreKept' /\ TimersAreOfHandled'
    BY <1>2, <2>1, MessagesStay DEF GatewayInv, IsAlive, HasStarted, OnlyTheLivingHandle
  <2>4. QED
    BY <1>2, <2>1, <2>2, <2>3, ProcessesStay DEF GatewayInv
<1>6. QED
  BY <1>4, <1>5

\* The timers of a /restart that was handed over.
LEMMA TimerKeeps ==
  ASSUME GatewayInv, NEW p \in Procs, TimerStep(p)
  PROVE  GatewayInv'
<1>1. PICK m \in Restarts : SignalSelf(p, m) \/ \E j \in Jobs : SpawnRestart(p, m, j)
  BY DEF TimerStep
<1>2. GatewayTypeOK
  BY DEF GatewayInv
<1>3. CASE SignalSelf(p, m)
  <2>1. timers' = [timers EXCEPT ![p] = @ \ {<<m, "term">>}]
    BY <1>3 DEF SignalSelf
  <2>2. /\ timers' \in [Procs -> SUBSET (Restarts \X {"spawn", "term"})]
        /\ \A q \in Procs : timers'[q] \subseteq timers[q]
    BY <1>2, <2>1 DEF GatewayTypeOK
  <2>3. QED
    BY <1>2, <1>3, <2>2, SignalKeeps DEF SignalSelf, GatewayTypeOK
<1>4. ASSUME NEW j \in Jobs, SpawnRestart(p, m, j)
      PROVE  GatewayInv'
  <2>1. /\ IsAlive(p) /\ <<m, "spawn">> \in timers[p] /\ job' = [job EXCEPT ![j] = "restarting"]
        /\ timers' = [timers EXCEPT ![p] = (@ \ {<<m, "spawn">>}) \cup {<<m, "term">>}]
        /\ UNCHANGED <<phase, socket, pidFile, messageVars, crashes, silent, outlived>>
    BY <1>4 DEF SpawnRestart
  <2>2. /\ timers' \in [Procs -> SUBSET (Restarts \X {"spawn", "term"})]
        /\ timers'[p] = (timers[p] \ {<<m, "spawn">>}) \cup {<<m, "term">>}
        /\ \A q \in Procs : q # p => timers'[q] = timers[q]
    BY <1>2, <2>1 DEF GatewayTypeOK
  <2>3. \A q \in Procs : \A n \in Restarts : ~ {<<n, "spawn">>, <<n, "term">>} \subseteq timers'[q]
    <3> SUFFICES ASSUME NEW q \in Procs, NEW n \in Restarts,
                        <<n, "spawn">> \in timers'[q], <<n, "term">> \in timers'[q]
                 PROVE  FALSE
      BY Zenon
    <3>1. ~(<<n, "spawn">> \in timers[q] /\ <<n, "term">> \in timers[q])
      BY <1>2 DEF GatewayTypeOK
    <3>2. QED
      BY <2>2, <3>1
  <2>4. GatewayTypeOK'
    BY <1>2, <2>1, <2>2, <2>3 DEF GatewayTypeOK, messageVars
  <2>5. OneListens' /\ DrainingIsOutlived' /\ PidFileNamesTheServer'
    BY <2>1, ProcessesStay
  <2>6. OnlyTheLivingHandle' /\ MessagesAreKept'
    BY <2>1 DEF GatewayInv, OnlyTheLivingHandle, MessagesAreKept, IsAlive, HasStarted, messageVars
  <2>7. TimersAreOfHandled'
    <3> SUFFICES ASSUME NEW q \in Procs, NEW t \in timers'[q]
                 PROVE  phase[q] = "dead" \/ at[t[1]] \in {<<q, "handled">>, Confirmed}
      BY <2>1 DEF TimersAreOfHandled, messageVars
    <3>1. t \in timers[q] \/ (q = p /\ t = <<m, "term">>)
      BY <2>2
    <3>2. <<m, "spawn">>[1] = m /\ <<m, "term">>[1] = m
      BY Zenon
    <3>3. phase[p] = "dead" \/ at[m] \in {<<p, "handled">>, Confirmed}
      BY <2>1, <3>2 DEF GatewayInv, TimersAreOfHandled
    <3>4. QED
      BY <3>1, <3>2, <3>3 DEF GatewayInv, TimersAreOfHandled
  <2>8. QED
    BY <2>4, <2>5, <2>6, <2>7 DEF GatewayInv
<1>5. QED
  BY <1>1, <1>3, <1>4

\* With the next request the handled ones are confirmed, and one is fetched.
LEMMA FetchKeeps ==
  ASSUME GatewayInv, NEW p \in Procs,
         FetchNone(p) \/ \E m \in Messages : Fetch(p, m)
  PROVE  GatewayInv'
<1>1. /\ GatewayTypeOK /\ IsAlive(p)
      /\ UNCHANGED <<procVars, job, handed, missed, again, crashes>>
  BY DEF GatewayInv, FetchNone, Fetch, Listens, IsAlive
<1>2. at \in [Messages -> Places]
  BY <1>1 DEF GatewayTypeOK, Places
<1>3. PICK X \in SUBSET Messages :
        /\ \A m \in X : at[m] = AtTelegram
        /\ at' = [m \in Messages |->
                    IF m \in X THEN <<p, "handling">>
                    ELSE IF at[m] = <<p, "handled">> THEN Confirmed ELSE at[m]]
  <2>1. CASE FetchNone(p)
    <3>1. at' = Confirming(p)
      BY <2>1 DEF FetchNone
    <3>2. WITNESS {} \in SUBSET Messages
    <3>3. QED
      BY <3>1 DEF Confirming
  <2>2. ASSUME NEW m \in Messages, Fetch(p, m)
        PROVE  \E X \in SUBSET Messages :
                 /\ \A n \in X : at[n] = AtTelegram
                 /\ at' = [n \in Messages |->
                             IF n \in X THEN <<p, "handling">>
                             ELSE IF at[n] = <<p, "handled">> THEN Confirmed ELSE at[n]]
    <3>1. at[m] = AtTelegram /\ at' = [Confirming(p) EXCEPT ![m] = <<p, "handling">>]
      BY <2>2 DEF Fetch
    <3>2. at' = [n \in Messages |->
                   IF n \in {m} THEN <<p, "handling">>
                   ELSE IF at[n] = <<p, "handled">> THEN Confirmed ELSE at[n]]
      BY <3>1 DEF Confirming
    <3>3. WITNESS {m} \in SUBSET Messages
    <3>4. QED
      BY <3>1, <3>2
  <2>3. QED
    BY <2>1, <2>2
<1>4. /\ at' \in [Messages -> Places]
      /\ \A m \in Messages :
           \/ at[m] = AtTelegram /\ at'[m] = <<p, "handling">>
           \/ at[m] = <<p, "handled">> /\ at'[m] = Confirmed
           \/ at'[m] = at[m]
  BY <1>2, <1>3 DEF Places
<1>5. UNCHANGED <<phase, socket, timers, pidFile, silent, outlived>>
  BY <1>1 DEF procVars
<1>6. GatewayTypeOK'
  BY <1>1, <1>4, <1>5 DEF GatewayTypeOK, Places
<1>7. OneListens' /\ DrainingIsOutlived' /\ PidFileNamesTheServer'
  BY <1>5, ProcessesStay
<1>8. OnlyTheLivingHandle'
  <2>1. ASSUME NEW m \in Messages, NEW q \in Procs,
               at'[m] \in {<<q, "handling">>, <<q, "handled">>, <<q, "told">>}
        PROVE  IsAlive(q)
    <3>1. CASE at'[m] = <<p, "handling">>
      BY <1>1, <2>1, <3>1, PlacesDiffer
    <3>2. CASE at'[m] = Confirmed
      BY <2>1, <3>2, PlacesDiffer
    <3>3. CASE at'[m] = at[m]
      BY <2>1, <3>3 DEF GatewayInv, OnlyTheLivingHandle
    <3>4. QED
      BY <1>4, <3>1, <3>2, <3>3
  <2>2. QED
    BY <1>5, <2>1 DEF GatewayInv, OnlyTheLivingHandle, IsAlive, HasStarted
<1>9. MessagesAreKept'
  <2> SUFFICES ASSUME NEW m \in Messages
               PROVE  /\ at'[m] = Confirmed \/ (\E q \in Procs : at'[m] = <<q, "handled">>) =>
                           handed'[m] > 0 \/ m \in missed'
                      /\ m \notin again' =>
                           /\ handed'[m] <= 1
                           /\ handed'[m] > 0 => \/ at'[m] = Confirmed
                                                \/ \E q \in Procs : at'[m] = <<q, "handled">>
    BY DEF MessagesAreKept
  <2>1. /\ at[m] = Confirmed \/ (\E q \in Procs : at[m] = <<q, "handled">>) =>
             handed[m] > 0 \/ m \in missed
        /\ m \notin again => /\ handed[m] <= 1
                             /\ handed[m] > 0 => \/ at[m] = Confirmed
                                                 \/ \E q \in Procs : at[m] = <<q, "handled">>
    BY DEF GatewayInv, MessagesAreKept
  <2>2. handed' = handed /\ missed' = missed /\ again' = again
    BY <1>1
  <2>3. CASE at[m] = AtTelegram /\ at'[m] = <<p, "handling">>
    <3>1. ~(at[m] = Confirmed \/ \E q \in Procs : at[m] = <<q, "handled">>)
      BY <2>3, PlacesDiffer
    <3>2. ~(at'[m] = Confirmed \/ \E q \in Procs : at'[m] = <<q, "handled">>)
      BY <2>3, PlacesDiffer
    <3>3. QED
      BY <2>1, <2>2, <3>1, <3>2
  <2>4. CASE at[m] = <<p, "handled">> /\ at'[m] = Confirmed
    BY <2>1, <2>2, <2>4
  <2>5. CASE at'[m] = at[m]
    BY <2>1, <2>2, <2>5
  <2>6. QED
    BY <1>4, <2>3, <2>4, <2>5
<1>10. TimersAreOfHandled'
  <2> SUFFICES ASSUME NEW q \in Procs, NEW t \in timers[q]
               PROVE  phase[q] = "dead" \/ at'[t[1]] \in {<<q, "handled">>, Confirmed}
    BY <1>5 DEF TimersAreOfHandled
  <2>1. phase[q] = "dead" \/ at[t[1]] \in {<<q, "handled">>, Confirmed}
    BY DEF GatewayInv, TimersAreOfHandled
  <2>2. t[1] \in Messages
    BY <1>1, GatewayAssumption DEF GatewayTypeOK
  <2>3. ASSUME NEW m \in Messages, at[m] \in {<<q, "handled">>, Confirmed}
        PROVE  at'[m] \in {<<q, "handled">>, Confirmed}
    <3>1. at[m] # AtTelegram
      BY <2>3, PlacesDiffer
    <3>2. QED
      BY <1>4, <2>3, <3>1
  <2>4. QED
    BY <2>1, <2>2, <2>3
<1>11. QED
  BY <1>6, <1>7, <1>8, <1>9, <1>10 DEF GatewayInv

\* A message that is being handled has no timer yet, and was not handed over
\* unless it was fetched again.
LEMMA BroadcastKeeps ==
  ASSUME GatewayInv, NEW p \in Procs, NEW m \in Messages, Broadcast(p, m)
  PROVE  GatewayInv'
<1>1. /\ GatewayTypeOK /\ IsAlive(p) /\ at[m] \in {<<p, "handling">>, <<p, "told">>}
      /\ UNCHANGED <<phase, socket, pidFile, silent, outlived, job, again, crashes>>
      /\ at' = [at EXCEPT ![m] = IF at[m] = <<p, "told">> THEN Confirmed ELSE <<p, "handled">>]
  BY DEF GatewayInv, Broadcast
<1>2. /\ at \in [Messages -> Places] /\ handed \in [Messages -> Nat]
      /\ timers \in [Procs -> SUBSET (Restarts \X {"spawn", "term"})]
  BY <1>1 DEF GatewayTypeOK, Places
<1>3. /\ at' \in [Messages -> Places] /\ at'[m] \in {<<p, "handled">>, Confirmed}
      /\ \A n \in Messages : n # m => at'[n] = at[n]
  BY <1>1, <1>2 DEF Places
<1>4. /\ handed' \in [Messages -> Nat]
      /\ \A n \in Messages : n # m => /\ handed'[n] = handed[n]
                                      /\ n \in missed' <=> n \in missed
      /\ handed'[m] > 0 \/ m \in missed'
      /\ handed'[m] <= handed[m] + 1
  <2>1. CASE socket[p]
    <3>1. handed' = [handed EXCEPT ![m] = @ + 1] /\ missed' = missed
      BY <2>1 DEF Broadcast
    <3>2. QED
      BY <1>2, <3>1
  <2>2. CASE ~socket[p]
    <3>1. handed' = handed /\ missed' = missed \cup {m}
      BY <2>2 DEF Broadcast
    <3>2. QED
      BY <1>2, <3>1
  <2>3. QED
    BY <2>1, <2>2
<1>5. \A q \in Procs : \A t \in timers[q] : t[1] = m => phase[q] = "dead"
  BY <1>1, PlacesDiffer DEF GatewayInv, TimersAreOfHandled
<1>6. /\ timers' \in [Procs -> SUBSET (Restarts \X {"spawn", "term"})]
      /\ \A q \in Procs : timers'[q] \subseteq timers[q] \cup {<<m, "spawn">>}
      /\ \A q \in Procs : q # p => timers'[q] = timers[q]
  <2>1. \/ timers' = timers
        \/ m \in Restarts /\ timers' = [timers EXCEPT ![p] = @ \cup {<<m, "spawn">>}]
    BY DEF Broadcast
  <2>2. QED
    BY <1>2, <2>1
<1>7. \A q \in Procs : \A n \in Restarts : ~ {<<n, "spawn">>, <<n, "term">>} \subseteq timers'[q]
  <2> SUFFICES ASSUME NEW q \in Procs, NEW n \in Restarts,
                      <<n, "spawn">> \in timers'[q], <<n, "term">> \in timers'[q]
               PROVE  FALSE
    BY Zenon
  <2>1. <<n, "term">> \in timers[q]
    BY <1>6
  <2>2. <<n, "spawn">> \notin timers[q]
    BY <1>1, <2>1 DEF GatewayTypeOK
  <2>3. n = m /\ q = p
    BY <1>6, <2>2
  <2>4. <<n, "term">>[1] = n
    BY Zenon
  <2>5. QED
    BY <1>1, <1>5, <2>1, <2>3, <2>4 DEF IsAlive
<1>8. GatewayTypeOK'
  BY <1>1, <1>3, <1>4, <1>6, <1>7 DEF GatewayTypeOK, Places
<1>9. OneListens' /\ DrainingIsOutlived' /\ PidFileNamesTheServer'
  BY <1>1, ProcessesStay
<1>10. OnlyTheLivingHandle'
  <2>1. ASSUME NEW n \in Messages, NEW q \in Procs,
               at'[n] \in {<<q, "handling">>, <<q, "handled">>, <<q, "told">>}
        PROVE  IsAlive(q)
    <3>1. CASE n = m
      BY <1>1, <1>3, <2>1, <3>1, PlacesDiffer
    <3>2. CASE n # m
      BY <1>3, <2>1, <3>2 DEF GatewayInv, OnlyTheLivingHandle
    <3>3. QED
      BY <3>1, <3>2
  <2>2. QED
    BY <1>1, <2>1 DEF GatewayInv, OnlyTheLivingHandle, IsAlive, HasStarted
<1>11. MessagesAreKept'
  <2> SUFFICES ASSUME NEW n \in Messages
               PROVE  /\ at'[n] = Confirmed \/ (\E q \in Procs : at'[n] = <<q, "handled">>) =>
                           handed'[n] > 0 \/ n \in missed'
                      /\ n \notin again' =>
                           /\ handed'[n] <= 1
                           /\ handed'[n] > 0 => \/ at'[n] = Confirmed
                                                \/ \E q \in Procs : at'[n] = <<q, "handled">>
    BY DEF MessagesAreKept
  <2>1. /\ at[n] = Confirmed \/ (\E q \in Procs : at[n] = <<q, "handled">>) =>
             handed[n] > 0 \/ n \in missed
        /\ n \notin again => /\ handed[n] <= 1
                             /\ handed[n] > 0 => \/ at[n] = Confirmed
                                                 \/ \E q \in Procs : at[n] = <<q, "handled">>
    BY DEF GatewayInv, MessagesAreKept
  <2>2. again' = again
    BY <1>1
  <2>3. CASE n # m
    BY <1>3, <1>4, <2>1, <2>2, <2>3
  <2>4. CASE n = m
    <3>1. ~(at[m] = Confirmed \/ \E q \in Procs : at[m] = <<q, "handled">>)
      BY <1>1, PlacesDiffer
    <3>2. m \notin again => handed[m] = 0
      BY <1>2, <2>1, <2>4, <3>1
    <3>3. m \notin again => handed'[m] <= 1
      BY <1>2, <1>4, <3>2
    <3>4. QED
      BY <1>3, <1>4, <2>2, <2>4, <3>3
  <2>5. QED
    BY <2>3, <2>4
<1>12. TimersAreOfHandled'
  <2> SUFFICES ASSUME NEW q \in Procs, NEW t \in timers'[q]
               PROVE  phase[q] = "dead" \/ at'[t[1]] \in {<<q, "handled">>, Confirmed}
    BY <1>1 DEF TimersAreOfHandled
  <2>1. CASE t \in timers[q]
    <3>1. phase[q] = "dead" \/ at[t[1]] \in {<<q, "handled">>, Confirmed}
      BY <2>1 DEF GatewayInv, TimersAreOfHandled
    <3>2. t[1] \in Messages
      BY <1>2, <2>1, GatewayAssumption
    <3>3. QED
      BY <1>3, <1>5, <2>1, <3>1, <3>2
  <2>2. CASE t \notin timers[q]
    <3>1. q = p /\ t = <<m, "spawn">>
      BY <1>6, <2>2
    <3>2. t[1] = m
      BY <3>1
    <3>3. QED
      BY <1>3, <3>1, <3>2
  <2>3. QED
    BY <2>1, <2>2
<1>13. QED
  BY <1>8, <1>9, <1>10, <1>11, <1>12 DEF GatewayInv

LEMMA StutterKeeps ==
  ASSUME GatewayInv, UNCHANGED gatewayVars
  PROVE  GatewayInv'
<1>1. UNCHANGED <<phase, socket, timers, pidFile, job, at, handed, crashes, silent, outlived,
                  missed, again>>
  BY DEF gatewayVars
<1>2. GatewayTypeOK'
  BY <1>1 DEF GatewayInv, GatewayTypeOK
<1>3. OneListens' /\ DrainingIsOutlived' /\ PidFileNamesTheServer'
  BY <1>1, ProcessesStay
<1>4. OnlyTheLivingHandle' /\ MessagesAreKept' /\ TimersAreOfHandled'
  BY <1>1 DEF GatewayInv, OnlyTheLivingHandle, MessagesAreKept, TimersAreOfHandled, IsAlive,
     HasStarted
<1>5. QED
  BY <1>2, <1>3, <1>4 DEF GatewayInv

LEMMA NextKeeps ==
  ASSUME GatewayInv, [GatewayNext]_gatewayVars
  PROVE  GatewayInv'
<1>1. ASSUME NEW p \in Procs, ProcessStep(p)
      PROVE  GatewayInv'
  BY <1>1, ListenKeeps, WritePidKeeps, StartingKeeps, SocketKeeps, UnbindKeeps, ExitKeeps
     DEF ProcessStep
<1>2. ASSUME NEW p \in Procs, ServerStep(p)
      PROVE  GatewayInv'
  BY <1>2, FetchKeeps, BroadcastKeeps DEF ServerStep
<1>3. ASSUME NEW j \in Jobs, CommandLine(j)
      PROVE  GatewayInv'
  BY <1>3, StopKeeps, StartKeeps DEF CommandLine
<1>4. QED
  BY <1>1, <1>2, <1>3, TimerKeeps, CrashKeeps, StutterKeeps DEF GatewayNext

-----------------------------------------------------------------------------
(* The theorems about the gateway.                                         *)

\* A message is counted as handed over where it is handled or confirmed.
LEMMA KeptAreAccountedFor == GatewayInv => MessagesAreAccountedFor
<1> SUFFICES ASSUME GatewayInv, NEW m \in Messages
             PROVE  /\ at[m] = Confirmed => handed[m] > 0 \/ m \in missed
                    /\ handed[m] > 1 => m \in again
  BY DEF MessagesAreAccountedFor
<1>1. handed[m] \in Nat
  BY DEF GatewayInv, GatewayTypeOK
<1>2. QED
  BY <1>1 DEF GatewayInv, MessagesAreKept

\* The invariant of the processes and of the messages, of every behaviour of
\* the gateway, with any number of invocations of the command line.
THEOREM GatewayInvariantHolds == GatewaySpec => []GatewayInv
<1>1. GatewayInit => GatewayInv
  BY InitHolds
<1>2. GatewayInv /\ [GatewayNext]_gatewayVars => GatewayInv'
  BY NextKeeps
<1>3. QED
  BY <1>1, <1>2, PTL DEF GatewaySpec

\* Whoever told the chats that it runs is named by the pid file, which stop
\* and restart read, unless another that drained for longer than restart
\* sleeps took the file with it; a file that outlives its process is one of a
\* process without a shutdown.
THEOREM PidFileIsTrue == GatewaySpec => []PidFileNamesTheServer
<1>1. GatewayInv => PidFileNamesTheServer
  BY DEF GatewayInv
<1>2. QED
  BY <1>1, GatewayInvariantHolds, PTL

\* No message is confirmed to Telegram that no bridge got, except for one that
\* found none connected, and none is handed over twice without an end of its
\* process between.
THEOREM NoMessageIsLost == GatewaySpec => []MessagesAreAccountedFor
<1>1. QED
  BY KeptAreAccountedFor, GatewayInvariantHolds, PTL

-----------------------------------------------------------------------------
(* THE STORE.  The inductive invariant of the gateway and the store.       *)

\* What belongs to one process: its sessions know no token but those of their
\* own conversations, and it has a run or a command under way only from the
\* load of its store to its end.
ProcessIsSound(p) ==
  /\ \A c \in Clis : session[p].tokens[c] \in {None, p}
  /\ turn[p] # None => turn[p].resume \in {None, p} /\ HasStarted(p)
  /\ newCmd[p].step # "idle" => newCmd[p].cli # None /\ HasStarted(p)
  /\ HasStarted(p) => kept[p] \in Stores

ProcessesAreSound == \A p \in Procs : ProcessIsSound(p)

\* Writes that know of no other write are alone, write what their process has
\* in its memory, and write it into an empty file.
SavesAreSound ==
  /\ \A s \in saves : HasStarted(s.by) /\ s.no <= changes
  /\ \A s, t \in saves : s # t => s.shared /\ t.shared
  /\ \A s \in saves : ~s.shared => /\ s.text = kept[s.by]
                                   /\ s.opened => file.size = 0

StoreInv ==
  /\ StoreTypeOK
  /\ ProcessesAreSound
  /\ SavesAreSound
  /\ FileIsItsOwners

IInv == GatewayInv /\ StoreInv

-----------------------------------------------------------------------------
(* Stores.                                                                 *)

LEMMA StoresAreSized ==
  /\ Default \in Stores
  /\ \A v \in Stores : Size(v) \in Nat
  /\ EmptyFile \in [reads : Stores, size : Nat]
<1>1. NoTokens \in [Clis -> Procs \cup {None}]
  BY DEF NoTokens
<1>2. Default \in Stores
  BY <1>1 DEF Default, Stores
<1>3. ASSUME NEW v \in Stores
      PROVE  Size(v) \in Nat
  <2>1. Cardinality({c \in Clis : v.tokens[c] # None}) \in Nat
    BY RestartAssumption, FS_Subset, FS_CardinalityType
  <2>2. QED
    BY <2>1 DEF Size
<1>4. QED
  BY <1>2, <1>3 DEF EmptyFile

\* A write into an empty file leaves its text there.
LEMMA OverEmpty ==
  ASSUME NEW v \in Stores, NEW f \in [reads : Stores, size : Nat]
  PROVE  /\ Over(v, f) \in [reads : Stores, size : Nat]
         /\ f.size = 0 => Over(v, f).reads = v
<1>1. Size(v) \in Nat /\ f.size \in Nat /\ Default \in Stores
  BY StoresAreSized
<1>2. QED
  BY <1>1 DEF Over

-----------------------------------------------------------------------------
(* How the gateway moves the processes.                                    *)

\* A process that has started stays so until it ends, and starts from loading.
MovesOn ==
  \A q \in Procs :
    /\ HasStarted(q) => HasStarted(q)' \/ phase'[q] = "dead"
    /\ HasStarted(q)' => HasStarted(q) \/ (phase[q] = "loading" /\ phase'[q] = "up")
    /\ phase[q] = "dead" => phase'[q] = "dead"

LEMMA OneMovesOn ==
  ASSUME GatewayTypeOK, NEW p \in Procs, NEW x \in Phases, phase' = [phase EXCEPT ![p] = x],
         phase[p] # "dead",
         \/ x = "dead"
         \/ x \in {"starting", "listening", "announcing", "loading"} /\ ~HasStarted(p)
         \/ phase[p] = "loading" /\ x = "up"
         \/ phase[p] = "up" /\ x = "closing"
         \/ phase[p] = "closing" /\ x = "draining"
  PROVE  MovesOn
<1>1. phase'[p] = x /\ \A q \in Procs : q # p => phase'[q] = phase[q]
  BY OneProcessMoves
<1>2. QED
  BY <1>1 DEF MovesOn, HasStarted

LEMMA EndMovesOn ==
  ASSUME GatewayTypeOK, NEW p \in Procs, IsAlive(p), Ends(p)
  PROVE  MovesOn
BY OneMovesOn DEF Ends, IsAlive, Phases

LEMMA StayMovesOn ==
  ASSUME phase' = phase
  PROVE  MovesOn
BY DEF MovesOn, HasStarted

LEMMA SignalMovesOn ==
  ASSUME GatewayTypeOK, NEW p \in Procs, Signal(p)
  PROVE  MovesOn
BY OneMovesOn, EndMovesOn, StayMovesOn DEF Signal, Phases

LEMMA GatewayMovesOn ==
  ASSUME GatewayTypeOK, GatewayNext
  PROVE  MovesOn
<1>1. ASSUME NEW p \in Procs, ProcessStep(p)
      PROVE  MovesOn
  <2>1. CASE Listen(p)
    BY <2>1, OneMovesOn, EndMovesOn DEF Listen, IsAlive, HasStarted, Phases
  <2>2. CASE WritePid(p) \/ Announced(p) \/ BridgeStarted(p)
    BY <2>2, OneMovesOn DEF WritePid, Announced, BridgeStarted, HasStarted, Phases
  <2>3. CASE Connect(p) \/ Disconnect(p)
    BY <2>3, StayMovesOn DEF Connect, Disconnect
  <2>4. CASE Unbind(p)
    BY <2>4, OneMovesOn DEF Unbind, Phases
  <2>5. CASE Exit(p)
    BY <2>5, EndMovesOn DEF Exit, IsAlive
  <2>6. QED
    BY <1>1, <2>1, <2>2, <2>3, <2>4, <2>5 DEF ProcessStep
<1>2. ASSUME NEW p \in Procs, TimerStep(p)
      PROVE  MovesOn
  BY <1>2, SignalMovesOn, StayMovesOn DEF TimerStep, SignalSelf, SpawnRestart
<1>3. ASSUME NEW p \in Procs, ServerStep(p)
      PROVE  MovesOn
  BY <1>3, StayMovesOn DEF ServerStep, FetchNone, Fetch, Broadcast, procVars
<1>4. ASSUME NEW p \in Procs, Crash(p)
      PROVE  MovesOn
  BY <1>4, EndMovesOn DEF Crash
<1>5. ASSUME NEW j \in Jobs, CommandLine(j)
      PROVE  MovesOn
  <2>1. ASSUME NEW p \in Procs, Start(j, p)
        PROVE  MovesOn
    BY <2>1, OneMovesOn DEF Start, IsNext, HasStarted, Phases
  <2>2. ASSUME NEW next, StopGateway(j, next)
        PROVE  MovesOn
    BY <2>2, SignalMovesOn, StayMovesOn DEF StopGateway, GatewayTypeOK
  <2>3. QED
    BY <1>5, <2>1, <2>2 DEF CommandLine, Stop, RestartStop
<1>6. QED
  BY <1>1, <1>2, <1>3, <1>4, <1>5 DEF GatewayNext

-----------------------------------------------------------------------------
(* The file and its writes.                                                *)

\* What StoreTypeOK says of what the processes share, and of their memory.
FileTypeOK ==
  /\ file \in [reads : Stores, size : Nat]
  /\ kept \in [Procs -> Stores \cup {None}]
  /\ saves \subseteq Save
  /\ \A s, t \in saves : s.no = t.no => s = t
  /\ changes \in 0 .. MaxChanges
  /\ owner \in Procs \cup {None}

MemoryTypeOK ==
  /\ session \in [Procs -> [tokens : [Clis -> Procs \cup {None}], cli : Clis \cup {None}]]
  /\ turn \in [Procs -> [cli : Clis, resume : Procs \cup {None}] \cup {None}]
  /\ newCmd \in [Procs -> [step : {"idle", "sync", "clear"}, cli : Clis \cup {None},
                          save : (1 .. MaxChanges) \cup {None}]]

FileIsSound == FileTypeOK /\ SavesAreSound /\ FileIsItsOwners

LEMMA StoreInvParts == StoreInv <=> FileIsSound /\ MemoryTypeOK /\ ProcessesAreSound
BY DEF StoreInv, StoreTypeOK, FileIsSound, FileTypeOK, MemoryTypeOK

\* A save takes its store with it, and overlaps with every other in flight.
LEMMA PersistKeepsFile ==
  ASSUME FileIsSound, phase' = phase, NEW p \in Procs, HasStarted(p), NEW v \in Stores,
         Persist(p, v)
  PROVE  /\ FileIsSound'
         /\ kept' = [kept EXCEPT ![p] = v]
         /\ changes' \in 1 .. MaxChanges
<1> DEFINE x == [by |-> p, no |-> changes + 1, text |-> v, opened |-> FALSE, shared |-> saves # {}]
           Sh(s) == [s EXCEPT !.shared = TRUE]
<1>1. /\ changes < MaxChanges /\ changes' = changes + 1 /\ kept' = [kept EXCEPT ![p] = v]
      /\ saves' = {Sh(s) : s \in saves} \cup {x}
      /\ UNCHANGED <<file, owner>>
  BY DEF Persist
<1>2. FileTypeOK /\ MaxChanges \in Nat /\ changes \in Nat
  BY RestartAssumption DEF FileIsSound, FileTypeOK
<1>3. changes' \in 1 .. MaxChanges
  BY <1>1, <1>2
<1>4. /\ x \in Save /\ x.by = p /\ x.no = changes + 1 /\ x.text = v /\ ~x.opened
      /\ saves # {} => x.shared
  <2>1. changes + 1 \in 1 .. MaxChanges /\ (saves # {}) \in BOOLEAN
    BY <1>1, <1>2
  <2>2. x \in Save
    BY <2>1 DEF Save
  <2>3. x.shared = (saves # {}) /\ x.opened = FALSE
    BY Zenon
  <2>4. x.by = p /\ x.no = changes + 1 /\ x.text = v
    BY Zenon
  <2>5. QED
    BY <2>2, <2>3, <2>4
<1>5. \A s \in saves : /\ Sh(s) \in Save /\ Sh(s).shared
                       /\ Sh(s).by = s.by /\ Sh(s).no = s.no /\ Sh(s).text = s.text
                       /\ s.no \in Nat
  <2> SUFFICES ASSUME NEW s \in saves
               PROVE  /\ Sh(s) \in Save /\ Sh(s).shared
                      /\ Sh(s).by = s.by /\ Sh(s).no = s.no /\ Sh(s).text = s.text
                      /\ s.no \in Nat
    BY Zenon
  <2>1. s \in Save
    BY <1>2 DEF FileTypeOK
  <2>2. Sh(s) \in Save /\ Sh(s).by = s.by /\ Sh(s).no = s.no /\ Sh(s).text = s.text
    BY <2>1 DEF Save
  <2>3. Sh(s).shared
    BY <2>1 DEF Save
  <2>4. s.no \in Nat
    BY <2>1 DEF Save
  <2>5. QED
    BY <2>2, <2>3, <2>4
<1> HIDE DEF x, Sh
<1>6. \A s \in saves : s.no <= changes /\ HasStarted(s.by)
  BY DEF FileIsSound, SavesAreSound
<1>7. FileTypeOK'
  <2>1. kept' \in [Procs -> Stores \cup {None}]
    BY <1>1, <1>2 DEF FileTypeOK
  <2>2. saves' \subseteq Save
    BY <1>1, <1>4, <1>5
  <2>3. ASSUME NEW s \in saves', NEW t \in saves', s.no = t.no
        PROVE  s = t
    <3>1. CASE s = x /\ t = x
      BY <3>1
    <3>2. CASE s # x /\ t # x
      <4>1. PICK s0 \in saves : s = Sh(s0)
        BY <1>1, <3>2
      <4>2. PICK t0 \in saves : t = Sh(t0)
        BY <1>1, <3>2
      <4>3. s0 = t0
        BY <1>2, <1>5, <2>3, <4>1, <4>2 DEF FileTypeOK
      <4>4. QED
        BY <4>1, <4>2, <4>3
    <3>3. ASSUME NEW s0 \in saves
          PROVE  Sh(s0).no # x.no
      BY <1>2, <1>4, <1>5, <1>6
    <3>4. QED
      BY <1>1, <2>3, <3>1, <3>2, <3>3
  <2>4. QED
    BY <1>1, <1>2, <1>3, <2>1, <2>2, <2>3 DEF FileTypeOK
<1>8. SavesAreSound'
  <2>1. \A s \in saves' : HasStarted(s.by) /\ s.no <= changes'
    <3>1. HasStarted(x.by) /\ x.no <= changes'
      BY <1>1, <1>2, <1>4
    <3>2. \A s \in saves : HasStarted(Sh(s).by) /\ Sh(s).no <= changes'
      BY <1>1, <1>2, <1>5, <1>6
    <3>3. QED
      BY <1>1, <3>1, <3>2
  <2>2. \A s, t \in saves' : s # t => s.shared /\ t.shared
    BY <1>1, <1>4, <1>5
  <2>3. ASSUME NEW s \in saves', ~s.shared
        PROVE  s.text = kept'[s.by] /\ ~s.opened
    <3>1. s = x
      BY <1>1, <1>5, <2>3
    <3>2. kept'[p] = v
      BY <1>1, <1>2 DEF FileTypeOK
    <3>3. QED
      BY <1>4, <3>1, <3>2
  <2>4. QED
    BY <2>1, <2>2, <2>3 DEF SavesAreSound, HasStarted
<1>9. FileIsItsOwners'
  <2>1. saves' # {}
    BY <1>1
  <2>2. QED
    BY <2>1 DEF FileIsItsOwners
<1>10. QED
  BY <1>1, <1>3, <1>7, <1>8, <1>9 DEF FileIsSound

\* The load, of a process that has no write in flight yet.
LEMMA LoadKeepsFile ==
  ASSUME FileIsSound, phase' = phase, NEW p \in Procs, ~HasStarted(p), Load(p)
  PROVE  FileIsSound' /\ kept' = [kept EXCEPT ![p] = file.reads] /\ file.reads \in Stores
<1>1. /\ kept' = [kept EXCEPT ![p] = file.reads] /\ owner' = IF saves = {} THEN p ELSE None
      /\ file' = file /\ saves' = saves /\ changes' = changes
  BY DEF Load
<1>2. FileTypeOK /\ file.reads \in Stores
  BY DEF FileIsSound, FileTypeOK
<1>3. /\ kept' \in [Procs -> Stores \cup {None}] /\ kept'[p] = file.reads
      /\ \A q \in Procs : q # p => kept'[q] = kept[q]
  BY <1>1, <1>2 DEF FileTypeOK
<1>4. FileTypeOK'
  BY <1>1, <1>2, <1>3 DEF FileTypeOK
<1>5. SavesAreSound'
  <2>1. \A s \in saves : s.by \in Procs /\ s.by # p
    BY <1>2 DEF FileTypeOK, Save, FileIsSound, SavesAreSound
  <2>2. \A s \in saves : kept'[s.by] = kept[s.by]
    BY <1>3, <2>1
  <2>3. QED
    BY <1>1, <2>2 DEF FileIsSound, SavesAreSound, HasStarted
<1>6. FileIsItsOwners'
  BY <1>1, <1>3 DEF FileIsItsOwners
<1>7. QED
  BY <1>1, <1>2, <1>4, <1>5, <1>6 DEF FileIsSound

LEMMA OpenKeepsFile ==
  ASSUME FileIsSound, phase' = phase, NEW s \in saves, OpenFile(s)
  PROVE  FileIsSound'
<1> DEFINE x == [s EXCEPT !.opened = TRUE]
<1>1. /\ file' = EmptyFile /\ saves' = (saves \ {s}) \cup {x}
      /\ kept' = kept /\ changes' = changes /\ owner' = owner
  BY DEF OpenFile
<1>2. FileTypeOK /\ s \in Save
  BY DEF FileIsSound, FileTypeOK
<1>3. x \in Save /\ x.by = s.by /\ x.no = s.no /\ x.text = s.text
  BY <1>2 DEF Save
<1>4. x.shared = s.shared
  BY <1>2 DEF Save
<1>5. file'.size = 0
  BY <1>1 DEF EmptyFile
<1> HIDE DEF x
<1>6. FileTypeOK'
  <2>1. file' \in [reads : Stores, size : Nat]
    BY <1>1, StoresAreSized
  <2>2. saves' \subseteq Save
    BY <1>1, <1>2, <1>3 DEF FileTypeOK
  <2>3. \A t, u \in saves' : t.no = u.no => t = u
    BY <1>1, <1>2, <1>3 DEF FileTypeOK
  <2>4. QED
    BY <1>1, <1>2, <2>1, <2>2, <2>3 DEF FileTypeOK
<1>7. SavesAreSound'
  <2>1. \A t \in saves' : HasStarted(t.by)' /\ t.no <= changes'
    BY <1>1, <1>3 DEF FileIsSound, SavesAreSound, HasStarted
  <2>2. \A t, u \in saves' : t # u => t.shared /\ u.shared
    BY <1>1, <1>4 DEF FileIsSound, SavesAreSound
  <2>3. \A t \in saves' : ~t.shared => t.text = kept'[t.by]
    BY <1>1, <1>3, <1>4 DEF FileIsSound, SavesAreSound
  <2>4. QED
    BY <1>5, <2>1, <2>2, <2>3 DEF SavesAreSound
<1>8. FileIsItsOwners'
  <2>1. saves' # {}
    BY <1>1
  <2>2. QED
    BY <2>1 DEF FileIsItsOwners
<1>9. QED
  BY <1>6, <1>7, <1>8 DEF FileIsSound

\* The last of the writes in flight: it is the owner's if it was alone.
LEMMA WriteKeepsFile ==
  ASSUME FileIsSound, phase' = phase, NEW s \in saves, WriteText(s)
  PROVE  FileIsSound'
<1>1. /\ s.opened /\ file' = Over(s.text, file) /\ saves' = saves \ {s}
      /\ owner' = IF s.shared THEN None ELSE s.by
      /\ kept' = kept /\ changes' = changes
  BY DEF WriteText
<1>2. FileTypeOK /\ s \in Save /\ s.by \in Procs /\ s.text \in Stores
  BY DEF FileIsSound, FileTypeOK, Save
<1>4. FileTypeOK'
  <2>1. file' \in [reads : Stores, size : Nat]
    BY <1>1, <1>2, OverEmpty DEF FileTypeOK
  <2>2. QED
    BY <1>1, <1>2, <2>1 DEF FileTypeOK
<1>5. SavesAreSound'
  <2>1. \A t \in saves' : t.shared
    BY <1>1 DEF FileIsSound, SavesAreSound
  <2>2. QED
    BY <1>1, <2>1 DEF FileIsSound, SavesAreSound, HasStarted
<1>6. FileIsItsOwners'
  <2>1. CASE s.shared
    BY <1>1, <2>1 DEF FileIsItsOwners
  <2>2. CASE ~s.shared
    <3>1. file.size = 0 /\ s.text = kept[s.by]
      BY <1>1, <2>2 DEF FileIsSound, SavesAreSound
    <3>2. file'.reads = s.text
      BY <1>1, <1>2, <3>1, OverEmpty DEF FileTypeOK
    <3>3. QED
      BY <1>1, <2>2, <3>1, <3>2 DEF FileIsItsOwners
  <2>3. QED
    BY <2>1, <2>2
<1>7. QED
  BY <1>4, <1>5, <1>6 DEF FileIsSound

LEMMA FileStays ==
  ASSUME FileIsSound, UNCHANGED <<file, kept, saves, owner>>, changes' \in changes .. MaxChanges,
         \A q \in Procs : HasStarted(q) => HasStarted(q)'
  PROVE  FileIsSound'
<1>1. FileTypeOK /\ changes \in Nat /\ MaxChanges \in Nat
  BY RestartAssumption DEF FileIsSound, FileTypeOK
<1>2. FileTypeOK'
  BY <1>1 DEF FileTypeOK
<1>3. SavesAreSound'
  <2>1. \A s \in saves : s.by \in Procs /\ s.no \in Nat
    BY <1>1 DEF FileTypeOK, Save
  <2>2. \A s \in saves : HasStarted(s.by)' /\ s.no <= changes'
    BY <1>1, <2>1 DEF FileIsSound, SavesAreSound
  <2>3. QED
    BY <2>2 DEF FileIsSound, SavesAreSound
<1>4. FileIsItsOwners'
  BY DEF FileIsSound, FileIsItsOwners
<1>5. QED
  BY <1>2, <1>3, <1>4 DEF FileIsSound

\* The end of processes: what is left in flight is of others.
LEMMA LoseKeepsFile ==
  ASSUME FileIsSound, NEW ps \in SUBSET Procs, Lose(ps),
         \A q \in Procs \ ps : HasStarted(q) => HasStarted(q)'
  PROVE  FileIsSound' /\ \A q \in Procs \ ps : kept'[q] = kept[q]
<1>1. /\ saves' = {s \in saves : s.by \notin ps}
      /\ owner' = IF \E s \in saves : s.by \in ps THEN None ELSE owner
      /\ kept' = [p \in Procs |-> IF p \in ps /\ p # owner' THEN None ELSE kept[p]]
      /\ file' = file /\ changes' = changes
  BY DEF Lose
<1>2. FileTypeOK
  BY DEF FileIsSound
<1>3. /\ kept' \in [Procs -> Stores \cup {None}]
      /\ \A q \in Procs : q \notin ps \/ q = owner' => kept'[q] = kept[q]
  BY <1>1, <1>2 DEF FileTypeOK
<1>4. FileTypeOK'
  <2>1. owner' \in Procs \cup {None}
    BY <1>1, <1>2 DEF FileTypeOK
  <2>2. QED
    BY <1>1, <1>2, <1>3, <2>1 DEF FileTypeOK
<1>5. SavesAreSound'
  <2>1. \A s \in saves' : s \in saves /\ s.by \in Procs \ ps /\ kept'[s.by] = kept[s.by]
    BY <1>1, <1>2, <1>3 DEF FileTypeOK, Save
  <2>2. QED
    BY <1>1, <2>1 DEF FileIsSound, SavesAreSound
<1>6. FileIsItsOwners'
  <2> SUFFICES ASSUME saves' = {}, owner' # None
               PROVE  file'.reads = kept'[owner']
    BY DEF FileIsItsOwners
  <2>1. owner' = owner /\ saves = {}
    BY <1>1
  <2>2. owner \in Procs /\ kept'[owner] = kept[owner]
    BY <1>2, <1>3, <2>1 DEF FileTypeOK
  <2>3. QED
    BY <1>1, <2>1, <2>2 DEF FileIsSound, FileIsItsOwners
<1>7. QED
  BY <1>3, <1>4, <1>5, <1>6 DEF FileIsSound

-----------------------------------------------------------------------------
(* The memory of a process.                                                *)

SessionsOf(p) == [tokens : [Clis -> {None, p}], cli : Clis \cup {None}]
TurnsOf(p)    == [cli : Clis, resume : {None, p}]
Commands      == [step : {"idle", "sync", "clear"}, cli : Clis \cup {None},
                  save : (1 .. MaxChanges) \cup {None}]

LEMMA MemoryHolds ==
  ASSUME StoreInv, NEW p \in Procs
  PROVE  /\ session[p] \in SessionsOf(p) /\ newCmd[p] \in Commands
         /\ turn[p] # None => turn[p] \in TurnsOf(p) /\ HasStarted(p)
         /\ newCmd[p].step # "idle" => newCmd[p].cli \in Clis /\ HasStarted(p)
         /\ HasStarted(p) => kept[p] \in Stores
<1>1. ProcessIsSound(p)
  BY DEF StoreInv, ProcessesAreSound
<1>2. session[p] \in [tokens : [Clis -> Procs \cup {None}], cli : Clis \cup {None}]
  BY DEF StoreInv, StoreTypeOK
<1>3. session[p] \in SessionsOf(p)
  <2>1. session[p].tokens \in [Clis -> {None, p}]
    BY <1>1, <1>2 DEF ProcessIsSound
  <2>2. QED
    BY <1>2, <2>1 DEF SessionsOf
<1>4. turn[p] \in [cli : Clis, resume : Procs \cup {None}] \cup {None} /\ newCmd[p] \in Commands
  BY DEF StoreInv, StoreTypeOK, Commands
<1>5. turn[p] # None => turn[p] \in TurnsOf(p) /\ HasStarted(p)
  BY <1>1, <1>4 DEF ProcessIsSound, TurnsOf
<1>6. newCmd[p].step # "idle" => newCmd[p].cli \in Clis /\ HasStarted(p)
  BY <1>1, <1>4 DEF ProcessIsSound, Commands
<1>7. QED
  BY <1>1, <1>3, <1>4, <1>5, <1>6 DEF ProcessIsSound

\* What one process does to its own memory, and to its store.
LEMMA MemoryKeeps ==
  ASSUME StoreInv, NEW p \in Procs, HasStarted(p), phase' = phase,
         kept'[p] \in Stores, \A q \in Procs : q # p => kept'[q] = kept[q],
         NEW se \in SessionsOf(p), session' = [session EXCEPT ![p] = se],
         NEW tu \in TurnsOf(p) \cup {None}, turn' = [turn EXCEPT ![p] = tu],
         NEW nc \in Commands, newCmd' = [newCmd EXCEPT ![p] = nc],
         nc.step # "idle" => nc.cli # None
  PROVE  MemoryTypeOK' /\ ProcessesAreSound'
<1>1. MemoryTypeOK
  BY StoreInvParts
<1>2. /\ session'[p] = se /\ turn'[p] = tu /\ newCmd'[p] = nc
      /\ \A q \in Procs : q # p => /\ session'[q] = session[q] /\ turn'[q] = turn[q]
                                   /\ newCmd'[q] = newCmd[q]
  BY <1>1 DEF MemoryTypeOK
<1>3. se \in [tokens : [Clis -> Procs \cup {None}], cli : Clis \cup {None}]
  BY DEF SessionsOf
<1>4. tu \in [cli : Clis, resume : Procs \cup {None}] \cup {None}
  BY DEF TurnsOf
<1>5. MemoryTypeOK'
  BY <1>1, <1>3, <1>4 DEF MemoryTypeOK, Commands
<1>6. ASSUME NEW q \in Procs
      PROVE  ProcessIsSound(q)'
  <2>1. CASE q = p
    <3>1. \A c \in Clis : se.tokens[c] \in {None, p}
      BY DEF SessionsOf
    <3>2. tu # None => tu.resume \in {None, p}
      BY DEF TurnsOf
    <3>3. QED
      BY <1>2, <2>1, <3>1, <3>2 DEF ProcessIsSound, HasStarted
  <2>2. CASE q # p
    <3>1. ProcessIsSound(q)
      BY DEF StoreInv, ProcessesAreSound
    <3>2. QED
      BY <1>2, <2>2, <3>1 DEF ProcessIsSound, HasStarted
  <2>3. QED
    BY <2>1, <2>2
<1>7. QED
  BY <1>5, <1>6 DEF ProcessesAreSound

\* What a process does not touch is as if it wrote it again.
LEMMA MemoryStays ==
  ASSUME StoreInv, NEW p \in Procs
  PROVE  /\ session = [session EXCEPT ![p] = session[p]]
         /\ turn = [turn EXCEPT ![p] = turn[p]]
         /\ newCmd = [newCmd EXCEPT ![p] = newCmd[p]]
         /\ kept = [kept EXCEPT ![p] = kept[p]]
BY DEF StoreInv, StoreTypeOK

\* A command that saves, and one that does not.
LEMMA SavingKeeps ==
  ASSUME StoreInv, NEW p \in Procs, HasStarted(p), phase' = phase,
         NEW v \in Stores, Persist(p, v),
         NEW se \in SessionsOf(p), session' = [session EXCEPT ![p] = se],
         NEW tu \in TurnsOf(p) \cup {None}, turn' = [turn EXCEPT ![p] = tu],
         NEW nc \in Commands, newCmd' = [newCmd EXCEPT ![p] = nc],
         nc.step # "idle" => nc.cli # None
  PROVE  StoreInv'
<1>1. FileIsSound
  BY StoreInvParts
<1>2. FileIsSound' /\ kept' = [kept EXCEPT ![p] = v]
  BY <1>1, PersistKeepsFile
<1>3. kept'[p] = v /\ \A q \in Procs : q # p => kept'[q] = kept[q]
  BY <1>1, <1>2 DEF FileIsSound, FileTypeOK
<1>4. MemoryTypeOK' /\ ProcessesAreSound'
  BY <1>3, MemoryKeeps
<1>5. QED
  BY <1>2, <1>4, StoreInvParts, PTL

LEMMA UnsavedKeeps ==
  ASSUME StoreInv, NEW p \in Procs, HasStarted(p), phase' = phase,
         UNCHANGED <<file, kept, saves, owner>>, changes' \in changes .. MaxChanges,
         NEW se \in SessionsOf(p), session' = [session EXCEPT ![p] = se],
         NEW tu \in TurnsOf(p) \cup {None}, turn' = [turn EXCEPT ![p] = tu],
         NEW nc \in Commands, newCmd' = [newCmd EXCEPT ![p] = nc],
         nc.step # "idle" => nc.cli # None
  PROVE  StoreInv'
<1>1. FileIsSound
  BY StoreInvParts
<1>2. FileIsSound'
  BY <1>1, FileStays DEF HasStarted
<1>3. kept'[p] \in Stores /\ \A q \in Procs : q # p => kept'[q] = kept[q]
  BY MemoryHolds
<1>4. MemoryTypeOK' /\ ProcessesAreSound'
  BY <1>3, MemoryKeeps
<1>5. QED
  BY <1>2, <1>4, StoreInvParts, PTL

-----------------------------------------------------------------------------
(* Every step keeps the invariant.                                         *)

LEMMA LookupIsACli ==
  ASSUME StoreInv, NEW p \in Procs, kept[p] \in Stores
  PROVE  /\ FirstOf(FirstOf(kept[p].cli, session[p].cli), DefaultCli) \in Clis
         /\ \A c \in Clis : FirstOf(session[p].cli, c) \in Clis
BY MemoryHolds, RestartAssumption DEF FirstOf, Stores, SessionsOf

\* The token of one CLI, as the store and the session hold it.
LEMMA TokenIsSet ==
  ASSUME NEW p \in Procs, NEW c \in Clis, NEW x \in {None, p}
  PROVE  /\ \A v \in Stores : [v EXCEPT !.tokens[c] = x] \in Stores
         /\ \A se \in SessionsOf(p) : [se EXCEPT !.tokens[c] = x] \in SessionsOf(p)
<1>1. ASSUME NEW v \in Stores
      PROVE  [v EXCEPT !.tokens[c] = x] \in Stores
  <2>1. [v.tokens EXCEPT ![c] = x] \in [Clis -> Procs \cup {None}]
    BY DEF Stores
  <2>2. [v EXCEPT !.tokens[c] = x] = [v EXCEPT !.tokens = [v.tokens EXCEPT ![c] = x]]
    BY DEF Stores
  <2>3. QED
    BY <2>1, <2>2 DEF Stores
<1>2. ASSUME NEW se \in SessionsOf(p)
      PROVE  [se EXCEPT !.tokens[c] = x] \in SessionsOf(p)
  <2>1. [se.tokens EXCEPT ![c] = x] \in [Clis -> {None, p}]
    BY DEF SessionsOf
  <2>2. [se EXCEPT !.tokens[c] = x] = [se EXCEPT !.tokens = [se.tokens EXCEPT ![c] = x]]
    BY DEF SessionsOf
  <2>3. QED
    BY <2>1, <2>2 DEF SessionsOf
<1>3. QED
  BY <1>1, <1>2

LEMMA UseKeeps ==
  ASSUME StoreInv, NEW p \in Procs, NEW c \in Clis, HasStarted(p), phase' = phase, Use(p, c)
  PROVE  StoreInv'
<1> DEFINE se == [session[p] EXCEPT !.cli = c]
           v == [kept[p] EXCEPT !.cli = c]
<1>1. session' = [session EXCEPT ![p] = se] /\ Persist(p, v)
  BY DEF Use, StoreInv, StoreTypeOK
<1>2. se \in SessionsOf(p) /\ v \in Stores
  BY MemoryHolds DEF SessionsOf, Stores
<1> HIDE DEF se, v
<1>3. turn' = [turn EXCEPT ![p] = turn[p]] /\ newCmd' = [newCmd EXCEPT ![p] = newCmd[p]]
  BY MemoryStays DEF Use
<1>4. QED
  BY <1>1, <1>2, <1>3, MemoryHolds, RestartAssumption, SavingKeeps

LEMMA SetStreamingKeeps ==
  ASSUME StoreInv, NEW p \in Procs, HasStarted(p), phase' = phase, SetStreaming(p)
  PROVE  StoreInv'
<1> DEFINE b == ~kept[p].streaming
           v == [kept[p] EXCEPT !.streaming = b]
<1>1. Persist(p, v)
  BY DEF SetStreaming
<1>2. b \in BOOLEAN
  OBVIOUS
<1> HIDE DEF b
<1>3. v \in Stores
  BY <1>2, MemoryHolds DEF Stores
<1> HIDE DEF v
<1>4. /\ session' = [session EXCEPT ![p] = session[p]]
      /\ turn' = [turn EXCEPT ![p] = turn[p]] /\ newCmd' = [newCmd EXCEPT ![p] = newCmd[p]]
  BY MemoryStays DEF SetStreaming
<1>5. QED
  BY <1>1, <1>3, <1>4, MemoryHolds, RestartAssumption, SavingKeeps

LEMMA BeginTurnKeeps ==
  ASSUME StoreInv, NEW p \in Procs, HasStarted(p), phase' = phase, BeginTurn(p)
  PROVE  StoreInv'
<1> DEFINE c == FirstOf(FirstOf(kept[p].cli, session[p].cli), DefaultCli)
           tu == [cli |-> c, resume |-> session[p].tokens[c]]
<1>1. /\ turn' = [turn EXCEPT ![p] = tu]
      /\ UNCHANGED <<file, kept, session, newCmd, saves, changes, owner>>
  BY DEF BeginTurn
<1>2. c \in Clis
  BY MemoryHolds, LookupIsACli
<1> HIDE DEF c
<1>3. tu \in TurnsOf(p)
  BY <1>2, MemoryHolds DEF TurnsOf, SessionsOf
<1> HIDE DEF tu
<1>4. /\ session' = [session EXCEPT ![p] = session[p]]
      /\ newCmd' = [newCmd EXCEPT ![p] = newCmd[p]]
  BY <1>1, MemoryStays
<1>5. UNCHANGED <<file, kept, saves, owner>> /\ changes' \in changes .. MaxChanges
  BY <1>1, RestartAssumption DEF StoreInv, StoreTypeOK
<1>6. session[p] \in SessionsOf(p)
  BY MemoryHolds
<1>7. newCmd[p] \in Commands /\ (newCmd[p].step # "idle" => newCmd[p].cli # None)
  BY MemoryHolds, RestartAssumption
<1>8. QED
  BY <1>1, <1>3, <1>4, <1>5, <1>6, <1>7, UnsavedKeeps

LEMMA StartedKeeps ==
  ASSUME StoreInv, NEW p \in Procs, phase' = phase, Started(p)
  PROVE  StoreInv'
<1> DEFINE c == turn[p].cli
           se == [session[p] EXCEPT !.tokens[c] = p]
<1>1. /\ turn[p] # None /\ changes < MaxChanges /\ changes' = changes + 1
      /\ UNCHANGED <<file, kept, turn, newCmd, saves, owner>>
  BY DEF Started
<1>2. session' = [session EXCEPT ![p] = se]
  BY DEF Started, StoreInv, StoreTypeOK
<1>3. HasStarted(p) /\ c \in Clis
  BY <1>1, MemoryHolds DEF TurnsOf
<1> HIDE DEF c
<1>4. se \in SessionsOf(p)
  BY <1>3, MemoryHolds, TokenIsSet
<1> HIDE DEF se
<1>5. /\ turn' = [turn EXCEPT ![p] = turn[p]]
      /\ newCmd' = [newCmd EXCEPT ![p] = newCmd[p]]
  BY <1>1, MemoryStays
<1>6. UNCHANGED <<file, kept, saves, owner>> /\ changes' \in changes .. MaxChanges
  BY <1>1, RestartAssumption DEF StoreInv, StoreTypeOK
<1>7. turn[p] \in TurnsOf(p) \cup {None}
  BY MemoryHolds
<1>8. newCmd[p] \in Commands /\ (newCmd[p].step # "idle" => newCmd[p].cli # None)
  BY MemoryHolds, RestartAssumption
<1>9. QED
  BY <1>2, <1>3, <1>4, <1>5, <1>6, <1>7, <1>8, UnsavedKeeps

LEMMA CompletedKeeps ==
  ASSUME StoreInv, NEW p \in Procs, phase' = phase, Completed(p)
  PROVE  StoreInv'
<1> DEFINE c == turn[p].cli
           se == [session[p] EXCEPT !.tokens[c] = p]
           v == [kept[p] EXCEPT !.tokens[c] = p]
<1>1. turn[p] # None /\ Persist(p, v) /\ turn' = [turn EXCEPT ![p] = None] /\ newCmd' = newCmd
  BY DEF Completed
<1>2. session' = [session EXCEPT ![p] = se]
  BY DEF Completed, StoreInv, StoreTypeOK
<1>3. HasStarted(p) /\ c \in Clis
  BY <1>1, MemoryHolds DEF TurnsOf
<1> HIDE DEF c
<1>4. se \in SessionsOf(p) /\ v \in Stores
  BY <1>3, MemoryHolds, TokenIsSet
<1> HIDE DEF se, v
<1>5. newCmd' = [newCmd EXCEPT ![p] = newCmd[p]]
  BY <1>1, MemoryStays
<1>6. newCmd[p] \in Commands /\ (newCmd[p].step # "idle" => newCmd[p].cli # None)
  BY MemoryHolds, RestartAssumption
<1>7. None \in TurnsOf(p) \cup {None}
  OBVIOUS
<1>8. QED
  BY <1>1, <1>2, <1>3, <1>4, <1>5, <1>6, <1>7, SavingKeeps

LEMMA EndsWithoutKeeps ==
  ASSUME StoreInv, NEW p \in Procs, phase' = phase, EndsWithout(p)
  PROVE  StoreInv'
<1>1. /\ turn[p] # None /\ turn' = [turn EXCEPT ![p] = None]
      /\ UNCHANGED <<file, kept, session, newCmd, saves, changes, owner>>
  BY DEF EndsWithout
<1>2. /\ session' = [session EXCEPT ![p] = session[p]]
      /\ newCmd' = [newCmd EXCEPT ![p] = newCmd[p]]
  BY <1>1, MemoryStays
<1>3. UNCHANGED <<file, kept, saves, owner>> /\ changes' \in changes .. MaxChanges
  BY <1>1, RestartAssumption DEF StoreInv, StoreTypeOK
<1>4. session[p] \in SessionsOf(p) /\ HasStarted(p)
  BY <1>1, MemoryHolds
<1>5. newCmd[p] \in Commands /\ (newCmd[p].step # "idle" => newCmd[p].cli # None)
  BY MemoryHolds, RestartAssumption
<1>6. None \in TurnsOf(p) \cup {None} /\ turn' = [turn EXCEPT ![p] = None]
  BY <1>1
<1>7. QED
  BY <1>2, <1>3, <1>4, <1>5, <1>6, UnsavedKeeps

LEMMA NewBeginKeeps ==
  ASSUME StoreInv, NEW p \in Procs, HasStarted(p), phase' = phase, NewBegin(p)
  PROVE  StoreInv'
<1> DEFINE d == IF turn[p] # None THEN turn[p].cli ELSE DefaultCli
           c == FirstOf(session[p].cli, d)
           nc == [step |-> "sync", save |-> None, cli |-> c]
<1>1. /\ newCmd' = [newCmd EXCEPT ![p] = nc]
      /\ UNCHANGED <<file, kept, session, turn, saves, changes, owner>>
  BY DEF NewBegin
<1>2. d \in Clis
  BY MemoryHolds, RestartAssumption DEF TurnsOf
<1> HIDE DEF d
<1>3. c \in Clis
  BY <1>2, MemoryHolds, LookupIsACli
<1> HIDE DEF c
<1>4. nc \in Commands /\ nc.cli # None
  BY <1>3, RestartAssumption DEF Commands
<1> HIDE DEF nc
<1>5. /\ session' = [session EXCEPT ![p] = session[p]] /\ turn' = [turn EXCEPT ![p] = turn[p]]
  BY <1>1, MemoryStays
<1>6. UNCHANGED <<file, kept, saves, owner>> /\ changes' \in changes .. MaxChanges
  BY <1>1, RestartAssumption DEF StoreInv, StoreTypeOK
<1>7. session[p] \in SessionsOf(p) /\ turn[p] \in TurnsOf(p) \cup {None}
  BY MemoryHolds
<1>8. QED
  BY <1>1, <1>4, <1>5, <1>6, <1>7, UnsavedKeeps

LEMMA NewClearsOneKeeps ==
  ASSUME StoreInv, NEW p \in Procs, phase' = phase, NewClearsOne(p)
  PROVE  StoreInv'
<1> DEFINE c == newCmd[p].cli
           se == [session[p] EXCEPT !.tokens[c] = None]
           v == [kept[p] EXCEPT !.tokens[c] = None]
           x == IF kept[p].tokens[c] # None THEN changes' ELSE None
           nc == [newCmd[p] EXCEPT !.step = "clear", !.save = x]
<1>1. /\ newCmd[p].step = "sync" /\ turn' = turn
      /\ IF kept[p].tokens[c] # None THEN Persist(p, v)
         ELSE UNCHANGED <<file, kept, saves, changes, owner>>
  BY DEF NewClearsOne
<1>2. session' = [session EXCEPT ![p] = se]
  BY DEF NewClearsOne, StoreInv, StoreTypeOK
<1>3. newCmd' = [newCmd EXCEPT ![p] = nc]
  BY DEF NewClearsOne, StoreInv, StoreTypeOK
<1>4. HasStarted(p) /\ c \in Clis /\ kept[p] \in Stores
  BY <1>1, MemoryHolds
<1>5. x \in (1 .. MaxChanges) \cup {None}
  BY <1>1, PersistKeepsFile, <1>4, TokenIsSet, StoreInvParts
<1>6. nc.cli = c /\ nc \in Commands
  BY <1>5, MemoryHolds DEF Commands
<1> HIDE DEF c, x
<1>7. se \in SessionsOf(p) /\ v \in Stores
  BY <1>4, MemoryHolds, TokenIsSet
<1> HIDE DEF se, v, nc
<1>8. turn' = [turn EXCEPT ![p] = turn[p]] /\ turn[p] \in TurnsOf(p) \cup {None}
  BY <1>1, MemoryStays, MemoryHolds
<1>9. CASE kept[p].tokens[c] # None
  BY <1>1, <1>2, <1>3, <1>4, <1>6, <1>7, <1>8, <1>9, RestartAssumption, SavingKeeps
<1>10. CASE ~(kept[p].tokens[c] # None)
  <2>1. UNCHANGED <<file, kept, saves, owner>> /\ changes' \in changes .. MaxChanges
    BY <1>1, <1>10, RestartAssumption DEF StoreInv, StoreTypeOK
  <2>2. QED
    BY <1>2, <1>3, <1>4, <1>6, <1>7, <1>8, <2>1, RestartAssumption, UnsavedKeeps
<1>11. QED
  BY <1>9, <1>10

LEMMA NewClearsAllKeeps ==
  ASSUME StoreInv, NEW p \in Procs, phase' = phase, NewClearsAll(p)
  PROVE  StoreInv'
<1> DEFINE se == [session[p] EXCEPT !.tokens = NoTokens]
           v == [kept[p] EXCEPT !.tokens = NoTokens]
<1>1. /\ newCmd[p].step = "clear" /\ turn' = turn /\ newCmd' = [newCmd EXCEPT ![p] = IdleNew]
      /\ IF kept[p].tokens # NoTokens THEN Persist(p, v)
         ELSE UNCHANGED <<file, kept, saves, changes, owner>>
  BY DEF NewClearsAll
<1>2. session' = [session EXCEPT ![p] = se]
  BY DEF NewClearsAll, StoreInv, StoreTypeOK
<1>3. HasStarted(p) /\ kept[p] \in Stores
  BY <1>1, MemoryHolds
<1>4. NoTokens \in [Clis -> Procs \cup {None}] /\ NoTokens \in [Clis -> {None, p}]
  BY DEF NoTokens
<1>5. se \in SessionsOf(p) /\ v \in Stores
  BY <1>3, <1>4, MemoryHolds DEF SessionsOf, Stores
<1>6. IdleNew \in Commands /\ IdleNew.step = "idle"
  BY DEF IdleNew, Commands
<1> HIDE DEF se, v
<1>7. turn' = [turn EXCEPT ![p] = turn[p]] /\ turn[p] \in TurnsOf(p) \cup {None}
  BY <1>1, MemoryStays, MemoryHolds
<1>8. CASE kept[p].tokens # NoTokens
  BY <1>1, <1>2, <1>3, <1>5, <1>6, <1>7, <1>8, SavingKeeps
<1>9. CASE ~(kept[p].tokens # NoTokens)
  <2>1. UNCHANGED <<file, kept, saves, owner>> /\ changes' \in changes .. MaxChanges
    BY <1>1, <1>9, RestartAssumption DEF StoreInv, StoreTypeOK
  <2>2. QED
    BY <1>1, <1>2, <1>3, <1>5, <1>6, <1>7, <2>1, UnsavedKeeps
<1>10. QED
  BY <1>8, <1>9

\* The load, by a process that has not started: what the file says is a store.
LEMMA LoadsStoreKeeps ==
  ASSUME StoreInv, NEW p \in Procs, LoadsStore(p)
  PROVE  StoreInv'
<1>1. /\ Load(p) /\ phase' = phase /\ ~HasStarted(p)
      /\ UNCHANGED <<session, turn, newCmd>>
  BY DEF LoadsStore, Load, gatewayVars, HasStarted
<1>2. FileIsSound /\ MemoryTypeOK /\ ProcessesAreSound
  BY StoreInvParts
<1>3. FileIsSound' /\ kept' = [kept EXCEPT ![p] = file.reads]
  BY <1>1, <1>2, LoadKeepsFile
<1>4. MemoryTypeOK'
  BY <1>1, <1>2 DEF MemoryTypeOK
<1>5. ASSUME NEW q \in Procs
      PROVE  ProcessIsSound(q)'
  <2>1. ProcessIsSound(q)
    BY <1>2 DEF ProcessesAreSound
  <2>2. HasStarted(q) => kept'[q] = kept[q]
    BY <1>1, <1>2, <1>3 DEF FileIsSound, FileTypeOK
  <2>3. QED
    BY <1>1, <2>1, <2>2 DEF ProcessIsSound, HasStarted
<1>6. ProcessesAreSound'
  BY <1>5 DEF ProcessesAreSound
<1>7. QED
  BY <1>3, <1>4, <1>6, StoreInvParts, PTL

LEMMA WritesKeep ==
  ASSUME StoreInv, Writes
  PROVE  StoreInv'
<1>1. PICK s \in saves : OpenFile(s) \/ WriteText(s)
  BY DEF Writes
<1>2. FileIsSound /\ MemoryTypeOK /\ ProcessesAreSound
  BY StoreInvParts
<1>3. UNCHANGED <<phase, kept, session, turn, newCmd>>
  BY <1>1 DEF Writes, OpenFile, WriteText, gatewayVars
<1>4. FileIsSound'
  BY <1>1, <1>2, <1>3, OpenKeepsFile, WriteKeepsFile
<1>5. MemoryTypeOK' /\ ProcessesAreSound'
  BY <1>2, <1>3 DEF MemoryTypeOK, ProcessesAreSound, ProcessIsSound, HasStarted
<1>6. QED
  BY <1>4, <1>5, StoreInvParts, PTL

\* A step of the gateway: those that it ends lose what they had, and one that
\* starts has loaded its store.
LEMMA GatewayStepKeeps ==
  ASSUME GatewayInv, StoreInv, GatewayStep
  PROVE  StoreInv'
<1>1. /\ \A p \in Procs : phase[p] = "loading" /\ phase'[p] = "up" => kept[p] # None
      /\ IF Ending = {} THEN UNCHANGED stores ELSE Lose(Ending)
      /\ MovesOn
  BY GatewayMovesOn DEF GatewayStep, GatewayInv
<1>2. FileIsSound /\ MemoryTypeOK /\ ProcessesAreSound
  BY StoreInvParts
<1>3. \A q \in Procs \ Ending : HasStarted(q) => HasStarted(q)'
  BY <1>1 DEF MovesOn, Ending, HasStarted
<1>4. \A q \in Procs : HasStarted(q)' => HasStarted(q) \/ kept[q] # None
  BY <1>1 DEF MovesOn
<1>5. kept \in [Procs -> Stores \cup {None}]
  BY <1>2 DEF FileIsSound, FileTypeOK
<1>6. CASE Ending = {}
  <2>1. UNCHANGED <<file, kept, session, turn, newCmd, saves, changes, owner>>
    BY <1>1, <1>6 DEF stores
  <2>2. FileIsSound'
    BY <1>2, <1>3, <1>6, <2>1, FileStays, RestartAssumption DEF FileIsSound, FileTypeOK
  <2>3. MemoryTypeOK'
    BY <1>2, <2>1 DEF MemoryTypeOK
  <2>4. ASSUME NEW q \in Procs
        PROVE  ProcessIsSound(q)'
    <3>1. ProcessIsSound(q)
      BY <1>2 DEF ProcessesAreSound
    <3>2. HasStarted(q) => HasStarted(q)'
      BY <1>3, <1>6
    <3>3. QED
      BY <1>4, <1>5, <2>1, <3>1, <3>2 DEF ProcessIsSound
  <2>5. ProcessesAreSound'
    BY <2>4 DEF ProcessesAreSound
  <2>6. QED
    BY <2>2, <2>3, <2>5, StoreInvParts, PTL
<1>7. CASE Ending # {}
  <2>1. /\ Lose(Ending) /\ Ending \in SUBSET Procs
        /\ turn' = [p \in Procs |-> IF p \in Ending THEN None ELSE turn[p]]
        /\ newCmd' = [p \in Procs |-> IF p \in Ending THEN IdleNew ELSE newCmd[p]]
        /\ session' = [p \in Procs |-> IF p \in Ending THEN FreshSession ELSE session[p]]
    BY <1>1, <1>7 DEF Lose, Ending
  <2>2. FileIsSound' /\ \A q \in Procs \ Ending : kept'[q] = kept[q]
    BY <1>2, <1>3, <2>1, LoseKeepsFile
  <2>3. /\ FreshSession \in [tokens : [Clis -> Procs \cup {None}], cli : Clis \cup {None}]
        /\ \A c \in Clis : FreshSession.tokens[c] = None
        /\ IdleNew \in [step : {"idle", "sync", "clear"}, cli : Clis \cup {None},
                        save : (1 .. MaxChanges) \cup {None}]
        /\ IdleNew.step = "idle"
    BY DEF FreshSession, NoTokens, IdleNew
  <2>4. MemoryTypeOK'
    BY <1>2, <2>1, <2>3 DEF MemoryTypeOK
  <2>5. ASSUME NEW q \in Procs
        PROVE  ProcessIsSound(q)'
    <3>1. CASE q \in Ending
      <4>1. ~HasStarted(q)'
        BY <3>1 DEF Ending, HasStarted
      <4>2. turn'[q] = None /\ newCmd'[q] = IdleNew /\ session'[q] = FreshSession
        BY <2>1, <3>1
      <4>3. QED
        BY <2>3, <4>1, <4>2 DEF ProcessIsSound
    <3>2. CASE q \notin Ending
      <4>1. ProcessIsSound(q)
        BY <1>2 DEF ProcessesAreSound
      <4>2. /\ turn'[q] = turn[q] /\ newCmd'[q] = newCmd[q] /\ session'[q] = session[q]
            /\ kept'[q] = kept[q]
        BY <2>1, <2>2, <3>2
      <4>3. HasStarted(q) => HasStarted(q)'
        BY <1>3, <3>2
      <4>4. QED
        BY <1>4, <1>5, <4>1, <4>2, <4>3 DEF ProcessIsSound
    <3>3. QED
      BY <3>1, <3>2
  <2>6. ProcessesAreSound'
    BY <2>5 DEF ProcessesAreSound
  <2>7. QED
    BY <2>2, <2>4, <2>6, StoreInvParts, PTL
<1>8. QED
  BY <1>6, <1>7

LEMMA StoreInitHolds == Init => IInv
<1> SUFFICES ASSUME Init PROVE StoreInv
  BY InitHolds DEF Init, IInv
<1>1. StoreInit
  BY DEF Init
<1>2. NoTokens \in [Clis -> Procs \cup {None}] /\ \A c \in Clis : NoTokens[c] = None
  BY DEF NoTokens
<1>3. FreshSession \in [tokens : [Clis -> Procs \cup {None}], cli : Clis \cup {None}]
  BY <1>2 DEF FreshSession
<1>4. StoreTypeOK
  BY <1>1, <1>3, StoresAreSized, RestartAssumption DEF StoreInit, StoreTypeOK, IdleNew
<1>5. ProcessesAreSound
  <2>1. \A p \in Procs : ~HasStarted(p)
    BY DEF Init, GatewayInit, HasStarted
  <2>2. QED
    BY <1>1, <1>2, <2>1 DEF StoreInit, ProcessesAreSound, ProcessIsSound, FreshSession, IdleNew
<1>6. SavesAreSound /\ FileIsItsOwners
  BY <1>1 DEF StoreInit, SavesAreSound, FileIsItsOwners
<1>7. QED
  BY <1>4, <1>5, <1>6 DEF StoreInv

LEMMA IInvKept ==
  ASSUME IInv, [Next]_vars
  PROVE  IInv'
<1>1. GatewayInv /\ StoreInv
  BY DEF IInv
<1>2. ASSUME UNCHANGED gatewayVars
      PROVE  GatewayInv'
  BY <1>1, <1>2, NextKeeps
<1>3. CASE GatewayStep
  BY <1>1, <1>3, GatewayStepKeeps, NextKeeps DEF GatewayStep, IInv
<1>4. ASSUME NEW p \in Procs, LoadsStore(p)
      PROVE  IInv'
  BY <1>1, <1>2, <1>4, LoadsStoreKeeps DEF LoadsStore, IInv
<1>5. ASSUME NEW p \in Procs, Commanded(p)
      PROVE  IInv'
  <2>1. phase' = phase /\ HasStarted(p) /\ UNCHANGED gatewayVars
    BY <1>1, <1>5 DEF Commanded, Connected, GatewayInv, OnlyTheLivingHandle, gatewayVars
  <2>2. StoreInv'
    BY <1>1, <1>5, <2>1, UseKeeps, SetStreamingKeeps, BeginTurnKeeps, NewBeginKeeps DEF Commanded
  <2>3. QED
    BY <1>2, <2>1, <2>2 DEF IInv
<1>6. ASSUME NEW p \in Procs, GoesOn(p)
      PROVE  IInv'
  <2>1. phase' = phase /\ UNCHANGED gatewayVars
    BY <1>6 DEF GoesOn, gatewayVars
  <2>2. StoreInv'
    BY <1>1, <1>6, <2>1, StartedKeeps, CompletedKeeps, EndsWithoutKeeps, NewClearsOneKeeps,
       NewClearsAllKeeps DEF GoesOn
  <2>3. QED
    BY <1>2, <2>1, <2>2 DEF IInv
<1>7. CASE Writes
  BY <1>1, <1>2, <1>7, WritesKeep DEF Writes, IInv
<1>8. CASE UNCHANGED vars
  <2>1. UNCHANGED gatewayVars /\ UNCHANGED stores /\ phase' = phase
    BY <1>8 DEF vars, gatewayVars
  <2>2. UNCHANGED <<file, kept, session, turn, newCmd, saves, changes, owner>>
    BY <2>1 DEF stores
  <2>3. StoreInv'
    BY <1>1, <2>1, <2>2 DEF StoreInv, StoreTypeOK, ProcessesAreSound, ProcessIsSound,
       SavesAreSound, FileIsItsOwners, HasStarted
  <2>4. QED
    BY <1>2, <2>1, <2>3 DEF IInv
<1>9. QED
  BY <1>3, <1>4, <1>5, <1>6, <1>7, <1>8 DEF Next

-----------------------------------------------------------------------------
(* What a run resumes.                                                     *)

Names(v, p) == \E c \in Clis : v.tokens[c] = p

\* A process that has told no run its token yet, and may still.
Unheard(p) == ~HasStarted(p) /\ phase[p] # "dead"

NotStored(p) ==
  /\ ~Names(file.reads, p)
  /\ \A s \in saves : ~Names(s.text, p)
  /\ \A q \in Procs : kept[q] # None => ~Names(kept[q], p)

\* The process's sessions know each token of its own that its store has.
KnowsOf(p, v, se) == \A c \in Clis : v.tokens[c] = p => se.tokens[c] = p
Knows(p) == KnowsOf(p, kept[p], session[p])

\* A store with the tokens that process p had, less some, and its own.
IsNextOf(p, v) == \A c \in Clis : v.tokens[c] \in {kept[p].tokens[c], p, None}

TokenInv == \A p \in Procs : (Unheard(p) => NotStored(p)) /\ (HasStarted(p) => Knows(p))

\* A step of the started process p that saves v: of its tokens, only p's own are new.
LEMMA SavingTellsTokens ==
  ASSUME StoreInv, TokenInv, NEW p \in Procs, HasStarted(p), phase' = phase,
         NEW v \in Stores, Persist(p, v),
         IsNextOf(p, v),
         NEW se \in SessionsOf(p), session' = [session EXCEPT ![p] = se],
         KnowsOf(p, v, se)
  PROVE  TokenInv'
<1>1. /\ kept[p] \in Stores /\ kept \in [Procs -> Stores \cup {None}]
      /\ saves \subseteq Save
      /\ session \in [Procs -> [tokens : [Clis -> Procs \cup {None}], cli : Clis \cup {None}]]
  BY MemoryHolds DEF StoreInv, StoreTypeOK
<1>2. /\ file' = file /\ kept' = [kept EXCEPT ![p] = v]
      /\ saves' = {[s EXCEPT !.shared = TRUE] : s \in saves} \cup
                  {[by |-> p, no |-> changes + 1, text |-> v, opened |-> FALSE,
                    shared |-> saves # {}]}
  BY DEF Persist
<1>3. \A s \in saves' : s.text = v \/ \E t \in saves : s.text = t.text
  BY <1>1, <1>2 DEF Save
<1>4. kept'[p] = v /\ \A q \in Procs : q # p => kept'[q] = kept[q]
  BY <1>1, <1>2
<1>5. session'[p] = se /\ \A q \in Procs : q # p => session'[q] = session[q]
  BY <1>1
<1>6. \A q \in Procs : HasStarted(q)' = HasStarted(q) /\ Unheard(q)' = Unheard(q)
  BY DEF HasStarted, Unheard
<1>7. ASSUME NEW q \in Procs, Unheard(q)
      PROVE  NotStored(q)'
  <2>1. NotStored(q) /\ q # p
    BY <1>7 DEF TokenInv, Unheard
  <2>2. ~Names(kept[p], q)
    BY <1>1, <2>1, StoreAssumption DEF NotStored
  <2>3. ~Names(v, q)
    BY <2>1, <2>2, GatewayAssumption DEF Names, IsNextOf
  <2>4. ~Names(file'.reads, q)
    BY <1>2, <2>1 DEF NotStored
  <2>5. \A s \in saves' : ~Names(s.text, q)
    BY <1>3, <2>1, <2>3 DEF NotStored
  <2>6. \A r \in Procs : kept'[r] # None => ~Names(kept'[r], q)
    BY <1>4, <2>1, <2>3 DEF NotStored
  <2>7. QED
    BY <2>4, <2>5, <2>6 DEF NotStored, Names
<1>8. ASSUME NEW q \in Procs, HasStarted(q)
      PROVE  Knows(q)'
  <2>1. CASE q = p
    BY <1>4, <1>5, <2>1 DEF Knows, KnowsOf
  <2>2. CASE q # p
    BY <1>4, <1>5, <1>8, <2>2 DEF Knows, KnowsOf, TokenInv
  <2>3. QED
    BY <2>1, <2>2
<1>9. QED
  BY <1>6, <1>7, <1>8 DEF TokenInv

\* A step of the started process p that saves nothing, of its session only.
LEMMA UnsavedTellsTokens ==
  ASSUME StoreInv, TokenInv, NEW p \in Procs, HasStarted(p), phase' = phase,
         UNCHANGED <<file, kept, saves>>,
         NEW se \in SessionsOf(p), session' = [session EXCEPT ![p] = se],
         KnowsOf(p, kept[p], se)
  PROVE  TokenInv'
<1>1. session'[p] = se /\ \A q \in Procs : q # p => session'[q] = session[q]
  BY DEF StoreInv, StoreTypeOK
<1>2. \A q \in Procs : Knows(q) => Knows(q)'
  BY <1>1 DEF Knows, KnowsOf
<1>3. \A q \in Procs : NotStored(q) => NotStored(q)'
  BY DEF NotStored, Names
<1>4. QED
  BY <1>2, <1>3 DEF TokenInv, Unheard, HasStarted

\* What happens to the token of one CLI, in the store and in the session.
LEMMA TokenOfOneCli ==
  ASSUME NEW p \in Procs, NEW c \in Clis, NEW x \in {None, p},
         NEW v \in Stores, NEW se \in SessionsOf(p)
  PROVE  /\ [v EXCEPT !.tokens[c] = x].tokens = [v.tokens EXCEPT ![c] = x]
         /\ [se EXCEPT !.tokens[c] = x].tokens = [se.tokens EXCEPT ![c] = x]
         /\ v.tokens \in [Clis -> Procs \cup {None}] /\ se.tokens \in [Clis -> {None, p}]
BY DEF Stores, SessionsOf

LEMMA CommandedTellsTokens ==
  ASSUME IInv, TokenInv, NEW p \in Procs, Commanded(p)
  PROVE  TokenInv'
<1>1. /\ StoreInv /\ HasStarted(p) /\ phase' = phase
      /\ kept[p] \in Stores /\ session[p] \in SessionsOf(p)
  <2>1. StoreInv /\ HasStarted(p) /\ phase' = phase
    BY DEF IInv, Commanded, Connected, GatewayInv, OnlyTheLivingHandle, gatewayVars
  <2>2. QED
    BY <2>1, MemoryHolds
<1>2. Knows(p)
  BY <1>1 DEF TokenInv
<1>3. ASSUME NEW c \in Clis, Use(p, c)
      PROVE  TokenInv'
  <2> DEFINE se == [session[p] EXCEPT !.cli = c]
             v == [kept[p] EXCEPT !.cli = c]
  <2>1. session' = [session EXCEPT ![p] = se] /\ Persist(p, v)
    BY <1>1, <1>3 DEF Use, StoreInv, StoreTypeOK
  <2>2. se \in SessionsOf(p) /\ v \in Stores
    BY <1>1 DEF SessionsOf, Stores
  <2>3. se.tokens = session[p].tokens /\ v.tokens = kept[p].tokens
    BY <1>1 DEF SessionsOf, Stores
  <2> HIDE DEF se, v
  <2>4. IsNextOf(p, v) /\ KnowsOf(p, v, se)
    BY <1>2, <2>3 DEF IsNextOf, Knows, KnowsOf
  <2>5. QED
    BY <1>1, <2>1, <2>2, <2>4, SavingTellsTokens
<1>4. CASE SetStreaming(p)
  <2> DEFINE b == ~kept[p].streaming
             v == [kept[p] EXCEPT !.streaming = b]
  <2>1. Persist(p, v) /\ session' = [session EXCEPT ![p] = session[p]]
    BY <1>1, <1>4, MemoryStays DEF SetStreaming
  <2>2. b \in BOOLEAN
    OBVIOUS
  <2> HIDE DEF b
  <2>3. v \in Stores /\ v.tokens = kept[p].tokens
    BY <1>1, <2>2 DEF Stores
  <2> HIDE DEF v
  <2>4. IsNextOf(p, v) /\ KnowsOf(p, v, session[p])
    BY <1>2, <2>3 DEF IsNextOf, Knows, KnowsOf
  <2>5. QED
    BY <1>1, <2>1, <2>3, <2>4, SavingTellsTokens
<1>5. CASE BeginTurn(p) \/ NewBegin(p)
  <2>1. UNCHANGED <<file, kept, session, saves>>
    BY <1>5 DEF BeginTurn, NewBegin
  <2>2. session' = [session EXCEPT ![p] = session[p]]
    BY <1>1, <2>1, MemoryStays
  <2>3. QED
    BY <1>1, <1>2, <2>1, <2>2, UnsavedTellsTokens DEF Knows
<1>6. QED
  BY <1>3, <1>4, <1>5 DEF Commanded

LEMMA GoesOnTellsTokens ==
  ASSUME IInv, TokenInv, NEW p \in Procs, GoesOn(p)
  PROVE  TokenInv'
<1>1. StoreInv /\ phase' = phase
  BY DEF IInv, GoesOn, gatewayVars
<1>2. /\ HasStarted(p) /\ kept[p] \in Stores /\ session[p] \in SessionsOf(p)
      /\ turn[p] # None => turn[p].cli \in Clis
      /\ newCmd[p].step # "idle" => newCmd[p].cli \in Clis
  BY <1>1, MemoryHolds DEF GoesOn, Started, Completed, EndsWithout, NewClearsOne, NewClearsAll,
     TurnsOf
<1>3. Knows(p)
  BY <1>2 DEF TokenInv
<1>4. ASSUME turn[p] # None, Started(p) \/ Completed(p)
      PROVE  TokenInv'
  <2> DEFINE c == turn[p].cli
             se == [session[p] EXCEPT !.tokens[c] = p]
             v == [kept[p] EXCEPT !.tokens[c] = p]
  <2>1. /\ session' = [session EXCEPT ![p] = se]
        /\ Started(p) => UNCHANGED <<file, kept, saves>>
        /\ Completed(p) => Persist(p, v)
    BY <1>1, <1>4 DEF Started, Completed, StoreInv, StoreTypeOK
  <2>2. c \in Clis
    BY <1>2, <1>4
  <2> HIDE DEF c
  <2>3. se \in SessionsOf(p) /\ v \in Stores
    BY <1>2, <2>2, TokenIsSet
  <2>4. /\ se.tokens = [session[p].tokens EXCEPT ![c] = p]
        /\ v.tokens = [kept[p].tokens EXCEPT ![c] = p]
        /\ kept[p].tokens \in [Clis -> Procs \cup {None}]
        /\ session[p].tokens \in [Clis -> {None, p}]
    BY <1>2, <2>2, TokenOfOneCli
  <2> HIDE DEF se, v
  <2>5. \A d \in Clis : /\ v.tokens[d] = IF d = c THEN p ELSE kept[p].tokens[d]
                        /\ se.tokens[d] = IF d = c THEN p ELSE session[p].tokens[d]
    BY <2>4
  <2>6. IsNextOf(p, v) /\ KnowsOf(p, v, se) /\ KnowsOf(p, kept[p], se)
    BY <1>3, <2>5 DEF IsNextOf, Knows, KnowsOf
  <2>7. CASE Started(p)
    BY <1>1, <1>2, <2>1, <2>3, <2>6, <2>7, UnsavedTellsTokens
  <2>8. CASE Completed(p)
    BY <1>1, <1>2, <2>1, <2>3, <2>6, <2>8, SavingTellsTokens
  <2>9. QED
    BY <1>4, <2>7, <2>8
<1>5. CASE EndsWithout(p)
  <2>1. UNCHANGED <<file, kept, session, saves>>
    BY <1>5 DEF EndsWithout
  <2>2. session' = [session EXCEPT ![p] = session[p]]
    BY <1>1, <2>1, MemoryStays
  <2>3. QED
    BY <1>1, <1>2, <1>3, <2>1, <2>2, UnsavedTellsTokens DEF Knows
<1>6. CASE NewClearsOne(p)
  <2> DEFINE c == newCmd[p].cli
             se == [session[p] EXCEPT !.tokens[c] = None]
             v == [kept[p] EXCEPT !.tokens[c] = None]
  <2>1. /\ session' = [session EXCEPT ![p] = se]
        /\ IF kept[p].tokens[c] # None THEN Persist(p, v) ELSE UNCHANGED <<file, kept, saves>>
    BY <1>1, <1>6 DEF NewClearsOne, StoreInv, StoreTypeOK
  <2>2. c \in Clis
    BY <1>2, <1>6 DEF NewClearsOne
  <2> HIDE DEF c
  <2>3. se \in SessionsOf(p) /\ v \in Stores
    BY <1>2, <2>2, TokenIsSet
  <2>4. /\ se.tokens = [session[p].tokens EXCEPT ![c] = None]
        /\ v.tokens = [kept[p].tokens EXCEPT ![c] = None]
        /\ kept[p].tokens \in [Clis -> Procs \cup {None}]
        /\ session[p].tokens \in [Clis -> {None, p}]
    BY <1>2, <2>2, TokenOfOneCli
  <2> HIDE DEF se, v
  <2>5. \A d \in Clis : /\ v.tokens[d] = IF d = c THEN None ELSE kept[p].tokens[d]
                        /\ se.tokens[d] = IF d = c THEN None ELSE session[p].tokens[d]
    BY <2>4
  <2>6. IsNextOf(p, v) /\ KnowsOf(p, v, se)
    BY <1>3, <2>5, GatewayAssumption DEF IsNextOf, Knows, KnowsOf
  <2>7. CASE kept[p].tokens[c] # None
    BY <1>1, <1>2, <2>1, <2>3, <2>6, <2>7, SavingTellsTokens
  <2>8. CASE ~(kept[p].tokens[c] # None)
    <3>1. KnowsOf(p, kept[p], se)
      BY <1>3, <2>5, <2>8, GatewayAssumption DEF Knows, KnowsOf
    <3>2. QED
      BY <1>1, <1>2, <2>1, <2>3, <2>8, <3>1, UnsavedTellsTokens
  <2>9. QED
    BY <2>7, <2>8
<1>7. CASE NewClearsAll(p)
  <2> DEFINE se == [session[p] EXCEPT !.tokens = NoTokens]
             v == [kept[p] EXCEPT !.tokens = NoTokens]
  <2>1. /\ session' = [session EXCEPT ![p] = se]
        /\ IF kept[p].tokens # NoTokens THEN Persist(p, v) ELSE UNCHANGED <<file, kept, saves>>
    BY <1>1, <1>7 DEF NewClearsAll, StoreInv, StoreTypeOK
  <2>2. /\ NoTokens \in [Clis -> Procs \cup {None}] /\ NoTokens \in [Clis -> {None, p}]
        /\ \A c \in Clis : NoTokens[c] = None
    BY DEF NoTokens
  <2>3. /\ se \in SessionsOf(p) /\ v \in Stores
        /\ se.tokens = NoTokens /\ v.tokens = NoTokens
    BY <1>2, <2>2 DEF SessionsOf, Stores
  <2> HIDE DEF se, v
  <2>4. IsNextOf(p, v) /\ KnowsOf(p, v, se)
    BY <2>2, <2>3, GatewayAssumption DEF IsNextOf, KnowsOf
  <2>5. CASE kept[p].tokens # NoTokens
    BY <1>1, <1>2, <2>1, <2>3, <2>4, <2>5, SavingTellsTokens
  <2>6. CASE ~(kept[p].tokens # NoTokens)
    <3>1. KnowsOf(p, kept[p], se)
      BY <2>2, <2>3, <2>6, GatewayAssumption DEF KnowsOf
    <3>2. QED
      BY <1>1, <1>2, <2>1, <2>3, <2>6, <3>1, UnsavedTellsTokens
  <2>7. QED
    BY <2>5, <2>6
<1>8. QED
  BY <1>4, <1>5, <1>6, <1>7 DEF GoesOn, Started, Completed

LEMMA WritesTellTokens ==
  ASSUME IInv, TokenInv, Writes
  PROVE  TokenInv'
<1>1. PICK s \in saves : OpenFile(s) \/ WriteText(s)
  BY DEF Writes
<1>2. UNCHANGED <<phase, kept, session>> /\ s \in Save /\ saves \subseteq Save
  BY <1>1 DEF Writes, OpenFile, WriteText, gatewayVars, IInv, StoreInv, StoreTypeOK
<1>3. \A q \in Procs : ~Names(Default, q)
  BY GatewayAssumption DEF Names, Default, NoTokens
<1>4. file'.reads \in {Default, s.text}
  BY <1>1 DEF OpenFile, WriteText, EmptyFile, Over
<1>5. \A t \in saves' : \E u \in saves : t.text = u.text
  BY <1>1, <1>2 DEF OpenFile, WriteText, Save
<1>6. ASSUME NEW q \in Procs, NotStored(q)
      PROVE  NotStored(q)'
  <2>1. ~Names(file'.reads, q)
    BY <1>3, <1>4, <1>6 DEF NotStored
  <2>2. \A t \in saves' : ~Names(t.text, q)
    BY <1>5, <1>6 DEF NotStored
  <2>3. QED
    BY <1>2, <1>6, <2>1, <2>2 DEF NotStored, Names
<1>7. \A q \in Procs : Knows(q) => Knows(q)'
  BY <1>2 DEF Knows, KnowsOf
<1>8. QED
  BY <1>2, <1>6, <1>7 DEF TokenInv, Unheard, HasStarted

LEMMA LoadsStoreTellsTokens ==
  ASSUME IInv, TokenInv, NEW p \in Procs, LoadsStore(p)
  PROVE  TokenInv'
<1>1. /\ kept' = [kept EXCEPT ![p] = file.reads] /\ ~HasStarted(p)
      /\ UNCHANGED <<phase, file, saves, session>>
  BY DEF LoadsStore, Load, gatewayVars, HasStarted
<1>2. kept'[p] = file.reads /\ \A q \in Procs : q # p => kept'[q] = kept[q]
  BY <1>1 DEF IInv, StoreInv, StoreTypeOK
<1>3. \A q \in Procs : NotStored(q) => NotStored(q)'
  BY <1>1, <1>2 DEF NotStored, Names
<1>4. \A q \in Procs : HasStarted(q) /\ Knows(q) => Knows(q)'
  BY <1>1, <1>2 DEF Knows, KnowsOf
<1>5. QED
  BY <1>1, <1>3, <1>4 DEF TokenInv, Unheard, HasStarted

\* A process comes to start with a store that does not name it.
LEMMA GatewayStepTellsTokens ==
  ASSUME IInv, TokenInv, GatewayStep
  PROVE  TokenInv'
<1>1. /\ \A p \in Procs : phase[p] = "loading" /\ phase'[p] = "up" => kept[p] # None
      /\ IF Ending = {} THEN UNCHANGED stores ELSE Lose(Ending)
      /\ MovesOn
  BY GatewayMovesOn DEF GatewayStep, GatewayInv, IInv
<1>2. /\ file' = file /\ saves' \subseteq saves
      /\ \A q \in Procs : kept'[q] = kept[q] \/ kept'[q] = None
  BY <1>1 DEF stores, Lose
<1>3. ASSUME NEW q \in Procs, HasStarted(q)'
      PROVE  kept'[q] = kept[q] /\ session'[q] = session[q]
  <2>1. CASE Ending = {}
    BY <1>1, <2>1 DEF stores
  <2>2. CASE Ending # {}
    <3>1. q \notin Ending /\ Ending \in SUBSET Procs
      BY <1>3 DEF Ending, HasStarted
    <3>2. FileIsSound /\ Lose(Ending)
      BY <1>1, <2>2, StoreInvParts DEF IInv
    <3>3. session'[q] = session[q]
      BY <3>1, <3>2 DEF Lose
    <3>4. kept'[q] = kept[q]
      BY <3>1, <3>2 DEF Lose
    <3>5. QED
      BY <3>3, <3>4
  <2>3. QED
    BY <2>1, <2>2
<1>4. \A q \in Procs : NotStored(q) => NotStored(q)'
  BY <1>2 DEF NotStored, Names
<1>5. \A q \in Procs : Unheard(q)' => Unheard(q)
  BY <1>1 DEF MovesOn, Unheard
<1>6. ASSUME NEW q \in Procs, HasStarted(q)'
      PROVE  Knows(q)'
  <2>1. CASE HasStarted(q)
    BY <1>3, <1>6, <2>1 DEF TokenInv, Knows, KnowsOf
  <2>2. CASE ~HasStarted(q)
    <3>1. Unheard(q) /\ kept[q] # None
      BY <1>1, <1>6, <2>2 DEF MovesOn, Unheard
    <3>2. ~Names(kept[q], q)
      BY <3>1 DEF TokenInv, NotStored
    <3>3. QED
      BY <1>3, <1>6, <3>2 DEF Knows, KnowsOf, Names
  <2>3. QED
    BY <2>1, <2>2
<1>7. QED
  BY <1>4, <1>5, <1>6 DEF TokenInv

LEMMA TokenInvKept ==
  ASSUME IInv, TokenInv, [Next]_vars
  PROVE  TokenInv'
<1>1. CASE UNCHANGED vars
  <2>1. UNCHANGED <<phase, file, kept, session, saves>>
    BY <1>1 DEF vars, gatewayVars, stores
  <2>2. QED
    BY <2>1 DEF TokenInv, Unheard, HasStarted, NotStored, Names, Knows, KnowsOf
<1>2. QED
  BY <1>1, GatewayStepTellsTokens, LoadsStoreTellsTokens, CommandedTellsTokens,
     GoesOnTellsTokens, WritesTellTokens DEF Next

\* A run begins in one step only, which reads the token in the session.
LEMMA BeginsWithToken ==
  ASSUME IInv, TokenInv, [Next]_vars, NEW p \in Procs, turn[p] = None, turn'[p] # None
  PROVE  kept[p].tokens[turn'[p].cli] = p => turn'[p].resume = p
<1>1. turn \in [Procs -> [cli : Clis, resume : Procs \cup {None}] \cup {None}]
  BY DEF IInv, StoreInv, StoreTypeOK
<1>2. CASE GatewayStep \/ Writes \/ UNCHANGED vars \/ \E q \in Procs : LoadsStore(q)
  BY <1>2 DEF GatewayStep, stores, Lose, Writes, OpenFile, WriteText, vars, LoadsStore, Load
<1>3. ASSUME NEW q \in Procs, GoesOn(q)
      PROVE  FALSE
  BY <1>1, <1>3 DEF GoesOn, Started, Completed, EndsWithout, NewClearsOne, NewClearsAll
<1>4. ASSUME NEW q \in Procs, Commanded(q)
      PROVE  kept[p].tokens[turn'[p].cli] = p => turn'[p].resume = p
  <2>1. BeginTurn(q)
    BY <1>4 DEF Commanded, Use, SetStreaming, NewBegin
  <2>2. q = p /\ turn'[p].resume = session[p].tokens[turn'[p].cli]
    BY <1>1, <2>1 DEF BeginTurn
  <2>3. HasStarted(p) /\ Knows(p)
    BY <1>4, <2>2 DEF Commanded, Connected, IInv, GatewayInv, OnlyTheLivingHandle, TokenInv
  <2>4. turn'[p].cli \in Clis
    <3>1. kept[p] \in Stores
      BY <2>3, MemoryHolds DEF IInv
    <3>2. FirstOf(FirstOf(kept[p].cli, session[p].cli), DefaultCli) \in Clis
      BY <3>1, LookupIsACli DEF IInv
    <3>3. QED
      BY <1>1, <2>1, <2>2, <3>2 DEF BeginTurn
  <2>5. QED
    BY <2>2, <2>3, <2>4 DEF Knows, KnowsOf
<1>5. QED
  BY <1>2, <1>3, <1>4 DEF Next

-----------------------------------------------------------------------------
(* The theorems about the store.                                           *)

\* The invariant of the processes, their stores and the file, whatever
\* starts, stops and crashes between.
THEOREM InvariantHolds == Spec => []IInv
<1>1. Init => IInv
  BY StoreInitHolds
<1>2. IInv /\ [Next]_vars => IInv'
  BY IInvKept
<1>3. QED
  BY <1>1, <1>2, PTL DEF Spec

THEOREM TypeIsCorrect == Spec => []TypeOK
<1>1. IInv => TypeOK
  BY DEF IInv, GatewayInv, StoreInv, TypeOK
<1>2. QED
  BY <1>1, InvariantHolds, PTL

\* One write after the other loses nothing of the store, however many
\* restarts come between them: only writes that overlap, or that their process
\* did not live to finish, leave in the file what nobody has in memory.
THEOREM FileKeepsUp == Spec => []FileIsItsOwners
<1>1. IInv => FileIsItsOwners
  BY DEF IInv, StoreInv
<1>2. QED
  BY <1>1, InvariantHolds, PTL

\* What Gateway promises holds of the composition: the stores take no step of
\* a process away from it.
THEOREM GatewayKeepsItsPromises == Spec => [](PidFileNamesTheServer /\ MessagesAreAccountedFor)
<1>1. IInv => PidFileNamesTheServer /\ MessagesAreAccountedFor
  BY KeptAreAccountedFor DEF IInv, GatewayInv
<1>2. QED
  BY <1>1, InvariantHolds, PTL

\* What a run resumes.  A token reaches the store of a process only with the
\* completed event of its own run, or from the file, which names no process
\* that has told no run its token yet; so the session always knows it.
THEOREM ResumesWhatItKeeps == Spec => ResumesUnlessRestarted
<1>1. Init => TokenInv
  <2> SUFFICES ASSUME Init PROVE TokenInv
    OBVIOUS
  <2>1. /\ file = EmptyFile /\ saves = {} /\ kept = [p \in Procs |-> None]
        /\ \A p \in Procs : ~HasStarted(p)
    BY DEF Init, GatewayInit, StoreInit, HasStarted
  <2>2. \A p \in Procs : ~Names(file.reads, p)
    BY <2>1, GatewayAssumption DEF EmptyFile, Default, NoTokens, Names
  <2>3. QED
    BY <2>1, <2>2 DEF TokenInv, NotStored
<1>2. IInv /\ TokenInv /\ [Next]_vars => TokenInv'
  BY TokenInvKept
<1> DEFINE A == \A p \in Procs :
                  turn[p] = None /\ turn'[p] # None =>
                    LET stored == kept[p].tokens[turn'[p].cli]
                    IN  stored = p => turn'[p].resume = p
<1>3. IInv /\ TokenInv /\ [Next]_vars => [A]_vars
  BY BeginsWithToken
<1>4. Spec => [][A]_vars
  <2> HIDE DEF A
  <2>1. QED
    BY <1>1, <1>2, <1>3, InvariantHolds, PTL DEF Spec
<1>5. QED
  BY <1>4 DEF ResumesUnlessRestarted

=============================================================================

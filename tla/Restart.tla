------------------------------ MODULE Restart -------------------------------
(***************************************************************************)
(* The gateway across restarts: the processes of Gateway, each with the    *)
(* store of SessionStore in its memory, and one file that they share, at   *)
(* times two of them at once.  A process loads its store while its bridge  *)
(* starts; commands and messages reach the store while the bridge is       *)
(* connected, the ends of runs until the process exits, and a process that *)
(* ends, for whatever reason, leaves its writes unfinished.                *)
(***************************************************************************)
EXTENDS Gateway

CONSTANTS
  Clis,        \* the CLIs
  DefaultCli,  \* config.defaultCli
  MaxChanges   \* bounds the saves, and the tokens that are not saved

ASSUME RestartAssumption ==
  /\ IsFiniteSet(Clis)
  /\ DefaultCli \in Clis
  /\ MaxChanges \in Nat
  /\ None \notin Clis

VARIABLES file, kept, session, turn, newCmd, saves, changes, owner

INSTANCE SessionStore

\* A store that was never loaded is not one.
ASSUME StoreAssumption == None \notin Stores

stores == <<file, kept, session, turn, newCmd, saves, changes, owner>>
vars   == <<gatewayVars, stores>>

Init == GatewayInit /\ StoreInit

-----------------------------------------------------------------------------
IsLoaded(p) == kept[p] # None /\ IsAlive(p)

\* The processes that a step of the gateway ends.
Ending == {p \in Procs : phase[p] # "dead" /\ phase'[p] = "dead"}

\* createPersistentSessionStore is awaited inside startBridge.
LoadsStore(p) ==
  /\ phase[p] = "loading"
  /\ kept[p] = None
  /\ Load(p)
  /\ UNCHANGED gatewayVars

GatewayStep ==
  /\ GatewayNext
  /\ \A p \in Procs : phase[p] = "loading" /\ phase'[p] = "up" => kept[p] # None
  /\ IF Ending = {} THEN UNCHANGED stores ELSE Lose(Ending)

Commanded(p) ==
  /\ Connected(p)
  /\ \/ \E c \in Clis : Use(p, c)
     \/ SetStreaming(p) \/ BeginTurn(p) \/ NewBegin(p)
  /\ UNCHANGED gatewayVars

GoesOn(p) ==
  /\ IsLoaded(p)
  /\ Started(p) \/ Completed(p) \/ EndsWithout(p) \/ NewClearsOne(p) \/ NewClearsAll(p)
  /\ UNCHANGED gatewayVars

Writes ==
  /\ \E s \in saves : OpenFile(s) \/ WriteText(s)
  /\ UNCHANGED gatewayVars

Next ==
  \/ GatewayStep
  \/ \E p \in Procs : LoadsStore(p) \/ Commanded(p) \/ GoesOn(p)
  \/ Writes

Spec == Init /\ [][Next]_vars

-----------------------------------------------------------------------------
\* Types of both parts, as they are when every start loads the store.
TypeOK == GatewayTypeOK /\ StoreTypeOK

\* With no write in flight, the file holds what the process that last loaded
\* it, or wrote it with no other write in flight, has in its memory, or had
\* when it ended: one write after the other loses nothing, and neither does a
\* restart between writes, for which the next process loads what was kept.
\* Only writes that overlap, in one process or in two, and a process that
\* ends in a write may leave anything else.
FileIsItsOwners ==
  saves = {} /\ owner # None => file.reads = kept[owner]

\* A run resumes the conversation that the store of its process has for its CLI,
\* however started, completed, /use and /new interleave.  The exception is one of
\* an earlier process, which is in the store and is never asked for:
\* docs/e2e-test-plan.md:301-310 expects that a message after /restart resumes it.
ResumesUnlessRestarted ==
  [][\A p \in Procs :
       turn[p] = None /\ turn'[p] # None =>
         LET stored == kept[p].tokens[turn'[p].cli]
         IN  stored = p => turn'[p].resume = p]_vars
=============================================================================

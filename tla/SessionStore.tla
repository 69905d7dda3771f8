---------------------------- MODULE SessionStore ----------------------------
(***************************************************************************)
(* The persistent store of a chat (src/bridge/session-store.ts): resume    *)
(* tokens, active CLI and settings, loaded when the bridge of a process    *)
(* starts, kept in its memory, and written whole to resume-tokens.json     *)
(* after each change, with neither a lock nor a rename.  Beside it each    *)
(* process has the resume tokens of its own sessions (createSessionStore), *)
(* the only ones processMessage looks at.                                  *)
(***************************************************************************)
EXTENDS Naturals, FiniteSets

CONSTANTS
  Procs,       \* the processes of the gateway, one after the other
  Clis,        \* the CLIs
  DefaultCli,  \* config.defaultCli
  MaxChanges,  \* bounds the saves, and the tokens that are not saved
  None         \* undefined

VARIABLES
  file,     \* resume-tokens.json: what is read from it, and how long it is
  kept,     \* the PersistentSessionStore of each process, None until loaded
  session,  \* the tokens and the active CLI of each process's sessionStore
  turn,     \* the run of each process: its CLI and what it resumes
  newCmd,   \* how far /new is, and the CLI it found
  saves,    \* the writes of the file in flight
  changes,  \* how many there were
  owner     \* ghost: the process whose store the file was last in step with

-----------------------------------------------------------------------------
NoTokens == [c \in Clis |-> None]

\* streaming stands for all of ChatSettings, which are merged and never read
\* across an await.
Default == [tokens |-> NoTokens, cli |-> None, streaming |-> FALSE]

\* The length of a store's JSON: an entry is longer than none, "false" than
\* "true".
Size(v) ==
  6 * Cardinality({c \in Clis : v.tokens[c] # None})
  + (IF v.cli # None THEN 3 ELSE 0) + (IF v.streaming THEN 1 ELSE 2)

\* A write puts its text over the beginning of what is there, and the end of
\* a longer text makes it no JSON, which is read as nothing.
Over(v, f) ==
  [reads |-> IF Size(v) >= f.size THEN v ELSE Default,
   size  |-> IF Size(v) >= f.size THEN Size(v) ELSE f.size]

\* No file yet, or one that was opened for a write, and truncated.
EmptyFile == [reads |-> Default, size |-> 0]

FreshSession == [tokens |-> NoTokens, cli |-> None]
IdleNew      == [step |-> "idle", cli |-> None, save |-> None]

StoreInit ==
  /\ file    = EmptyFile
  /\ kept    = [p \in Procs |-> None]
  /\ session = [p \in Procs |-> FreshSession]
  /\ turn    = [p \in Procs |-> None]
  /\ newCmd  = [p \in Procs |-> IdleNew]
  /\ saves   = {}
  /\ changes = 0
  /\ owner   = None

-----------------------------------------------------------------------------
(* The file.                                                               *)

\* Faulty variant: the settings are left in the file.
LoadWithoutSettings(p) ==
  /\ kept' = [kept EXCEPT ![p] = [file.reads EXCEPT !.streaming = FALSE]]
  /\ owner' = IF saves = {} THEN p ELSE None
  /\ UNCHANGED <<file, session, turn, newCmd, saves, changes>>

\* createPersistentSessionStore.
Load(p) ==
  /\ kept' = [kept EXCEPT ![p] = file.reads]
  /\ owner' = IF saves = {} THEN p ELSE None
  /\ UNCHANGED <<file, session, turn, newCmd, saves, changes>>

\* persist: the store as it is now, to be written once the directory is there.
Persist(p, v) ==
  /\ changes < MaxChanges
  /\ changes' = changes + 1
  /\ kept' = [kept EXCEPT ![p] = v]
  /\ saves' = {[s EXCEPT !.shared = TRUE] : s \in saves} \cup
              {[by |-> p, no |-> changes + 1, text |-> v, opened |-> FALSE,
                shared |-> saves # {}]}
  /\ UNCHANGED <<file, owner>>

\* writeFile truncates when it opens the file ...
OpenFile(s) ==
  /\ ~s.opened
  /\ file' = EmptyFile
  /\ saves' = (saves \ {s}) \cup {[s EXCEPT !.opened = TRUE]}
  /\ UNCHANGED <<kept, session, turn, newCmd, changes, owner>>

\* ... and then writes.
WriteText(s) ==
  /\ s.opened
  /\ file' = Over(s.text, file)
  /\ saves' = saves \ {s}
  /\ owner' = IF s.shared THEN None ELSE s.by
  /\ UNCHANGED <<kept, session, turn, newCmd, changes>>

\* The end of processes, whatever the reason: their writes are not finished,
\* and their memory is gone (but for what FileIsItsOwners compares).
Lose(ps) ==
  /\ saves' = {s \in saves : s.by \notin ps}
  /\ owner' = IF \E s \in saves : s.by \in ps THEN None ELSE owner
  /\ turn' = [p \in Procs |-> IF p \in ps THEN None ELSE turn[p]]
  /\ newCmd' = [p \in Procs |-> IF p \in ps THEN IdleNew ELSE newCmd[p]]
  /\ session' = [p \in Procs |-> IF p \in ps THEN FreshSession ELSE session[p]]
  /\ kept' = [p \in Procs |-> IF p \in ps /\ p # owner' THEN None ELSE kept[p]]
  /\ UNCHANGED <<file, changes>>

-----------------------------------------------------------------------------
(* The commands of the chat, and its runs.                                 *)

Use(p, c) ==
  /\ session' = [session EXCEPT ![p].cli = c]
  /\ Persist(p, [kept[p] EXCEPT !.cli = c])
  /\ UNCHANGED <<turn, newCmd>>

\* /stream, and in the same way /verbose and /model.
SetStreaming(p) ==
  /\ Persist(p, [kept[p] EXCEPT !.streaming = ~kept[p].streaming])
  /\ UNCHANGED <<session, turn, newCmd>>

FirstOf(a, b) == IF a # None THEN a ELSE b

\* processMessage: the CLI is looked up here and there, the token here only.
BeginTurn(p) ==
  LET c == FirstOf(FirstOf(kept[p].cli, session[p].cli), DefaultCli) IN
  /\ turn[p] = None
  /\ turn' = [turn EXCEPT ![p] = [cli |-> c, resume |-> session[p].tokens[c]]]
  /\ UNCHANGED <<file, kept, session, newCmd, saves, changes, owner>>

\* The started event, which nothing saves.
Started(p) ==
  /\ turn[p] # None
  /\ changes < MaxChanges
  /\ changes' = changes + 1
  /\ session' = [session EXCEPT ![p].tokens[turn[p].cli] = p]
  /\ UNCHANGED <<file, kept, turn, newCmd, saves, owner>>

\* Faulty variant: the token is thought to be known since the started event.
CompletedSavingOnly(p) ==
  /\ turn[p] # None
  /\ Persist(p, [kept[p] EXCEPT !.tokens[turn[p].cli] = p])
  /\ turn' = [turn EXCEPT ![p] = None]
  /\ UNCHANGED <<session, newCmd>>

\* The completed event; nothing waits for the save.
Completed(p) ==
  /\ turn[p] # None
  /\ session' = [session EXCEPT ![p].tokens[turn[p].cli] = p]
  /\ Persist(p, [kept[p] EXCEPT !.tokens[turn[p].cli] = p])
  /\ turn' = [turn EXCEPT ![p] = None]
  /\ UNCHANGED newCmd

\* Its process ends without one, or is terminated.
EndsWithout(p) ==
  /\ turn[p] # None
  /\ turn' = [turn EXCEPT ![p] = None]
  /\ UNCHANGED <<file, kept, session, newCmd, saves, changes, owner>>

\* /new, up to the await of the memory sync.
NewBegin(p) ==
  /\ newCmd[p].step = "idle"
  /\ newCmd' = [newCmd EXCEPT ![p] =
       [step |-> "sync", save |-> None,
        cli |-> FirstOf(session[p].cli,
                        IF turn[p] # None THEN turn[p].cli ELSE DefaultCli)]]
  /\ UNCHANGED <<file, kept, session, turn, saves, changes, owner>>

\* clearResumeToken saves, and is waited for, only if there was a token.
NewClearsOne(p) ==
  LET c == newCmd[p].cli IN
  /\ newCmd[p].step = "sync"
  /\ session' = [session EXCEPT ![p].tokens[c] = None]
  /\ IF kept[p].tokens[c] # None
     THEN Persist(p, [kept[p] EXCEPT !.tokens[c] = None])
     ELSE UNCHANGED <<file, kept, saves, changes, owner>>
  /\ newCmd' = [newCmd EXCEPT ![p].step = "clear",
       ![p].save = IF kept[p].tokens[c] # None THEN changes' ELSE None]
  /\ UNCHANGED turn

\* The session is terminated and the tokens of every CLI are cleared.
NewClearsAll(p) ==
  /\ newCmd[p].step = "clear"
  /\ \A s \in saves : s.by = p => s.no # newCmd[p].save
  /\ session' = [session EXCEPT ![p].tokens = NoTokens]
  /\ IF kept[p].tokens # NoTokens
     THEN Persist(p, [kept[p] EXCEPT !.tokens = NoTokens])
     ELSE UNCHANGED <<file, kept, saves, changes, owner>>
  /\ newCmd' = [newCmd EXCEPT ![p] = IdleNew]
  /\ UNCHANGED turn

-----------------------------------------------------------------------------
Stores ==
  [tokens : [Clis -> Procs \cup {None}],
   cli : Clis \cup {None}, streaming : BOOLEAN]

Save ==
  [by : Procs, no : 1 .. MaxChanges, text : Stores, opened : BOOLEAN, shared : BOOLEAN]

\* The store's variables hold what their declarations say, and each change
\* has at most one write in flight.
StoreTypeOK ==
  /\ file \in [reads : Stores, size : Nat]
  /\ kept \in [Procs -> Stores \cup {None}]
  /\ session \in [Procs -> [tokens : [Clis -> Procs \cup {None}], cli : Clis \cup {None}]]
  /\ turn \in [Procs -> [cli : Clis, resume : Procs \cup {None}] \cup {None}]
  /\ newCmd \in [Procs -> [step : {"idle", "sync", "clear"}, cli : Clis \cup {None},
                          save : (1 .. MaxChanges) \cup {None}]]
  /\ saves \subseteq Save
  /\ \A s, t \in saves : s.no = t.no => s = t
  /\ changes \in 0 .. MaxChanges
  /\ owner \in Procs \cup {None}
=============================================================================

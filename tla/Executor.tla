------------------------------ MODULE Executor ------------------------------
(***************************************************************************)
(* What a command lane promises its callers: tasks wait in the order they  *)
(* were submitted, start in that order and only while fewer than limit of  *)
(* them run, and are settled once each.                                    *)
(***************************************************************************)
EXTENDS Naturals, Sequences, FiniteSets

CONSTANTS Tasks, Limits

VARIABLES
  waiting,   \* submitted and not started, oldest first
  running,   \* started and not finished
  finished,  \* settled, or about to be
  discarded, \* thrown away before they started
  limit      \* how many may run together

vars == <<waiting, running, finished, discarded, limit>>

Waiting == {waiting[i] : i \in 1..Len(waiting)}

Init ==
  /\ waiting = <<>>
  /\ running = {} /\ finished = {} /\ discarded = {}
  /\ limit = 1

Submit(t) ==
  /\ t \notin Waiting \cup running \cup finished \cup discarded
  /\ waiting' = Append(waiting, t)
  /\ UNCHANGED <<running, finished, discarded, limit>>

Start ==
  /\ waiting # <<>>
  /\ Cardinality(running) < limit
  /\ running' = running \cup {Head(waiting)}
  /\ waiting' = Tail(waiting)
  /\ UNCHANGED <<finished, discarded, limit>>

Finish(t) ==
  /\ t \in running
  /\ running' = running \ {t}
  /\ finished' = finished \cup {t}
  /\ UNCHANGED <<waiting, discarded, limit>>

Discard ==
  /\ waiting' = <<>>
  /\ discarded' = discarded \cup Waiting
  /\ UNCHANGED <<running, finished, limit>>

SetLimit(n) ==
  /\ limit' = IF n > 1 THEN n ELSE 1
  /\ UNCHANGED <<waiting, running, finished, discarded>>

Next ==
  \/ \E t \in Tasks : Submit(t) \/ Finish(t)
  \/ Start \/ Discard
  \/ \E n \in Limits : SetLimit(n)

Spec == Init /\ [][Next]_vars
=============================================================================

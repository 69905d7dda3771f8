------------------------------- MODULE Mailbox -------------------------------
(***************************************************************************)
(* What the bridge promises about the messages of one chat, whatever its   *)
(* sessions do: a bounded first-in first-out mailbox.  A message is handed *)
(* over at once, or waits in a queue of at most MaxQueue messages, or is   *)
(* refused because that queue is full; a waiting message is handed over    *)
(* only from the head of the queue, and no message is handed over twice.   *)
(***************************************************************************)
EXTENDS Naturals, Sequences

CONSTANTS
  Messages,   \* the messages a chat may send
  MaxQueue    \* the most messages that wait

VARIABLES
  fate,       \* what has become of every message
  queue       \* the waiting messages, oldest first

vars == <<fate, queue>>

Fates == {"new", "queued", "accepted", "dropped"}

Init ==
  /\ fate  = [m \in Messages |-> "new"]
  /\ queue = <<>>

Handover(m) ==
  /\ fate[m] = "new"
  /\ fate' = [fate EXCEPT ![m] = "accepted"]
  /\ UNCHANGED queue

Wait(m) ==
  /\ fate[m] = "new"
  /\ Len(queue) < MaxQueue
  /\ fate'  = [fate EXCEPT ![m] = "queued"]
  /\ queue' = Append(queue, m)

Refuse(m) ==
  /\ fate[m] = "new"
  /\ Len(queue) = MaxQueue
  /\ fate' = [fate EXCEPT ![m] = "dropped"]
  /\ UNCHANGED queue

DeliverHead ==
  /\ queue # <<>>
  /\ fate[Head(queue)] = "queued"
  /\ fate'  = [fate EXCEPT ![Head(queue)] = "accepted"]
  /\ queue' = Tail(queue)

Next ==
  \/ \E m \in Messages : Handover(m) \/ Wait(m) \/ Refuse(m)
  \/ DeliverHead

Spec == Init /\ [][Next]_vars
=============================================================================

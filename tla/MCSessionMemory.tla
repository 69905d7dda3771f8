-------------------------- MODULE MCSessionMemory ---------------------------
(* Instances of SessionMemory for TLC.                                     *)
EXTENDS SessionMemory
=============================================================================

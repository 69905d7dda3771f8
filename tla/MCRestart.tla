----------------------------- MODULE MCRestart ------------------------------
(* Instances of Restart for TLC.                                           *)
EXTENDS Restart, TLC

CONSTANTS j1, j2, claude, droid

TwoProcs == 1 .. 2
TwoJobs  == {j1, j2}
TwoClis  == {claude, droid}

AllAlike == Permutations(TwoJobs)
=============================================================================

----------------------------- MODULE MCGateway ------------------------------
(* Instances of Gateway for TLC.                                           *)
EXTENDS Gateway

CONSTANTS j1, j2, j3, m1, m2

TwoProcs    == 1 .. 2
ThreeJobs   == {j1, j2, j3}
TwoMessages == {m1, m2}
OneRestart  == {m1}
=============================================================================

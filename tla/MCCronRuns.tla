----------------------------- MODULE MCCronRuns -----------------------------
(* Instances of CronRuns for TLC.                                          *)
EXTENDS CronRuns, TLC

CONSTANTS j1, j2, j3

ThreeJobs == {j1, j2, j3}
Modes     == j1 :> "isolated" @@ j2 :> "heartbeat" @@ j3 :> "main"
TwoTwoOne == j1 :> 2 @@ j2 :> 2 @@ j3 :> 1
=============================================================================

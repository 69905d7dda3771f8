---------------------------- MODULE MCCommandLane ----------------------------
(* Instances of CommandLane for TLC.                                       *)
EXTENDS CommandLane

CONSTANTS t1, t2, t3, t4

FourTasks  == {t1, t2, t3, t4}
\* Zero is what the code rounds up to one.
SmallLimits == {0, 2}

=============================================================================

--------------------------- MODULE MCCronService ---------------------------
(* Instances of CronService for TLC.                                       *)
EXTENDS CronService, TLC

CONSTANTS j1, j2, o1

OneJob  == {j1}
TwoJobs == {j1, j2}
OneOp   == {o1}

At(t)       == [kind |-> "at", n |-> t]
Every(n)    == [kind |-> "every", n |-> n]
Cron(times) == [kind |-> "cron", times |-> times]

AtMain  == j1 :> At(2)
AllMain == j1 :> "main"

CronAndEvery         == j1 :> Cron({2, 3}) @@ j2 :> Every(1)
IsolatedAndHeartbeat == j1 :> "isolated" @@ j2 :> "heartbeat"
=============================================================================

---------------------------- MODULE MCChatBridge ----------------------------
(* Instances of ChatBridge for TLC.                                        *)
EXTENDS ChatBridge, TLC

CONSTANTS m1, m2, m3, m4, claude, droid, n1

OneMessage    == {m1}
TwoMessages   == {m1, m2}
FourMessages  == {m1, m2, m3, m4}
OneCli        == {claude}
TwoClis       == {claude, droid}
OneNew        == {n1}

\* In a run without cron jobs all messages are alike.
AllAlike == Permutations({m1, m2, m3, m4})

\* Tokens decide only what later runs resume, and no property of the run that
\* uses this view is about either.
WithoutTokens ==
  <<fate, queue, entry, cli, newCmd, flushes, [r \in Runs |-> [run[r] EXCEPT !.resume = None]]>>
=============================================================================

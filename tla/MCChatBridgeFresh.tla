-------------------------- MODULE MCChatBridgeFresh --------------------------
(* Instances of ChatBridgeFresh for TLC.                                   *)
EXTENDS ChatBridgeFresh

CONSTANTS m1, m2, claude, droid, pi, n1

OneMessage    == {m1}
TwoMessages   == {m1, m2}
OneCli        == {claude}
OtherCli      == {droid}
TwoClis       == {claude, droid}
ThreeClis     == {claude, droid, pi}
OneNew        == {n1}
=============================================================================

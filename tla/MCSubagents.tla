---------------------------- MODULE MCSubagents ----------------------------
(* Instances of Subagents for TLC.                                         *)
EXTENDS Subagents

CONSTANTS s1, s2, c1, p1

TwoSubs   == {s1, s2}
OneChat   == {c1}
OneSession == {p1}
=============================================================================

-------------------------- MODULE MCAnswerStream --------------------------
(* Instances of AnswerStream for TLC.                                      *)
EXTENDS AnswerStream

CONSTANTS a, b

TwoLetters == {a, b}
AllClis    == {"claude", "codex", "pi"}
CodexOnly  == {"codex"}

\* Snapshots of one another, text that goes on, and line breaks around it and
\* in it.
ThreePieces == {<<b>>, <<Break, a>>, <<Break, a, b, Break>>}
OneLetter  == {<<a>>, <<b>>}
=============================================================================

---------------------------- MODULE MCJavaStream ----------------------------
(* JavaStream on small sets: one caller with a timeout, one without.       *)
EXTENDS JavaStream

CONSTANTS handler, context, i1, i2, p1

MCCallers == {handler, context}
MCTimed == {context}
TwoIds == {i1, i2}
OnePush == {p1}
=============================================================================

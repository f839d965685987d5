--------------------------- MODULE MCJobRegistry ---------------------------
(***************************************************************************)
(* JobRegistry for TLC: keys and threads are model values.                 *)
(***************************************************************************)
EXTENDS JobRegistry

CONSTANTS k1, k2, w1, w2, r1, r2

MCKey == {k1, k2}
OneWriter == {w1}
TwoWriters == {w1, w2}
OneReader == {r1}
NoReader == {}
NoneReply == {}
K1Replies == {k1}
=============================================================================

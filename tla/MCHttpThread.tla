---------------------------- MODULE MCHttpThread ----------------------------
(***************************************************************************)
(* HttpThread for TLC: connections and workers are model values.           *)
(***************************************************************************)
EXTENDS HttpThread

CONSTANTS c1, c2, w1, w2

Conns == {c1, c2}
OneConn == {c1}
Workers == {w1, w2}
=============================================================================

--------------------------- MODULE MCSessionThread ---------------------------
(***************************************************************************)
(* Small instances of SessionThread for TLC.                               *)
(***************************************************************************)
EXTENDS SessionThread

CONSTANTS w1, w2, o1, o2, s1, s2
=============================================================================

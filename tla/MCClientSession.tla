--------------------------- MODULE MCClientSession ---------------------------
(* Instances of ClientSession for TLC: the parallel calls are model values. *)
EXTENDS ClientSession

CONSTANTS c1, c2, s1
=============================================================================

---------------------------- MODULE MCTisClocking ----------------------------
(* Two nodes are enough for one of them to be ahead of the other. *)
EXTENDS TisClocking

CONSTANTS n1, n2

MCNodes == {n1, n2}
=============================================================================

----------------------------- MODULE MCTisStack -----------------------------
(* The words and values TLC feeds to a stack node: 64536 is the halfword   *)
(* -1000, which the node saturates, as it does a neighbour's 1000.         *)
EXTENDS TisStack

MCHostWords == {1, 64536}
MCNeighbourValues == {1000}

MCAllPorts == Ports

(* Bit 0 is "write right", bit 1 "read left". *)
MCConfigs == {0, 1}
=============================================================================

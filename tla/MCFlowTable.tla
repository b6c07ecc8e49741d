---------------------------- MODULE MCFlowTable -----------------------------
(* Symmetry of the connections and of the ports, for the runs without      *)
(* liveness.                                                               *)
EXTENDS FlowTable, TLC

Symmetry == Permutations(Conns) \union Permutations(Ports)
=============================================================================

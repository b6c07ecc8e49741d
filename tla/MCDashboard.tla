----------------------------- MODULE MCDashboard -----------------------------
(* Symmetry for the runs without liveness.                                 *)
EXTENDS Dashboard, TLC

Symmetry == Permutations(Conns) \union Permutations(Ports)
=============================================================================

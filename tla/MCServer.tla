------------------------------ MODULE MCServer ------------------------------
(* Server on a few connections, interchangeable but for their peer. *)
EXTENDS Server, TLC

MCSymmetry == Permutations(Conns)
=============================================================================

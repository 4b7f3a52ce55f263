------------------------------ MODULE MCReplace ------------------------------
(* Replace with a few interchangeable updates and releases. *)
EXTENDS Replace, TLC

MCSymmetry == Permutations(Updaters) \cup Permutations(Versions)
=============================================================================

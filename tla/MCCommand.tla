------------------------------ MODULE MCCommand ------------------------------
(* Command with two interchangeable streams, bash and one background       *)
(* process, and a request that asks for every key there is.                *)
EXTENDS Command, TLC

MCServiceEnv == {[name |-> n, capitals |-> TRUE] : n \in {"PATH", "LANG"}}

MCSymmetry == Permutations(Streams)
=============================================================================

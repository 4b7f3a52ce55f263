----------------------------- MODULE MCUpgrade -----------------------------
(* Upgrade over small sets of full releases and of pre-releases. *)
EXTENDS Upgrade

Release(core, pre) == [core |-> core, pre |-> pre, build |-> <<>>]

MCFullReleases == {Release(core, <<>>) : core \in (0..1) \X (0..1) \X (0..1)}

(* 1.0.0 and 1.1.0, and the candidates rc.1 and rc.2 before each *)
MCPreReleases == {Release(<<1, minor, 0>>, pre) :
                    minor \in 0..1, pre \in {<<>>, <<<<1, 0>>, <<0, 1>>>>, <<<<1, 0>>, <<0, 2>>>>}}
=============================================================================

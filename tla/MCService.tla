----------------------------- MODULE MCService -----------------------------
(* Service over three releases: a patch of the first and the next minor. *)
EXTENDS Service

Release(core) == [core |-> core, pre |-> <<>>, build |-> <<>>]

MCReleases == {Release(<<1, 0, 0>>), Release(<<1, 0, 1>>), Release(<<1, 1, 0>>)}
=============================================================================

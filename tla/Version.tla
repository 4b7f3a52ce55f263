------------------------------ MODULE Version ------------------------------
(***************************************************************************)
(* Which release is newer (internal/updater/updater.go): the comparison    *)
(* isNewerVersion makes, and the precedence of Semantic Versioning it is   *)
(* measured against.                                                       *)
(*                                                                         *)
(* A version is a record of its numbers and of the dot-separated           *)
(* identifiers after "-" and "+".  An identifier is <<0, n>> when it is the*)
(* numeral n, and <<1, n>> when it begins with a letter; n is then its     *)
(* place in the alphabetical order.                                        *)
(***************************************************************************)
EXTENDS Integers, Sequences

(* "dev", and the empty version. *)
Dev == [core |-> <<>>, pre |-> <<>>, build |-> <<>>]

Identifiers == {0, 1} \X Nat
Versions    == [core : Seq(Nat), pre : Seq(Identifiers), build : Seq(Identifiers)]

(* Releases of three numbers; and those that may have a suffix or two, such*)
(* as -beta or +amd64, with no dot in it.                                  *)
FullReleases     == [core : [1..3 -> Nat], pre : {<<>>}, build : {<<>>}]
Suffixes         == {<<>>} \cup {<<id>> : id \in Identifiers}
UndottedReleases == [core : [1..3 -> Nat], pre : Suffixes, build : Suffixes]

(* Sscanf of an identifier that begins with a letter leaves zero. *)
Numeral(id) == IF id[1] = 0 THEN id[2] ELSE 0

Rest(ids) == IF ids = <<>> THEN <<>> ELSE Tail(ids)

(* The version is cut at its dots and each part at its first "-" or "+":   *)
(* the first identifier goes with the last number, the others are parts.   *)
ParseVersion(v) ==
  LET ids == Rest(v.pre) \o Rest(v.build)
  IN  v.core \o [i \in 1..Len(ids) |-> Numeral(ids[i])]

(* Faults: a lower part does not settle the matter; only the first part is *)
(* compared.                                                               *)
AnyPartNewer(current, latest) ==
  \E i \in DOMAIN current \cap DOMAIN latest : latest[i] > current[i]
FirstPartNewer(current, latest) ==
  1 \in DOMAIN current \cap DOMAIN latest /\ latest[1] > current[1]

(* The first parts that differ decide; if none do, the longer one is newer.*)
NewerParts(current, latest) ==
  \/ \E i \in DOMAIN current \cap DOMAIN latest :
       latest[i] > current[i] /\ \A j \in 1..(i - 1) : latest[j] = current[j]
  \/ /\ Len(latest) > Len(current)
     /\ \A i \in DOMAIN current : latest[i] = current[i]

IsNewerVersion(current, latest) ==
  IF current = Dev THEN latest # Dev
                   ELSE NewerParts(ParseVersion(current), ParseVersion(latest))

-----------------------------------------------------------------------------
(* Semantic Versioning 2.0.0, clause 11 *)

FirstDifference(s, t) == {i \in DOMAIN s \cap DOMAIN t :
                            s[i] # t[i] /\ \A j \in 1..(i - 1) : s[j] = t[j]}

(* Numerals come before words. *)
IdPrecedes(x, y) == x[1] < y[1] \/ (x[1] = y[1] /\ x[2] < y[2])

PrePrecedes(p, q) ==
  /\ p # <<>>
  /\ \/ q = <<>>
     \/ \E i \in FirstDifference(p, q) : IdPrecedes(p[i], q[i])
     \/ Len(p) < Len(q) /\ \A i \in DOMAIN p : p[i] = q[i]

(* Build identifiers do not count; a development build precedes every      *)
(* release.                                                                *)
Precedes(a, b) ==
  /\ b # Dev
  /\ \/ a = Dev
     \/ \E i \in FirstDifference(a.core, b.core) : a.core[i] < b.core[i]
     \/ a.core = b.core /\ PrePrecedes(a.pre, b.pre)
=============================================================================

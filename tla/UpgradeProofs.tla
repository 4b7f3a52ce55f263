--------------------------- MODULE UpgradeProofs ---------------------------
(***************************************************************************)
(* What the comparison of the updater is good for.  On all versions it is a*)
(* strict order, so that no sequence of updates comes back to where it was.*)
(* On releases without dots in their suffixes a newer one is one that      *)
(* Semantic Versioning puts later, and on releases of three numbers the two*)
(* agree: an update moves an installation forward, and an installation told*)
(* that it is current is.                                                  *)
(***************************************************************************)
EXTENDS Upgrade, TLAPS, WellFoundedInduction, SequenceTheorems

LEMMA FullIsUndotted == FullReleases \subseteq UndottedReleases
BY DEF FullReleases, UndottedReleases, Suffixes

(* A development build is none of them: it has no numbers. *)
LEMMA UndottedIsNotDev == ASSUME NEW a \in UndottedReleases PROVE a # Dev
<1>1. DOMAIN a.core = 1..3 /\ 1 \in 1..3
  BY DEF UndottedReleases
<1>2. DOMAIN Dev.core = 1..0 /\ 1 \notin 1..0
  BY DEF Dev
<1>3. QED
  BY <1>1, <1>2

(* What is cut off with the last number is all of an undotted suffix. *)
LEMMA UndottedRest == ASSUME NEW ids \in Suffixes PROVE Rest(ids) = <<>>
<1>1. CASE ids = <<>>
  BY <1>1 DEF Rest
<1>2. ASSUME NEW id \in Identifiers, ids = <<id>> PROVE Rest(ids) = <<>>
  <2>1. ids \in Seq(Identifiers) /\ Len(ids) = 1 /\ ids # <<>>
    BY <1>2
  <2>2. Tail(ids) \in Seq(Identifiers) /\ Len(Tail(ids)) = 0
    BY <2>1
  <2>3. Tail(ids) = <<>>
    BY <2>2, EmptySeq
  <2>4. QED
    BY <2>1, <2>3 DEF Rest
<1>3. QED
  BY <1>1, <1>2 DEF Suffixes

(* Such a release is parsed to its three numbers. *)
LEMMA ParseUndotted == ASSUME NEW a \in UndottedReleases PROVE ParseVersion(a) = a.core
<1>1. a.core \in [1..3 -> Nat] /\ a.pre \in Suffixes /\ a.build \in Suffixes
  BY DEF UndottedReleases
<1>2. a.core \in Seq(Nat) /\ Len(a.core) = 3
  <2>1. 3 \in Nat /\ a.core \in [1..3 -> Nat]
    BY <1>1
  <2>2. a.core \in UNION {[1..n -> Nat] : n \in Nat}
    BY <2>1, Zenon
  <2>3. QED
    BY <2>1, <2>2
<1>3. Rest(a.pre) \o Rest(a.build) = <<>>
  BY <1>1, UndottedRest
<1>4. ParseVersion(a) = a.core \o [i \in 1..0 |-> Numeral(<<>>[i])]
  BY <1>3 DEF ParseVersion
<1>5. [i \in 1..0 |-> Numeral(<<>>[i])] = <<>>
  OBVIOUS
<1>6. QED
  BY <1>2, <1>4, <1>5

(* Two cores of three numbers, compared number by number. *)
CoreBefore(s, t) == \/ s[1] < t[1]
                    \/ s[1] = t[1] /\ s[2] < t[2]
                    \/ s[1] = t[1] /\ s[2] = t[2] /\ s[3] < t[3]

LEMMA FirstOfThree ==
  ASSUME NEW s \in [1..3 -> Nat], NEW t \in [1..3 -> Nat]
  PROVE  (\E i \in 1..3 : s[i] < t[i] /\ \A j \in 1..(i - 1) : s[j] = t[j]) <=> CoreBefore(s, t)
<1>1. 1..3 = {1, 2, 3} /\ 1..0 = {} /\ 1..1 = {1} /\ 1..2 = {1, 2}
  OBVIOUS
<1>2. /\ 1 - 1 = 0 /\ 2 - 1 = 1 /\ 3 - 1 = 2
  OBVIOUS
<1>3. QED
  BY <1>1, <1>2 DEF CoreBefore

(* Precedence between releases whose numbers differ is that of the numbers.*)
LEMMA CorePrecedence ==
  ASSUME NEW a \in UndottedReleases, NEW b \in UndottedReleases
  PROVE  Precedes(a, b) <=> CoreBefore(a.core, b.core) \/ (a.core = b.core /\ PrePrecedes(a.pre, b.pre))
<1>1. /\ a.core \in [1..3 -> Nat] /\ b.core \in [1..3 -> Nat]
      /\ DOMAIN a.core = 1..3 /\ DOMAIN b.core = 1..3
  BY DEF UndottedReleases
<1>2. a # Dev /\ b # Dev
  BY UndottedIsNotDev
<1>3. (\E i \in FirstDifference(a.core, b.core) : a.core[i] < b.core[i])
        <=> \E i \in 1..3 : a.core[i] < b.core[i] /\ \A j \in 1..(i - 1) : a.core[j] = b.core[j]
  BY <1>1 DEF FirstDifference
<1>4. QED
  BY <1>1, <1>2, <1>3, FirstOfThree DEF Precedes

(* The updater compares the numbers and nothing else of them. *)
LEMMA NewerIsCoreBefore ==
  ASSUME NEW a \in UndottedReleases, NEW b \in UndottedReleases
  PROVE  IsNewerVersion(a, b) <=> CoreBefore(a.core, b.core)
<1>1. ParseVersion(a) = a.core /\ ParseVersion(b) = b.core /\ a # Dev
  BY ParseUndotted, UndottedIsNotDev
<1>2. /\ a.core \in [1..3 -> Nat] /\ b.core \in [1..3 -> Nat]
      /\ DOMAIN a.core = 1..3 /\ DOMAIN b.core = 1..3
      /\ Len(a.core) = 3 /\ Len(b.core) = 3
  BY DEF UndottedReleases
<1>3. NewerParts(a.core, b.core)
        <=> \E i \in 1..3 : a.core[i] < b.core[i] /\ \A j \in 1..(i - 1) : a.core[j] = b.core[j]
  BY <1>2 DEF NewerParts
<1>4. QED
  BY <1>1, <1>2, <1>3, FirstOfThree DEF IsNewerVersion

(* A newer release is a later one, also from a development build on. *)
LEMMA NewerPrecedes ==
  ASSUME NEW a \in UndottedReleases \cup {Dev}, NEW b \in UndottedReleases, IsNewerVersion(a, b)
  PROVE  Precedes(a, b)
<1>1. b # Dev
  BY UndottedIsNotDev
<1>2. CASE a = Dev
  BY <1>1, <1>2 DEF Precedes
<1>3. CASE a # Dev
  BY <1>3, NewerIsCoreBefore, CorePrecedence
<1>4. QED
  BY <1>2, <1>3

(* For releases of three numbers the converse holds as well. *)
LEMMA NewerIsPrecedence ==
  ASSUME NEW a \in FullReleases \cup {Dev}, NEW b \in FullReleases
  PROVE  IsNewerVersion(a, b) <=> Precedes(a, b)
<1>1. b \in UndottedReleases /\ b # Dev
  BY FullIsUndotted, UndottedIsNotDev
<1>2. CASE a = Dev
  BY <1>1, <1>2 DEF IsNewerVersion, Precedes
<1>3. CASE a # Dev
  <2>1. a \in UndottedReleases /\ a.pre = <<>>
    BY <1>3, FullIsUndotted DEF FullReleases
  <2>2. ~PrePrecedes(a.pre, b.pre)
    BY <2>1 DEF PrePrecedes
  <2>3. QED
    BY <1>1, <2>1, <2>2, NewerIsCoreBefore, CorePrecedence
<1>4. QED
  BY <1>2, <1>3

-----------------------------------------------------------------------------
(* The comparison on all versions, pre-releases and builds included *)

LEMMA ParseTyped == ASSUME NEW v \in Versions PROVE ParseVersion(v) \in Seq(Nat)
<1> DEFINE ids == Rest(v.pre) \o Rest(v.build)
<1>1. v.core \in Seq(Nat) /\ v.pre \in Seq(Identifiers) /\ v.build \in Seq(Identifiers)
  BY DEF Versions
<1>2. ASSUME NEW q \in Seq(Identifiers) PROVE Rest(q) \in Seq(Identifiers)
  BY DEF Rest
<1>3. ids \in Seq(Identifiers)
  BY <1>1, <1>2
<1>4. \A i \in 1..Len(ids) : Numeral(ids[i]) \in Nat
  BY <1>3 DEF Numeral, Identifiers
<1> HIDE DEF ids
<1>5. Len(ids) \in Nat /\ [i \in 1..Len(ids) |-> Numeral(ids[i])] \in [1..Len(ids) -> Nat]
  BY <1>3, <1>4
<1>6. [i \in 1..Len(ids) |-> Numeral(ids[i])] \in Seq(Nat)
  BY <1>5
<1>7. ParseVersion(v) = v.core \o [i \in 1..Len(ids) |-> Numeral(ids[i])]
  BY DEF ParseVersion, ids
<1>8. QED
  BY <1>1, <1>6, <1>7

(* Where two sequences differ first, or which of them is longer, decides:  *)
(* the first difference of the outer two of three is that of the pair that *)
(* differs first.                                                          *)
LEMMA NewerPartsTransitive ==
  ASSUME NEW s \in Seq(Nat), NEW t \in Seq(Nat), NEW u \in Seq(Nat),
         NewerParts(s, t), NewerParts(t, u)
  PROVE  NewerParts(s, u)
<1> DEFINE FirstAt(x, y, i) == /\ i \in DOMAIN x \cap DOMAIN y /\ y[i] > x[i]
                               /\ \A j \in 1..(i - 1) : y[j] = x[j]
           Extends(x, y) == Len(y) > Len(x) /\ \A i \in DOMAIN x : y[i] = x[i]
<1>0. /\ DOMAIN s = 1..Len(s) /\ DOMAIN t = 1..Len(t) /\ DOMAIN u = 1..Len(u)
      /\ Len(s) \in Nat /\ Len(t) \in Nat /\ Len(u) \in Nat
      /\ \A i \in DOMAIN s : s[i] \in Nat
      /\ \A i \in DOMAIN t : t[i] \in Nat
      /\ \A i \in DOMAIN u : u[i] \in Nat
  OBVIOUS
<1>1. ASSUME NEW i \in Nat, FirstAt(s, t, i), NEW k \in Nat, FirstAt(t, u, k)
      PROVE  \E m \in Nat : FirstAt(s, u, m)
  <2>1. CASE i <= k
    <3>1. i \in 1..Len(s) /\ i \in 1..Len(t) /\ k \in 1..Len(t) /\ k \in 1..Len(u)
      BY <1>0, <1>1
    <3>2. i \in 1..Len(u) /\ t[i] > s[i] /\ u[i] >= t[i]
      <4>1. CASE i = k
        BY <1>0, <1>1, <3>1, <4>1
      <4>2. CASE i < k
        <5>1. i \in 1..(k - 1)
          BY <1>0, <3>1, <4>2
        <5>2. QED
          BY <1>0, <1>1, <3>1, <5>1
      <4>3. QED
        BY <2>1, <4>1, <4>2
    <3>3. ASSUME NEW j \in 1..(i - 1) PROVE u[j] = s[j]
      <4>1. j \in 1..(k - 1)
        BY <2>1
      <4>2. QED
        BY <1>1, <3>3, <4>1
    <3>4. u[i] > s[i]
      BY <1>0, <3>1, <3>2
    <3>5. i \in DOMAIN s \cap DOMAIN u
      BY <1>0, <3>1, <3>2
    <3>6. FirstAt(s, u, i)
      BY <3>3, <3>4, <3>5
    <3>7. QED
      BY <3>6
  <2>2. CASE k < i
    <3>1. k \in 1..(i - 1) /\ k \in 1..Len(s) /\ k \in 1..Len(u)
      BY <1>0, <1>1, <2>2
    <3>2. u[k] > s[k]
      BY <1>1, <3>1
    <3>3. ASSUME NEW j \in 1..(k - 1) PROVE u[j] = s[j]
      <4>1. j \in 1..(i - 1)
        BY <2>2
      <4>2. QED
        BY <1>1, <3>3, <4>1
    <3>4. FirstAt(s, u, k)
      BY <1>0, <3>1, <3>2, <3>3
    <3>5. QED
      BY <3>4
  <2>3. QED
    BY <1>1, <2>1, <2>2
<1>2. ASSUME NEW i \in Nat, FirstAt(s, t, i), Extends(t, u) PROVE FirstAt(s, u, i)
  <2>1. i \in 1..Len(s) /\ i \in 1..Len(t) /\ i \in 1..Len(u)
    BY <1>0, <1>2
  <2>2. ASSUME NEW j \in 1..i PROVE u[j] = t[j]
    <3>1. j \in 1..Len(t)
      BY <1>0, <2>1
    <3>2. QED
      BY <1>0, <1>2, <3>1
  <2>3. u[i] > s[i]
    BY <1>2, <2>1, <2>2
  <2>4. ASSUME NEW j \in 1..(i - 1) PROVE u[j] = s[j]
    BY <1>2, <2>2, <2>4
  <2>5. QED
    BY <1>0, <2>1, <2>3, <2>4
<1>3. ASSUME Extends(s, t), NEW k \in Nat, FirstAt(t, u, k)
      PROVE  FirstAt(s, u, k) \/ Extends(s, u)
  <2>0. k \in 1..Len(t) /\ k \in 1..Len(u)
    BY <1>0, <1>3
  <2>1. CASE k <= Len(s)
    <3>1. k \in 1..Len(s)
      BY <1>0, <2>0, <2>1
    <3>2. u[k] > s[k]
      BY <1>0, <1>3, <3>1
    <3>3. ASSUME NEW j \in 1..(k - 1) PROVE u[j] = s[j]
      <4>1. j \in 1..Len(s)
        BY <1>0, <3>1
      <4>2. QED
        BY <1>0, <1>3, <3>3, <4>1
    <3>4. FirstAt(s, u, k)
      BY <1>0, <2>0, <3>1, <3>2, <3>3
    <3>5. QED
      BY <3>4
  <2>2. CASE k > Len(s)
    <3>1. Len(u) > Len(s)
      BY <1>0, <2>0, <2>2
    <3>2. ASSUME NEW j \in 1..Len(s) PROVE u[j] = s[j]
      <4>1. j \in 1..(k - 1)
        BY <1>0, <2>0, <2>2
      <4>2. QED
        BY <1>0, <1>3, <3>2, <4>1
    <3>3. Extends(s, u)
      BY <1>0, <3>1, <3>2
    <3>4. QED
      BY <3>3
  <2>3. QED
    BY <1>0, <1>3, <2>1, <2>2
<1>4. ASSUME Extends(s, t), Extends(t, u) PROVE Extends(s, u)
  <2>1. Len(u) > Len(s)
    BY <1>0, <1>4
  <2>2. ASSUME NEW j \in 1..Len(s) PROVE u[j] = s[j]
    <3>1. j \in 1..Len(t)
      BY <1>0, <1>4
    <3>2. QED
      BY <1>0, <1>4, <2>2, <3>1
  <2>3. QED
    BY <1>0, <2>1, <2>2
<1>5. ASSUME NEW x \in Seq(Nat), NEW y \in Seq(Nat)
      PROVE  NewerParts(x, y) <=> (\E i \in Nat : FirstAt(x, y, i)) \/ Extends(x, y)
  <2>1. DOMAIN x \cap DOMAIN y \subseteq Nat
    BY <1>5
  <2>2. (\E i \in Nat : FirstAt(x, y, i))
          <=> \E i \in DOMAIN x \cap DOMAIN y :
                y[i] > x[i] /\ \A j \in 1..(i - 1) : y[j] = x[j]
    BY <2>1
  <2>3. QED
    BY <2>2 DEF NewerParts
<1> HIDE DEF FirstAt, Extends
<1>6. QED
  BY <1>1, <1>2, <1>3, <1>4, <1>5

LEMMA NewerPartsIrreflexive == ASSUME NEW s \in Seq(Nat) PROVE ~NewerParts(s, s)
BY DEF NewerParts

(* Sequences neither of which is newer are the same. *)
LEMMA NewerPartsTotal ==
  ASSUME NEW s \in Seq(Nat), NEW t \in Seq(Nat), ~NewerParts(s, t), ~NewerParts(t, s)
  PROVE  s = t
<1> DEFINE D == {i \in DOMAIN s \cap DOMAIN t : s[i] # t[i]}
<1>0. /\ DOMAIN s = 1..Len(s) /\ DOMAIN t = 1..Len(t) /\ Len(s) \in Nat /\ Len(t) \in Nat
      /\ D \subseteq Nat
      /\ \A i \in D : s[i] \in Nat /\ t[i] \in Nat
  OBVIOUS
<1>a. DOMAIN s = 1..Len(s) /\ DOMAIN t = 1..Len(t)
  OBVIOUS
<1>b. Len(s) \in Nat /\ Len(t) \in Nat
  OBVIOUS
<1>1. D = {}
  <2> SUFFICES ASSUME D # {} PROVE FALSE
    OBVIOUS
  <2> DEFINE Less == OpToRel(<, Nat)
  <2>1. \E i \in D : \A j \in D : ~(<<j, i>> \in Less)
    BY <1>0, NatLessThanWellFounded, WFMin
  <2>2. PICK i \in D : \A j \in D : ~(<<j, i>> \in Less)
    BY <2>1
  <2>3. \A j \in D : ~(j < i)
    BY <1>0, <2>2 DEF OpToRel
  <2>4. ASSUME NEW j \in 1..(i - 1) PROVE s[j] = t[j]
    <3>0. i \in 1..Len(s) /\ i \in 1..Len(t)
      BY <1>0
    <3> HIDE DEF D
    <3>1. j \in Nat /\ j < i /\ j \in DOMAIN s \cap DOMAIN t
      BY <1>a, <1>b, <3>0
    <3> USE DEF D
    <3>2. j \notin D
      BY <2>3, <3>1
    <3>3. QED
      BY <3>1, <3>2
  <2>5. s[i] < t[i] \/ t[i] < s[i]
    BY <1>0
  <2>6. QED
    BY <2>4, <2>5 DEF NewerParts
<1>2. \A i \in DOMAIN s \cap DOMAIN t : s[i] = t[i]
  BY <1>1
<1>3. ASSUME NEW x \in Seq(Nat), NEW y \in Seq(Nat), Len(x) < Len(y),
             \A i \in DOMAIN x \cap DOMAIN y : x[i] = y[i]
      PROVE  NewerParts(x, y)
  <2>1. \A i \in DOMAIN x : i \in DOMAIN y
    BY <1>3
  <2>2. QED
    BY <1>3, <2>1 DEF NewerParts
<1>4. Len(s) = Len(t)
  <2>1. \A i \in DOMAIN t \cap DOMAIN s : t[i] = s[i]
    BY <1>2
  <2>2. ~(Len(s) < Len(t))
    BY <1>2, <1>3
  <2>3. ~(Len(t) < Len(s))
    BY <1>3, <2>1
  <2>4. QED
    BY <1>b, <2>2, <2>3
<1>5. QED
  BY <1>0, <1>2, <1>4, SeqEqual

(* Nothing is newer than itself or than what is newer than it, and two     *)
(* versions neither of which is newer are parsed alike, for all versions:  *)
(* whatever isNewerVersion makes of pre-releases and builds, a chain of    *)
(* updates each of which it approves of never comes back to a version.     *)
THEOREM NewerIsStrictOrder ==
  ASSUME NEW a \in Versions, NEW b \in Versions, NEW c \in Versions
  PROVE  /\ ~IsNewerVersion(a, a)
         /\ IsNewerVersion(a, b) /\ IsNewerVersion(b, c) => IsNewerVersion(a, c)
         /\ ~IsNewerVersion(a, b) /\ ~IsNewerVersion(b, a) /\ a # Dev /\ b # Dev
              => ParseVersion(a) = ParseVersion(b)
<1>1. /\ ParseVersion(a) \in Seq(Nat) /\ ParseVersion(b) \in Seq(Nat)
      /\ ParseVersion(c) \in Seq(Nat)
  BY ParseTyped
<1>2. ASSUME NEW s \in Seq(Nat) PROVE ~NewerParts(s, <<>>)
  BY DEF NewerParts
<1>3. ParseVersion(Dev) = <<>>
  BY DEF ParseVersion, Dev, Rest
<1>4. ~IsNewerVersion(a, a)
  BY <1>1, NewerPartsIrreflexive DEF IsNewerVersion
<1>5. ASSUME IsNewerVersion(a, b), IsNewerVersion(b, c) PROVE IsNewerVersion(a, c)
  <2>1. b # Dev /\ c # Dev
    BY <1>1, <1>2, <1>3, <1>5 DEF IsNewerVersion
  <2>2. QED
    BY <1>1, <1>5, <2>1, NewerPartsTransitive DEF IsNewerVersion
<1>6. ASSUME ~IsNewerVersion(a, b), ~IsNewerVersion(b, a), a # Dev, b # Dev
      PROVE  ParseVersion(a) = ParseVersion(b)
  BY <1>1, <1>6, NewerPartsTotal DEF IsNewerVersion
<1>7. QED
  BY <1>4, <1>5, <1>6

(* A download in progress is of a version the comparison called newer. *)
DownloadInv == fetched # None => IsNewerVersion(running, fetched)

(* Whatever is published, pre-releases and builds included, an update in a *)
(* process that runs what is installed puts a version in place that        *)
(* isNewerVersion calls newer: with NewerIsStrictOrder, a chain of updates *)
(* in such processes installs no version twice.                            *)
THEOREM OnlyNewerInstalled ==
  UpgradeSpec =>
    [][running = installed /\ installed' # installed => IsNewerVersion(installed, installed')]_upgradeVars
<1>1. UpgradeInit => DownloadInv
  BY DEF UpgradeInit, DownloadInv
<1>2. DownloadInv /\ [UpgradeNext]_upgradeVars => DownloadInv'
  BY DEF DownloadInv, UpgradeNext, upgradeVars, Publish, CheckUpdate, FetchFails, AlreadyCurrent,
         StartDownload, Apply, UpdateFails, Restart
<1>3. DownloadInv /\ [UpgradeNext]_upgradeVars
        => [running = installed /\ installed' # installed
              => IsNewerVersion(installed, installed')]_upgradeVars
  BY DEF DownloadInv, UpgradeNext, upgradeVars, Publish, CheckUpdate, FetchFails, AlreadyCurrent,
         StartDownload, Apply, UpdateFails, Restart
<1>4. QED
  BY <1>1, <1>2, <1>3, PTL DEF UpgradeSpec

-----------------------------------------------------------------------------
(* A download in progress is of a release newer than the running one.      *)
ForwardInv == UpgradeTypeOK /\ (fetched # None => Precedes(running, fetched))

(* Nothing is being downloaded at the start. *)
LEMMA ForwardInit == UpgradeInit => ForwardInv
BY DEF UpgradeInit, ForwardInv, UpgradeTypeOK

(* Only the start of a download and a restart disturb it. *)
LEMMA ForwardStep ==
  ASSUME Releases \subseteq UndottedReleases, ForwardInv, [UpgradeNext]_upgradeVars
  PROVE  ForwardInv'
<1>1. UpgradeTypeOK'
  BY DEF ForwardInv, UpgradeTypeOK, UpgradeNext, upgradeVars, Publish, CheckUpdate, FetchFails, AlreadyCurrent,
         StartDownload, Apply, UpdateFails, Restart
<1>2. CASE StartDownload
  <2>1. Precedes(running, latest)
    BY <1>2, NewerPrecedes DEF StartDownload, ForwardInv, UpgradeTypeOK
  <2>2. QED
    BY <1>1, <1>2, <2>1 DEF StartDownload, ForwardInv
<1>3. CASE Apply \/ UpdateFails \/ Restart
  BY <1>1, <1>3 DEF ForwardInv, Apply, UpdateFails, Restart
<1>4. CASE (\E v \in Releases : Publish(v)) \/ CheckUpdate \/ FetchFails \/ AlreadyCurrent
           \/ UNCHANGED upgradeVars
  BY <1>1, <1>4 DEF ForwardInv, Publish, CheckUpdate, FetchFails, AlreadyCurrent, upgradeVars
<1>5. QED
  BY <1>2, <1>3, <1>4 DEF UpgradeNext

(* The invariant of the updater, for releases without dots in suffixes. *)
LEMMA ForwardCorrect == ASSUME Releases \subseteq UndottedReleases PROVE UpgradeSpec => []ForwardInv
<1>1. ForwardInv /\ [UpgradeNext]_upgradeVars => ForwardInv'
  BY ForwardStep
<1>2. QED
  BY ForwardInit, <1>1, PTL DEF UpgradeSpec

(* With no dots in the suffixes of releases, an update in a process that   *)
(* runs what is installed never replaces the binary by an earlier release. *)
THEOREM MovesForward ==
  ASSUME Releases \subseteq UndottedReleases PROVE UpgradeSpec => UpdateMovesForward
<1>1. ForwardInv /\ [UpgradeNext]_upgradeVars
        => [running = installed /\ installed' # installed => Precedes(installed, installed')]_upgradeVars
  BY DEF ForwardInv, UpgradeNext, upgradeVars, Publish, CheckUpdate, FetchFails, AlreadyCurrent,
         StartDownload, Apply, UpdateFails, Restart
<1>2. QED
  BY ForwardCorrect, <1>1, PTL DEF UpgradeSpec, UpdateMovesForward

(* With releases of three numbers, an installation told that it is current *)
(* is: what the updater says of them is what Semantic Versioning says.     *)
THEOREM UpToDate == ASSUME Releases \subseteq FullReleases PROVE UpgradeSpec => []CurrentMeansLatest
<1>1. ForwardInv /\ CurrentMeansLatest /\ [UpgradeNext]_upgradeVars => CurrentMeansLatest'
  <2>1. ForwardInv => (IsNewerVersion(running, latest) <=> Precedes(running, latest))
    BY NewerIsPrecedence DEF ForwardInv, UpgradeTypeOK
  <2>2. QED
    BY <2>1 DEF CurrentMeansLatest, UpgradeNext, upgradeVars, Publish, CheckUpdate, FetchFails, AlreadyCurrent,
                StartDownload, Apply, UpdateFails, Restart
<1>2. UpgradeInit => CurrentMeansLatest
  BY DEF UpgradeInit, CurrentMeansLatest
<1>3. UpgradeSpec => []ForwardInv
  BY FullIsUndotted, ForwardCorrect
<1>4. QED
  BY <1>1, <1>2, <1>3, PTL DEF UpgradeSpec
=============================================================================

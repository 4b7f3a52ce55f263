--------------------------- MODULE ReplaceProofs ---------------------------
(***************************************************************************)
(* The replacement of the binary, for any number of updates, any releases  *)
(* and any size of a binary, with failures at every step and the death of  *)
(* the process between any two.  First what holds of updates however they  *)
(* overlap, then what needs them one after the other.                      *)
(***************************************************************************)
EXTENDS Replace, TLAPS

LEMMA OverwrittenTyped ==
  ASSUME NEW S, NEW blocks \in Seq(S), NEW n \in Nat \ {0}, NEW v \in S, Hole \in S
  PROVE  Overwritten(blocks, n, v) \in Seq(S)
<1> DEFINE len == IF Len(blocks) < n THEN n ELSE Len(blocks)
<1>1. len \in Nat
  OBVIOUS
<1>2. \A i \in 1..len : (IF i = n THEN v ELSE IF i <= Len(blocks) THEN blocks[i] ELSE Hole) \in S
  OBVIOUS
<1> HIDE DEF len
<1>3. [i \in 1..len |-> IF i = n THEN v ELSE IF i <= Len(blocks) THEN blocks[i] ELSE Hole] \in Seq(S)
  BY <1>1, <1>2
<1>4. QED
  BY <1>3 DEF Overwritten, len

LEMMA TypeUpdate ==
  ASSUME TypeOK, NEW u \in Updaters,
         \/ Begin(u) \/ BeginFails(u) \/ DownloadFile(u) \/ ExtractBinary(u) \/ FetchFails(u)
         \/ ValidateSource(u) \/ RemoveStale(u) \/ CreateTemp(u) \/ CreateFails(u)
         \/ CopyBlock(u) \/ CopyEnds(u) \/ CopyFails(u)
         \/ Validate(u) \/ Rename(u) \/ RenameFails(u) \/ Discard(u) \/ Cleanup(u)
  PROVE  TypeOK'
<1> DEFINE Contents == Seq(Versions \cup {Hole})
<1>1. CASE Begin(u) \/ BeginFails(u) \/ DownloadFile(u) \/ ExtractBinary(u) \/ FetchFails(u)
  BY <1>1 DEF Begin, BeginFails, DownloadFile, ExtractBinary, FetchFails, Goes, Fails, TypeOK
<1>2. CASE ValidateSource(u) \/ RemoveStale(u) \/ CreateFails(u)
  BY <1>2 DEF ValidateSource, RemoveStale, CreateFails, Goes, Fails, TypeOK
<1>3. CASE CreateTemp(u)
  <2>1. PICK inode \in Inodes : /\ temp' = inode
                                /\ handle' = [handle EXCEPT ![u] = inode]
                                /\ file' = [file EXCEPT ![inode] = <<>>]
    BY <1>3 DEF CreateTemp, TypeOK, Inodes
  <2>2. QED
    BY <1>3, <2>1 DEF CreateTemp, Goes, TypeOK
<1>4. CASE CopyBlock(u)
  <2>1. off[u] + 1 \in Nat \ {0} /\ off[u] + 1 \in 0..Blocks
    BY <1>4, BlocksAssumption DEF CopyBlock, TypeOK
  <2>2. \A i \in Inodes : Overwritten(file[i], off[u] + 1, release[u]) \in Contents
    BY <2>1, OverwrittenTyped DEF TypeOK
  <2>3. file' \in [Inodes -> Contents]
    BY <1>4, <2>2 DEF CopyBlock, TypeOK
  <2>4. QED
    BY <1>4, <2>1, <2>3 DEF CopyBlock, TypeOK
<1>5. CASE CopyEnds(u) \/ CopyFails(u)
  BY <1>5 DEF CopyEnds, CopyFails, Goes, TypeOK
<1>6. CASE Validate(u) \/ RenameFails(u)
  BY <1>6 DEF Validate, RenameFails, Goes, TypeOK
<1>7. CASE Rename(u) \/ Discard(u) \/ Cleanup(u)
  BY <1>7 DEF Rename, Discard, Cleanup, Fails, TypeOK
<1>8. QED
  BY <1>1, <1>2, <1>3, <1>4, <1>5, <1>6, <1>7

LEMMA ReplaceTypeInit == Init => TypeOK
<1>1. \A v \in Versions : [b \in 1..Blocks |-> v] \in Seq(Versions \cup {Hole})
  BY BlocksAssumption
<1>2. <<>> \in Seq(Versions \cup {Hole}) /\ 0 \in 0..Blocks /\ Old \in Inodes
  BY BlocksAssumption DEF Inodes
<1>3. ASSUME Init PROVE file \in [Inodes -> Seq(Versions \cup {Hole})]
  BY <1>1, <1>2, <1>3 DEF Init
<1>4. QED
  BY <1>2, <1>3 DEF Init, TypeOK

LEMMA ReplaceTypeStep == TypeOK /\ [Next]_vars => TypeOK'
<1>1. TypeOK /\ Die => TypeOK'
  BY DEF Die, TypeOK
<1>2. TypeOK /\ UNCHANGED vars => TypeOK'
  BY DEF vars, TypeOK
<1>3. QED
  BY <1>1, <1>2, TypeUpdate DEF Next, Over

(* The types of all variables, whether updates overlap or not. *)
THEOREM ReplaceTypeCorrect == Spec => []TypeOK
BY ReplaceTypeInit, ReplaceTypeStep, PTL DEF Spec

-----------------------------------------------------------------------------
(* Updates that may overlap: as long as the process lives, a directory is  *)
(* that of a running update, and the temporary name stands for something   *)
(* only while some update is between creating it and renaming or removing  *)
(* it; no update writes the first binary.                                  *)
Before == {"idle", "download", "extract", "source", "remove", "create"}
Within == {"copy", "validate", "rename", "discard"}

SweptInv == ~died => /\ dirs \subseteq {u \in Updaters : Active(u)}
                     /\ temp # None => \E u \in Updaters : pc[u] \in Within

FirstInv == /\ temp # Old /\ \A u \in Updaters : handle[u] # Old
            /\ Whole(file[Old])
            /\ \A u \in Updaters : pc[u] \in Before \cup Within => outcome[u] = "open"
            /\ (\A u \in Updaters : outcome[u] # "applied") => target = Old

OverlapInv == TypeOK /\ SweptInv /\ FirstInv

LEMMA OverlapInit == Init => OverlapInv
<1>1. Init => SweptInv /\ FirstInv
  BY InodesAssumption DEF Init, SweptInv, FirstInv, Whole, Inodes
<1>2. QED
  BY <1>1, ReplaceTypeInit DEF OverlapInv

LEMMA SweptStep ==
  ASSUME TypeOK, SweptInv, NEW u \in Updaters, NEW to, pc' = [pc EXCEPT ![u] = to],
         died' = died,
         dirs' \subseteq dirs \cup {u}, to = "done" => u \notin dirs', to # "idle",
         \/ temp' = None
         \/ to \in Within
         \/ temp' = temp /\ pc[u] \notin Within
  PROVE  SweptInv'
<1>1. pc'[u] = to /\ \A w \in Updaters : w # u => pc'[w] = pc[w]
  BY DEF TypeOK
<1>2. ~died => dirs' \subseteq {w \in Updaters : Active(w)'}
  BY <1>1 DEF SweptInv, Active
<1>3. ASSUME ~died, temp' # None PROVE \E w \in Updaters : pc'[w] \in Within
  <2>1. CASE to \in Within
    BY <1>1, <2>1
  <2>2. CASE to \notin Within
    <3>1. PICK w \in Updaters : pc[w] \in Within
      BY <1>3, <2>2 DEF SweptInv
    <3>2. w # u
      BY <1>3, <2>2, <3>1
    <3>3. QED
      BY <1>1, <3>1, <3>2
  <2>3. QED
    BY <2>1, <2>2
<1>4. QED
  BY <1>2, <1>3 DEF SweptInv

LEMMA SweptUpdate ==
  ASSUME TypeOK, SweptInv, NEW u \in Updaters,
         \/ Begin(u) \/ BeginFails(u) \/ DownloadFile(u) \/ ExtractBinary(u) \/ FetchFails(u)
         \/ ValidateSource(u) \/ RemoveStale(u) \/ CreateTemp(u) \/ CreateFails(u)
         \/ CopyBlock(u) \/ CopyEnds(u) \/ CopyFails(u)
         \/ Validate(u) \/ Rename(u) \/ RenameFails(u) \/ Discard(u) \/ Cleanup(u)
  PROVE  SweptInv'
<1>1. CASE Begin(u)
  BY <1>1, SweptStep DEF Begin, Within
<1>2. ASSUME NEW from, NEW to \in {"extract", "source", "remove", "create"},
             Goes(u, from, to), from \notin Within, temp' \in {temp, None}, died' = died
      PROVE  SweptInv'
  BY <1>2, SweptStep DEF Goes, Within
<1>3. CASE DownloadFile(u) \/ ExtractBinary(u) \/ RemoveStale(u)
  BY <1>2, <1>3 DEF DownloadFile, ExtractBinary, RemoveStale, Within
<1>4. ASSUME NEW from, Fails(u, from), from \notin Within, temp' = temp, died' = died
      PROVE  SweptInv'
  BY <1>4, SweptStep DEF Fails, Within
<1>5. CASE BeginFails(u) \/ FetchFails(u) \/ CreateFails(u)
  BY <1>4, <1>5 DEF BeginFails, FetchFails, CreateFails, Within
<1>6. CASE ValidateSource(u)
  <2>1. CASE Goes(u, "source", "remove")
    BY <1>2, <1>6, <2>1 DEF ValidateSource, Within
  <2>2. CASE Fails(u, "source")
    BY <1>4, <1>6, <2>2 DEF ValidateSource, Within
  <2>3. QED
    BY <1>6, <2>1, <2>2 DEF ValidateSource
<1>7. ASSUME NEW from, NEW to \in Within, Goes(u, from, to), died' = died
      PROVE  SweptInv'
  BY <1>7, SweptStep DEF Goes, Within
<1>8. CASE CreateTemp(u) \/ CopyEnds(u) \/ CopyFails(u) \/ Validate(u) \/ RenameFails(u)
  BY <1>7, <1>8 DEF CreateTemp, CopyEnds, CopyFails, Validate, RenameFails, Within
<1>9. CASE CopyBlock(u)
  BY <1>9 DEF CopyBlock, SweptInv, Active
<1>10. CASE Rename(u)
  BY <1>10, SweptStep DEF Rename
<1>11. CASE Discard(u)
  BY <1>11, SweptStep DEF Discard, Fails
<1>12. CASE Cleanup(u)
  BY <1>12, SweptStep DEF Cleanup, Within
<1>13. QED
  BY <1>1, <1>3, <1>5, <1>6, <1>8, <1>9, <1>10, <1>11, <1>12

LEMMA FirstStep ==
  ASSUME TypeOK, FirstInv, NEW u \in Updaters, NEW to, pc' = [pc EXCEPT ![u] = to],
         \/ UNCHANGED outcome /\ (to \in Before \cup Within => pc[u] \in Before \cup Within)
         \/ /\ to = "cleanup" /\ pc[u] \in Before \cup Within
            /\ outcome' = [outcome EXCEPT ![u] = "failed"],
         temp' # Old, \A w \in Updaters : handle'[w] # Old, file'[Old] = file[Old],
         target' = target
  PROVE  FirstInv'
<1>1. pc'[u] = to /\ \A w \in Updaters : w # u => pc'[w] = pc[w] /\ outcome'[w] = outcome[w]
  BY DEF TypeOK
<1>2. Whole(file[Old])'
  BY DEF FirstInv, Whole
<1>3. \A w \in Updaters : pc'[w] \in Before \cup Within => outcome'[w] = "open"
  BY <1>1 DEF FirstInv, Before, Within
<1>4. \A w \in Updaters : outcome[w] = "applied" => outcome'[w] = "applied"
  BY <1>1 DEF FirstInv
<1>5. (\A w \in Updaters : outcome'[w] # "applied") => target' = Old
  BY <1>4 DEF FirstInv
<1>6. QED
  BY <1>2, <1>3, <1>5 DEF FirstInv

LEMMA FirstUpdate ==
  ASSUME TypeOK, FirstInv, NEW u \in Updaters,
         \/ Begin(u) \/ BeginFails(u) \/ DownloadFile(u) \/ ExtractBinary(u) \/ FetchFails(u)
         \/ ValidateSource(u) \/ RemoveStale(u) \/ CreateTemp(u) \/ CreateFails(u)
         \/ CopyBlock(u) \/ CopyEnds(u) \/ CopyFails(u)
         \/ Validate(u) \/ Rename(u) \/ RenameFails(u) \/ Discard(u) \/ Cleanup(u)
  PROVE  FirstInv'
<1>1. /\ None # Old /\ u # Old /\ u \in Inodes /\ Old \in Inodes
      /\ temp # Old /\ \A w \in Updaters : handle[w] # Old
      /\ handle \in [Updaters -> Inodes \cup {None}]
  BY InodesAssumption DEF FirstInv, TypeOK, Inodes
<1>2. ASSUME NEW from \in Before \cup Within, NEW to, Goes(u, from, to),
             temp' # Old, \A w \in Updaters : handle'[w] # Old, file'[Old] = file[Old], target' = target
      PROVE  FirstInv'
  BY <1>2, FirstStep DEF Goes
<1>3. ASSUME NEW from \in Before \cup Within, Fails(u, from),
             temp' # Old, \A w \in Updaters : handle'[w] # Old, file'[Old] = file[Old], target' = target
      PROVE  FirstInv'
  BY <1>3, FirstStep DEF Fails
<1>4. CASE Begin(u)
  BY <1>1, <1>4, FirstStep DEF Begin, Before
<1>5. CASE DownloadFile(u) \/ ExtractBinary(u) \/ RemoveStale(u) \/ Validate(u) \/ RenameFails(u)
  BY <1>1, <1>2, <1>5 DEF DownloadFile, ExtractBinary, RemoveStale, Validate, RenameFails, Before, Within
<1>6. CASE BeginFails(u) \/ FetchFails(u) \/ CreateFails(u) \/ Discard(u)
  BY <1>1, <1>3, <1>6 DEF BeginFails, FetchFails, CreateFails, Discard, Before, Within
<1>7. CASE ValidateSource(u)
  BY <1>1, <1>2, <1>3, <1>7 DEF ValidateSource, Before
<1>8. CASE CreateTemp(u)
  <2>1. PICK inode \in Inodes : /\ inode # Old /\ temp' = inode
                                /\ handle' = [handle EXCEPT ![u] = inode]
                                /\ file' = [file EXCEPT ![inode] = <<>>]
    BY <1>1, <1>8 DEF CreateTemp, TypeOK
  <2>2. Goes(u, "create", "copy") /\ target' = target
    BY <1>8 DEF CreateTemp
  <2>3. temp' # Old /\ (\A w \in Updaters : handle'[w] # Old) /\ file'[Old] = file[Old]
    BY <1>1, <2>1 DEF TypeOK
  <2>4. QED
    BY <1>2, <2>2, <2>3 DEF Before
<1>9. CASE CopyBlock(u)
  <2>1. file'[Old] = file[Old]
    BY <1>1, <1>9 DEF CopyBlock, TypeOK
  <2>2. QED
    BY <1>1, <1>9, <2>1 DEF CopyBlock, FirstInv, Whole
<1>10. CASE CopyEnds(u) \/ CopyFails(u)
  BY <1>1, <1>2, <1>10 DEF CopyEnds, CopyFails, Within
<1>11. CASE Rename(u)
  <2>1. outcome'[u] = "applied" /\ Whole(file[Old])' /\ temp' # Old /\ \A w \in Updaters : handle'[w] # Old
    BY <1>1, <1>11 DEF Rename, FirstInv, Whole, TypeOK
  <2>2. \A w \in Updaters : pc'[w] \in Before \cup Within => outcome'[w] = "open"
    BY <1>11 DEF Rename, FirstInv, TypeOK, Before, Within
  <2>3. QED
    BY <2>1, <2>2 DEF FirstInv
<1>12. CASE Cleanup(u)
  BY <1>1, <1>12, FirstStep DEF Cleanup, Before, Within
<1>13. QED
  BY <1>4, <1>5, <1>6, <1>7, <1>8, <1>9, <1>10, <1>11, <1>12

LEMMA OverlapStep == OverlapInv /\ [Next]_vars => OverlapInv'
<1> SUFFICES ASSUME OverlapInv, [Next]_vars PROVE SweptInv' /\ FirstInv'
  BY ReplaceTypeStep DEF OverlapInv
<1>1. TypeOK /\ SweptInv /\ FirstInv
  BY DEF OverlapInv
<1>2. CASE UNCHANGED vars
  BY <1>1, <1>2 DEF vars, SweptInv, FirstInv, Active, Whole
<1>3. CASE Die
  <2>1. SweptInv'
    BY <1>3 DEF Die, SweptInv
  <2>2. \A u \in Updaters : /\ pc'[u] \in Before \cup Within => pc'[u] = pc[u] /\ ~Active(u)
                            /\ outcome[u] = "applied" => outcome'[u] = "applied"
                            /\ ~Active(u) => outcome'[u] = outcome[u]
                            /\ handle'[u] = None
    BY <1>3 DEF Die, Active, Before, Within
  <2>3. None # Old /\ Whole(file[Old])' /\ temp' # Old /\ target' = target
    BY <1>1, <1>3, InodesAssumption DEF Die, FirstInv, Whole
  <2>4. FirstInv'
    BY <1>1, <2>2, <2>3 DEF FirstInv
  <2>5. QED
    BY <2>1, <2>4
<1>4. QED
  BY <1>1, <1>2, <1>3, SweptUpdate, FirstUpdate DEF Next, Over

(* Every way out of an update takes the temporary file and directory away, *)
(* the updates that run at the same time included: when the last one is    *)
(* over, and the process has not died, nothing is left.                    *)
THEOREM NothingLeft == Spec => []NoTempLeft
<1>1. OverlapInv => NoTempLeft
  BY DEF OverlapInv, SweptInv, NoTempLeft, Quiet, Active, Within
<1>2. QED
  BY <1>1, OverlapInit, OverlapStep, PTL DEF Spec

(* However updates overlap, fail or die, the binary of the start stays in  *)
(* place and whole until an update reports success: an overlap can damage  *)
(* only what a successful update has installed.                            *)
THEOREM FirstBinaryKept ==
  Spec => [](Whole(file[Old]) /\ ((\A u \in Updaters : outcome[u] # "applied") => target = Old))
<1>1. OverlapInv => Whole(file[Old]) /\ ((\A u \in Updaters : outcome[u] # "applied") => target = Old)
  BY DEF OverlapInv, FirstInv
<1>2. QED
  BY <1>1, OverlapInit, OverlapStep, PTL DEF Spec

-----------------------------------------------------------------------------
(* One update at a time: the inode under the temporary name is its own     *)
(* once it has created it, holds what it has copied, and is not the        *)
(* binary.                                                                 *)
Prefix(u, n) == [i \in 1..n |-> release[u]]

Alone == \A u, w \in Updaters : Active(u) /\ Active(w) => u = w

UpdateInv(u) ==
  /\ pc[u] \in Before => outcome[u] = "open" /\ off[u] = 0 /\ u # temp /\ u # target
  /\ pc[u] = "create" => temp = None
  /\ pc[u] \in Within => outcome[u] = "open" /\ u = temp
  /\ pc[u] = "copy" => handle[u] = u /\ file[u] = Prefix(u, off[u])
  /\ pc[u] \in {"validate", "rename"} => file[u] = Prefix(u, Blocks)

BinaryInv == temp # target /\ Whole(file[target])

ReplaceInv == TypeOK /\ Alone /\ (\A u \in Updaters : UpdateInv(u)) /\ BinaryInv

LEMMA ReplaceInit == Init => ReplaceInv
<1> SUFFICES ASSUME Init PROVE ReplaceInv
  OBVIOUS
<1>1. Alone /\ \A u \in Updaters : UpdateInv(u)
  BY InodesAssumption DEF Init, Alone, Active, UpdateInv, Before, Within
<1>2. BinaryInv
  BY InodesAssumption DEF Init, BinaryInv, Whole, Inodes
<1>3. QED
  BY <1>1, <1>2, ReplaceTypeInit DEF ReplaceInv

(* A block more of the release in the temporary file. *)
LEMMA PrefixGrows ==
  ASSUME NEW u \in Updaters, NEW n \in Nat
  PROVE  Overwritten(Prefix(u, n), n + 1, release[u]) = Prefix(u, n + 1)
<1>1. Len(Prefix(u, n)) = n
  BY DEF Prefix
<1>2. Overwritten(Prefix(u, n), n + 1, release[u])
        = [i \in 1..(n + 1) |-> IF i = n + 1 THEN release[u]
                                ELSE IF i <= n THEN Prefix(u, n)[i] ELSE Hole]
  BY <1>1 DEF Overwritten
<1>3. \A i \in 1..(n + 1) : i # n + 1 => i <= n /\ Prefix(u, n)[i] = release[u]
  BY DEF Prefix
<1>4. QED
  BY <1>2, <1>3 DEF Prefix

(* While one update moves the others are idle or done, and see at most its *)
(* inode come under one of the names.                                      *)
Solo(u) == \A w \in Updaters : w # u => ~Active(w)

LEMMA SoloStep == ASSUME OneAtATime, Alone, NEW u \in Updaters, Active(u) \/ (OneAtATime => Quiet)
                  PROVE  Solo(u)
BY DEF Alone, Solo, Quiet

LEMMA OthersKept ==
  ASSUME ReplaceInv, NEW u \in Updaters, NEW to, Solo(u), pc' = [pc EXCEPT ![u] = to],
         \A w \in Updaters : w # u => outcome'[w] = outcome[w] /\ off'[w] = off[w],
         temp' \in {temp, None, u}, target' \in {target, u}
  PROVE  /\ Alone'
         /\ \A w \in Updaters : w # u => UpdateInv(w)'
         /\ pc'[u] = to /\ \A w \in Updaters : w # u => pc'[w] = pc[w]
<1>1. pc'[u] = to /\ \A w \in Updaters : w # u => pc'[w] = pc[w]
  BY DEF ReplaceInv, TypeOK
<1>2. \A w \in Updaters : w # u => pc[w] \in {"idle", "done"}
  BY DEF Solo, Active
<1>3. Alone'
  BY <1>1, <1>2 DEF Alone, Active
<1>4. ASSUME NEW w \in Updaters, w # u PROVE UpdateInv(w)'
  <2>1. pc[w] \in {"idle", "done"} /\ pc'[w] = pc[w]
    BY <1>1, <1>2, <1>4
  <2>2. pc[w] = "idle" => outcome[w] = "open" /\ off[w] = 0 /\ w # temp /\ w # target
    BY DEF ReplaceInv, UpdateInv, Before
  <2>3. w # None
    BY InodesAssumption
  <2>4. QED
    BY <1>4, <2>1, <2>2, <2>3 DEF UpdateInv, Before, Within
<1>5. QED
  BY <1>1, <1>3, <1>4

(* A step that touches no file. *)
LEMMA StepOutside ==
  ASSUME ReplaceInv, NEW u \in Updaters, NEW to, Solo(u),
         pc[u] \in Before \cup {"cleanup"},
         to \in {"download", "extract", "source", "remove", "cleanup", "done"},
         pc' = [pc EXCEPT ![u] = to],
         to \in Before => pc[u] \in Before /\ UNCHANGED outcome,
         \A w \in Updaters : w # u => outcome'[w] = outcome[w],
         UNCHANGED <<off, temp, target, file, release>>
  PROVE  Alone' /\ (\A w \in Updaters : UpdateInv(w)') /\ BinaryInv'
<1>1. /\ Alone' /\ \A w \in Updaters : w # u => UpdateInv(w)'
      /\ pc'[u] = to /\ \A w \in Updaters : w # u => pc'[w] = pc[w]
  BY OthersKept
<1>2. UpdateInv(u)'
  BY <1>1 DEF ReplaceInv, UpdateInv, Before, Within
<1>3. BinaryInv'
  BY DEF ReplaceInv, BinaryInv, Whole
<1>4. QED
  BY <1>1, <1>2, <1>3

LEMMA StepUpdate ==
  ASSUME OneAtATime, ReplaceInv, TypeOK', NEW u \in Updaters,
         \/ Begin(u) \/ BeginFails(u) \/ DownloadFile(u) \/ ExtractBinary(u) \/ FetchFails(u)
         \/ ValidateSource(u) \/ CreateFails(u) \/ Cleanup(u)
  PROVE  ReplaceInv'
<1>0. /\ outcome \in [Updaters -> {"open", "applied", "failed", "lost"}]
      /\ Alone
  BY DEF ReplaceInv, TypeOK
<1>1. Solo(u)
  BY <1>0, SoloStep DEF Begin, BeginFails, DownloadFile, ExtractBinary, FetchFails, ValidateSource,
                        CreateFails, Cleanup, Goes, Fails, Active
<1>2. Alone' /\ (\A w \in Updaters : UpdateInv(w)') /\ BinaryInv'
  <2>1. CASE Begin(u)
    BY <1>1, <2>1, StepOutside DEF Begin, Before
  <2>2. CASE DownloadFile(u)
    BY <1>1, <2>2, StepOutside DEF DownloadFile, Goes, Before
  <2>3. CASE ExtractBinary(u)
    BY <1>1, <2>3, StepOutside DEF ExtractBinary, Goes, Before
  <2>4. ASSUME NEW from \in Before, Fails(u, from), UNCHANGED <<off, temp, target, file, release>>
        PROVE  Alone' /\ (\A w \in Updaters : UpdateInv(w)') /\ BinaryInv'
    BY <1>0, <1>1, <2>4, StepOutside DEF Fails, Before
  <2>5. CASE BeginFails(u) \/ FetchFails(u) \/ CreateFails(u)
    BY <2>4, <2>5 DEF BeginFails, FetchFails, CreateFails, Before
  <2>6. CASE ValidateSource(u)
    <3>1. CASE Goes(u, "source", "remove")
      BY <1>1, <2>6, <3>1, StepOutside DEF ValidateSource, Goes, Before
    <3>2. CASE Fails(u, "source")
      BY <2>4, <2>6, <3>2 DEF ValidateSource, Before
    <3>3. QED
      BY <2>6, <3>1, <3>2 DEF ValidateSource
  <2>7. CASE Cleanup(u)
    BY <1>1, <2>7, StepOutside DEF Cleanup, Before
  <2>8. QED
    BY <2>1, <2>2, <2>3, <2>5, <2>6, <2>7
<1>3. QED
  BY <1>2 DEF ReplaceInv

(* A step of AtomicReplace that ends with the temporary file in place, or  *)
(* without one; the binary is another file.                                *)
LEMMA StepInside ==
  ASSUME ReplaceInv, NEW u \in Updaters, NEW to, Solo(u), pc' = [pc EXCEPT ![u] = to],
         outcome[u] = "open", u # target,
         \A w \in Updaters : w # u => outcome'[w] = outcome[w] /\ off'[w] = off[w],
         temp' \in {None, u}, to \in Within <=> temp' = u, to \in Within \cup {"create", "cleanup"},
         to # "cleanup" => outcome'[u] = "open",
         to = "create" => off'[u] = 0,
         to = "copy" => handle'[u] = u /\ file'[u] = Prefix(u, off'[u]),
         to \in {"validate", "rename"} => file'[u] = Prefix(u, Blocks),
         file'[target] = file[target],
         UNCHANGED <<release, target>>
  PROVE  Alone' /\ (\A w \in Updaters : UpdateInv(w)') /\ BinaryInv'
<1>0. u # None /\ target # None
  BY InodesAssumption DEF ReplaceInv, TypeOK, Inodes
<1>1. /\ Alone' /\ \A w \in Updaters : w # u => UpdateInv(w)'
      /\ pc'[u] = to /\ \A w \in Updaters : w # u => pc'[w] = pc[w]
  BY OthersKept
<1>2. UpdateInv(u)'
  <2>1. \A n : Prefix(u, n)' = Prefix(u, n)
    BY DEF Prefix
  <2>2. Prefix(u, off[u])' = Prefix(u, off'[u])
    BY DEF Prefix
  <2>3. QED
    BY <1>0, <1>1, <2>1, <2>2 DEF UpdateInv, Before, Within
<1>3. BinaryInv'
  BY <1>0 DEF ReplaceInv, BinaryInv, Whole
<1>4. QED
  BY <1>1, <1>2, <1>3

LEMMA StepReplace ==
  ASSUME OneAtATime, ReplaceInv, TypeOK', NEW u \in Updaters,
         \/ RemoveStale(u) \/ CreateTemp(u) \/ CopyBlock(u) \/ CopyEnds(u) \/ CopyFails(u)
         \/ Validate(u) \/ RenameFails(u) \/ Discard(u)
  PROVE  ReplaceInv'
<1>0. /\ u \in Inodes /\ u # None /\ target \in Inodes
      /\ file \in [Inodes -> Seq(Versions \cup {Hole})] /\ off \in [Updaters -> 0..Blocks]
      /\ handle \in [Updaters -> Inodes \cup {None}] /\ Blocks \in Nat
      /\ outcome \in [Updaters -> {"open", "applied", "failed", "lost"}]
      /\ Alone /\ UpdateInv(u) /\ BinaryInv
  BY InodesAssumption, BlocksAssumption DEF Inodes, ReplaceInv, TypeOK
<1>1. Active(u) /\ u # target /\ outcome[u] = "open" /\ Solo(u)
  <2>1. Active(u) /\ pc[u] \in Before \cup Within
    BY DEF RemoveStale, CreateTemp, CopyBlock, CopyEnds, CopyFails, Validate, RenameFails, Discard,
           Goes, Fails, Active, Before, Within
  <2>2. QED
    BY <1>0, <2>1, SoloStep DEF UpdateInv, BinaryInv
<1>2. Alone' /\ (\A w \in Updaters : UpdateInv(w)') /\ BinaryInv'
  <2>1. CASE RemoveStale(u)
    BY <1>0, <1>1, <2>1, StepInside DEF RemoveStale, Goes, UpdateInv, Before, Within
  <2>2. CASE CreateTemp(u)
    <3>1. temp' = u /\ handle'[u] = u /\ file' = [file EXCEPT ![u] = <<>>] /\ off[u] = 0
      BY <1>0, <2>2 DEF CreateTemp, Goes, UpdateInv, Before
    <3>2. Prefix(u, 0) = <<>>
      BY DEF Prefix
    <3>3. file'[u] = Prefix(u, off'[u]) /\ file'[target] = file[target]
      BY <1>0, <1>1, <2>2, <3>1, <3>2 DEF CreateTemp
    <3>4. QED
      BY <1>0, <1>1, <2>2, <3>1, <3>3, StepInside DEF CreateTemp, Goes, Within
  <2>3. CASE CopyBlock(u)
    <3>1. off[u] \in Nat /\ off'[u] = off[u] + 1 /\ handle[u] = u
      BY <1>0, <2>3 DEF CopyBlock, UpdateInv
    <3>2. file' = [file EXCEPT ![u] = Prefix(u, off'[u])]
      <4>1. off[u] < Blocks /\ file[u] = Prefix(u, off[u])
        BY <1>0, <2>3 DEF CopyBlock, UpdateInv
      <4>2. Overwritten(file[u], off[u] + 1, release[u]) = Prefix(u, off[u] + 1)
        BY <1>0, <3>1, <4>1, PrefixGrows
      <4>3. file' = [file EXCEPT ![u] = Overwritten(file[u], off[u] + 1, release[u])]
        BY <1>0, <2>3, <3>1 DEF CopyBlock
      <4>4. QED
        BY <3>1, <4>2, <4>3
    <3>3. file'[u] = Prefix(u, off'[u]) /\ file'[target] = file[target] /\ temp = u
      BY <1>0, <1>1, <2>3, <3>2 DEF CopyBlock, UpdateInv, Within
    <3>4. pc' = [pc EXCEPT ![u] = "copy"]
      BY <2>3 DEF CopyBlock, ReplaceInv, TypeOK
    <3>5. QED
      BY <1>0, <1>1, <2>3, <3>1, <3>3, <3>4, StepInside DEF CopyBlock, Within
  <2>4. CASE CopyEnds(u)
    BY <1>0, <1>1, <2>4, StepInside DEF CopyEnds, Goes, UpdateInv, Within
  <2>5. CASE CopyFails(u)
    BY <1>0, <1>1, <2>5, StepInside DEF CopyFails, Goes, UpdateInv, Within
  <2>6. CASE Validate(u)
    <3> DEFINE to == IF temp # None /\ Len(file[temp]) >= MinBlocks THEN "rename" ELSE "discard"
    <3>1. to \in {"rename", "discard"} /\ Goes(u, "validate", to)
      BY <2>6 DEF Validate
    <3> HIDE DEF to
    <3>2. QED
      BY <1>0, <1>1, <2>6, <3>1, StepInside DEF Validate, Goes, UpdateInv, Within
  <2>7. CASE RenameFails(u)
    BY <1>0, <1>1, <2>7, StepInside DEF RenameFails, Goes, UpdateInv, Within
  <2>8. CASE Discard(u)
    BY <1>0, <1>1, <2>8, StepInside DEF Discard, Fails, UpdateInv, Within
  <2>9. QED
    BY <2>1, <2>2, <2>3, <2>4, <2>5, <2>6, <2>7, <2>8
<1>3. QED
  BY <1>2 DEF ReplaceInv

(* What is renamed is the whole release of the update. *)
LEMMA InstallsOwn ==
  ASSUME ReplaceInv, NEW u \in Updaters, Rename(u)
  PROVE  /\ target' = u /\ outcome[u] = "open"
         /\ file[u] = [b \in 1..Blocks |-> release[u]]
BY DEF ReplaceInv, UpdateInv, Within, Rename, Prefix

LEMMA StepRename ==
  ASSUME OneAtATime, ReplaceInv, TypeOK', NEW u \in Updaters, Rename(u) PROVE ReplaceInv'
<1>0. u # None /\ Alone /\ target' = u /\ temp' = None /\ file[u] = [b \in 1..Blocks |-> release[u]]
  BY InodesAssumption, InstallsOwn DEF ReplaceInv, Rename
<1>1. Solo(u)
  BY <1>0, SoloStep DEF Rename, Active
<1>2. /\ Alone' /\ \A w \in Updaters : w # u => UpdateInv(w)'
      /\ pc'[u] = "cleanup" /\ \A w \in Updaters : w # u => pc'[w] = pc[w]
  <2>1. \A w \in Updaters : w # u => outcome'[w] = outcome[w]
    BY DEF Rename, ReplaceInv, TypeOK
  <2>2. QED
    BY <1>0, <1>1, <2>1, OthersKept DEF Rename
<1>3. UpdateInv(u)'
  BY <1>2 DEF UpdateInv, Before, Within
<1>4. BinaryInv'
  <2>1. release[u] \in Versions /\ UNCHANGED file
    BY DEF ReplaceInv, TypeOK, Rename
  <2>2. QED
    BY <1>0, <2>1 DEF BinaryInv, Whole
<1>5. QED
  BY <1>2, <1>3, <1>4 DEF ReplaceInv

LEMMA StepDie == ASSUME ReplaceInv, TypeOK', Die PROVE ReplaceInv'
<1>1. \A u \in Updaters : pc'[u] = (IF Active(u) THEN "done" ELSE pc[u]) /\ pc'[u] \in {"idle", "done"}
  BY DEF Die, Active
<1>2. \A u \in Updaters : pc'[u] = "idle" => pc[u] = "idle" /\ outcome'[u] = outcome[u]
  BY <1>1 DEF Die, Active
<1>3. \A u \in Updaters : UpdateInv(u)'
  BY <1>1, <1>2 DEF Die, ReplaceInv, UpdateInv, Before, Within
<1>4. Alone'
  BY <1>1 DEF Alone, Active
<1>5. BinaryInv'
  BY DEF Die, ReplaceInv, BinaryInv, Whole
<1>6. QED
  BY <1>3, <1>4, <1>5 DEF ReplaceInv

LEMMA StepNothing == ASSUME ReplaceInv, UNCHANGED vars PROVE ReplaceInv'
<1>1. TypeOK'
  BY ReplaceTypeStep DEF ReplaceInv
<1>2. Alone'
  BY DEF vars, ReplaceInv, Alone, Active
<1>3. BinaryInv'
  BY DEF vars, ReplaceInv, BinaryInv, Whole
<1>4. ASSUME NEW u \in Updaters PROVE UpdateInv(u)'
  <2>1. Prefix(u, off[u])' = Prefix(u, off[u]) /\ Prefix(u, Blocks)' = Prefix(u, Blocks)
    BY DEF vars, Prefix
  <2>2. QED
    BY <2>1 DEF vars, ReplaceInv, UpdateInv
<1>5. QED
  BY <1>1, <1>2, <1>3, <1>4 DEF ReplaceInv

LEMMA ReplaceStep == OneAtATime /\ ReplaceInv /\ [Next]_vars => ReplaceInv'
<1> SUFFICES ASSUME OneAtATime, ReplaceInv, [Next]_vars PROVE ReplaceInv'
  OBVIOUS
<1>1. TypeOK'
  BY ReplaceTypeStep DEF ReplaceInv
<1>2. QED
  BY <1>1, StepNothing, StepUpdate, StepReplace, StepRename, StepDie DEF Next, Over

-----------------------------------------------------------------------------
(* What happens to an update in a step: nothing, or it fails, or it has    *)
(* its release installed; or the process dies.                             *)
Keeps == UNCHANGED <<outcome, release>> /\ file'[target'] = file[target]

FailsOnly(u) == /\ outcome[u] = "open"
                /\ outcome' = [outcome EXCEPT ![u] = "failed"]
                /\ UNCHANGED release /\ file'[target'] = file[target]

Loses == /\ outcome' = [u \in Updaters |-> IF Active(u) /\ outcome[u] = "open" THEN "lost" ELSE outcome[u]]
         /\ UNCHANGED <<release, target, file>>

LEMMA Effect ==
  ASSUME ReplaceInv, [Next]_vars
  PROVE  Keeps \/ (\E u \in Updaters : FailsOnly(u) \/ Rename(u)) \/ Loses
<1>1. CASE Die
  BY <1>1 DEF Die, Loses
<1>2. CASE UNCHANGED vars
  BY <1>2 DEF vars, Keeps
<1>3. ASSUME NEW u \in Updaters,
             \/ Begin(u) \/ DownloadFile(u) \/ ExtractBinary(u) \/ RemoveStale(u)
             \/ CopyEnds(u) \/ CopyFails(u)
             \/ Validate(u) \/ RenameFails(u) \/ Cleanup(u)
      PROVE  Keeps
  BY <1>3 DEF Begin, DownloadFile, ExtractBinary, RemoveStale, CopyEnds, CopyFails,
              Validate, RenameFails, Cleanup, Goes, Keeps
<1>4. ASSUME NEW u \in Updaters,
             \/ BeginFails(u) \/ FetchFails(u) \/ CreateFails(u) \/ Discard(u)
      PROVE  FailsOnly(u)
  <2>1. pc[u] \in Before \cup {"discard"}
    BY <1>4 DEF BeginFails, FetchFails, CreateFails, Discard, Fails, Before
  <2>2. outcome[u] = "open"
    BY <2>1 DEF ReplaceInv, UpdateInv, Within
  <2>3. QED
    BY <1>4, <2>2 DEF BeginFails, FetchFails, CreateFails, Discard, Fails, FailsOnly
<1>5. ASSUME NEW u \in Updaters, CreateTemp(u) \/ CopyBlock(u) PROVE Keeps
  <2>1. u \in Inodes /\ u # None /\ target \in Inodes /\ file \in [Inodes -> Seq(Versions \cup {Hole})]
    BY InodesAssumption DEF ReplaceInv, TypeOK, Inodes
  <2>2. CASE CreateTemp(u)
    <3>1. temp = None /\ u # target
      BY <2>2 DEF CreateTemp, Goes, ReplaceInv, UpdateInv, Before
    <3>2. QED
      BY <2>1, <2>2, <3>1 DEF CreateTemp, Goes, Keeps
  <2>3. CASE CopyBlock(u)
    <3>1. handle[u] = u /\ u # target
      BY <2>3 DEF CopyBlock, ReplaceInv, UpdateInv, BinaryInv, Within
    <3>2. QED
      BY <2>1, <2>3, <3>1 DEF CopyBlock, Keeps
  <2>4. QED
    BY <1>5, <2>2, <2>3
<1>6. ASSUME NEW u \in Updaters, ValidateSource(u)
      PROVE  Keeps \/ FailsOnly(u)
  <2>1. Goes(u, "source", "remove") \/ Fails(u, "source")
    BY <1>6 DEF ValidateSource
  <2>2. CASE Goes(u, "source", "remove")
    BY <1>6, <2>2 DEF ValidateSource, Goes, Keeps
  <2>3. CASE Fails(u, "source")
    BY <1>6, <2>3 DEF ValidateSource, Fails, FailsOnly, ReplaceInv, UpdateInv, Before
  <2>4. QED
    BY <2>1, <2>2, <2>3
<1>7. ASSUME NEW u \in Updaters,
             \/ Begin(u) \/ BeginFails(u) \/ DownloadFile(u) \/ ExtractBinary(u) \/ FetchFails(u)
             \/ ValidateSource(u) \/ RemoveStale(u) \/ CreateTemp(u) \/ CreateFails(u)
             \/ CopyBlock(u) \/ CopyEnds(u) \/ CopyFails(u)
             \/ Validate(u) \/ Rename(u) \/ RenameFails(u) \/ Discard(u) \/ Cleanup(u)
      PROVE  Keeps \/ FailsOnly(u) \/ Rename(u)
  BY <1>3, <1>4, <1>5, <1>6, <1>7
<1>8. QED
  BY <1>1, <1>2, <1>7 DEF Next, Over

(* An update that reports success has installed its own release.           *)
THEOREM InstalledOwn == ASSUME OneAtATime PROVE Spec => AppliedOwnRelease
<1> DEFINE Own == \A u \in Updaters : outcome[u] # "applied" /\ outcome'[u] = "applied" =>
                    file'[target'] = [b \in 1..Blocks |-> release[u]]
<1>1. ReplaceInv /\ [Next]_vars => Own
  <2> SUFFICES ASSUME ReplaceInv, [Next]_vars, NEW u \in Updaters,
                      outcome[u] # "applied", outcome'[u] = "applied"
               PROVE  file'[target'] = [b \in 1..Blocks |-> release[u]]
    OBVIOUS
  <2>1. ~Keeps /\ ~Loses /\ \A w \in Updaters : ~FailsOnly(w)
    BY DEF Keeps, Loses, FailsOnly, ReplaceInv, TypeOK
  <2>2. PICK w \in Updaters : Rename(w)
    BY <2>1, Effect
  <2>3. w = u
    BY <2>2 DEF Rename, ReplaceInv, TypeOK
  <2>4. QED
    BY <2>2, <2>3, InstallsOwn DEF Rename
<1>2. QED
  BY <1>1, ReplaceInit, ReplaceStep, PTL DEF Spec, AppliedOwnRelease

(* A whole binary is of the release its first block is of.                 *)
LEMMA WholeFirst ==
  ASSUME NEW blocks, Whole(blocks)
  PROVE  blocks[1] \in Versions /\ blocks = [b \in 1..Blocks |-> blocks[1]]
BY BlocksAssumption DEF Whole

(* The path of the binary names a whole release at every moment: the first *)
(* one, then the one of the last update applied.                           *)
THEOREM ReplaceImplementation == ASSUME OneAtATime PROVE Spec => ReplacesAtomically
<1> DEFINE installed == IF Whole(file[target]) THEN file[target][1] ELSE Hole
<1>1. Init => Promise!Init
  <2> SUFFICES ASSUME Init PROVE Promise!Init
    OBVIOUS
  <2>1. Whole(file[target]) /\ TypeOK
    BY ReplaceInit DEF ReplaceInv, BinaryInv
  <2>2. QED
    BY <2>1, WholeFirst DEF Init, Promise!Init
<1>2. ReplaceInv /\ ReplaceInv' /\ [Next]_vars => [Promise!Next]_(Promise!vars)
  <2> SUFFICES ASSUME ReplaceInv, ReplaceInv', [Next]_vars PROVE [Promise!Next]_(Promise!vars)
    OBVIOUS
  <2>1. Whole(file[target]) /\ Whole(file[target])'
    BY DEF ReplaceInv, BinaryInv
  <2>2. installed = file[target][1] /\ installed' = file'[target'][1]
    BY <2>1
  <2> HIDE DEF installed
  <2>3. CASE Keeps
    BY <2>2, <2>3 DEF Keeps, Promise!vars, installed
  <2>4. ASSUME NEW u \in Updaters, FailsOnly(u) PROVE Promise!Fail(u)
    BY <2>2, <2>4 DEF FailsOnly, Promise!Fail, Promise!Ends, installed
  <2>5. ASSUME NEW u \in Updaters, Rename(u) PROVE Promise!Apply(u)
    <3>1. file'[target'] = [b \in 1..Blocks |-> release[u]] /\ outcome[u] = "open"
      BY <2>5, InstallsOwn DEF Rename
    <3>2. installed' = release[u]
      BY <2>2, <3>1, BlocksAssumption
    <3>3. QED
      BY <2>5, <3>1, <3>2 DEF Rename, Promise!Apply, Promise!Ends, installed
  <2>6. CASE Loses
    <3> DEFINE lost == {u \in Updaters : Active(u) /\ outcome[u] = "open"}
    <3>1. lost \in SUBSET {u \in Updaters : outcome[u] = "open"}
      OBVIOUS
    <3>2. outcome' = [u \in Updaters |-> IF u \in lost THEN "lost" ELSE outcome[u]]
      BY <2>6 DEF Loses
    <3>3. installed' = installed /\ UNCHANGED release
      BY <2>2, <2>6 DEF Loses
    <3> HIDE DEF lost
    <3>4. QED
      BY <3>1, <3>2, <3>3 DEF Promise!Next, Promise!Die, installed
  <2>7. QED
    BY <2>3, <2>4, <2>5, <2>6, Effect DEF Promise!Next
<1>3. QED
  BY <1>1, <1>2, ReplaceInit, ReplaceStep, PTL DEF Spec, ReplacesAtomically, Promise!Spec
=============================================================================

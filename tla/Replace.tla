------------------------------- MODULE Replace -------------------------------
(***************************************************************************)
(* DownloadAndExtract, AtomicReplace and Cleanup, in the order in which    *)
(* PerformUpdate calls them (internal/updater/download.go, updater.go), on *)
(* a file system of names, inodes and open files.  They are run by the     *)
(* handlers of update requests: in the process, nothing keeps two of them  *)
(* apart, but each has a temporary directory of its own for its tarball    *)
(* and the binary extracted from it.                                       *)
(*                                                                         *)
(* The inode an update creates bears the name of the update; contents are  *)
(* sequences of blocks, each block the release it came from.               *)
(***************************************************************************)
EXTENDS Integers, Sequences

CONSTANTS Updaters,    \* the update requests
          Versions,    \* the releases they may be offered
          Old,         \* the inode of the binary in place at the start
          None,        \* no inode
          Hole,        \* a block nobody wrote
          Blocks,      \* bound: blocks of a binary
          MinBlocks,   \* minBinarySize, in blocks
          OneAtATime   \* clients request no update while another one runs

ASSUME InodesAssumption == Old \notin Updaters /\ None \notin Updaters \cup {Old}
ASSUME BlocksAssumption == Blocks \in Nat /\ MinBlocks \in 1..Blocks
ASSUME HoleAssumption == Hole \notin Versions
ASSUME OneAtATimeAssumption == OneAtATime \in BOOLEAN

Inodes == Updaters \cup {Old}

VARIABLES release,  \* the release each update was offered
          pc,       \* where each update is
          outcome,  \* what has become of it
          dirs,     \* the updates whose temporary directory exists
          handle,   \* the inode of its dst
          off,      \* the blocks it has copied
          temp,     \* the inode the temporary name stands for
          target,   \* the inode the name of the binary stands for
          file,     \* the contents of the inodes
          died      \* the process has been killed at least once

vars == <<release, pc, outcome, dirs, handle, off, temp, target, file, died>>

Active(u) == pc[u] \notin {"idle", "done"}
Quiet == \A u \in Updaters : ~Active(u)

TypeOK == /\ release \in [Updaters -> Versions]
          /\ pc \in [Updaters -> {"idle", "download", "extract", "source", "remove", "create", "copy",
                                  "validate", "rename", "discard", "cleanup", "done"}]
          /\ outcome \in [Updaters -> {"open", "applied", "failed", "lost"}]
          /\ dirs \subseteq Updaters
          /\ handle \in [Updaters -> Inodes \cup {None}]
          /\ off \in [Updaters -> 0..Blocks]
          /\ temp \in Inodes \cup {None}
          /\ target \in Inodes
          /\ file \in [Inodes -> Seq(Versions \cup {Hole})]
          /\ died \in BOOLEAN

Whole(blocks) == \E v \in Versions : blocks = [i \in 1..Blocks |-> v]

Init == /\ release \in [Updaters -> Versions]
        /\ pc = [u \in Updaters |-> "idle"]
        /\ outcome = [u \in Updaters |-> "open"]
        /\ dirs = {}
        /\ handle = [u \in Updaters |-> None]
        /\ off = [u \in Updaters |-> 0]
        /\ temp = None
        /\ target = Old
        /\ file \in {[i \in Inodes |-> IF i = Old THEN [b \in 1..Blocks |-> v] ELSE <<>>] : v \in Versions}
        /\ died = FALSE

Goes(u, from, to) == /\ pc[u] = from /\ pc' = [pc EXCEPT ![u] = to]
                     /\ UNCHANGED <<outcome, dirs>>

Fails(u, from) == /\ pc[u] = from /\ pc' = [pc EXCEPT ![u] = "cleanup"]
                  /\ outcome' = [outcome EXCEPT ![u] = "failed"]
                  /\ UNCHANGED dirs

-----------------------------------------------------------------------------
(* DownloadAndExtract *)

(* MkdirTemp. *)
Begin(u) == /\ OneAtATime => Quiet
            /\ pc[u] = "idle" /\ pc' = [pc EXCEPT ![u] = "download"]
            /\ dirs' = dirs \cup {u}
            /\ UNCHANGED <<release, outcome, handle, off, temp, target, file, died>>

BeginFails(u) == /\ OneAtATime => Quiet
                 /\ Fails(u, "idle")
                 /\ UNCHANGED <<release, handle, off, temp, target, file, died>>

DownloadFile(u) == /\ Goes(u, "download", "extract")
                   /\ UNCHANGED <<release, handle, off, temp, target, file, died>>

(* A binary that is in the tarball, whole and not too small, is extracted. *)
ExtractBinary(u) == /\ Goes(u, "extract", "source")
                    /\ UNCHANGED <<release, handle, off, temp, target, file, died>>

(* The server answers an error, the connection breaks, the context is done,*)
(* or there is no such binary.                                             *)
FetchFails(u) == /\ Fails(u, "download") \/ Fails(u, "extract")
                 /\ UNCHANGED <<release, handle, off, temp, target, file, died>>

-----------------------------------------------------------------------------
(* AtomicReplace *)

(* ValidateBinary of the source finds it, or does not. *)
ValidateSource(u) == /\ Goes(u, "source", "remove") \/ Fails(u, "source")
                     /\ UNCHANGED <<release, handle, off, temp, target, file, died>>

(* os.Remove of whatever has the temporary name. *)
RemoveStale(u) == /\ Goes(u, "remove", "create")
                  /\ temp' = None
                  /\ UNCHANGED <<release, handle, off, target, file, died>>

(* Fault: the copy goes straight into the binary. *)
CopyInPlace(u) == /\ Goes(u, "create", "copy")
                  /\ temp' = target
                  /\ handle' = [handle EXCEPT ![u] = target]
                  /\ file' = [file EXCEPT ![target] = <<>>]
                  /\ UNCHANGED <<release, off, target, died>>

(* OpenFile with O_CREATE and O_TRUNC: a new inode, or the one that has    *)
(* the name by now, emptied.                                               *)
CreateTemp(u) == /\ Goes(u, "create", "copy")
                 /\ LET inode == IF temp = None THEN u ELSE temp IN
                      /\ temp' = inode
                      /\ handle' = [handle EXCEPT ![u] = inode]
                      /\ file' = [file EXCEPT ![inode] = <<>>]
                 /\ UNCHANGED <<release, off, target, died>>

(* Opening the source or the temporary file fails. *)
CreateFails(u) == /\ Fails(u, "create")
                  /\ UNCHANGED <<release, handle, off, temp, target, file, died>>

(* The contents once block n is version v; a gap reads as holes. *)
Overwritten(blocks, n, v) ==
  [i \in 1..(IF Len(blocks) < n THEN n ELSE Len(blocks)) |->
     IF i = n THEN v ELSE IF i <= Len(blocks) THEN blocks[i] ELSE Hole]

(* Faults: one block too many; a copy that stopped short taken for         *)
(* complete; the temporary file left behind by a copy that fails.          *)
CopyPastEnd(u) == /\ pc[u] = "copy" /\ off[u] <= Blocks
                  /\ file' = [file EXCEPT ![handle[u]] = Overwritten(@, off[u] + 1, release[u])]
                  /\ off' = [off EXCEPT ![u] = @ + 1]
                  /\ UNCHANGED <<release, pc, outcome, dirs, handle, temp, target, died>>
ShortCopyEnds(u) == /\ Goes(u, "copy", "validate")
                    /\ handle' = [handle EXCEPT ![u] = None]
                    /\ UNCHANGED <<release, off, temp, target, file, died>>
CopyFailsUnswept(u) == /\ Fails(u, "copy")
                       /\ handle' = [handle EXCEPT ![u] = None]
                       /\ UNCHANGED <<release, off, temp, target, file, died>>

CopyBlock(u) == /\ pc[u] = "copy" /\ off[u] < Blocks
                /\ file' = [file EXCEPT ![handle[u]] = Overwritten(@, off[u] + 1, release[u])]
                /\ off' = [off EXCEPT ![u] = @ + 1]
                /\ UNCHANGED <<release, pc, outcome, dirs, handle, temp, target, died>>

CopyEnds(u) == /\ off[u] = Blocks
               /\ Goes(u, "copy", "validate")
               /\ handle' = [handle EXCEPT ![u] = None]
               /\ UNCHANGED <<release, off, temp, target, file, died>>

CopyFails(u) == /\ Goes(u, "copy", "discard")
                /\ handle' = [handle EXCEPT ![u] = None]
                /\ UNCHANGED <<release, off, temp, target, file, died>>

(* ValidateBinary looks at the file that has the temporary name.  (The     *)
(* chown that follows changes no content.)                                 *)
Validate(u) == /\ Goes(u, "validate",
                       IF temp # None /\ Len(file[temp]) >= MinBlocks THEN "rename" ELSE "discard")
               /\ UNCHANGED <<release, handle, off, temp, target, file, died>>

Rename(u) == /\ temp # None
             /\ pc[u] = "rename" /\ pc' = [pc EXCEPT ![u] = "cleanup"]
             /\ outcome' = [outcome EXCEPT ![u] = "applied"]
             /\ target' = temp
             /\ temp' = None
             /\ UNCHANGED <<release, dirs, handle, off, file, died>>

(* The name is gone, or the rename fails for another reason. *)
RenameFails(u) == /\ Goes(u, "rename", "discard")
                  /\ UNCHANGED <<release, handle, off, temp, target, file, died>>

(* os.Remove on an error path. *)
Discard(u) == /\ Fails(u, "discard")
              /\ temp' = None
              /\ UNCHANGED <<release, handle, off, target, file, died>>

-----------------------------------------------------------------------------
(* The deferred Cleanup of PerformUpdate. *)
Cleanup(u) == /\ pc[u] = "cleanup" /\ pc' = [pc EXCEPT ![u] = "done"]
              /\ dirs' = dirs \ {u}
              /\ UNCHANGED <<release, outcome, handle, off, temp, target, file, died>>

(* The process is killed, or exits with updates running; systemd starts it *)
(* again and later requests find the files as they are.                    *)
Die == /\ ~Quiet
       /\ died' = TRUE
       /\ pc' = [u \in Updaters |-> IF Active(u) THEN "done" ELSE pc[u]]
       /\ outcome' = [u \in Updaters |-> IF Active(u) /\ outcome[u] = "open"
                                         THEN "lost" ELSE outcome[u]]
       /\ handle' = [u \in Updaters |-> None]
       /\ UNCHANGED <<release, dirs, off, temp, target, file>>

Over == /\ \A u \in Updaters : pc[u] = "done"
        /\ UNCHANGED vars

Next == \/ \E u \in Updaters : \/ Begin(u) \/ BeginFails(u)
                               \/ DownloadFile(u) \/ ExtractBinary(u) \/ FetchFails(u)
                               \/ ValidateSource(u) \/ RemoveStale(u)
                               \/ CreateTemp(u) \/ CreateFails(u)
                               \/ CopyBlock(u) \/ CopyEnds(u) \/ CopyFails(u)
                               \/ Validate(u) \/ Rename(u) \/ RenameFails(u) \/ Discard(u)
                               \/ Cleanup(u)
        \/ Die
        \/ Over

Spec == Init /\ [][Next]_vars

-----------------------------------------------------------------------------
(* The path of the binary names a whole release at every moment, whatever  *)
(* fails and whenever the process dies - as long as updates do not overlap.*)
(* The installed release is the one of the last update applied.            *)
Promise == INSTANCE BinarySlot WITH
             installed <- IF Whole(file[target]) THEN file[target][1] ELSE Hole

ReplacesAtomically == Promise!Spec

(* Every way out of PerformUpdate has taken the temporary file and the     *)
(* temporary directory away; only the death of the process leaves one.     *)
NoTempLeft == Quiet /\ ~died => temp = None /\ dirs = {}

(* An update that reports success installed its own release, not the one   *)
(* another left under the temporary name.                                  *)
AppliedOwnRelease ==
  [][\A u \in Updaters : outcome[u] # "applied" /\ outcome'[u] = "applied" =>
       file'[target'] = [b \in 1..Blocks |-> release[u]]]_vars

(* download.go: "AtomicReplace atomically replaces the target file": when  *)
(* no update is running any more, the binary is a whole release.           *)
WholeAtRest == Quiet => Whole(file[target])
=============================================================================

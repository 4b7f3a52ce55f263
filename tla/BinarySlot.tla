----------------------------- MODULE BinarySlot -----------------------------
(***************************************************************************)
(* What "atomically replaces the target file" (download.go) promises: at   *)
(* every moment the path of the service binary names one whole release,    *)
(* the old one until an update is applied and the new one from then on.    *)
(* An update that fails, or dies with the process, changes nothing.        *)
(***************************************************************************)
CONSTANTS Updaters,  \* the update requests
          Versions   \* the releases there are

VARIABLES installed,  \* the release the path names
          release,    \* the release each update was offered
          outcome     \* open, applied, failed or lost

vars == <<installed, release, outcome>>

Init == /\ installed \in Versions
        /\ release \in [Updaters -> Versions]
        /\ outcome = [u \in Updaters |-> "open"]

Ends(u, how) == /\ outcome[u] = "open"
                /\ outcome' = [outcome EXCEPT ![u] = how]
                /\ UNCHANGED release

Apply(u) == Ends(u, "applied") /\ installed' = release[u]

Fail(u) == Ends(u, "failed") /\ UNCHANGED installed

(* The process dies: some of the updates are lost with it. *)
Die == /\ \E lost \in SUBSET {u \in Updaters : outcome[u] = "open"} :
            outcome' = [u \in Updaters |-> IF u \in lost THEN "lost" ELSE outcome[u]]
       /\ UNCHANGED <<installed, release>>

Next == (\E u \in Updaters : Apply(u) \/ Fail(u)) \/ Die

Spec == Init /\ [][Next]_vars
=============================================================================

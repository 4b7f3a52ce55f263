------------------------------ MODULE Admission ------------------------------
(***************************************************************************)
(* What the connection handling of vito-root-service promises a client,    *)
(* without goroutines, counters or channels: at most Limit connections are *)
(* in service, only entitled clients get in, a client that is entitled is  *)
(* refused only while all places are taken, and nothing is let in once the *)
(* service is over.  Server is shown to implement it.                      *)
(***************************************************************************)
EXTENDS Integers, FiniteSets

CONSTANTS Conns,  \* the connections clients may open
          Limit   \* the places there are

VARIABLES status,    \* what has become of each connection
          entitled,  \* whether its peer is the configured user; never changes
          open       \* the service process is running

vars == <<status, entitled, open>>

Admitted == {c \in Conns : status[c] = "admitted"}

Init == /\ status = [c \in Conns |-> "away"]
        /\ entitled \in [Conns -> BOOLEAN]
        /\ open = TRUE

Becomes(c, from, to) == /\ status[c] = from
                        /\ status' = [status EXCEPT ![c] = to]
                        /\ UNCHANGED <<entitled, open>>

Arrive(c) == Becomes(c, "away", "waiting")

Admit(c) == /\ open
            /\ entitled[c]
            /\ Cardinality(Admitted) < Limit
            /\ Becomes(c, "waiting", "admitted")

Refuse(c) == /\ open
             /\ entitled[c] => Cardinality(Admitted) = Limit
             /\ Becomes(c, "waiting", "refused")

Complete(c) == Becomes(c, "admitted", "done")

(* The listener goes: connections nobody has answered are lost. *)
CloseDoor == /\ \E lost \in SUBSET {c \in Conns : status[c] = "waiting"} :
                  status' = [c \in Conns |-> IF c \in lost THEN "lost" ELSE status[c]]
             /\ UNCHANGED <<entitled, open>>

(* The process ends: every admitted connection is over, one way or the     *)
(* other; a waiting one is lost or left for the next process.              *)
Stop == /\ open
        /\ open' = FALSE
        /\ \E lost \in SUBSET {c \in Conns : status[c] \in {"waiting", "admitted"}} :
             status' = [c \in Conns |-> IF c \in lost THEN "lost"
                                        ELSE IF c \in Admitted THEN "done"
                                        ELSE status[c]]
        /\ UNCHANGED entitled

Next == \/ \E c \in Conns : Arrive(c) \/ Admit(c) \/ Refuse(c) \/ Complete(c)
        \/ CloseDoor
        \/ Stop

Spec == Init /\ [][Next]_vars
=============================================================================

------------------------------ MODULE Lifetime ------------------------------
(***************************************************************************)
(* What the rest of the system sees of the processes of the service: one   *)
(* after the other they start, serve, close the listener, drain and end;   *)
(* connections are queued, taken up and, if one applies an update, lead to *)
(* the end of the process.  Server is one such process in detail, Service  *)
(* has systemd start them and versions change under them.                  *)
(***************************************************************************)
CONSTANTS Clients,     \* the connections
          KeepsSocket  \* the socket, with its backlog, outlives the process

VARIABLES main,      \* where the process is
          why,       \* what ended its select: a signal or a restart
          ctxDone,   \* the context of the handlers is done
          requested, \* a restart has been asked for
          client     \* the connections

vars == <<main, why, ctxDone, requested, client>>

InHand == {"accepted", "updating", "applied"}

Init == /\ main \in {"ended", "serving"}
        /\ why = "none" /\ ctxDone = FALSE /\ requested = FALSE
        /\ client = [c \in Clients |-> "away"]

(* The connections when those in the states from are gone. *)
Without(from) == [c \in Clients |-> IF client[c] \in from THEN "away" ELSE client[c]]
Backlog == IF KeepsSocket THEN {} ELSE {"queued"}

-----------------------------------------------------------------------------
Start == /\ main = "ended" /\ main' = "starting"
         /\ why' = "none" /\ ctxDone' = FALSE /\ requested' = FALSE
         /\ UNCHANGED client

Listen == /\ main = "starting" /\ main' = "serving"
          /\ UNCHANGED <<why, ctxDone, requested, client>>

Signal == /\ main # "ended" /\ ctxDone' = TRUE
          /\ UNCHANGED <<main, why, requested, client>>

SelectSignal == /\ main = "serving" /\ ctxDone
                /\ main' = "shutdown" /\ why' = "signal"
                /\ UNCHANGED <<ctxDone, requested, client>>

SelectRestart == /\ main = "serving" /\ requested
                 /\ main' = "shutdown" /\ why' = "restart"
                 /\ ctxDone' = TRUE /\ requested' = FALSE
                 /\ UNCHANGED client

CloseListener == /\ main = "shutdown" /\ main' = "draining"
                 /\ client' = Without(Backlog)
                 /\ UNCHANGED <<why, ctxDone, requested>>

(* At the end of the drain, or at any moment before it. *)
End == /\ main # "ended" /\ main' = "ended"
       /\ why' = "none" /\ ctxDone' = FALSE /\ requested' = FALSE
       /\ client' = Without(InHand \cup Backlog)

-----------------------------------------------------------------------------
Moves(c, from, to) == /\ client[c] = from /\ client' = [client EXCEPT ![c] = to]
                      /\ UNCHANGED <<main, why, ctxDone>>

Listening == main \in {"serving", "shutdown"}

Connect(c) == (KeepsSocket \/ Listening) /\ Moves(c, "away", "queued") /\ UNCHANGED requested
Accept(c)  == Listening /\ Moves(c, "queued", "accepted") /\ UNCHANGED requested

(* Refused, or its request is done, whatever it was. *)
Finish(c) == Moves(c, "accepted", "away") /\ UNCHANGED requested

(* No download begins once the context is done. *)
Download(c) == ~ctxDone /\ Moves(c, "accepted", "updating") /\ UNCHANGED requested
GiveUp(c)   == Moves(c, "updating", "away") /\ UNCHANGED requested
Install(c)  == Moves(c, "updating", "applied") /\ UNCHANGED requested

(* A connection that has applied an update is done only with this. *)
RequestRestart(c) == Moves(c, "applied", "away") /\ requested' = TRUE

ClientStep(c) == \/ Connect(c) \/ Accept(c) \/ Finish(c) \/ Download(c)
                 \/ GiveUp(c) \/ Install(c) \/ RequestRestart(c)

Next == \/ Start \/ Listen \/ Signal \/ SelectSignal \/ SelectRestart \/ CloseListener \/ End
        \/ \E c \in Clients : ClientStep(c)

Spec == Init /\ [][Next]_vars
=============================================================================

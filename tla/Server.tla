------------------------------- MODULE Server -------------------------------
(***************************************************************************)
(* One lifetime of the vito-root-service process: the accept loop, one     *)
(* goroutine per connection, the connection semaphore and the wait group   *)
(* they share, and main's select and shutdown (internal/server/server.go,  *)
(* auth.go, the routing of handler.go and cmd/vito-root-service/main.go).  *)
(*                                                                         *)
(* The state of a goroutine that handles connection c is stage[c]:         *)
(*   idle       the client has not connected                               *)
(*   queued     in the listen backlog of the socket                        *)
(*   accepted   in acceptLoop's hand, AuthorizeConnection is next          *)
(*   authorized in acceptLoop's hand, the select on connSem is next        *)
(*   slotted    in acceptLoop's hand, sent to connSem, wg.Add is next      *)
(*   parsing    handleConnection is in ParseRequest                        *)
(*   running    ... is in executor.Run                                     *)
(*   acting     ... answers version or check-update                        *)
(*   updating   ... is in PerformUpdate, before its context check          *)
(*   downloading ... is in PerformUpdate, after it                         *)
(*   sleeping   ... has answered restarting and is in time.Sleep           *)
(*   closing    ... returns, conn.Close is next                            *)
(*   closed     wg.Done is next                                            *)
(*   untracked  the receive from connSem is next                           *)
(*   served     the goroutine has ended                                    *)
(*   rejected   acceptLoop has closed it                                   *)
(*   reset      the listening socket went with the connection unaccepted   *)
(*   cut        the process ended before the connection was closed         *)
(***************************************************************************)
EXTENDS Integers, FiniteSets

CONSTANTS Conns,           \* the connections clients may open
          MaxConnections,  \* the -max-connections flag
          Peers,           \* uids of peers, and NoCreds
          AllowedUID,      \* cfg.AllowedUID
          NoCreds,         \* SO_PEERCRED could not be read
          SystemdSocket    \* the listener came from LISTEN_FDS

ASSUME ConnsAssumption == IsFiniteSet(Conns)
ASSUME MaxConnectionsAssumption == MaxConnections \in Int
ASSUME PeersAssumption == AllowedUID \in Peers /\ NoCreds # AllowedUID
ASSUME SocketAssumption == SystemdSocket \in BOOLEAN

VARIABLES stage, peer, req, reply,            \* per connection
          loop, listener, sem, wg,            \* Server
          ctxDone, restartChan,               \* the context, the channel
          mainPc, restartRequested, waiter,   \* main and Shutdown
          drain, exit

connVars == <<stage, peer, req, reply>>
poolVars == <<loop, listener, sem, wg>>
sigVars  == <<ctxDone, restartChan>>
mainVars == <<mainPc, restartRequested, waiter, drain, exit>>
vars     == <<connVars, poolVars, sigVars, mainVars>>

(* New: a limit that is not positive means 100. *)
SlotLimit == IF MaxConnections <= 0 THEN 100 ELSE MaxConnections

InLoop   == {"accepted", "authorized", "slotted"}
Working  == {"parsing", "running", "acting", "updating", "downloading", "sleeping",
             "closing"}
Counted  == Working \cup {"closed"}                  \* counted by wg
Slotted  == Counted \cup {"slotted", "untracked"}    \* holding a place of connSem
Finished == {"served", "rejected", "reset", "cut"}
Stages   == {"idle", "queued"} \cup InLoop \cup Slotted \cup Finished

(* What ParseRequest has found the request to be. *)
Requests == {"none", "command", "action", "update"}

Replies == {"none", "unauthorized", "capacity", "error", "final", "restarting"}

InHand  == {c \in Conns : stage[c] \in InLoop}
Tracked == {c \in Conns : stage[c] \in Counted}
Holding == {c \in Conns : stage[c] \in Slotted}

Alive == exit = "none"

TypeOK == /\ stage \in [Conns -> Stages]
          /\ peer \in [Conns -> Peers]
          /\ req \in [Conns -> Requests]
          /\ reply \in [Conns -> Replies]
          /\ loop \in {"accepting", "busy", "exited"}
          /\ listener \in {"open", "closed"}
          /\ sem \in 0..SlotLimit /\ wg \in 0..SlotLimit
          /\ ctxDone \in BOOLEAN /\ restartChan \in BOOLEAN
          /\ mainPc \in {"select", "shutdown", "wait", "exiting"}
          /\ restartRequested \in BOOLEAN
          /\ waiter \in {"none", "started", "blocked", "waking", "done"}
          /\ drain \in {"none", "drained", "timeout"}
          /\ exit \in {"none", "zero", "killed", "panic"}

Init == /\ stage = [c \in Conns |-> "idle"]
        /\ peer \in [Conns -> Peers]
        /\ req = [c \in Conns |-> "none"]
        /\ reply = [c \in Conns |-> "none"]
        /\ loop = "accepting"
        /\ listener = "open"
        /\ sem = 0 /\ wg = 0
        /\ ctxDone = FALSE /\ restartChan = FALSE
        /\ mainPc = "select"
        /\ restartRequested = FALSE
        /\ waiter = "none"
        /\ drain = "none"
        /\ exit = "none"

Goes(c, from, to) == /\ stage[c] = from
                     /\ stage' = [stage EXCEPT ![c] = to]

Answers(c, r) == reply' = [reply EXCEPT ![c] = r]

(* The process is gone: its open connections are cut, those it had closed  *)
(* are served; the backlog goes with the socket unless systemd holds it.   *)
ProcessEnds(kind) ==
  /\ exit' = kind
  /\ stage' = [c \in Conns |->
                 CASE stage[c] \in InLoop \cup Working -> "cut"
                   [] stage[c] \in {"closed", "untracked"} -> "served"
                   [] stage[c] = "queued" /\ ~SystemdSocket -> "reset"
                   [] OTHER -> stage[c]]
  /\ sem' = 0 /\ wg' = 0
  /\ UNCHANGED <<peer, req, reply, loop, listener, ctxDone, restartChan,
                 mainPc, restartRequested, waiter, drain>>

-----------------------------------------------------------------------------
(* Clients and the kernel *)

(* connect(2) succeeds while somebody listens: this process, or systemd,   *)
(* which keeps the socket when the process has gone.                       *)
Connect(c) == /\ listener = "open" \/ SystemdSocket
              /\ Alive \/ SystemdSocket
              /\ Goes(c, "idle", "queued")
              /\ UNCHANGED <<peer, req, reply, poolVars, sigVars, mainVars>>

-----------------------------------------------------------------------------
(* acceptLoop *)

AcceptUnix(c) == /\ Alive /\ loop = "accepting" /\ listener = "open"
                 /\ Goes(c, "queued", "accepted")
                 /\ loop' = "busy"
                 /\ UNCHANGED <<peer, req, reply, listener, sem, wg, sigVars, mainVars>>

(* AcceptUnix returns net.ErrClosed. *)
AcceptLoopReturns == /\ Alive /\ loop = "accepting" /\ listener = "closed"
                     /\ loop' = "exited"
                     /\ UNCHANGED <<connVars, listener, sem, wg, sigVars, mainVars>>

(* getPeerCredentials, and the comparison of AuthorizeConnection. *)
CredentialsRead(c) == peer[c] # NoCreds
Authorized(c) == CredentialsRead(c) /\ peer[c] = AllowedUID

(* Fault: only unreadable credentials are turned away. *)
AuthorizeAnyPeer(c) ==
  /\ Alive
  /\ \/ /\ CredentialsRead(c)
        /\ Goes(c, "accepted", "authorized")
        /\ UNCHANGED loop
     \/ /\ ~CredentialsRead(c)
        /\ Goes(c, "accepted", "rejected")
        /\ loop' = "accepting"
  /\ UNCHANGED <<peer, req, reply, listener, sem, wg, sigVars, mainVars>>

AuthorizeConnection(c) ==
  /\ Alive
  /\ \/ /\ Authorized(c)
        /\ Goes(c, "accepted", "authorized")
        /\ UNCHANGED <<reply, loop>>
     \/ /\ ~Authorized(c)
        /\ Goes(c, "accepted", "rejected")
        /\ IF CredentialsRead(c) THEN Answers(c, "unauthorized") ELSE UNCHANGED reply
        /\ loop' = "accepting"
  /\ UNCHANGED <<peer, req, listener, sem, wg, sigVars, mainVars>>

(* Fault: one place too many. *)
AcquireOneTooMany(c) == /\ Alive /\ sem <= SlotLimit
                        /\ Goes(c, "authorized", "slotted")
                        /\ sem' = sem + 1
                        /\ UNCHANGED <<peer, req, reply, loop, listener, wg, sigVars, mainVars>>

(* The select on connSem: a place, or the default branch. *)
AcquireSlot(c) == /\ Alive /\ sem < SlotLimit
                  /\ Goes(c, "authorized", "slotted")
                  /\ sem' = sem + 1
                  /\ UNCHANGED <<peer, req, reply, loop, listener, wg, sigVars, mainVars>>

(* Faults: refused with a place left; no default branch in the select. *)
RejectBelowCapacity(c) == /\ Alive /\ sem >= SlotLimit - 1
                          /\ Goes(c, "authorized", "rejected")
                          /\ Answers(c, "capacity")
                          /\ loop' = "accepting"
                          /\ UNCHANGED <<peer, req, listener, sem, wg, sigVars, mainVars>>
RejectNever(c) == FALSE

RejectAtCapacity(c) == /\ Alive /\ sem >= SlotLimit
                       /\ Goes(c, "authorized", "rejected")
                       /\ Answers(c, "capacity")
                       /\ loop' = "accepting"
                       /\ UNCHANGED <<peer, req, listener, sem, wg, sigVars, mainVars>>

(* wg.Add(1) and go. *)
AddAndSpawn(c) == /\ Alive
                  /\ Goes(c, "slotted", "parsing")
                  /\ wg' = wg + 1
                  /\ loop' = "accepting"
                  /\ UNCHANGED <<peer, req, reply, listener, sem, sigVars, mainVars>>

(* sync.WaitGroup panics on an Add that finds the counter at zero and a    *)
(* waiter not yet taken off by the Done that brought it there.             *)
AddPanics(c) == /\ Alive /\ stage[c] = "slotted"
                /\ waiter = "waking" /\ wg = 0
                /\ ProcessEnds("panic")

-----------------------------------------------------------------------------
(* handleConnection, one goroutine per connection *)

HandlerMoves(c, from, to) == /\ Alive
                             /\ Goes(c, from, to)
                             /\ UNCHANGED <<peer, poolVars, sigVars, mainVars>>

ParseFails(c) == HandlerMoves(c, "parsing", "closing") /\ Answers(c, "error") /\ UNCHANGED req

Parses(c, request) == req' = [req EXCEPT ![c] = request]

(* A command starts, unless the context is done or the start fails: Run's  *)
(* error is the answer.                                                    *)
ParseCommand(c) == /\ ~ctxDone
                   /\ HandlerMoves(c, "parsing", "running")
                   /\ Parses(c, "command") /\ UNCHANGED reply
StartFails(c) == /\ HandlerMoves(c, "parsing", "closing")
                 /\ Parses(c, "command") /\ Answers(c, "final")

ParseAction(c) == /\ HandlerMoves(c, "parsing", "acting")
                  /\ Parses(c, "action") /\ UNCHANGED reply
ParseUpdate(c) == /\ HandlerMoves(c, "parsing", "updating")
                  /\ Parses(c, "update") /\ UNCHANGED reply

(* Fault: a command that was cancelled is closed without its exit code. *)
FinishCommandQuietly(c) == /\ HandlerMoves(c, "running", "closing")
                           /\ IF ctxDone THEN UNCHANGED reply ELSE Answers(c, "final")
                           /\ UNCHANGED req

FinishCommand(c) == HandlerMoves(c, "running", "closing") /\ Answers(c, "final") /\ UNCHANGED req
FinishAction(c)  == HandlerMoves(c, "acting", "closing") /\ Answers(c, "final") /\ UNCHANGED req

(* Fault: the context check after the fetch is forgotten. *)
UpdateProceedsUnchecked(c) == HandlerMoves(c, "updating", "downloading") /\ UNCHANGED <<req, reply>>

(* PerformUpdate ends with current or failed, which its progress callback  *)
(* has sent; or with the error of the context check after the fetch, which *)
(* nobody sends; or has replaced the binary.                               *)
UpdateEnds(c) == /\ \E from \in {"updating", "downloading"} :
                      HandlerMoves(c, from, "closing")
                 /\ Answers(c, "final") /\ UNCHANGED req
UpdateCancelled(c) == /\ ctxDone
                      /\ HandlerMoves(c, "updating", "closing")
                      /\ UNCHANGED <<req, reply>>
UpdateProceeds(c) == /\ ~ctxDone
                     /\ HandlerMoves(c, "updating", "downloading")
                     /\ UNCHANGED <<req, reply>>
UpdateApplied(c) == /\ HandlerMoves(c, "downloading", "sleeping")
                    /\ Answers(c, "restarting") /\ UNCHANGED req

(* Fault: the request is dropped. *)
RestartDropped(c) == HandlerMoves(c, "sleeping", "closing") /\ UNCHANGED <<req, reply>>

(* After restartDelay: the send to restartChan, capacity one, never blocks.*)
RequestRestart(c) == /\ Alive
                     /\ Goes(c, "sleeping", "closing")
                     /\ restartChan' = TRUE
                     /\ UNCHANGED <<peer, req, reply, poolVars, ctxDone, mainVars>>

(* The defers, in order: conn.Close, wg.Done, the receive from connSem. *)
CloseConn(c) == HandlerMoves(c, "closing", "closed") /\ UNCHANGED <<req, reply>>

(* Fault: the place is never given back. *)
WgDoneLeaksSlot(c) == /\ Alive
                      /\ Goes(c, "closed", "served")
                      /\ wg' = wg - 1
                      /\ waiter' = IF wg = 1 /\ waiter = "blocked" THEN "waking" ELSE waiter
                      /\ UNCHANGED <<peer, req, reply, loop, listener, sem, sigVars,
                                     mainPc, restartRequested, drain, exit>>

WgDone(c) == /\ Alive
             /\ Goes(c, "closed", "untracked")
             /\ wg' = wg - 1
             /\ waiter' = IF wg = 1 /\ waiter = "blocked" THEN "waking" ELSE waiter
             /\ UNCHANGED <<peer, req, reply, loop, listener, sem, sigVars,
                            mainPc, restartRequested, drain, exit>>

ReleaseSlot(c) == /\ Alive
                  /\ Goes(c, "untracked", "served")
                  /\ sem' = sem - 1
                  /\ UNCHANGED <<peer, req, reply, loop, listener, wg, sigVars, mainVars>>

-----------------------------------------------------------------------------
(* main and Shutdown *)

(* The first SIGTERM or SIGINT; later ones change nothing while            *)
(* NotifyContext is registered.                                            *)
Signal == /\ Alive /\ ~ctxDone
          /\ ctxDone' = TRUE
          /\ UNCHANGED <<connVars, poolVars, restartChan, mainVars>>

SelectSignal == /\ Alive /\ mainPc = "select" /\ ctxDone
                /\ mainPc' = "shutdown"
                /\ UNCHANGED <<connVars, poolVars, sigVars, restartRequested,
                               waiter, drain, exit>>

(* The restart branch cancels the context and unregisters the signals. *)
SelectRestart == /\ Alive /\ mainPc = "select" /\ restartChan
                 /\ restartChan' = FALSE
                 /\ restartRequested' = TRUE
                 /\ ctxDone' = TRUE
                 /\ mainPc' = "shutdown"
                 /\ UNCHANGED <<connVars, poolVars, waiter, drain, exit>>

(* With the signals unregistered, the default action kills the process. *)
KilledBySignal == Alive /\ restartRequested /\ ProcessEnds("killed")

(* Fault: the listener stays open while the connections drain. *)
ShutdownKeepsListening ==
  /\ Alive /\ mainPc = "shutdown"
  /\ waiter' = "started"
  /\ mainPc' = "wait"
  /\ UNCHANGED <<connVars, poolVars, sigVars, restartRequested, drain, exit>>

(* listener.Close resets the backlog of a socket this process owns; then   *)
(* the goroutine that waits for the group is started.                      *)
CloseListener ==
  /\ Alive /\ mainPc = "shutdown"
  /\ listener' = "closed"
  /\ stage' = [c \in Conns |-> IF stage[c] = "queued" /\ ~SystemdSocket
                               THEN "reset" ELSE stage[c]]
  /\ waiter' = "started"
  /\ mainPc' = "wait"
  /\ UNCHANGED <<peer, req, reply, loop, sem, wg, sigVars, restartRequested, drain, exit>>

WaiterChecks == /\ Alive /\ waiter = "started"
                /\ waiter' = IF wg = 0 THEN "done" ELSE "blocked"
                /\ UNCHANGED <<connVars, poolVars, sigVars, mainPc,
                               restartRequested, drain, exit>>

(* Woken, Wait panics if the group is in use again. *)
WaiterReturns == /\ Alive /\ waiter = "waking" /\ wg = 0
                 /\ waiter' = "done"
                 /\ UNCHANGED <<connVars, poolVars, sigVars, mainPc,
                                restartRequested, drain, exit>>
WaiterPanics == Alive /\ waiter = "waking" /\ wg # 0 /\ ProcessEnds("panic")

ShutdownEnds(how) == /\ Alive /\ mainPc = "wait"
                     /\ drain' = how
                     /\ mainPc' = "exiting"
                     /\ UNCHANGED <<connVars, poolVars, sigVars,
                                    restartRequested, waiter, exit>>
Drained  == waiter = "done" /\ ShutdownEnds("drained")
(* Fault: Shutdown waits without a deadline. *)
NoDeadline == Drained /\ drain = "none"

TimedOut == ShutdownEnds("timeout")

Exit == Alive /\ mainPc = "exiting" /\ ProcessEnds("zero")

-----------------------------------------------------------------------------
AcceptStep(c) == AcceptUnix(c) \/ AuthorizeConnection(c) \/ AcquireSlot(c)
                 \/ RejectAtCapacity(c) \/ AddAndSpawn(c) \/ AddPanics(c)

(* What a handler does by itself ... *)
HandlerStep(c) == FinishAction(c) \/ RequestRestart(c) \/ CloseConn(c)
                  \/ WgDone(c) \/ ReleaseSlot(c)

(* ... and what it does when a client, a command or a download lets it. *)
HandlerEvent(c) == ParseFails(c) \/ ParseCommand(c) \/ StartFails(c)
                   \/ ParseAction(c) \/ ParseUpdate(c) \/ FinishCommand(c)
                   \/ UpdateEnds(c) \/ UpdateCancelled(c) \/ UpdateProceeds(c)
                   \/ UpdateApplied(c)

MainStep == SelectSignal \/ SelectRestart \/ CloseListener \/ Drained \/ TimedOut \/ Exit

WaiterStep == WaiterChecks \/ WaiterReturns \/ WaiterPanics

(* Nothing is left to do once the process is over. *)
Over == ~Alive /\ UNCHANGED vars

Next == \/ \E c \in Conns : Connect(c) \/ AcceptStep(c) \/ HandlerStep(c) \/ HandlerEvent(c)
        \/ AcceptLoopReturns
        \/ MainStep
        \/ WaiterStep
        \/ Signal
        \/ KilledBySignal
        \/ Over

Spec == Init /\ [][Next]_vars

(* Goroutines that can run do, and the timer of the shutdown context fires.*)
(* Nothing is assumed of clients, commands, downloads and signals.         *)
Fairness == /\ WF_vars(\E c \in Conns : AcceptStep(c))
            /\ WF_vars(AcceptLoopReturns)
            /\ \A c \in Conns : WF_vars(HandlerStep(c))
            /\ WF_vars(MainStep)
            /\ WF_vars(WaiterStep)

FairSpec == Spec /\ Fairness

-----------------------------------------------------------------------------
(* The semaphore and the wait group count exactly the connections that     *)
(* hold a place and those whose goroutine is not done, acceptLoop has at   *)
(* most one connection in its hand, and has none unless it is busy: the    *)
(* pairing of the send to connSem and wg.Add in acceptLoop with the defers *)
(* of the goroutine, over all their interleavings and the end of the       *)
(* process.                                                                *)
SlotsAccounted == /\ sem = Cardinality(Holding)
                  /\ wg = Cardinality(Tracked)
                  /\ \A c, d \in InHand : c = d
                  /\ loop # "busy" => InHand = {}

(* No handler ever runs for a peer AuthorizeConnection does not admit.     *)
OnlyAuthorizedServed ==
  \A c \in Conns : stage[c] \in Slotted \cup {"served"} => peer[c] = AllowedUID

(* The process ended when the wait for the connections was over: main      *)
(* returned after they had been reported drained, or the wait group        *)
(* panicked over a connection added late.                                  *)
WaitOver == exit = "panic" \/ (exit = "zero" /\ drain = "drained")

(* An end of the process that has waited for the connections, the panic    *)
(* included, cuts off at most one of them: the one acceptLoop had in its   *)
(* hand when the listener was closed.                                      *)
DrainLosesAtMostOne ==
  WaitOver => \A c, d \in Conns : stage[c] = "cut" /\ stage[d] = "cut" => c = d

(* handleConnection never closes a connection without an answer, except to *)
(* an update that a signal or a restart has cancelled: a request that does *)
(* not parse, a command, whatever ends it, and another action are answered *)
(* during a shutdown as well.                                              *)
OnlyCancelledUpdateUnanswered ==
  \A c \in Conns : stage[c] = "served" /\ reply[c] = "none" => req[c] = "update" /\ ctxDone

(* A client that was told its update is installed has its connection       *)
(* closed before the process ends, if it has waited for the connections:   *)
(* the handler of an update that restarts the service is never the one a   *)
(* drain misses.                                                           *)
RestartAnswerDelivered ==
  WaitOver => \A c \in Conns : reply[c] = "restarting" => stage[c] # "cut"

(* As long as main waits in its select, an update that has been installed  *)
(* has its restart ahead: the handler sleeps or the request is in the      *)
(* channel, however many updates share its one place.                      *)
RestartNotForgotten ==
  Alive /\ mainPc = "select" /\ (\E c \in Conns : reply[c] = "restarting") =>
    restartChan \/ \E c \in Conns : stage[c] = "sleeping"

(* The service keeps the promise of Admission: no more than SlotLimit in   *)
(* service, refused only for lack of a place or of the right uid.          *)
Status(s) == CASE s = "idle" -> "away"
               [] s \in {"queued", "accepted", "authorized"} -> "waiting"
               [] s \in Slotted -> "admitted"
               [] s = "served" -> "done"
               [] s = "rejected" -> "refused"
               [] s \in {"reset", "cut"} -> "lost"

Promise == INSTANCE Admission WITH
             Limit <- SlotLimit,
             status <- [c \in Conns |-> Status(stage[c])],
             entitled <- [c \in Conns |-> peer[c] = AllowedUID],
             open <- Alive

ImplementsAdmission == Promise!Spec

(* To systemd and to the clients it is one of the processes that Lifetime  *)
(* describes and Service is built of, from its accept loop to its end: the *)
(* goroutines, the semaphore and the wait group do not show.               *)
Phase == CASE ~Alive -> "ended"
           [] Alive /\ mainPc = "select" -> "serving"
           [] Alive /\ mainPc = "shutdown" -> "shutdown"
           [] Alive /\ mainPc \in {"wait", "exiting"} -> "draining"

Seen(s) == CASE s = "queued" -> "queued"
             [] s \in InLoop \cup {"parsing", "running", "acting", "updating"} -> "accepted"
             [] s = "downloading" -> "updating"
             [] s = "sleeping" -> "applied"
             [] s \in {"idle", "closing", "closed", "untracked"} \cup Finished -> "away"

Process == INSTANCE Lifetime WITH
             Clients <- Conns,
             KeepsSocket <- SystemdSocket,
             main <- Phase,
             why <- IF ~Alive \/ mainPc = "select" THEN "none"
                    ELSE IF restartRequested THEN "restart" ELSE "signal",
             ctxDone <- Alive /\ ctxDone,
             requested <- Alive /\ restartChan,
             client <- [c \in Conns |-> Seen(stage[c])]

RunsOneLifetime == Process!Spec

(* A signal or an applied update ends the process, whatever clients and    *)
(* commands do: main reaches Shutdown, and Shutdown's timer bounds the wait*)
ShutdownTerminates == (ctxDone \/ restartChan) ~> ~Alive

(* After an update has been applied the process ends, so that the new      *)
(* binary can be started: the request put in restartChan is never lost.    *)
AppliedUpdateRestarts == \A c \in Conns : (stage[c] = "sleeping") ~> ~Alive

(* acceptLoop never waits for a handler: a client in the backlog or in its *)
(* hand is refused or given to a goroutine, or the process ends.           *)
BacklogServed ==
  \A c \in Conns : (stage[c] \in InLoop \cup {"queued"})
                     ~> (stage[c] \notin InLoop \cup {"queued"} \/ ~Alive)

(* What the code says of the drain (server.go: "Wait for in-flight         *)
(* connections", then "all connections drained"): once it is reported, no  *)
(* handler is at work.                                                     *)
DrainedMeansNoneInFlight == Alive /\ drain = "drained" => Tracked = {}

(* What handleUpdate says of a failed update ("Error response already sent *)
(* via onProgress"): no connection is closed without an answer.            *)
FailedUpdateAnswered == \A c \in Conns : stage[c] = "served" => reply[c] # "none"
=============================================================================

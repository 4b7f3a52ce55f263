------------------------------ MODULE Service ------------------------------
(***************************************************************************)
(* The installed service over many lifetimes of its process: main from     *)
(* config.New to its exit (cmd/vito-root-service/main.go), the units that  *)
(* start it again and keep its socket (systemd/), updates that replace its *)
(* binary (Upgrade), and clients whose connections wait in the backlog of  *)
(* the socket while no process accepts them.  Server is one of these       *)
(* lifetimes in detail, Command and Replace are what its handlers do.      *)
(***************************************************************************)
EXTENDS Upgrade

CONSTANTS Clients,   \* the connections
          MaxFaults  \* bound: starts that fail, crashes, signals and stops

ASSUME FaultsAssumption == MaxFaults \in Nat

VARIABLES proc,      \* where main is, or how the last process ended
          ctxDone,   \* the context of signal.NotifyContext is done
          requested, \* srv.restartChan holds a request
          exitFor,   \* what ended main's select
          unit,      \* vito-root.service
          client,    \* the connections
          faults

processVars == <<proc, ctxDone, requested, exitFor>>
vars        == <<upgradeVars, processVars, unit, client, faults>>

Alive  == {"config", "listen", "serving", "shutdown", "draining"}
Ended  == {"stopped", "restarting", "failed"}
InHand == {"accepted", "updating", "applied"}

TypeOK == /\ UpgradeTypeOK
          /\ proc \in Alive \cup Ended
          /\ ctxDone \in BOOLEAN /\ requested \in BOOLEAN
          /\ exitFor \in {"none", "signal", "restart"}
          /\ unit \in {"dead", "active", "stopping", "auto-restart"}
          /\ client \in [Clients -> {"away", "queued"} \cup InHand]
          /\ faults \in 0..MaxFaults

Init == /\ UpgradeInit
        /\ proc = "stopped" /\ ctxDone = FALSE /\ requested = FALSE /\ exitFor = "none"
        /\ unit = "dead"
        /\ client = [c \in Clients |-> "away"]
        /\ faults = 0

Fault == faults < MaxFaults /\ faults' = faults + 1

Moves(c, from, to) == client[c] = from /\ client' = [client EXCEPT ![c] = to]

-----------------------------------------------------------------------------
(* The units *)

(* The socket unit is up, so a connection is accepted by the kernel at any *)
(* time.                                                                   *)
Connect(c) == /\ Moves(c, "away", "queued")
              /\ UNCHANGED <<upgradeVars, processVars, unit, faults>>

(* ExecStart: the binary that is installed by now. *)
Launch == /\ Restart
          /\ proc' = "config" /\ ctxDone' = FALSE /\ requested' = FALSE /\ exitFor' = "none"
          /\ unit' = "active"
          /\ UNCHANGED <<client, faults>>

(* A connection that waits starts a unit that is inactive or has failed. *)
Activate == /\ unit = "dead" /\ \E c \in Clients : client[c] = "queued"
            /\ Launch

(* RestartSec is over. *)
AutoRestart == unit = "auto-restart" /\ Launch

(* The boot of the machine, or systemctl start. *)
StartUnit == unit = "dead" /\ Launch

(* Fault: Restart=no. *)
RestartNever(how) == "dead"

(* Restart=on-failure, unless the unit is being stopped. *)
UnitAfter(how) == IF unit = "active" /\ how = "failed" THEN "auto-restart" ELSE "dead"

(* The process is gone, and with it every connection it had accepted; the  *)
(* socket and its backlog are systemd's.                                   *)
Ends(how) == /\ proc' = IF unit = "stopping" THEN "stopped" ELSE how
             /\ ctxDone' = FALSE /\ requested' = FALSE /\ exitFor' = "none"
             /\ unit' = UnitAfter(how)
             /\ client' = [c \in Clients |-> IF client[c] \in InHand THEN "away" ELSE client[c]]
             /\ UNCHANGED upgradeVars

(* An operator stops the unit while it waits for RestartSec. *)
StopWaiting == /\ unit = "auto-restart" /\ Fault
               /\ unit' = "dead" /\ proc' = "stopped"
               /\ UNCHANGED <<upgradeVars, ctxDone, requested, exitFor, client>>

(* SIGTERM, from systemctl stop or from a kill.  It is caught between the  *)
(* call of NotifyContext and the call of stop; before and after that it    *)
(* ends the process, which systemd counts as a clean exit.                 *)
Catches == proc \in {"listen", "serving"} \/ exitFor = "signal"

Terminate == /\ proc \in Alive /\ unit = "active" /\ Fault
             /\ IF Catches
                THEN /\ ctxDone' = TRUE
                     /\ unit' \in {"active", "stopping"}
                     /\ UNCHANGED <<upgradeVars, proc, requested, exitFor, client>>
                ELSE Ends("stopped")

(* TimeoutStopSec is over, which may be before the deadline of the drain:  *)
(* both are 30 seconds.  SIGKILL.                                          *)
StopTimeout == unit = "stopping" /\ Ends("failed") /\ UNCHANGED faults

(* A panic, a lack of memory, SIGKILL. *)
Crash == proc \in Alive /\ Fault /\ Ends("failed")

-----------------------------------------------------------------------------
(* main *)

LoadConfig == /\ proc = "config"
              /\ proc' = "listen"
              /\ UNCHANGED <<upgradeVars, ctxDone, requested, exitFor, unit, client, faults>>

(* The user is unknown, or its numbers or the log level are not valid. *)
ConfigFails == proc = "config" /\ Fault /\ Ends("failed")

(* LISTEN_FDS names the socket of the unit. *)
CreateListener == /\ proc = "listen"
                  /\ proc' = "serving"
                  /\ UNCHANGED <<upgradeVars, ctxDone, requested, exitFor, unit, client, faults>>

CreateListenerFails == proc = "listen" /\ Fault /\ Ends("failed")

SelectSignal == /\ proc = "serving" /\ ctxDone
                /\ proc' = "shutdown" /\ exitFor' = "signal"
                /\ UNCHANGED <<upgradeVars, ctxDone, requested, unit, client, faults>>

(* stop() cancels the context too. *)
SelectRestart == /\ proc = "serving" /\ requested
                 /\ proc' = "shutdown" /\ exitFor' = "restart"
                 /\ ctxDone' = TRUE /\ requested' = FALSE
                 /\ UNCHANGED <<upgradeVars, unit, client, faults>>

(* listener.Close, at the start of Shutdown. *)
CloseListener == /\ proc = "shutdown"
                 /\ proc' = "draining"
                 /\ UNCHANGED <<upgradeVars, ctxDone, requested, exitFor, unit, client, faults>>

(* Fault: Shutdown waits for the handlers without a deadline. *)
DrainUnbounded == /\ proc = "draining" /\ \A c \in Clients : client[c] \notin InHand
                  /\ Ends(IF exitFor = "restart" THEN "restarting" ELSE "stopped")
                  /\ UNCHANGED faults

(* The handlers are done or the deadline has passed: exit with code 0. *)
DrainEnds == /\ proc = "draining"
             /\ Ends(IF exitFor = "restart" THEN "restarting" ELSE "stopped")
             /\ UNCHANGED faults

MainStep == \/ LoadConfig \/ CreateListener \/ SelectSignal \/ SelectRestart
            \/ CloseListener \/ DrainEnds

-----------------------------------------------------------------------------
(* The handlers *)

(* The accept loop goes on until the listener is closed. *)
Accept(c) == /\ proc \in {"serving", "shutdown"}
             /\ Moves(c, "queued", "accepted")
             /\ UNCHANGED <<upgradeVars, processVars, unit, faults>>

(* Refused, or served with anything but an update or a check for one. *)
Serve(c) == /\ Moves(c, "accepted", "away")
            /\ UNCHANGED <<upgradeVars, processVars, unit, faults>>

(* check-update, and an update that downloads nothing. *)
Answer(c) == /\ CheckUpdate \/ FetchFails \/ AlreadyCurrent
             /\ Moves(c, "accepted", "away")
             /\ UNCHANGED <<processVars, unit, faults>>

(* Fault: the context check after the fetch is forgotten. *)
DownloadUnchecked(c) == /\ StartDownload
                        /\ Moves(c, "accepted", "updating")
                        /\ UNCHANGED <<processVars, unit, faults>>

(* The context is checked between the fetch of the release and this. *)
Download(c) == /\ ~ctxDone /\ StartDownload
               /\ Moves(c, "accepted", "updating")
               /\ UNCHANGED <<processVars, unit, faults>>

Install(c) == /\ Apply
              /\ Moves(c, "updating", "applied")
              /\ UNCHANGED <<processVars, unit, faults>>

GiveUp(c) == /\ UpdateFails
             /\ Moves(c, "updating", "away")
             /\ UNCHANGED <<processVars, unit, faults>>

(* Fault: the handler returns after the last response. *)
NoRequest(c) == /\ Moves(c, "applied", "away")
                /\ UNCHANGED <<upgradeVars, processVars, unit, faults>>

(* restartDelay is over. *)
RequestRestart(c) == /\ Moves(c, "applied", "away")
                     /\ requested' = TRUE
                     /\ UNCHANGED <<upgradeVars, proc, ctxDone, exitFor, unit, faults>>

NewRelease(v) == Publish(v) /\ UNCHANGED <<processVars, unit, client, faults>>

UnitStep == \/ Activate \/ AutoRestart \/ StartUnit \/ StopWaiting \/ Terminate
            \/ StopTimeout \/ Crash
StartFails == ConfigFails \/ CreateListenerFails
ClientStep(c) == \/ Connect(c) \/ Accept(c) \/ Serve(c) \/ Answer(c)
                 \/ Download(c) \/ Install(c) \/ GiveUp(c) \/ RequestRestart(c)

Next == \/ UnitStep \/ StartFails \/ MainStep
        \/ \E c \in Clients : ClientStep(c)
        \/ \E v \in Releases : NewRelease(v)

Spec == Init /\ [][Next]_vars

(* systemd activates and restarts, main goes from one step to the next,    *)
(* the accept loop accepts, a handler that has slept asks for the restart. *)
(* Nothing is assumed of clients, requests, downloads or GitHub.           *)
Fairness == /\ WF_vars(Activate) /\ WF_vars(AutoRestart)
            /\ WF_vars(MainStep)
            /\ \A c \in Clients : WF_vars(Accept(c)) /\ WF_vars(RequestRestart(c))

FairSpec == Spec /\ Fairness

-----------------------------------------------------------------------------
(* A process that serves although another release is installed is about to *)
(* restart: the restart is requested, or the handler that installed the    *)
(* release is on its way to request it (RequestRestart, restartDelay).  No *)
(* crash, stop or failed start between them leaves an old version serving. *)
OutdatedOnlyUntilRestart ==
  proc = "serving" /\ running # installed =>
    requested \/ \E c \in Clients : client[c] = "applied"

(* Its processes are those of Lifetime, which Server implements: what is   *)
(* composed here with systemd and the versions is what a process does.     *)
Process == INSTANCE Lifetime WITH
             KeepsSocket <- TRUE,
             main <- IF proc \in Ended THEN "ended"
                     ELSE IF proc \in {"config", "listen"} THEN "starting" ELSE proc,
             why <- exitFor

RunsLifetimes == Process!Spec

(* A connection in the backlog is taken up, whatever ends the process that *)
(* should have: it is accepted by this process or by one that systemd      *)
(* starts for it, also after an update, a stop or a failed start.          *)
QueuedGetsAccepted == \A c \in Clients : (client[c] = "queued") ~> (client[c] # "queued")

(* A service whose process failed serves again without waiting for a       *)
(* client, unless it is stopped (Restart=on-failure).                      *)
FailureRecovers == (proc = "failed") ~> (proc \in {"serving", "stopped"})

(* main.go, after a requested restart: "Exit with code 0 so systemd will   *)
(* restart us with the new binary".                                        *)
RestartServes == (proc = "restarting") ~> (proc = "serving")
=============================================================================

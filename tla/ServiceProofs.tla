--------------------------- MODULE ServiceProofs ---------------------------
(***************************************************************************)
(* The service takes the steps of Upgrade and no others, so what holds of  *)
(* the versions of an installation holds of it through every crash, stop   *)
(* and restart; an old version serves only on the way to its restart; and  *)
(* its processes are those of Lifetime, which Server implements.           *)
(***************************************************************************)
EXTENDS Service, UpgradeProofs

(* The initial states are those of Upgrade. *)
LEMMA ServiceInit == Init => UpgradeInit
BY DEF Init

(* Every step is one of Upgrade or leaves the versions alone. *)
LEMMA ServiceStep == [Next]_vars => [UpgradeNext]_upgradeVars
<1> SUFFICES ASSUME [Next]_vars PROVE [UpgradeNext]_upgradeVars
  OBVIOUS
<1>1. CASE UnitStep
  <2>1. CASE Activate \/ AutoRestart \/ StartUnit
    BY <2>1 DEF Activate, AutoRestart, StartUnit, Launch, UpgradeNext
  <2>2. CASE StopWaiting \/ Terminate \/ StopTimeout \/ Crash
    BY <2>2 DEF StopWaiting, Terminate, StopTimeout, Crash, Ends
  <2>3. QED
    BY <1>1, <2>1, <2>2 DEF UnitStep
<1>2. CASE StartFails
  BY <1>2 DEF StartFails, ConfigFails, CreateListenerFails, Ends
<1>3. CASE MainStep
  BY <1>3 DEF MainStep, LoadConfig, CreateListener, SelectSignal, SelectRestart, CloseListener,
              DrainEnds, Ends
<1>4. ASSUME NEW c \in Clients, ClientStep(c) PROVE [UpgradeNext]_upgradeVars
  BY <1>4 DEF ClientStep, Connect, Accept, Serve, Answer, Download, Install, GiveUp,
              RequestRestart, UpgradeNext
<1>5. ASSUME NEW v \in Releases, NewRelease(v) PROVE [UpgradeNext]_upgradeVars
  BY <1>5 DEF NewRelease, UpgradeNext
<1>6. CASE UNCHANGED vars
  BY <1>6 DEF vars, upgradeVars
<1>7. QED
  BY <1>1, <1>2, <1>3, <1>4, <1>5, <1>6 DEF Next

(* The service implements Upgrade: systemd, main and the handlers take its *)
(* steps, one at a time, and nothing else touches the versions.            *)
THEOREM ServiceImplementsUpgrade == Spec => UpgradeSpec
BY ServiceInit, ServiceStep, PTL DEF Spec, UpgradeSpec

(* With releases of three numbers, no sequence of updates, crashes, stops  *)
(* and restarts puts an earlier release in the place of the one a process  *)
(* was started from.                                                       *)
THEOREM ServiceMovesForward ==
  ASSUME Releases \subseteq UndottedReleases PROVE Spec => UpdateMovesForward
BY ServiceImplementsUpgrade, MovesForward, PTL

(* ... and a client that is told the installation is current can rely on   *)
(* it.                                                                     *)
THEOREM ServiceUpToDate ==
  ASSUME Releases \subseteq FullReleases PROVE Spec => []CurrentMeansLatest
BY ServiceImplementsUpgrade, UpToDate, PTL

-----------------------------------------------------------------------------
(* Every action keeps the types. *)
LEMMA ServiceTypeStep == TypeOK /\ [Next]_vars => TypeOK'
<1> SUFFICES ASSUME TypeOK, [Next]_vars PROVE TypeOK'
  OBVIOUS
<1>1. UpgradeTypeOK'
  <2>1. [UpgradeNext]_upgradeVars
    BY ServiceStep
  <2>2. QED
    BY <2>1 DEF TypeOK, UpgradeTypeOK, UpgradeNext, upgradeVars, Publish, CheckUpdate, FetchFails,
                AlreadyCurrent, StartDownload, Apply, UpdateFails, Restart
<1>2. ASSUME NEW how \in Ended, Ends(how)
      PROVE  /\ proc' \in Alive \cup Ended /\ ctxDone' \in BOOLEAN /\ requested' \in BOOLEAN
             /\ exitFor' = "none" /\ unit' \in {"dead", "auto-restart"}
             /\ client' \in [Clients -> {"away", "queued"} \cup InHand]
  BY <1>2 DEF TypeOK, Ends, UnitAfter, Ended, InHand
<1>3. /\ "stopped" \in Ended /\ "failed" \in Ended /\ "restarting" \in Ended
  BY DEF Ended
<1>4. Fault => faults' \in 0..MaxFaults
  BY FaultsAssumption DEF Fault, TypeOK
<1>5. CASE UnitStep
  <2>1. CASE Activate \/ AutoRestart \/ StartUnit
    BY <1>1, <2>1 DEF Activate, AutoRestart, StartUnit, Launch, TypeOK, Alive
  <2>2. CASE StopWaiting
    BY <1>1, <1>4, <2>2 DEF StopWaiting, TypeOK, Ended
  <2>3. CASE Terminate
    BY <1>1, <1>2, <1>3, <1>4, <2>3 DEF Terminate, TypeOK
  <2>4. CASE StopTimeout \/ Crash
    BY <1>1, <1>2, <1>3, <1>4, <2>4 DEF StopTimeout, Crash, TypeOK
  <2>5. QED
    BY <1>5, <2>1, <2>2, <2>3, <2>4 DEF UnitStep
<1>6. CASE StartFails
  BY <1>1, <1>2, <1>3, <1>4, <1>6 DEF StartFails, ConfigFails, CreateListenerFails, TypeOK
<1>7. CASE MainStep
  <2>1. CASE DrainEnds
    BY <1>1, <1>2, <1>3, <2>1 DEF DrainEnds, TypeOK
  <2>2. CASE LoadConfig \/ CreateListener \/ SelectSignal \/ SelectRestart \/ CloseListener
    BY <1>1, <2>2 DEF LoadConfig, CreateListener, SelectSignal, SelectRestart, CloseListener, TypeOK, Alive
  <2>3. QED
    BY <1>7, <2>1, <2>2 DEF MainStep
<1>8. ASSUME NEW c \in Clients, ClientStep(c) PROVE TypeOK'
  <2>1. client' \in [Clients -> {"away", "queued"} \cup InHand]
    BY <1>8 DEF ClientStep, Connect, Accept, Serve, Answer, Download, Install, GiveUp,
                RequestRestart, Moves, TypeOK, InHand
  <2>2. QED
    BY <1>1, <1>8, <2>1 DEF ClientStep, Connect, Accept, Serve, Answer, Download, Install, GiveUp,
                            RequestRestart, TypeOK, processVars
<1>9. CASE (\E v \in Releases : NewRelease(v)) \/ UNCHANGED vars
  BY <1>1, <1>9 DEF NewRelease, TypeOK, processVars, vars
<1>10. QED
  BY <1>5, <1>6, <1>7, <1>8, <1>9 DEF Next

(* ... from the start. *)
LEMMA ServiceTypeInit == Init => TypeOK
<1>1. Init => UpgradeTypeOK
  BY DEF Init, UpgradeInit, UpgradeTypeOK
<1>2. Init => faults \in 0..MaxFaults
  BY FaultsAssumption DEF Init
<1>3. QED
  BY <1>1, <1>2 DEF Init, TypeOK, Ended, InHand

(* The types of the service. *)
THEOREM ServiceTypeCorrect == Spec => []TypeOK
BY ServiceTypeInit, ServiceTypeStep, PTL DEF Spec

-----------------------------------------------------------------------------
(* The unit is up as long as its process lives; before the accept loop *)
(* runs nobody is in hand and the process is the binary that is installed. *)
(* So an update that makes a process outdated has its handler in it.       *)
Idle == proc \notin {"serving", "shutdown", "draining"}
OutdatedInv == /\ TypeOK
               /\ unit \in {"dead", "auto-restart"} <=> proc \in Ended
               /\ Idle => \A c \in Clients : client[c] \notin InHand
               /\ proc \in {"config", "listen"} => running = installed
               /\ OutdatedOnlyUntilRestart

(* A launch and an end empty the hands; an end leaves nobody serving. *)
LEMMA OutdatedUnit == ASSUME OutdatedInv, UnitStep \/ StartFails, TypeOK' PROVE OutdatedInv'
<1>1. ASSUME NEW how \in Ended, Ends(how) PROVE OutdatedInv'
  <2>1. proc' \in Ended /\ unit' \in {"dead", "auto-restart"}
    BY <1>1 DEF Ends, Ended, UnitAfter
  <2>2. \A c \in Clients : client'[c] \notin InHand
    BY <1>1 DEF Ends, OutdatedInv, TypeOK, InHand
  <2>3. QED
    BY <2>1, <2>2 DEF OutdatedInv, OutdatedOnlyUntilRestart, Ended
<1>2. /\ "stopped" \in Ended /\ "failed" \in Ended
  BY DEF Ended
<1>3. CASE Activate \/ AutoRestart \/ StartUnit
  <2>1. \A c \in Clients : client[c] \notin InHand
    BY <1>3 DEF OutdatedInv, Idle, Ended, Activate, AutoRestart, StartUnit
  <2>2. QED
    BY <1>3, <2>1 DEF Activate, AutoRestart, StartUnit, Launch, Restart, OutdatedInv, Idle,
                      Ended, OutdatedOnlyUntilRestart
<1>4. CASE StopWaiting
  <2>1. \A c \in Clients : client[c] \notin InHand
    BY <1>4 DEF OutdatedInv, Idle, Ended, StopWaiting
  <2>2. QED
    BY <1>4, <2>1 DEF StopWaiting, OutdatedInv, Ended, OutdatedOnlyUntilRestart
<1>5. CASE Terminate
  BY <1>1, <1>2, <1>5 DEF Terminate, OutdatedInv, Idle, OutdatedOnlyUntilRestart, upgradeVars
<1>6. CASE StopTimeout \/ Crash \/ StartFails
  BY <1>1, <1>2, <1>6 DEF StopTimeout, Crash, StartFails, ConfigFails, CreateListenerFails
<1>7. QED
  BY <1>3, <1>4, <1>5, <1>6 DEF UnitStep

(* main goes on: to serve, to drain or to its end. *)
LEMMA OutdatedMain == ASSUME OutdatedInv, MainStep, TypeOK' PROVE OutdatedInv'
<1>1. CASE DrainEnds
  <2>1. proc' \in Ended /\ unit' \in {"dead", "auto-restart"}
    BY <1>1 DEF DrainEnds, Ends, Ended, UnitAfter
  <2>2. \A c \in Clients : client'[c] \notin InHand
    BY <1>1 DEF DrainEnds, Ends, OutdatedInv, TypeOK, InHand
  <2>3. QED
    BY <2>1, <2>2 DEF OutdatedInv, OutdatedOnlyUntilRestart, Ended
<1>2. CASE LoadConfig \/ CreateListener
  BY <1>2 DEF LoadConfig, CreateListener, OutdatedInv, Idle, Ended, OutdatedOnlyUntilRestart,
              upgradeVars
<1>3. CASE SelectSignal \/ SelectRestart \/ CloseListener
  BY <1>3 DEF SelectSignal, SelectRestart, CloseListener, OutdatedInv, Idle, Ended, OutdatedOnlyUntilRestart,
              upgradeVars
<1>4. QED
  BY <1>1, <1>2, <1>3 DEF MainStep

(* Only an applied update makes a process outdated, and then its handler   *)
(* is the witness until it has requested the restart.                      *)
LEMMA OutdatedClient ==
  ASSUME OutdatedInv, NEW c \in Clients, ClientStep(c), TypeOK' PROVE OutdatedInv'
<1>1. client \in [Clients -> {"away", "queued"} \cup InHand]
  BY DEF OutdatedInv, TypeOK
<1>2. CASE Connect(c)
  BY <1>1, <1>2 DEF Connect, Moves, OutdatedInv, Idle, InHand, OutdatedOnlyUntilRestart,
                    upgradeVars, processVars
<1>3. CASE Accept(c)
  BY <1>1, <1>3 DEF Accept, Moves, OutdatedInv, Idle, InHand, OutdatedOnlyUntilRestart,
                    upgradeVars, processVars, Ended
<1>4. CASE Serve(c) \/ Answer(c) \/ Download(c) \/ GiveUp(c)
  <2>1. UNCHANGED <<running, installed, processVars, unit>>
    BY <1>4 DEF Serve, Answer, Download, GiveUp, CheckUpdate, FetchFails, AlreadyCurrent,
                StartDownload, UpdateFails, upgradeVars
  <2>2. client[c] \in InHand \ {"applied"}
    BY <1>4 DEF Serve, Answer, Download, GiveUp, Moves, InHand
  <2>3. \A d \in Clients : d # c => client'[d] = client[d]
    BY <1>1, <1>4 DEF Serve, Answer, Download, GiveUp, Moves
  <2>4. QED
    BY <2>1, <2>2, <2>3 DEF OutdatedInv, Idle, OutdatedOnlyUntilRestart, processVars
<1>5. CASE Install(c)
  <2>1. client[c] \in InHand /\ client'[c] = "applied"
    BY <1>1, <1>5 DEF Install, Moves, InHand
  <2>2. QED
    BY <1>5, <2>1 DEF Install, OutdatedInv, Idle, OutdatedOnlyUntilRestart, processVars
<1>6. CASE RequestRestart(c)
  <2>1. client[c] \in InHand
    BY <1>6 DEF RequestRestart, Moves, InHand
  <2>2. QED
    BY <1>6, <2>1 DEF RequestRestart, OutdatedInv, Idle, OutdatedOnlyUntilRestart, upgradeVars
<1>7. QED
  BY <1>2, <1>3, <1>4, <1>5, <1>6 DEF ClientStep

LEMMA OutdatedInit == Init => OutdatedInv
BY ServiceTypeInit DEF Init, UpgradeInit, OutdatedInv, Idle, Ended, InHand, OutdatedOnlyUntilRestart

LEMMA OutdatedStep == OutdatedInv /\ [Next]_vars => OutdatedInv'
<1> SUFFICES ASSUME OutdatedInv, [Next]_vars PROVE OutdatedInv'
  OBVIOUS
<1>1. TypeOK'
  BY ServiceTypeStep DEF OutdatedInv
<1>2. CASE UnitStep \/ StartFails
  BY <1>1, <1>2, OutdatedUnit
<1>3. CASE MainStep
  BY <1>1, <1>3, OutdatedMain
<1>4. CASE \E c \in Clients : ClientStep(c)
  BY <1>1, <1>4, OutdatedClient
<1>5. CASE (\E v \in Releases : NewRelease(v)) \/ UNCHANGED vars
  BY <1>1, <1>5 DEF NewRelease, Publish, OutdatedInv, Idle, OutdatedOnlyUntilRestart,
                    processVars, upgradeVars, vars
<1>6. QED
  BY <1>2, <1>3, <1>4, <1>5 DEF Next

(* However many clients update, crash, stop and restart it, the service    *)
(* never goes on serving with a version that is no longer installed.       *)
THEOREM NeverOutdated == Spec => []OutdatedOnlyUntilRestart
<1>1. OutdatedInv => OutdatedOnlyUntilRestart
  BY DEF OutdatedInv
<1>2. QED
  BY <1>1, OutdatedInit, OutdatedStep, PTL DEF Spec

-----------------------------------------------------------------------------
(* The processes of the service are those of Lifetime *)

Main == IF proc \in Ended THEN "ended" ELSE IF proc \in {"config", "listen"} THEN "starting" ELSE proc

LEMMA MainValues ==
  /\ proc \in Ended => Main = "ended"
  /\ proc \in {"config", "listen"} => Main = "starting"
  /\ proc \in {"serving", "shutdown", "draining"} => Main = proc
BY DEF Main, Ended

LEMMA ProcessInit == Init => Process!Init
BY MainValues DEF Init, Process!Init, Main, Ended

(* An end takes the connections in hand; one that finds the process ended  *)
(* cannot be.                                                              *)
LEMMA ProcessEndsSeen ==
  ASSUME TypeOK, proc \in Alive, NEW how \in Ended, Ends(how) PROVE Process!End
<1>1. Main # "ended" /\ Main' = "ended"
  BY MainValues DEF Alive, Ended, Ends, Main
<1>2. client' = [c \in Clients |-> IF client[c] \in Process!InHand \cup Process!Backlog
                                  THEN "away" ELSE client[c]]
  BY DEF Ends, InHand, Process!InHand, Process!Backlog
<1>3. QED
  BY <1>1, <1>2 DEF Ends, Main, Process!End, Process!Without

LEMMA ProcessUnit ==
  ASSUME OutdatedInv, UnitStep \/ StartFails PROVE Process!Next \/ UNCHANGED Process!vars
<1>0. TypeOK /\ "stopped" \in Ended /\ "failed" \in Ended
  BY DEF OutdatedInv, Ended
<1>1. CASE Activate \/ AutoRestart \/ StartUnit
  <2>1. Launch /\ proc \in Ended
    BY <1>1 DEF Activate, AutoRestart, StartUnit, OutdatedInv
  <2>2. Main = "ended" /\ Main' = "starting"
    BY <2>1 DEF Launch, Main, Ended
  <2>3. QED
    BY <2>1, <2>2 DEF Launch, Main, Process!Start, Process!Next
<1>2. CASE StopWaiting
  BY <1>2 DEF StopWaiting, OutdatedInv, Ended, Process!vars
<1>3. CASE Terminate
  <2>1. CASE Catches
    <3>1. Main # "ended" /\ Main' = Main
      BY <1>3, <2>1 DEF Terminate, Main, Alive, Ended
    <3>2. QED
      BY <1>3, <2>1, <3>1 DEF Terminate, Main, Process!Signal, Process!Next
  <2>2. CASE ~Catches
    BY <1>0, <1>3, <2>2, ProcessEndsSeen DEF Terminate, Process!Next
  <2>3. QED
    BY <2>1, <2>2
<1>4. CASE StopTimeout
  <2>1. proc \in Alive
    BY <1>4 DEF StopTimeout, OutdatedInv, TypeOK
  <2>2. QED
    BY <1>0, <1>4, <2>1, ProcessEndsSeen DEF StopTimeout, Process!Next
<1>5. CASE Crash \/ StartFails
  BY <1>0, <1>5, ProcessEndsSeen DEF Crash, StartFails, ConfigFails, CreateListenerFails, Alive, Process!Next
<1>6. QED
  BY <1>1, <1>2, <1>3, <1>4, <1>5 DEF UnitStep

LEMMA ProcessMain ==
  ASSUME OutdatedInv, MainStep PROVE Process!Next \/ UNCHANGED Process!vars
<1>1. CASE LoadConfig
  BY <1>1 DEF LoadConfig, Ended, Process!vars
<1>2. CASE CreateListener
  <2>1. Main = "starting" /\ Main' = "serving"
    BY <1>2 DEF CreateListener, Main, Ended
  <2>2. QED
    BY <1>2, <2>1 DEF CreateListener, Main, Process!Listen, Process!Next
<1>3. CASE SelectSignal
  <2>1. Main = "serving" /\ Main' = "shutdown"
    BY <1>3 DEF SelectSignal, Main, Ended
  <2>2. QED
    BY <1>3, <2>1 DEF SelectSignal, Main, Process!SelectSignal, Process!Next
<1>4. CASE SelectRestart
  <2>1. Main = "serving" /\ Main' = "shutdown"
    BY <1>4 DEF SelectRestart, Main, Ended
  <2>2. QED
    BY <1>4, <2>1 DEF SelectRestart, Main, Process!SelectRestart, Process!Next
<1>5. CASE CloseListener
  <2>1. Main = "shutdown" /\ Main' = "draining"
    BY <1>5 DEF CloseListener, Main, Ended
  <2>2. client = Process!Without(Process!Backlog)
    BY DEF OutdatedInv, TypeOK, Process!Without, Process!Backlog
  <2>3. QED
    BY <1>5, <2>1, <2>2 DEF CloseListener, Main, Process!CloseListener, Process!Next
<1>6. CASE DrainEnds
  <2>1. TypeOK /\ "stopped" \in Ended /\ "restarting" \in Ended /\ proc \in Alive
    BY <1>6 DEF OutdatedInv, Ended, Alive, DrainEnds
  <2>2. QED
    BY <1>6, <2>1, ProcessEndsSeen DEF DrainEnds, Process!Next
<1>7. QED
  BY <1>1, <1>2, <1>3, <1>4, <1>5, <1>6 DEF MainStep

LEMMA ProcessClient ==
  ASSUME NEW c \in Clients, ClientStep(c) PROVE Process!Next
<1>1. ASSUME NEW from, NEW to, Moves(c, from, to), UNCHANGED <<proc, ctxDone, exitFor>>
      PROVE  Process!Moves(c, from, to)
  BY <1>1 DEF Moves, Process!Moves
<1>2. CASE Connect(c)
  BY <1>1, <1>2 DEF Connect, processVars, Process!Connect, Process!ClientStep, Process!Next
<1>3. CASE Accept(c)
  <2>1. Main \in {"serving", "shutdown"}
    BY <1>3 DEF Accept, Main, Ended
  <2>2. QED
    BY <1>1, <1>3, <2>1 DEF Accept, processVars, Main, Process!Accept, Process!Listening,
                            Process!ClientStep, Process!Next
<1>4. CASE Serve(c) \/ Answer(c)
  BY <1>1, <1>4 DEF Serve, Answer, processVars, Process!Finish, Process!ClientStep, Process!Next
<1>5. CASE Download(c)
  BY <1>1, <1>5 DEF Download, processVars, Process!Download, Process!ClientStep, Process!Next
<1>6. CASE Install(c)
  BY <1>1, <1>6 DEF Install, processVars, Process!Install, Process!ClientStep, Process!Next
<1>7. CASE GiveUp(c)
  BY <1>1, <1>7 DEF GiveUp, processVars, Process!GiveUp, Process!ClientStep, Process!Next
<1>8. CASE RequestRestart(c)
  BY <1>1, <1>8 DEF RequestRestart, Process!RequestRestart, Process!ClientStep, Process!Next
<1>9. QED
  BY <1>2, <1>3, <1>4, <1>5, <1>6, <1>7, <1>8 DEF ClientStep

(* Every process of the service behaves as Lifetime says, and so as Server *)
(* does in detail (OneLifetime); systemd starts the next one only when it  *)
(* has ended.                                                              *)
THEOREM ManyLifetimes == Spec => RunsLifetimes
<1>1. OutdatedInv /\ [Next]_vars => [Process!Next]_(Process!vars)
  <2> SUFFICES ASSUME OutdatedInv, [Next]_vars PROVE Process!Next \/ UNCHANGED Process!vars
    BY DEF Process!vars
  <2>1. CASE (\E v \in Releases : NewRelease(v)) \/ UNCHANGED vars
    BY <2>1 DEF NewRelease, processVars, vars, Process!vars
  <2>2. QED
    BY <2>1, ProcessUnit, ProcessMain, ProcessClient DEF Next
<1>2. QED
  BY ProcessInit, OutdatedInit, OutdatedStep, <1>1, PTL DEF Spec, RunsLifetimes, Process!Spec
=============================================================================

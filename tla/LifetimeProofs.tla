--------------------------- MODULE LifetimeProofs ---------------------------
(***************************************************************************)
(* Server is one of the processes of Lifetime, for any connections, any    *)
(* limit and either kind of socket.  The mapping hides the goroutines: a   *)
(* step of one is a step of a connection or none at all.                   *)
(***************************************************************************)
EXTENDS ServerProofs

(* The listener is open exactly until Shutdown has closed it, and a restart*)
(* is noted only by the select it ends.                                    *)
PhaseInv == /\ mainPc \in {"select", "shutdown", "wait", "exiting"}
            /\ listener \in {"open", "closed"}
            /\ listener = "open" <=> mainPc \in {"select", "shutdown"}
            /\ mainPc = "select" => ~restartRequested

LEMMA PhaseInit == Init => PhaseInv
BY DEF Init, PhaseInv

LEMMA PhaseStep == PhaseInv /\ [Next]_vars => PhaseInv'
<1> SUFFICES ASSUME PhaseInv, [Next]_vars PROVE PhaseInv'
  OBVIOUS
<1>1. CASE UNCHANGED <<mainPc, listener, restartRequested>>
  BY <1>1 DEF PhaseInv
<1>2. CASE SelectSignal \/ SelectRestart \/ CloseListener \/ Drained \/ TimedOut
  BY <1>2 DEF SelectSignal, SelectRestart, CloseListener, Drained, TimedOut, ShutdownEnds,
              PhaseInv, poolVars
<1>3. ASSUME NEW kind, ProcessEnds(kind) PROVE UNCHANGED <<mainPc, listener, restartRequested>>
  BY <1>3 DEF ProcessEnds
<1>4. ASSUME NEW c \in Conns, Connect(c) \/ AcceptStep(c)
      PROVE  UNCHANGED <<mainPc, listener, restartRequested>>
  BY <1>3, <1>4 DEF Connect, AcceptStep, AcceptUnix, AuthorizeConnection, AcquireSlot,
    RejectAtCapacity, AddAndSpawn, AddPanics, poolVars, mainVars
<1>5. ASSUME NEW c \in Conns, HandlerStep(c) \/ HandlerEvent(c)
      PROVE  UNCHANGED <<mainPc, listener, restartRequested>>
  BY <1>5 DEF HandlerStep, FinishAction, RequestRestart, CloseConn, WgDone, ReleaseSlot,
    HandlerEvent, ParseFails, ParseCommand, StartFails, ParseAction, ParseUpdate, FinishCommand,
    UpdateEnds, UpdateCancelled, UpdateProceeds, UpdateApplied, HandlerMoves, poolVars, mainVars
<1>6. ASSUME AcceptLoopReturns \/ WaiterStep \/ Signal \/ KilledBySignal \/ Exit \/ UNCHANGED vars
      PROVE  UNCHANGED <<mainPc, listener, restartRequested>>
  BY <1>3, <1>6 DEF AcceptLoopReturns, WaiterStep, WaiterChecks, WaiterReturns, WaiterPanics,
    Signal, KilledBySignal, Exit, poolVars, mainVars, vars
<1>7. QED
  BY <1>1, <1>2, <1>4, <1>5, <1>6 DEF Next, MainStep, Over

-----------------------------------------------------------------------------
SeenMap == [c \in Conns |-> Seen(stage[c])]
Why == IF ~Alive \/ mainPc = "select" THEN "none" ELSE IF restartRequested THEN "restart" ELSE "signal"

(* What the mapping makes of each stage ... *)
LEMMA SeenValues ==
  /\ Seen("queued") = "queued" /\ Seen("downloading") = "updating" /\ Seen("sleeping") = "applied"
  /\ \A s \in InLoop \cup {"parsing", "running", "acting", "updating"} : Seen(s) = "accepted"
  /\ \A s \in {"idle", "closing", "closed", "untracked"} \cup Finished : Seen(s) = "away"
BY DEF Seen, InLoop, Finished

(* ... and of each place of main. *)
LEMMA PhaseValues ==
  /\ ~Alive => Phase = "ended"
  /\ Alive /\ mainPc = "select" => Phase = "serving"
  /\ Alive /\ mainPc = "shutdown" => Phase = "shutdown"
  /\ Alive /\ mainPc \in {"wait", "exiting"} => Phase = "draining"
BY DEF Phase

(* A move of one connection moves what is seen of it. *)
LEMMA SeenMoves ==
  ASSUME stage \in [Conns -> Stages], NEW c \in Conns, NEW from, NEW to, Goes(c, from, to)
  PROVE  SeenMap[c] = Seen(from) /\ SeenMap' = [SeenMap EXCEPT ![c] = Seen(to)]
<1>1. SeenMap' = [d \in Conns |-> Seen(stage'[d])]
  BY DEF SeenMap, Seen
<1>2. QED
  BY <1>1 DEF SeenMap, Goes

(* The server starts as a process that serves. *)
LEMMA ProcessInit == Init => Process!Init
<1> SUFFICES ASSUME Init PROVE Process!Init
  OBVIOUS
<1>1. SeenMap = [c \in Conns |-> "away"]
  BY SeenValues DEF SeenMap, Init
<1>2. Phase = "serving"
  BY PhaseValues DEF Init, Alive
<1>3. QED
  BY <1>1, <1>2 DEF Process!Init, SeenMap, Init, Alive

(* What a step leaves alone of the process. *)
Undisturbed == UNCHANGED <<exit, mainPc, restartRequested, ctxDone>>

LEMMA UndisturbedSeen ==
  ASSUME Undisturbed
  PROVE  UNCHANGED <<Phase, Why, Alive /\ ctxDone>>
BY DEF Undisturbed, Phase, Why, Alive

(* A move of one connection is one of Lifetime. *)
LEMMA ConnectionMoves ==
  ASSUME stage \in [Conns -> Stages], NEW c \in Conns, NEW from, NEW to, Goes(c, from, to), Undisturbed
  PROVE  Process!Moves(c, Seen(from), Seen(to))
BY SeenMoves, UndisturbedSeen DEF Process!Moves, SeenMap, Why

(* A move that does not show. *)
LEMMA ConnectionStutters ==
  ASSUME stage \in [Conns -> Stages], NEW c \in Conns, NEW from, NEW to, Goes(c, from, to), Undisturbed,
         Seen(from) = Seen(to), restartChan' = restartChan
  PROVE  UNCHANGED Process!vars
<1>1. SeenMap' = SeenMap
  <2>1. SeenMap[c] = Seen(to) /\ SeenMap' = [SeenMap EXCEPT ![c] = Seen(to)]
    BY SeenMoves
  <2>2. QED
    BY <2>1 DEF SeenMap
<1>2. UNCHANGED <<Phase, Why, Alive /\ ctxDone, Alive /\ restartChan>>
  BY UndisturbedSeen DEF Undisturbed, Alive
<1>3. QED
  BY <1>1, <1>2 DEF Process!vars, SeenMap, Why

(* The end of the process takes what is in hand, and the backlog of a      *)
(* socket that is its own.                                                 *)
LEMMA ProcessEndsSeen ==
  ASSUME stage \in [Conns -> Stages], Alive, PhaseInv, NEW kind \in {"zero", "killed", "panic"}, ProcessEnds(kind)
  PROVE  Process!End
<1>1. Phase # "ended" /\ Phase' = "ended" /\ ~Alive'
  BY PhaseValues DEF Phase, Alive, ProcessEnds, PhaseInv
<1>2. ASSUME NEW c \in Conns
      PROVE  SeenMap'[c] = IF SeenMap[c] \in Process!InHand \cup Process!Backlog THEN "away" ELSE SeenMap[c]
  <2>1. SeenMap'[c] = Seen(stage'[c]) /\ SeenMap[c] = Seen(stage[c])
    BY DEF SeenMap, Seen
  <2>2. CASE stage[c] \in InLoop \cup Working \cup {"closed", "untracked"}
    <3>1. stage'[c] \in {"cut", "served"}
      BY <2>2 DEF ProcessEnds, InLoop, Working
    <3>2. Seen(stage[c]) \in Process!InHand \cup {"away"}
      BY <2>2, SeenValues DEF Working, Process!InHand
    <3>3. QED
      BY <2>1, <3>1, <3>2, SeenValues DEF Finished
  <2>3. CASE stage[c] = "queued" /\ ~SystemdSocket
    <3>1. stage'[c] = "reset"
      BY <2>3 DEF ProcessEnds, InLoop, Working
    <3>2. QED
      BY <2>1, <2>3, <3>1, SeenValues DEF Finished, Process!Backlog
  <2>4. CASE stage[c] = "queued" /\ SystemdSocket
    <3>1. stage'[c] = "queued"
      BY <2>4 DEF ProcessEnds, InLoop, Working
    <3>2. QED
      BY <2>1, <2>4, <3>1, SeenValues DEF Process!InHand, Process!Backlog
  <2>5. CASE stage[c] \in {"idle"} \cup Finished
    <3>1. stage'[c] = stage[c]
      BY <2>5 DEF ProcessEnds, InLoop, Working, Finished
    <3>2. QED
      BY <2>1, <2>5, <3>1, SeenValues DEF Process!InHand, Process!Backlog
  <2>6. QED
    BY <2>2, <2>3, <2>4, <2>5 DEF Stages, Slotted, Counted, InLoop
<1>3. SeenMap' = [c \in Conns |-> IF SeenMap[c] \in Process!InHand \cup Process!Backlog
                                  THEN "away" ELSE SeenMap[c]]
  BY <1>2 DEF SeenMap
<1>4. QED
  BY <1>1, <1>3 DEF Process!End, Process!Without, SeenMap

-----------------------------------------------------------------------------
(* Every step of the server is one of Lifetime or does not show. *)
LEMMA ProcessAccept ==
  ASSUME TypeOK, PhaseInv, NEW c \in Conns, Connect(c) \/ AcceptStep(c)
  PROVE  Process!Next \/ UNCHANGED Process!vars
<1>0. stage \in [Conns -> Stages]
  BY DEF TypeOK
<1>1. CASE Connect(c)
  <2>1. Process!Moves(c, "away", "queued") /\ UNCHANGED (Alive /\ restartChan)
    BY <1>0, <1>1, ConnectionMoves, SeenValues DEF Connect, mainVars, sigVars, Undisturbed, Alive
  <2>2. SystemdSocket \/ Phase \in {"serving", "shutdown"}
    BY <1>1, PhaseValues DEF Connect, PhaseInv
  <2>3. QED
    BY <2>1, <2>2 DEF Process!Connect, Process!Listening, Process!ClientStep, Process!Next
<1>2. CASE AcceptUnix(c)
  <2>1. Process!Moves(c, "queued", "accepted") /\ UNCHANGED (Alive /\ restartChan)
    BY <1>0, <1>2, ConnectionMoves, SeenValues DEF AcceptUnix, mainVars, sigVars, Undisturbed, Alive, InLoop
  <2>2. Phase \in {"serving", "shutdown"}
    BY <1>2, PhaseValues DEF AcceptUnix, PhaseInv
  <2>3. QED
    BY <2>1, <2>2 DEF Process!Accept, Process!Listening, Process!ClientStep, Process!Next
<1>3. ASSUME NEW from \in InLoop, Goes(c, from, "rejected"), UNCHANGED <<sigVars, mainVars>>
      PROVE  Process!Next
  <2>1. Process!Moves(c, "accepted", "away") /\ UNCHANGED (Alive /\ restartChan)
    BY <1>0, <1>3, ConnectionMoves, SeenValues DEF mainVars, sigVars, Undisturbed, Alive, Finished
  <2>2. QED
    BY <2>1 DEF Process!Finish, Process!ClientStep, Process!Next
<1>4. ASSUME NEW from \in InLoop, NEW to \in InLoop \cup {"parsing"}, Goes(c, from, to),
             UNCHANGED <<sigVars, mainVars>>
      PROVE  UNCHANGED Process!vars
  BY <1>0, <1>4, ConnectionStutters, SeenValues DEF mainVars, sigVars, Undisturbed
<1>5. CASE AuthorizeConnection(c)
  BY <1>3, <1>4, <1>5 DEF AuthorizeConnection, InLoop
<1>6. CASE AcquireSlot(c) \/ AddAndSpawn(c)
  BY <1>4, <1>6 DEF AcquireSlot, AddAndSpawn, InLoop
<1>7. CASE RejectAtCapacity(c)
  BY <1>3, <1>7 DEF RejectAtCapacity, InLoop
<1>8. CASE AddPanics(c)
  BY <1>0, <1>8, ProcessEndsSeen DEF AddPanics, Process!Next
<1>9. QED
  BY <1>1, <1>2, <1>5, <1>6, <1>7, <1>8 DEF AcceptStep

LEMMA ProcessHandler ==
  ASSUME TypeOK, NEW c \in Conns, HandlerStep(c) \/ HandlerEvent(c)
  PROVE  Process!Next \/ UNCHANGED Process!vars
<1>0. stage \in [Conns -> Stages]
  BY DEF TypeOK
<1>1. ASSUME NEW from \in {"parsing", "running", "acting", "updating"},
             HandlerMoves(c, from, "closing")
      PROVE  Process!Next
  <2>1. Process!Moves(c, "accepted", "away") /\ UNCHANGED (Alive /\ restartChan)
    BY <1>0, <1>1, ConnectionMoves, SeenValues DEF HandlerMoves, mainVars, sigVars, Undisturbed, Alive
  <2>2. QED
    BY <2>1 DEF Process!Finish, Process!ClientStep, Process!Next
<1>2. CASE \/ FinishAction(c) \/ ParseFails(c) \/ StartFails(c) \/ FinishCommand(c) \/ UpdateCancelled(c)
           \/ UpdateEnds(c) /\ stage[c] = "updating"
  BY <1>1, <1>2 DEF FinishAction, ParseFails, StartFails, FinishCommand, UpdateCancelled, UpdateEnds,
                    HandlerMoves, Goes
<1>3. CASE UpdateEnds(c) /\ stage[c] = "downloading"
  <2>1. HandlerMoves(c, "downloading", "closing")
    BY <1>3 DEF UpdateEnds, HandlerMoves, Goes
  <2>2. Process!Moves(c, "updating", "away") /\ UNCHANGED (Alive /\ restartChan)
    BY <1>0, <2>1, ConnectionMoves, SeenValues DEF HandlerMoves, mainVars, sigVars, Undisturbed, Alive
  <2>3. QED
    BY <2>2 DEF Process!GiveUp, Process!ClientStep, Process!Next
<1>4. CASE ParseCommand(c) \/ ParseAction(c) \/ ParseUpdate(c)
  <2>1. \E to \in {"running", "acting", "updating"} : HandlerMoves(c, "parsing", to)
    BY <1>4 DEF ParseCommand, ParseAction, ParseUpdate
  <2>2. QED
    BY <1>0, <2>1, ConnectionStutters, SeenValues DEF HandlerMoves, mainVars, sigVars, Undisturbed
<1>5. CASE UpdateProceeds(c)
  <2>1. Process!Moves(c, "accepted", "updating") /\ UNCHANGED (Alive /\ restartChan) /\ ~ctxDone
    BY <1>0, <1>5, ConnectionMoves, SeenValues
    DEF UpdateProceeds, HandlerMoves, mainVars, sigVars, Undisturbed, Alive
  <2>2. QED
    BY <2>1 DEF Process!Download, Process!ClientStep, Process!Next
<1>6. CASE UpdateApplied(c)
  <2>1. Process!Moves(c, "updating", "applied") /\ UNCHANGED (Alive /\ restartChan)
    BY <1>0, <1>6, ConnectionMoves, SeenValues
    DEF UpdateApplied, HandlerMoves, mainVars, sigVars, Undisturbed, Alive
  <2>2. QED
    BY <2>1 DEF Process!Install, Process!ClientStep, Process!Next
<1>7. CASE RequestRestart(c)
  <2>1. Process!Moves(c, "applied", "away")
    BY <1>0, <1>7, ConnectionMoves, SeenValues DEF RequestRestart, mainVars, Undisturbed
  <2>2. (Alive /\ restartChan)'
    BY <1>7 DEF RequestRestart, mainVars, Alive
  <2>3. QED
    BY <2>1, <2>2 DEF Process!RequestRestart, Process!ClientStep, Process!Next
<1>8. CASE CloseConn(c) \/ WgDone(c) \/ ReleaseSlot(c)
  <2>1. /\ Undisturbed /\ restartChan' = restartChan
        /\ \E from, to \in {"closing", "closed", "untracked", "served"} : Goes(c, from, to)
    BY <1>8 DEF CloseConn, WgDone, ReleaseSlot, HandlerMoves, mainVars, sigVars, Undisturbed
  <2>2. QED
    BY <1>0, <2>1, ConnectionStutters, SeenValues DEF Finished
<1>9. UpdateEnds(c) => stage[c] \in {"updating", "downloading"}
  BY DEF UpdateEnds, HandlerMoves, Goes
<1>10. QED
  BY <1>2, <1>3, <1>4, <1>5, <1>6, <1>7, <1>8, <1>9 DEF HandlerStep, HandlerEvent

LEMMA ProcessMain ==
  ASSUME TypeOK, PhaseInv, MainStep \/ WaiterStep \/ Signal \/ KilledBySignal \/ AcceptLoopReturns
  PROVE  Process!Next \/ UNCHANGED Process!vars
<1>0. stage \in [Conns -> Stages] /\ ctxDone \in BOOLEAN /\ restartChan \in BOOLEAN
  BY DEF TypeOK
<1>1. UNCHANGED stage => SeenMap' = SeenMap
  BY DEF SeenMap, Seen
<1>2. CASE SelectSignal
  <2>1. Phase = "serving" /\ Phase' = "shutdown" /\ Why' = "signal" /\ Alive /\ Alive'
    BY <1>2, PhaseValues DEF SelectSignal, PhaseInv, Phase, Why, Alive
  <2>2. QED
    BY <1>1, <1>2, <2>1 DEF SelectSignal, connVars, sigVars, SeenMap, Why, Process!SelectSignal, Process!Next
<1>3. CASE SelectRestart
  <2>1. Phase = "serving" /\ Phase' = "shutdown" /\ Why' = "restart" /\ Alive /\ Alive'
    BY <1>3, PhaseValues DEF SelectRestart, PhaseInv, Phase, Why, Alive
  <2>2. QED
    BY <1>1, <1>3, <2>1 DEF SelectRestart, connVars, SeenMap, Why, Process!SelectRestart, Process!Next
<1>4. CASE CloseListener
  <2>1. Phase = "shutdown" /\ Phase' = "draining" /\ Why' = Why /\ Alive /\ Alive'
    BY <1>4, PhaseValues DEF CloseListener, Phase, Why, Alive
  <2>2. ASSUME NEW c \in Conns
        PROVE  SeenMap'[c] = IF SeenMap[c] \in Process!Backlog THEN "away" ELSE SeenMap[c]
    <3>1. SeenMap'[c] = Seen(stage'[c]) /\ SeenMap[c] = Seen(stage[c])
      BY DEF SeenMap, Seen
    <3>2. Seen(stage[c]) = "queued" <=> stage[c] = "queued"
      BY <1>0, SeenValues DEF Stages, Slotted, Counted, Working, InLoop, Finished
    <3>3. QED
      BY <1>0, <1>4, <3>1, <3>2, SeenValues DEF CloseListener, Process!Backlog, Finished
  <2>3. SeenMap' = [c \in Conns |-> IF SeenMap[c] \in Process!Backlog THEN "away" ELSE SeenMap[c]]
    BY <2>2 DEF SeenMap
  <2>4. QED
    BY <1>4, <2>1, <2>3 DEF CloseListener, sigVars, SeenMap, Why, Process!CloseListener, Process!Without,
                            Process!Next
<1>5. CASE Drained \/ TimedOut \/ WaiterChecks \/ WaiterReturns \/ AcceptLoopReturns
  <2>1. /\ UNCHANGED <<ctxDone, restartChan, stage, exit, restartRequested>>
        /\ mainPc' = mainPc \/ (Alive /\ mainPc = "wait" /\ mainPc' = "exiting")
    BY <1>5 DEF Drained, TimedOut, ShutdownEnds, WaiterChecks, WaiterReturns, AcceptLoopReturns,
                connVars, sigVars, mainVars
  <2>2. UNCHANGED <<Phase, Why>>
    BY <2>1 DEF Phase, Why, Alive
  <2>3. QED
    BY <1>1, <2>1, <2>2 DEF Process!vars, SeenMap, Why, Alive
<1>6. CASE Signal
  <2>1. Phase # "ended" /\ Alive /\ Alive' /\ UNCHANGED <<Phase, Why>>
    BY <1>6, PhaseValues DEF Signal, PhaseInv, Phase, Why, Alive, mainVars
  <2>2. QED
    BY <1>1, <1>6, <2>1 DEF Signal, connVars, SeenMap, Why, Process!Signal, Process!Next
<1>7. CASE Exit \/ WaiterPanics \/ KilledBySignal
  BY <1>0, <1>7, ProcessEndsSeen DEF Exit, WaiterPanics, KilledBySignal, Process!Next
<1>8. QED
  BY <1>2, <1>3, <1>4, <1>5, <1>6, <1>7 DEF MainStep, WaiterStep

(* The server implements Lifetime: what Service composes with systemd, the *)
(* versions and many starts is what this process does in every             *)
(* interleaving of its goroutines.                                         *)
THEOREM OneLifetime == Spec => RunsOneLifetime
<1>1. TypeOK /\ PhaseInv /\ [Next]_vars => [Process!Next]_(Process!vars)
  <2> SUFFICES ASSUME TypeOK, PhaseInv, [Next]_vars PROVE Process!Next \/ UNCHANGED Process!vars
    BY DEF Process!vars
  <2>1. CASE UNCHANGED vars
    BY <2>1 DEF vars, connVars, sigVars, mainVars, Process!vars, Phase, Seen, Alive
  <2>2. QED
    BY <2>1, ProcessAccept, ProcessHandler, ProcessMain DEF Next, Over
<1>2. Counters => TypeOK
  BY DEF Counters
<1>3. QED
  BY CountersInit, CountersStep, PhaseInit, PhaseStep, ProcessInit, <1>1, <1>2, PTL
  DEF Spec, RunsOneLifetime, Process!Spec
=============================================================================

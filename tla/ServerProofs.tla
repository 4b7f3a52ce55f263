---------------------------- MODULE ServerProofs ----------------------------
(***************************************************************************)
(* The safety properties of Server, for any set of connections and any     *)
(* limit.  Typing and the counters are proved first, together; the other   *)
(* properties each from an invariant of their own that uses them.          *)
(***************************************************************************)
EXTENDS Server, FiniteSetTheorems, TLAPS

(* The invariant behind OnlyAuthorizedServed. *)
AuthorizedInv ==
  \A c \in Conns : stage[c] \in {"authorized", "served"} \cup Slotted => peer[c] = AllowedUID

(* The invariant behind OnlyCancelledUpdateUnanswered: the stages after an *)
(* answer, and those in which the answer restarting may have been given.   *)
AnsweredInv ==
  \A c \in Conns :
    /\ stage[c] = "updating" => req[c] = "update"
    /\ stage[c] \in {"closing", "closed", "untracked", "served"} /\ reply[c] = "none" =>
         req[c] = "update" /\ ctxDone
    /\ stage[c] = "sleeping" => reply[c] = "restarting"
    /\ reply[c] = "restarting" =>
         stage[c] \in {"sleeping", "closing", "closed", "untracked", "served", "cut"}

(* The connections that still matter to a drain. *)
Pending == {c \in Conns : stage[c] \in InLoop \cup Counted}

(* The order of shutdown, ... *)
ShutdownInv ==
  /\ mainPc # "select" => ctxDone
  /\ waiter # "none" => listener = "closed" /\ mainPc \in {"wait", "exiting"}
  /\ drain = "drained" => waiter = "done"

(* ... and what it makes true once the waiter is woken or has returned: at *)
(* most one connection is pending, and it is not one that has applied an   *)
(* update.                                                                 *)
WaitedFor == waiter \in {"waking", "done"}

StragglerInv ==
  /\ Alive => \A c \in Conns : stage[c] # "cut"
  /\ Alive /\ WaitedFor =>
       /\ \A c, d \in Pending : c = d
       /\ \A c \in Pending : stage[c] \notin {"downloading", "sleeping"} /\ reply[c] # "restarting"

-----------------------------------------------------------------------------
(* Counting the connections in a set of stages *)

In(f, S) == {c \in Conns : f[c] \in S}

(* Moving one connection changes the count of a set of stages by what it   *)
(* enters and leaves: the counters of the code are compared with this.     *)
LEMMA CountOfMove ==
  ASSUME NEW S, NEW c \in Conns, NEW to \in Stages,
         stage \in [Conns -> Stages], stage' = [stage EXCEPT ![c] = to]
  PROVE  /\ Cardinality(In(stage, S)) \in Nat
         /\ Cardinality(In(stage', S)) \in Nat
         /\ Cardinality(In(stage', S)) = Cardinality(In(stage, S))
                                         + (IF to \in S THEN 1 ELSE 0)
                                         - (IF stage[c] \in S THEN 1 ELSE 0)
<1>1. IsFiniteSet(In(stage, S)) /\ IsFiniteSet(In(stage', S))
  BY ConnsAssumption, FS_Subset DEF In
<1>2. Cardinality(In(stage, S)) \in Nat /\ Cardinality(In(stage', S)) \in Nat
  BY <1>1, FS_CardinalityType
<1>3. CASE to \in S /\ stage[c] \notin S
  <2>1. In(stage', S) = In(stage, S) \cup {c} /\ c \notin In(stage, S)
    BY <1>3 DEF In
  <2>2. Cardinality(In(stage', S)) = Cardinality(In(stage, S)) + 1
    BY <1>1, <2>1, FS_AddElement
  <2>3. QED
    BY <1>2, <1>3, <2>2
<1>4. CASE to \notin S /\ stage[c] \in S
  <2>1. In(stage', S) = In(stage, S) \ {c} /\ c \in In(stage, S)
    BY <1>4 DEF In
  <2>2. Cardinality(In(stage', S)) = Cardinality(In(stage, S)) - 1
    BY <1>1, <2>1, FS_RemoveElement
  <2>3. QED
    BY <1>2, <1>4, <2>2
<1>5. CASE to \in S <=> stage[c] \in S
  <2>1. In(stage', S) = In(stage, S)
    BY <1>5 DEF In
  <2>2. QED
    BY <1>2, <1>5, <2>1
<1>6. QED
  BY <1>3, <1>4, <1>5

-----------------------------------------------------------------------------
(* Typing and the counters *)

Counters == TypeOK /\ SlotsAccounted

(* What a handler or acceptLoop does to the counted sets by moving c.      *)
LEMMA CountersMove ==
  ASSUME Counters, NEW c \in Conns, NEW from \in Stages, NEW to \in Stages, Goes(c, from, to)
  PROVE  /\ stage' \in [Conns -> Stages]
         /\ Cardinality(Holding)' = sem + (IF to \in Slotted THEN 1 ELSE 0)
                                        - (IF from \in Slotted THEN 1 ELSE 0)
         /\ Cardinality(Tracked)' = wg + (IF to \in Counted THEN 1 ELSE 0)
                                       - (IF from \in Counted THEN 1 ELSE 0)
         /\ Cardinality(Holding)' \in Nat /\ Cardinality(Tracked)' \in Nat
         /\ Cardinality(Tracked)' <= Cardinality(Holding)'
<1>1. /\ stage \in [Conns -> Stages]
      /\ stage' = [stage EXCEPT ![c] = to]
      /\ stage[c] = from
      /\ sem = Cardinality(Holding) /\ wg = Cardinality(Tracked)
  BY DEF Counters, TypeOK, SlotsAccounted, Goes
<1>2. stage' \in [Conns -> Stages]
  BY <1>1
<1>3. /\ Holding = In(stage, Slotted) /\ Holding' = In(stage', Slotted)
      /\ Tracked = In(stage, Counted) /\ Tracked' = In(stage', Counted)
  BY DEF Holding, Tracked, In
<1>4. /\ Cardinality(In(stage', Slotted)) \in Nat
      /\ Cardinality(In(stage', Slotted)) = Cardinality(In(stage, Slotted))
           + (IF to \in Slotted THEN 1 ELSE 0) - (IF stage[c] \in Slotted THEN 1 ELSE 0)
  BY <1>1, <1>2, CountOfMove
<1>5. /\ Cardinality(In(stage', Counted)) \in Nat
      /\ Cardinality(In(stage', Counted)) = Cardinality(In(stage, Counted))
           + (IF to \in Counted THEN 1 ELSE 0) - (IF stage[c] \in Counted THEN 1 ELSE 0)
  BY <1>1, <1>2, CountOfMove
<1>6. Cardinality(In(stage', Counted)) <= Cardinality(In(stage', Slotted))
  <2>1. In(stage', Counted) \subseteq In(stage', Slotted)
    BY DEF In, Slotted
  <2>2. IsFiniteSet(In(stage', Slotted))
    BY ConnsAssumption, FS_Subset DEF In
  <2>3. QED
    BY <2>1, <2>2, FS_Subset
<1>7. QED
  BY <1>1, <1>2, <1>3, <1>4, <1>5, <1>6

(* One connection moves, the counters follow and acceptLoop takes up or    *)
(* puts down what it holds: the counters still agree with the stages.      *)
Follows(c, from, to) ==
  /\ from \in Stages /\ to \in Stages /\ Goes(c, from, to)
  /\ sem' = sem + (IF to \in Slotted THEN 1 ELSE 0) - (IF from \in Slotted THEN 1 ELSE 0)
  /\ wg' = wg + (IF to \in Counted THEN 1 ELSE 0) - (IF from \in Counted THEN 1 ELSE 0)
  /\ sem' <= SlotLimit
  /\ (from \in InLoop <=> to \in InLoop) => loop' = loop
  /\ from \notin InLoop /\ to \in InLoop => loop # "busy" /\ loop' = "busy"

LEMMA CountersFollow ==
  ASSUME Counters, NEW c \in Conns, NEW from, NEW to, Follows(c, from, to)
  PROVE  /\ stage' \in [Conns -> Stages] /\ sem' \in 0..SlotLimit /\ wg' \in 0..SlotLimit
         /\ SlotsAccounted'
<1>1. SlotLimit \in Nat
  BY MaxConnectionsAssumption DEF SlotLimit
<1>2. /\ stage' \in [Conns -> Stages]
      /\ sem' = Cardinality(Holding)' /\ wg' = Cardinality(Tracked)'
      /\ sem' \in Nat /\ wg' \in Nat /\ wg' <= sem'
  BY CountersMove DEF Follows
<1>3. sem' \in 0..SlotLimit /\ wg' \in 0..SlotLimit
  BY <1>1, <1>2 DEF Follows
<1>4. /\ \A d, e \in InHand : d = e
      /\ loop # "busy" => InHand = {}
      /\ stage \in [Conns -> Stages]
      /\ stage[c] = from /\ stage' = [stage EXCEPT ![c] = to]
  BY DEF Counters, TypeOK, SlotsAccounted, Goes, Follows
<1>5. (\A d, e \in InHand' : d = e) /\ (loop' # "busy" => InHand' = {})
  <2>1. CASE from \in InLoop /\ to \notin InLoop
    <3>1. InHand' = {}
      BY <1>4, <2>1 DEF InHand
    <3>2. QED
      BY <3>1
  <2>2. CASE from \notin InLoop /\ to \in InLoop
    <3>1. InHand' = {c} /\ loop' = "busy"
      BY <1>4, <2>2 DEF InHand, Follows
    <3>2. QED
      BY <3>1
  <2>3. CASE from \in InLoop <=> to \in InLoop
    <3>1. InHand' = InHand /\ loop' = loop
      BY <1>4, <2>3 DEF InHand, Follows
    <3>2. QED
      BY <1>4, <3>1
  <2>4. QED
    BY <2>1, <2>2, <2>3
<1>6. QED
  BY <1>2, <1>3, <1>5 DEF SlotsAccounted

(* An answer keeps its type. *)
LEMMA AnswerTyped ==
  ASSUME Counters, NEW c \in Conns, NEW r \in Replies, Answers(c, r)
  PROVE  reply' \in [Conns -> Replies]
BY DEF Counters, TypeOK, Answers

(* No connection in a counted stage or in hand has moved. *)
LEMMA CountersStay ==
  ASSUME Counters, stage' \in [Conns -> Stages], sem' = sem, wg' = wg, loop' = loop \/ loop # "busy",
         \A c \in Conns : stage'[c] # stage[c] =>
           stage[c] \notin InLoop \cup Slotted /\ stage'[c] \notin InLoop \cup Slotted
  PROVE  SlotsAccounted'
<1>1. Holding' = Holding /\ Tracked' = Tracked /\ InHand' = InHand
  BY DEF Holding, Tracked, InHand, Slotted, Counters, TypeOK
<1>2. QED
  BY <1>1 DEF Counters, SlotsAccounted

(* The end of the process leaves nothing to count. *)
LEMMA CountersEnd ==
  ASSUME Counters, NEW kind \in {"zero", "killed", "panic"}, ProcessEnds(kind)
  PROVE  Counters'
<1>1. SlotLimit \in Nat
  BY MaxConnectionsAssumption DEF SlotLimit
<1>2. stage' \in [Conns -> Stages]
  BY DEF Counters, TypeOK, ProcessEnds, Stages, Finished
<1>3. TypeOK'
  BY <1>1, <1>2 DEF Counters, TypeOK, ProcessEnds
<1>4. Holding' = {} /\ Tracked' = {} /\ InHand' = {}
  BY <1>2 DEF Counters, TypeOK, ProcessEnds, Holding, Tracked, InHand, Slotted, Counted,
              Working, InLoop, Stages, Finished
<1>5. SlotsAccounted'
  BY <1>4, FS_EmptySet DEF SlotsAccounted, ProcessEnds
<1>6. QED
  BY <1>3, <1>5 DEF Counters

(* The counters survive every step. *)
LEMMA CountersStep == Counters /\ [Next]_vars => Counters'
<1> SUFFICES ASSUME Counters, [Next]_vars
             PROVE  Counters'
  OBVIOUS
<1> USE DEF Stages, InLoop, Slotted, Counted, Working, Finished
<1>1. SlotLimit \in Nat /\ sem \in 0..SlotLimit /\ wg \in 0..SlotLimit
  BY MaxConnectionsAssumption DEF SlotLimit, Counters, TypeOK
<1>2. ASSUME NEW c \in Conns, Connect(c)
      PROVE  Counters'
  <2>0. Follows(c, "idle", "queued")
    BY <1>1, <1>2 DEF Follows, Goes, Counters, TypeOK, SlotsAccounted, Connect, poolVars
  <2>1. SlotsAccounted' /\ stage' \in [Conns -> Stages] /\ sem' \in 0..SlotLimit /\ wg' \in 0..SlotLimit
    BY <2>0, CountersFollow
  <2>2. QED
    BY <1>2, <2>1 DEF Connect, poolVars, sigVars, mainVars, Counters, TypeOK
<1>3. ASSUME NEW c \in Conns, AcceptStep(c)
      PROVE  Counters'
  <2>1. CASE AcceptUnix(c)
    <3>0. Follows(c, "queued", "accepted")
      BY <1>1, <2>1 DEF Follows, Goes, Counters, TypeOK, SlotsAccounted, AcceptUnix
    <3>1. SlotsAccounted' /\ stage' \in [Conns -> Stages] /\ sem' \in 0..SlotLimit /\ wg' \in 0..SlotLimit
      BY <3>0, CountersFollow
    <3>2. QED
      BY <2>1, <3>1 DEF AcceptUnix, sigVars, mainVars, Counters, TypeOK
  <2>2. CASE AuthorizeConnection(c)
    <3>0. \E to \in {"authorized", "rejected"} : Follows(c, "accepted", to)
      BY <1>1, <2>2 DEF Follows, Goes, Counters, TypeOK, SlotsAccounted, AuthorizeConnection
    <3>1. SlotsAccounted' /\ stage' \in [Conns -> Stages] /\ sem' \in 0..SlotLimit /\ wg' \in 0..SlotLimit
      BY <3>0, CountersFollow
    <3>2. reply' \in [Conns -> Replies]
      BY <2>2, AnswerTyped DEF AuthorizeConnection, Replies, Counters, TypeOK
    <3>3. QED
      BY <2>2, <3>1, <3>2 DEF AuthorizeConnection, sigVars, mainVars, Counters, TypeOK
  <2>3. CASE AcquireSlot(c)
    <3>0. Follows(c, "authorized", "slotted")
      BY <1>1, <2>3 DEF Follows, Goes, Counters, TypeOK, SlotsAccounted, AcquireSlot
    <3>1. SlotsAccounted' /\ stage' \in [Conns -> Stages] /\ sem' \in 0..SlotLimit /\ wg' \in 0..SlotLimit
      BY <3>0, CountersFollow
    <3>2. QED
      BY <2>3, <3>1 DEF AcquireSlot, sigVars, mainVars, Counters, TypeOK
  <2>4. CASE RejectAtCapacity(c)
    <3>0. Follows(c, "authorized", "rejected")
      BY <1>1, <2>4 DEF Follows, Goes, Counters, TypeOK, SlotsAccounted, RejectAtCapacity
    <3>1. SlotsAccounted' /\ stage' \in [Conns -> Stages] /\ sem' \in 0..SlotLimit /\ wg' \in 0..SlotLimit
      BY <3>0, CountersFollow
    <3>2. reply' \in [Conns -> Replies]
      BY <2>4, AnswerTyped DEF RejectAtCapacity, Replies, Counters, TypeOK
    <3>3. QED
      BY <2>4, <3>1, <3>2 DEF RejectAtCapacity, sigVars, mainVars, Counters, TypeOK
  <2>5. CASE AddAndSpawn(c)
    <3>0. Follows(c, "slotted", "parsing")
      BY <1>1, <2>5 DEF Follows, Goes, Counters, TypeOK, SlotsAccounted, AddAndSpawn
    <3>1. SlotsAccounted' /\ stage' \in [Conns -> Stages] /\ sem' \in 0..SlotLimit /\ wg' \in 0..SlotLimit
      BY <3>0, CountersFollow
    <3>2. QED
      BY <2>5, <3>1 DEF AddAndSpawn, sigVars, mainVars, Counters, TypeOK
  <2>6. CASE AddPanics(c)
    BY <2>6, CountersEnd DEF AddPanics
  <2>7. QED
    BY <1>3, <2>1, <2>2, <2>3, <2>4, <2>5, <2>6 DEF AcceptStep
<1>4. ASSUME NEW c \in Conns, HandlerStep(c)
      PROVE  Counters'
  <2>1. CASE FinishAction(c)
    <3>0. Follows(c, "acting", "closing")
      BY <1>1, <2>1 DEF Follows, Goes, Counters, TypeOK, SlotsAccounted, FinishAction, HandlerMoves, poolVars
    <3>1. SlotsAccounted' /\ stage' \in [Conns -> Stages] /\ sem' \in 0..SlotLimit /\ wg' \in 0..SlotLimit
      BY <3>0, CountersFollow
    <3>2. reply' \in [Conns -> Replies]
      BY <2>1, AnswerTyped DEF FinishAction, Replies
    <3>3. QED
      BY <2>1, <3>1, <3>2 DEF FinishAction, HandlerMoves, poolVars, sigVars, mainVars, Counters, TypeOK
  <2>2. CASE RequestRestart(c)
    <3>0. Follows(c, "sleeping", "closing")
      BY <1>1, <2>2 DEF Follows, Goes, Counters, TypeOK, SlotsAccounted, RequestRestart, poolVars
    <3>1. SlotsAccounted' /\ stage' \in [Conns -> Stages] /\ sem' \in 0..SlotLimit /\ wg' \in 0..SlotLimit
      BY <3>0, CountersFollow
    <3>2. QED
      BY <2>2, <3>1 DEF RequestRestart, poolVars, mainVars, Counters, TypeOK
  <2>3. CASE CloseConn(c)
    <3>0. Follows(c, "closing", "closed")
      BY <1>1, <2>3 DEF Follows, Goes, Counters, TypeOK, SlotsAccounted, CloseConn, HandlerMoves, poolVars
    <3>1. SlotsAccounted' /\ stage' \in [Conns -> Stages] /\ sem' \in 0..SlotLimit /\ wg' \in 0..SlotLimit
      BY <3>0, CountersFollow
    <3>2. QED
      BY <2>3, <3>1 DEF CloseConn, HandlerMoves, poolVars, sigVars, mainVars, Counters, TypeOK
  <2>4. CASE WgDone(c)
    <3>0. Follows(c, "closed", "untracked")
      BY <1>1, <2>4 DEF Follows, Goes, Counters, TypeOK, SlotsAccounted, WgDone
    <3>1. SlotsAccounted' /\ stage' \in [Conns -> Stages] /\ sem' \in 0..SlotLimit /\ wg' \in 0..SlotLimit
      BY <3>0, CountersFollow
    <3>2. QED
      BY <2>4, <3>1 DEF WgDone, sigVars, Counters, TypeOK
  <2>5. CASE ReleaseSlot(c)
    <3>0. Follows(c, "untracked", "served")
      BY <1>1, <2>5 DEF Follows, Goes, Counters, TypeOK, SlotsAccounted, ReleaseSlot
    <3>1. SlotsAccounted' /\ stage' \in [Conns -> Stages] /\ sem' \in 0..SlotLimit /\ wg' \in 0..SlotLimit
      BY <3>0, CountersFollow
    <3>2. QED
      BY <2>5, <3>1 DEF ReleaseSlot, sigVars, mainVars, Counters, TypeOK
  <2>6. QED
    BY <1>4, <2>1, <2>2, <2>3, <2>4, <2>5 DEF HandlerStep
<1>5. ASSUME NEW c \in Conns, HandlerEvent(c)
      PROVE  Counters'
  <2>1. PICK from \in Working, to \in Working : HandlerMoves(c, from, to)
    BY <1>5 DEF HandlerEvent, ParseFails, ParseCommand, StartFails, ParseAction, ParseUpdate,
                FinishCommand, UpdateEnds, UpdateCancelled, UpdateProceeds, UpdateApplied
  <2>2. Follows(c, from, to)
    BY <1>1, <2>1 DEF Follows, Goes, Counters, TypeOK, SlotsAccounted, HandlerMoves, poolVars
  <2>3. SlotsAccounted' /\ stage' \in [Conns -> Stages] /\ sem' \in 0..SlotLimit /\ wg' \in 0..SlotLimit
    BY <2>2, CountersFollow
  <2>4. reply' = reply \/ (\E r \in {"error", "final", "restarting"} : Answers(c, r))
    BY <1>5 DEF HandlerEvent, ParseFails, ParseCommand, StartFails, ParseAction, ParseUpdate,
                FinishCommand, UpdateEnds, UpdateCancelled, UpdateProceeds, UpdateApplied
  <2>5. reply' \in [Conns -> Replies]
    BY <2>4, AnswerTyped DEF Replies, Counters, TypeOK
  <2>6. req' = req \/ (\E request \in Requests : Parses(c, request))
    BY <1>5 DEF HandlerEvent, ParseFails, ParseCommand, StartFails, ParseAction, ParseUpdate,
                FinishCommand, UpdateEnds, UpdateCancelled, UpdateProceeds, UpdateApplied, Requests
  <2>7. req' \in [Conns -> Requests]
    BY <2>6 DEF Parses, Counters, TypeOK
  <2>8. QED
    BY <2>1, <2>3, <2>5, <2>7 DEF HandlerMoves, poolVars, sigVars, mainVars, Counters, TypeOK
<1>6. CASE AcceptLoopReturns
  <2>1. SlotsAccounted'
    BY <1>6, CountersStay DEF AcceptLoopReturns, connVars, Counters, TypeOK
  <2>2. QED
    BY <1>6, <2>1 DEF AcceptLoopReturns, connVars, sigVars, mainVars, Counters, TypeOK
<1>7. CASE CloseListener
  <2>1. stage' \in [Conns -> Stages]
    BY <1>7 DEF CloseListener, Counters, TypeOK
  <2>2. SlotsAccounted'
    BY <1>7, <2>1, CountersStay DEF CloseListener, Counters, TypeOK
  <2>3. QED
    BY <1>7, <2>1, <2>2 DEF CloseListener, sigVars, Counters, TypeOK
<1>8. CASE KilledBySignal \/ WaiterPanics \/ Exit
  BY <1>8, CountersEnd DEF KilledBySignal, WaiterPanics, Exit
<1>9. CASE Signal \/ SelectSignal \/ SelectRestart \/ Drained \/ TimedOut
           \/ WaiterChecks \/ WaiterReturns \/ UNCHANGED vars
  <2>1. UNCHANGED <<connVars, poolVars>>
    BY <1>9 DEF Signal, SelectSignal, SelectRestart, Drained, TimedOut, ShutdownEnds,
                WaiterChecks, WaiterReturns, vars
  <2>2. SlotsAccounted'
    BY <2>1, CountersStay DEF connVars, poolVars, Counters, TypeOK
  <2>3. TypeOK'
    <3> USE <2>1 DEF connVars, poolVars, sigVars, mainVars, Counters, TypeOK
    <3>1. CASE Signal
      BY <3>1 DEF Signal
    <3>2. CASE SelectSignal
      BY <3>2 DEF SelectSignal
    <3>3. CASE SelectRestart
      BY <3>3 DEF SelectRestart
    <3>4. CASE Drained \/ TimedOut
      BY <3>4 DEF Drained, TimedOut, ShutdownEnds
    <3>5. CASE WaiterChecks
      BY <3>5 DEF WaiterChecks
    <3>6. CASE WaiterReturns
      BY <3>6 DEF WaiterReturns
    <3>7. CASE UNCHANGED vars
      BY <3>7 DEF vars
    <3>8. QED
      BY <1>9, <3>1, <3>2, <3>3, <3>4, <3>5, <3>6, <3>7
  <2>4. QED
    BY <2>2, <2>3 DEF Counters
<1>10. QED
  BY <1>2, <1>3, <1>4, <1>5, <1>6, <1>7, <1>8, <1>9 DEF Next, MainStep, WaiterStep, Over

(* There is nothing to count at the start. *)
LEMMA CountersInit == Init => Counters
<1> SUFFICES ASSUME Init
             PROVE  Counters
  OBVIOUS
<1>1. SlotLimit \in Nat
  BY MaxConnectionsAssumption DEF SlotLimit
<1>2. TypeOK
  <2>1. sem \in 0..SlotLimit /\ wg \in 0..SlotLimit
    BY <1>1 DEF Init
  <2>2. stage \in [Conns -> Stages] /\ req \in [Conns -> Requests] /\ reply \in [Conns -> Replies]
    BY DEF Init, Stages, Requests, Replies
  <2>3. QED
    BY <2>1, <2>2 DEF Init, TypeOK
<1>3. Holding = {} /\ Tracked = {} /\ InHand = {}
  BY DEF Init, Holding, Tracked, InHand, Slotted, Counted, Working, InLoop
<1>4. QED
  BY <1>2, <1>3, FS_EmptySet DEF Counters, SlotsAccounted, Init

(* Every variable of the server has its type, the semaphore and the wait   *)
(* group stay within the limit, for any number of connections.             *)
THEOREM TypeCorrect == Spec => []TypeOK
<1>1. Counters => TypeOK
  BY DEF Counters
<1>2. QED
  BY CountersInit, CountersStep, <1>1, PTL DEF Spec

(* The semaphore and the wait group count what they are meant to count. *)
THEOREM SlotAccounting == Spec => []SlotsAccounted
<1>1. Counters => SlotsAccounted
  BY DEF Counters
<1>2. QED
  BY CountersInit, CountersStep, <1>1, PTL DEF Spec

-----------------------------------------------------------------------------
(* Authorization *)

(* Only AuthorizeConnection brings a connection nearer to a handler. *)
LEMMA AuthorizedStep == TypeOK /\ AuthorizedInv /\ [Next]_vars => AuthorizedInv'
<1> SUFFICES ASSUME TypeOK, AuthorizedInv, [Next]_vars
             PROVE  AuthorizedInv'
  OBVIOUS
<1> USE DEF InLoop, Slotted, Counted, Working, AuthorizedInv
<1>1. stage \in [Conns -> Stages]
  BY DEF TypeOK
<1>2. ASSUME NEW c \in Conns, Connect(c)
      PROVE  AuthorizedInv'
  BY <1>1, <1>2 DEF Connect, Goes
<1>3. ASSUME NEW c \in Conns, AcceptStep(c)
      PROVE  AuthorizedInv'
  <2>1. CASE AcceptUnix(c)
    BY <1>1, <2>1 DEF AcceptUnix, Goes
  <2>2. CASE AuthorizeConnection(c)
    BY <1>1, <2>2 DEF AuthorizeConnection, Authorized, Goes
  <2>3. CASE AcquireSlot(c) \/ RejectAtCapacity(c)
    BY <1>1, <2>3 DEF AcquireSlot, RejectAtCapacity, Goes
  <2>4. CASE AddAndSpawn(c)
    BY <1>1, <2>4 DEF AddAndSpawn, Goes
  <2>5. CASE AddPanics(c)
    BY <1>1, <2>5 DEF AddPanics, ProcessEnds
  <2>6. QED
    BY <1>3, <2>1, <2>2, <2>3, <2>4, <2>5 DEF AcceptStep
<1>4. ASSUME NEW c \in Conns, HandlerStep(c)
      PROVE  AuthorizedInv'
  <2>1. peer' = peer /\ \E from \in Counted \cup {"untracked"}, to \in Slotted \cup {"served"} :
                           Goes(c, from, to)
    BY <1>4 DEF HandlerStep, FinishAction, RequestRestart, CloseConn, WgDone, ReleaseSlot, HandlerMoves
  <2>2. QED
    BY <1>1, <2>1 DEF Goes
<1>5. ASSUME NEW c \in Conns, HandlerEvent(c)
      PROVE  AuthorizedInv'
  <2>1. \E from \in Working, to \in Working : HandlerMoves(c, from, to)
    BY <1>5 DEF HandlerEvent, ParseFails, ParseCommand, StartFails, ParseAction, ParseUpdate,
                FinishCommand, UpdateEnds, UpdateCancelled, UpdateProceeds, UpdateApplied
  <2>2. QED
    BY <1>1, <2>1 DEF HandlerMoves, Goes
<1>6. CASE AcceptLoopReturns
  BY <1>6 DEF AcceptLoopReturns, connVars
<1>7. CASE CloseListener
  BY <1>1, <1>7 DEF CloseListener
<1>8. CASE KilledBySignal \/ WaiterPanics \/ Exit
  BY <1>1, <1>8 DEF KilledBySignal, WaiterPanics, Exit, ProcessEnds
<1>9. CASE Signal \/ SelectSignal \/ SelectRestart \/ Drained \/ TimedOut
           \/ WaiterChecks \/ WaiterReturns \/ UNCHANGED vars
  BY <1>9 DEF Signal, SelectSignal, SelectRestart, Drained, TimedOut, ShutdownEnds,
              WaiterChecks, WaiterReturns, vars, connVars
<1>10. QED
  BY <1>2, <1>3, <1>4, <1>5, <1>6, <1>7, <1>8, <1>9 DEF Next, MainStep, WaiterStep, Over

(* No handler runs for a peer that is not the configured user, in any      *)
(* interleaving of the accept loop, the handlers and the end of the process*)
THEOREM OnlyAuthorized == Spec => []OnlyAuthorizedServed
<1>1. Init => AuthorizedInv
  BY DEF Init, AuthorizedInv, Slotted, Counted, Working
<1>2. AuthorizedInv => OnlyAuthorizedServed
  BY DEF AuthorizedInv, OnlyAuthorizedServed
<1>3. QED
  BY TypeCorrect, AuthorizedStep, <1>1, <1>2, PTL DEF Spec

-----------------------------------------------------------------------------
(* Answers *)

(* An answer is given before a connection is closed, in every step. *)
LEMMA AnsweredStep == TypeOK /\ AnsweredInv /\ [Next]_vars => AnsweredInv'
<1> SUFFICES ASSUME TypeOK, AnsweredInv, [Next]_vars
             PROVE  AnsweredInv'
  OBVIOUS
<1> USE DEF AnsweredInv
<1>1. stage \in [Conns -> Stages] /\ reply \in [Conns -> Replies] /\ req \in [Conns -> Requests]
  BY DEF TypeOK
<1>2. ASSUME NEW c \in Conns, Connect(c)
      PROVE  AnsweredInv'
  BY <1>1, <1>2 DEF Connect, Goes, sigVars
<1>3. ASSUME NEW c \in Conns, AcceptStep(c)
      PROVE  AnsweredInv'
  <2>1. CASE AcceptUnix(c)
    BY <1>1, <2>1 DEF AcceptUnix, Goes, sigVars
  <2>2. CASE AuthorizeConnection(c)
    BY <1>1, <2>2 DEF AuthorizeConnection, Goes, Answers, sigVars
  <2>3. CASE AcquireSlot(c)
    BY <1>1, <2>3 DEF AcquireSlot, Goes, sigVars
  <2>4. CASE RejectAtCapacity(c)
    BY <1>1, <2>4 DEF RejectAtCapacity, Goes, Answers, sigVars
  <2>5. CASE AddAndSpawn(c)
    BY <1>1, <2>5 DEF AddAndSpawn, Goes, sigVars
  <2>6. CASE AddPanics(c)
    BY <1>1, <2>6 DEF AddPanics, ProcessEnds, InLoop, Working
  <2>7. QED
    BY <1>3, <2>1, <2>2, <2>3, <2>4, <2>5, <2>6 DEF AcceptStep
<1>4. ASSUME NEW c \in Conns, HandlerStep(c)
      PROVE  AnsweredInv'
  <2>1. CASE FinishAction(c)
    BY <1>1, <2>1 DEF FinishAction, HandlerMoves, Goes, Answers, sigVars
  <2>2. CASE RequestRestart(c)
    BY <1>1, <2>2 DEF RequestRestart, Goes
  <2>3. CASE CloseConn(c)
    BY <1>1, <2>3 DEF CloseConn, HandlerMoves, Goes, sigVars
  <2>4. CASE WgDone(c)
    BY <1>1, <2>4 DEF WgDone, Goes, sigVars
  <2>5. CASE ReleaseSlot(c)
    BY <1>1, <2>5 DEF ReleaseSlot, Goes, sigVars
  <2>6. QED
    BY <1>4, <2>1, <2>2, <2>3, <2>4, <2>5 DEF HandlerStep
<1>5. ASSUME NEW c \in Conns, HandlerEvent(c)
      PROVE  AnsweredInv'
  <2> USE <1>1 DEF HandlerMoves, Goes, Answers, Parses, sigVars
  <2>1. CASE ParseFails(c) \/ StartFails(c) \/ FinishCommand(c)
    BY <2>1 DEF ParseFails, StartFails, FinishCommand
  <2>2. CASE ParseCommand(c) \/ ParseAction(c) \/ ParseUpdate(c) \/ UpdateProceeds(c)
    BY <2>2 DEF ParseCommand, ParseAction, ParseUpdate, UpdateProceeds
  <2>3. CASE UpdateEnds(c)
    BY <2>3 DEF UpdateEnds
  <2>4. CASE UpdateCancelled(c)
    BY <2>4 DEF UpdateCancelled
  <2>5. CASE UpdateApplied(c)
    BY <2>5 DEF UpdateApplied
  <2>6. QED
    BY <1>5, <2>1, <2>2, <2>3, <2>4, <2>5 DEF HandlerEvent
<1>6. CASE AcceptLoopReturns
  BY <1>6 DEF AcceptLoopReturns, connVars, sigVars
<1>7. CASE CloseListener
  BY <1>1, <1>7 DEF CloseListener, sigVars
<1>8. CASE KilledBySignal \/ WaiterPanics \/ Exit
  BY <1>1, <1>8 DEF KilledBySignal, WaiterPanics, Exit, ProcessEnds, InLoop, Working
<1>9. CASE Signal \/ SelectSignal \/ SelectRestart \/ Drained \/ TimedOut
           \/ WaiterChecks \/ WaiterReturns \/ UNCHANGED vars
  BY <1>9 DEF Signal, SelectSignal, SelectRestart, Drained, TimedOut, ShutdownEnds,
              WaiterChecks, WaiterReturns, vars, connVars, sigVars
<1>10. QED
  BY <1>2, <1>3, <1>4, <1>5, <1>6, <1>7, <1>8, <1>9 DEF Next, MainStep, WaiterStep, Over

(* Nothing is answered at the start. *)
LEMMA AnsweredInit == Init => AnsweredInv
BY DEF Init, AnsweredInv

(* A connection is closed without an answer only when it asked for an      *)
(* update and the context was cancelled: every other path through          *)
(* handleConnection writes one, during a shutdown too.                     *)
THEOREM AnswerGiven == Spec => []OnlyCancelledUpdateUnanswered
<1>1. AnsweredInv => OnlyCancelledUpdateUnanswered
  BY DEF AnsweredInv, OnlyCancelledUpdateUnanswered
<1>2. QED
  BY TypeCorrect, AnsweredInit, AnsweredStep, <1>1, PTL DEF Spec

-----------------------------------------------------------------------------
(* Shutdown *)

(* Every step keeps the order in which main, Shutdown and the waiter go.  *)
LEMMA ShutdownStep == TypeOK /\ ShutdownInv /\ [Next]_vars => ShutdownInv'
<1> SUFFICES ASSUME TypeOK, ShutdownInv, [Next]_vars
             PROVE  ShutdownInv'
  OBVIOUS
<1> USE DEF ShutdownInv
<1>1. ASSUME NEW c \in Conns, Connect(c) \/ AcceptStep(c)
      PROVE  ShutdownInv'
  BY <1>1 DEF Connect, AcceptStep, AcceptUnix, AuthorizeConnection, AcquireSlot,
              RejectAtCapacity, AddAndSpawn, AddPanics, ProcessEnds, poolVars, sigVars, mainVars
<1>2. ASSUME NEW c \in Conns, HandlerStep(c)
      PROVE  ShutdownInv'
  <2>1. CASE WgDone(c)
    BY <1>2, <2>1 DEF WgDone, sigVars
  <2>2. CASE ~WgDone(c)
    BY <1>2, <2>2 DEF HandlerStep, FinishAction, RequestRestart, CloseConn, ReleaseSlot,
                      HandlerMoves, poolVars, sigVars, mainVars
  <2>3. QED
    BY <2>1, <2>2
<1>3. ASSUME NEW c \in Conns, HandlerEvent(c)
      PROVE  ShutdownInv'
  <2>1. UNCHANGED <<poolVars, sigVars, mainVars>>
    BY <1>3 DEF HandlerEvent, ParseFails, ParseCommand, StartFails, ParseAction, ParseUpdate,
         FinishCommand, UpdateEnds, UpdateCancelled, UpdateProceeds, UpdateApplied, HandlerMoves
  <2>2. QED
    BY <2>1 DEF poolVars, sigVars, mainVars
<1>4. CASE MainStep
  BY <1>4 DEF MainStep, SelectSignal, SelectRestart, CloseListener, Drained, TimedOut,
              ShutdownEnds, Exit, ProcessEnds, poolVars, sigVars, mainVars, TypeOK
<1>5. CASE WaiterStep
  BY <1>5 DEF WaiterStep, WaiterChecks, WaiterReturns, WaiterPanics, ProcessEnds, poolVars, sigVars, TypeOK
<1>6. CASE AcceptLoopReturns \/ Signal \/ KilledBySignal \/ UNCHANGED vars
  BY <1>6 DEF AcceptLoopReturns, Signal, KilledBySignal, ProcessEnds, vars, poolVars, sigVars, mainVars
<1>7. QED
  BY <1>1, <1>2, <1>3, <1>4, <1>5, <1>6 DEF Next, Over

(* No shutdown is under way at the start. *)
LEMMA ShutdownInit == Init => ShutdownInv
BY DEF Init, ShutdownInv

(* A connection that was not pending stays so once the waiter is woken,    *)
(* and a pending one cannot reach the download of an update.               *)
LEMMA StragglerStep ==
  Counters /\ AnsweredInv /\ ShutdownInv /\ StragglerInv /\ [Next]_vars => StragglerInv'
<1> SUFFICES ASSUME Counters, AnsweredInv, ShutdownInv, StragglerInv, [Next]_vars
             PROVE  StragglerInv'
  OBVIOUS
<1> USE DEF Alive, InLoop, Counted, Working, WaitedFor
<1>1. stage \in [Conns -> Stages] /\ reply \in [Conns -> Replies]
  BY DEF Counters, TypeOK
<1>2. ASSUME NEW c \in Conns, NEW from, NEW to, Goes(c, from, to), to # "cut",
             exit' = exit, waiter' = waiter,
             from \in InLoop \cup Counted \/ to \notin InLoop \cup Counted,
             reply' = reply \/ \E r \in Replies \ {"restarting"} : Answers(c, r),
             WaitedFor => to \notin {"downloading", "sleeping"}
      PROVE  StragglerInv'
  <2>1. Pending' \subseteq Pending
    BY <1>1, <1>2 DEF Pending, Goes
  <2>2. \A d \in Conns : reply'[d] = "restarting" => reply[d] = "restarting"
    BY <1>1, <1>2 DEF Answers
  <2>3. \A d \in Conns : stage'[d] = "cut" => stage[d] = "cut"
    BY <1>1, <1>2 DEF Goes
  <2>4. WaitedFor =>
          \A d \in Conns : stage'[d] \in {"downloading", "sleeping"} => stage[d] \in {"downloading", "sleeping"}
    BY <1>1, <1>2 DEF Goes
  <2>5. QED
    BY <1>2, <2>1, <2>2, <2>3, <2>4 DEF StragglerInv, Pending
<1>3. ASSUME NEW c \in Conns, Connect(c)
      PROVE  StragglerInv'
  <2>1. Goes(c, "idle", "queued") /\ UNCHANGED <<reply, exit, waiter>>
    BY <1>3 DEF Connect, mainVars
  <2>2. QED
    BY <1>2, <2>1
<1>4. ASSUME NEW c \in Conns, AcceptStep(c)
      PROVE  StragglerInv'
  <2>1. CASE AcceptUnix(c)
    <3>1. ~WaitedFor /\ waiter' = waiter /\ exit' = exit
      BY <2>1 DEF AcceptUnix, ShutdownInv, mainVars
    <3>2. \A d \in Conns : stage'[d] = "cut" => stage[d] = "cut"
      BY <1>1, <2>1 DEF AcceptUnix, Goes
    <3>3. QED
      BY <3>1, <3>2 DEF StragglerInv
  <2>2. CASE AuthorizeConnection(c)
    BY <1>2, <2>2 DEF AuthorizeConnection, mainVars, Replies
  <2>3. CASE AcquireSlot(c) \/ RejectAtCapacity(c) \/ AddAndSpawn(c)
    BY <1>2, <2>3 DEF AcquireSlot, RejectAtCapacity, AddAndSpawn, mainVars, Replies
  <2>4. CASE AddPanics(c)
    BY <2>4 DEF AddPanics, ProcessEnds, StragglerInv
  <2>5. QED
    BY <1>4, <2>1, <2>2, <2>3, <2>4 DEF AcceptStep
<1>5. ASSUME NEW c \in Conns, HandlerStep(c)
      PROVE  StragglerInv'
  <2>1. CASE WgDone(c)
    <3>1. /\ exit' = exit /\ reply' = reply /\ Pending' \subseteq Pending
          /\ \A d \in Conns : stage'[d] = "cut" => stage[d] = "cut"
          /\ \A d \in Conns : stage'[d] \in {"downloading", "sleeping"} => stage'[d] = stage[d]
      BY <1>1, <2>1 DEF WgDone, Goes, Pending
    <3>2. CASE wg = 1
      <4>1. Tracked = {c}
        <5>1. IsFiniteSet(Tracked) /\ Cardinality(Tracked) = 1
          BY <3>2, ConnsAssumption, FS_Subset DEF Counters, SlotsAccounted, Tracked
        <5>2. PICK d : Tracked = {d}
          BY <5>1, FS_Singleton
        <5>3. c \in Tracked
          BY <2>1 DEF WgDone, Goes, Tracked
        <5>4. QED
          BY <5>2, <5>3
      <4>2. Pending' \subseteq InHand
        BY <1>1, <2>1, <4>1 DEF WgDone, Goes, Pending, Tracked, InHand
      <4>3. \A d, e \in Pending' : d = e
        BY <4>2 DEF Counters, SlotsAccounted
      <4>4. \A d \in Pending' : stage[d] \in InLoop /\ stage'[d] = stage[d] /\ reply[d] # "restarting"
        BY <1>1, <2>1, <4>2 DEF WgDone, Goes, InHand, AnsweredInv, Pending
      <4>5. QED
        BY <3>1, <4>3, <4>4 DEF StragglerInv, Pending
    <3>3. CASE wg # 1
      BY <2>1, <3>1, <3>3 DEF WgDone, StragglerInv, Pending
    <3>4. QED
      BY <3>2, <3>3
  <2>2. CASE FinishAction(c)
    BY <1>2, <2>2 DEF FinishAction, HandlerMoves, mainVars, Replies
  <2>3. CASE RequestRestart(c) \/ CloseConn(c) \/ ReleaseSlot(c)
    BY <1>2, <2>3 DEF RequestRestart, CloseConn, ReleaseSlot, HandlerMoves, mainVars
  <2>4. QED
    BY <1>5, <2>1, <2>2, <2>3 DEF HandlerStep
<1>6. ASSUME NEW c \in Conns, HandlerEvent(c)
      PROVE  StragglerInv'
  <2>1. CASE ParseFails(c) \/ StartFails(c) \/ FinishCommand(c) \/ UpdateEnds(c)
    BY <1>2, <2>1 DEF ParseFails, StartFails, FinishCommand, UpdateEnds, HandlerMoves, mainVars, Replies
  <2>2. CASE ParseCommand(c) \/ ParseAction(c) \/ ParseUpdate(c) \/ UpdateCancelled(c)
    BY <1>2, <2>2 DEF ParseCommand, ParseAction, ParseUpdate, UpdateCancelled, HandlerMoves, mainVars
  <2>3. CASE UpdateProceeds(c)
    <3>1. ~WaitedFor
      BY <2>3 DEF UpdateProceeds, ShutdownInv
    <3>2. QED
      BY <1>2, <2>3, <3>1 DEF UpdateProceeds, HandlerMoves, mainVars
  <2>4. CASE UpdateApplied(c)
    <3>1. Alive /\ c \in Pending /\ stage[c] = "downloading"
      BY <2>4 DEF UpdateApplied, HandlerMoves, Goes, Pending
    <3>2. ~WaitedFor /\ waiter' = waiter /\ exit' = exit
      BY <2>4, <3>1 DEF StragglerInv, UpdateApplied, HandlerMoves, mainVars
    <3>3. \A d \in Conns : stage'[d] = "cut" => stage[d] = "cut"
      BY <1>1, <2>4 DEF UpdateApplied, HandlerMoves, Goes
    <3>4. QED
      BY <3>2, <3>3 DEF StragglerInv
  <2>5. QED
    BY <1>6, <2>1, <2>2, <2>3, <2>4 DEF HandlerEvent
<1>7. CASE CloseListener
  BY <1>1, <1>7 DEF CloseListener, StragglerInv
<1>8. CASE WaiterChecks \/ WaiterReturns
  <2>1. CASE WaiterChecks /\ waiter' = "done"
    <3>1. Cardinality(Tracked) = 0 /\ IsFiniteSet(Tracked)
      BY <2>1, ConnsAssumption, FS_Subset DEF WaiterChecks, Counters, SlotsAccounted, Tracked
    <3>2. Tracked = {}
      BY <3>1, FS_EmptySet
    <3>3. Pending = InHand
      BY <3>2 DEF Pending, Tracked, InHand
    <3>4. \A d, e \in Pending : d = e
      BY <3>3 DEF Counters, SlotsAccounted
    <3>5. \A d \in Pending : stage[d] \in InLoop /\ reply[d] # "restarting"
      BY <3>3 DEF InHand, AnsweredInv
    <3>6. UNCHANGED <<connVars, exit>>
      BY <2>1 DEF WaiterChecks
    <3>7. QED
      BY <3>4, <3>5, <3>6 DEF StragglerInv, Pending, connVars
  <2>2. CASE WaiterChecks /\ waiter' # "done"
    BY <2>2 DEF WaiterChecks, StragglerInv, connVars
  <2>3. CASE WaiterReturns
    BY <2>3 DEF WaiterReturns, StragglerInv, Pending, connVars
  <2>4. QED
    BY <1>8, <2>1, <2>2, <2>3
<1>9. CASE KilledBySignal \/ WaiterPanics \/ Exit
  BY <1>9 DEF KilledBySignal, WaiterPanics, Exit, ProcessEnds, StragglerInv
<1>10. CASE AcceptLoopReturns \/ Signal \/ SelectSignal \/ SelectRestart \/ Drained \/ TimedOut
            \/ UNCHANGED vars
  <2>1. UNCHANGED <<connVars, exit, waiter>>
    BY <1>10 DEF AcceptLoopReturns, Signal, SelectSignal, SelectRestart, Drained, TimedOut,
                 ShutdownEnds, vars, mainVars
  <2>2. QED
    BY <2>1 DEF StragglerInv, Pending, connVars
<1>11. QED
  BY <1>3, <1>4, <1>5, <1>6, <1>7, <1>8, <1>9, <1>10 DEF Next, MainStep, WaiterStep, Over

(* No waiter has returned at the start. *)
LEMMA StragglerInit == Init => StragglerInv
BY DEF Init, StragglerInv, WaitedFor

(* What an end after the wait cuts off was pending when the process ended. *)
DrainedExitInv ==
  WaitOver =>
    /\ \A c, d \in Conns : stage[c] = "cut" /\ stage[d] = "cut" => c = d
    /\ \A c \in Conns : stage[c] = "cut" => reply[c] # "restarting"

(* The exit turns the one pending connection, if any, into the one cut off.*)
LEMMA DrainedExitStep ==
  TypeOK /\ ShutdownInv /\ StragglerInv /\ DrainedExitInv /\ [Next]_vars => DrainedExitInv'
<1> SUFFICES ASSUME TypeOK, ShutdownInv, StragglerInv, DrainedExitInv, [Next]_vars, WaitOver'
             PROVE  /\ \A c, d \in Conns : stage'[c] = "cut" /\ stage'[d] = "cut" => c = d
                    /\ \A c \in Conns : stage'[c] = "cut" => reply'[c] # "restarting"
  BY DEF DrainedExitInv
<1>1. CASE Alive
  <2>1. exit' # exit
    BY <1>1 DEF Alive, WaitOver
  <2>2. Exit \/ WaiterPanics \/ KilledBySignal \/ \E c \in Conns : AcceptStep(c)
    BY <2>1 DEF Next, Connect, HandlerStep, FinishAction, RequestRestart, CloseConn,
      WgDone, ReleaseSlot, HandlerEvent, ParseFails, ParseCommand, StartFails, ParseAction,
      ParseUpdate, FinishCommand, UpdateEnds, UpdateCancelled, UpdateProceeds, UpdateApplied,
      HandlerMoves, AcceptLoopReturns, MainStep, SelectSignal, SelectRestart, CloseListener,
      Drained, TimedOut, ShutdownEnds, WaiterStep, WaiterChecks, WaiterReturns,
      Signal, Over, vars, mainVars
  <2>3. ASSUME NEW c \in Conns, AcceptStep(c) PROVE AddPanics(c)
    BY <2>1, <2>3 DEF AcceptStep, AcceptUnix, AuthorizeConnection, AcquireSlot, RejectAtCapacity,
      AddAndSpawn, mainVars
  <2>4. CASE Exit \/ WaiterPanics \/ \E c \in Conns : AddPanics(c)
    <3>1. WaitedFor /\ reply' = reply /\ \E kind : ProcessEnds(kind)
      BY <2>4 DEF Exit, WaiterPanics, AddPanics, ProcessEnds, ShutdownInv, WaitOver, WaitedFor
    <3>2. \A c \in Conns : stage'[c] = "cut" => c \in Pending
      BY <1>1, <3>1 DEF ProcessEnds, Pending, StragglerInv, Counted, Working, InLoop
    <3>3. QED
      BY <1>1, <3>1, <3>2 DEF StragglerInv, Pending
  <2>5. CASE KilledBySignal
    BY <2>5 DEF KilledBySignal, ProcessEnds, WaitOver
  <2>6. QED
    BY <2>2, <2>3, <2>4, <2>5
<1>2. CASE ~Alive
  <2>1. UNCHANGED vars \/ \E c \in Conns : Connect(c)
    BY <1>2 DEF Alive, Next, AcceptStep, AcceptUnix, AuthorizeConnection, AcquireSlot,
      RejectAtCapacity, AddAndSpawn, AddPanics, HandlerStep, FinishAction, RequestRestart, CloseConn,
      WgDone, ReleaseSlot, HandlerEvent, ParseFails, ParseCommand, StartFails, ParseAction,
      ParseUpdate, FinishCommand, UpdateEnds, UpdateCancelled, UpdateProceeds, UpdateApplied,
      HandlerMoves, AcceptLoopReturns, MainStep, SelectSignal, SelectRestart, CloseListener,
      Drained, TimedOut, ShutdownEnds, Exit, WaiterStep, WaiterChecks, WaiterReturns, WaiterPanics,
      Signal, KilledBySignal, Over
  <2>2. /\ WaitOver /\ reply' = reply
        /\ \A c \in Conns : stage'[c] = "cut" => stage[c] = "cut"
    BY <2>1 DEF Connect, Goes, vars, connVars, mainVars, TypeOK, WaitOver
  <2>3. QED
    BY <2>2 DEF DrainedExitInv
<1>3. QED
  BY <1>1, <1>2

(* The process runs at the start. *)
LEMMA DrainedExitInit == Init => DrainedExitInv
BY DEF Init, DrainedExitInv, WaitOver

(* The invariants of the shutdown together. *)
LEMMA DrainedExitCorrect == Spec => []DrainedExitInv
<1>1. Counters => TypeOK
  BY DEF Counters
<1>2. QED
  BY CountersInit, CountersStep, AnsweredInit, AnsweredStep, ShutdownInit, ShutdownStep,
     StragglerInit, StragglerStep, DrainedExitInit, DrainedExitStep, <1>1, PTL DEF Spec

(* A process that has waited for its connections cuts off at most one when *)
(* it ends, by a panic of the wait group too, however many there are.      *)
THEOREM DrainLoss == Spec => []DrainLosesAtMostOne
<1>1. DrainedExitInv => DrainLosesAtMostOne
  BY DEF DrainedExitInv, DrainLosesAtMostOne
<1>2. QED
  BY DrainedExitCorrect, <1>1, PTL

(* The client whose update restarts the service is not that one. *)
THEOREM RestartAnswered == Spec => []RestartAnswerDelivered
<1>1. DrainedExitInv => RestartAnswerDelivered
  BY DEF DrainedExitInv, RestartAnswerDelivered
<1>2. QED
  BY DrainedExitCorrect, <1>1, PTL

(* Only UpdateApplied gives the answer restarting, and only RequestRestart *)
(* wakes the handler: with the request in the channel.                     *)
LEMMA ForgottenStep == TypeOK /\ RestartNotForgotten /\ [Next]_vars => RestartNotForgotten'
<1> SUFFICES ASSUME TypeOK, RestartNotForgotten, [Next]_vars,
                    Alive', mainPc' = "select", NEW c \in Conns, reply'[c] = "restarting"
             PROVE  restartChan' \/ \E d \in Conns : stage'[d] = "sleeping"
  BY DEF RestartNotForgotten
<1>1. stage \in [Conns -> Stages] /\ reply \in [Conns -> Replies]
  BY DEF TypeOK
<1>2. ASSUME NEW d \in Conns, NEW from, NEW to, Goes(d, from, to), from # "sleeping",
             UNCHANGED <<exit, mainPc>>, restartChan' = restartChan,
             reply' = reply \/ \E r \in Replies \ {"restarting"} : Answers(d, r)
      PROVE  restartChan' \/ \E e \in Conns : stage'[e] = "sleeping"
  <2>1. reply[c] = "restarting" /\ Alive /\ mainPc = "select"
    BY <1>1, <1>2 DEF Answers, Alive
  <2>2. \A e \in Conns : stage[e] = "sleeping" => stage'[e] = "sleeping"
    BY <1>1, <1>2 DEF Goes
  <2>3. QED
    BY <1>2, <2>1, <2>2 DEF RestartNotForgotten
<1>3. ASSUME UNCHANGED <<connVars, exit, mainPc, restartChan>>
      PROVE  restartChan' \/ \E d \in Conns : stage'[d] = "sleeping"
  BY <1>3 DEF RestartNotForgotten, connVars, Alive
<1>4. ASSUME NEW d \in Conns, Connect(d) \/ AcceptStep(d)
      PROVE  restartChan' \/ \E e \in Conns : stage'[e] = "sleeping"
  BY <1>2, <1>4 DEF Connect, AcceptStep, AcceptUnix, AuthorizeConnection, AcquireSlot,
    RejectAtCapacity, AddAndSpawn, AddPanics, ProcessEnds, Alive, sigVars, mainVars, Replies
<1>5. ASSUME NEW d \in Conns, HandlerStep(d)
      PROVE  restartChan' \/ \E e \in Conns : stage'[e] = "sleeping"
  <2>1. CASE RequestRestart(d)
    BY <2>1 DEF RequestRestart
  <2>2. CASE FinishAction(d) \/ CloseConn(d) \/ WgDone(d) \/ ReleaseSlot(d)
    BY <1>2, <2>2 DEF FinishAction, CloseConn, WgDone, ReleaseSlot, HandlerMoves, sigVars, mainVars, Replies
  <2>3. QED
    BY <1>5, <2>1, <2>2 DEF HandlerStep
<1>6. ASSUME NEW d \in Conns, HandlerEvent(d)
      PROVE  restartChan' \/ \E e \in Conns : stage'[e] = "sleeping"
  <2>1. CASE UpdateApplied(d)
    BY <1>1, <2>1 DEF UpdateApplied, HandlerMoves, Goes
  <2>2. CASE ~UpdateApplied(d)
    BY <1>2, <1>6, <2>2 DEF HandlerEvent, ParseFails, ParseCommand, StartFails, ParseAction,
      ParseUpdate, FinishCommand, UpdateEnds, UpdateCancelled, UpdateProceeds, HandlerMoves,
      sigVars, mainVars, Replies
  <2>3. QED
    BY <2>1, <2>2
<1>7. CASE AcceptLoopReturns \/ WaiterChecks \/ WaiterReturns \/ Signal \/ UNCHANGED vars
  BY <1>3, <1>7 DEF AcceptLoopReturns, WaiterChecks, WaiterReturns, Signal, sigVars, mainVars, vars
<1>8. CASE MainStep \/ WaiterPanics \/ KilledBySignal
  BY <1>8 DEF MainStep, SelectSignal, SelectRestart, CloseListener, Drained, TimedOut, ShutdownEnds,
              Exit, WaiterPanics, KilledBySignal, ProcessEnds, Alive
<1>9. QED
  BY <1>4, <1>5, <1>6, <1>7, <1>8 DEF Next, WaiterStep, Over

(* The restart an installed update needs is never forgotten: what of       *)
(* AppliedUpdateRestarts is a safety property.                             *)
THEOREM RestartKept == Spec => []RestartNotForgotten
<1>1. Init => RestartNotForgotten
  BY DEF Init, RestartNotForgotten
<1>2. Counters => TypeOK
  BY DEF Counters
<1>3. QED
  BY CountersInit, CountersStep, ForgottenStep, <1>1, <1>2, PTL DEF Spec

-----------------------------------------------------------------------------
(* The promise of Admission *)

StatusMap == [c \in Conns |-> Status(stage[c])]
Entitled  == [c \in Conns |-> peer[c] = AllowedUID]

(* What the mapping makes of each stage. *)
LEMMA StatusValues ==
  /\ Status("idle") = "away"
  /\ Status("queued") = "waiting" /\ Status("accepted") = "waiting"
  /\ Status("authorized") = "waiting"
  /\ \A s \in Slotted : Status(s) = "admitted"
  /\ Status("served") = "done" /\ Status("rejected") = "refused"
  /\ Status("reset") = "lost" /\ Status("cut") = "lost"
BY DEF Status, Slotted, Counted, Working

(* The connections Admission counts are those that hold a place. *)
LEMMA AdmittedAreHolding ==
  ASSUME stage \in [Conns -> Stages]
  PROVE  Promise!Admitted = Holding
BY DEF Promise!Admitted, Holding, Status, Stages, InLoop, Slotted, Counted, Working, Finished

(* The instance has a Cardinality of its own. *)
LEMMA SameCardinality == \A S : Promise!Cardinality(S) = Cardinality(S)
BY DEF Promise!Cardinality, Cardinality

(* A move of one connection moves its status. *)
LEMMA StatusMoves ==
  ASSUME stage \in [Conns -> Stages], NEW c \in Conns, NEW from, NEW to, Goes(c, from, to)
  PROVE  StatusMap[c] = Status(from) /\ StatusMap' = [StatusMap EXCEPT ![c] = Status(to)]
<1>1. StatusMap' = [d \in Conns |-> Status(stage'[d])]
  BY DEF StatusMap, Status
<1>2. QED
  BY <1>1 DEF StatusMap, Goes

(* The server starts where Admission does. *)
LEMMA PromiseInit == Init => Promise!Init
<1> SUFFICES ASSUME Init
             PROVE  Promise!Init
  OBVIOUS
<1>1. StatusMap = [c \in Conns |-> "away"]
  BY StatusValues DEF StatusMap, Init
<1>2. Entitled \in [Conns -> BOOLEAN]
  BY DEF Entitled
<1>3. QED
  BY <1>1, <1>2 DEF Promise!Init, StatusMap, Entitled, Init, Alive

(* Every step of the server is a step of Admission or leaves it unchanged. *)
LEMMA PromiseStep == Counters /\ AuthorizedInv /\ [Next]_vars => [Promise!Next]_(Promise!vars)
<1> SUFFICES ASSUME Counters, AuthorizedInv, [Next]_vars
             PROVE  Promise!Next \/ UNCHANGED Promise!vars
  BY DEF Promise!vars
<1>1. stage \in [Conns -> Stages] /\ sem = Cardinality(Promise!Admitted) /\ sem \in 0..SlotLimit
      /\ SlotLimit \in Nat
  BY AdmittedAreHolding, MaxConnectionsAssumption DEF Counters, TypeOK, SlotsAccounted, SlotLimit
<1>2. ASSUME NEW c \in Conns, NEW from, NEW to, Goes(c, from, to), Status(from) = Status(to),
             UNCHANGED <<peer, exit>>
      PROVE  UNCHANGED Promise!vars
  <2>1. StatusMap' = StatusMap
    <3>1. StatusMap[c] = Status(to) /\ StatusMap' = [StatusMap EXCEPT ![c] = Status(to)]
      BY <1>1, <1>2, StatusMoves
    <3>2. QED
      BY <3>1 DEF StatusMap
  <2>2. QED
    BY <1>2, <2>1 DEF Promise!vars, StatusMap, Alive
<1>3. ASSUME NEW c \in Conns, NEW from, NEW to, Goes(c, from, to), UNCHANGED <<peer, exit>>
      PROVE  Promise!Becomes(c, Status(from), Status(to))
  <2>1. StatusMap[c] = Status(from) /\ StatusMap' = [StatusMap EXCEPT ![c] = Status(to)]
    BY <1>1, <1>3, StatusMoves
  <2>2. QED
    BY <1>3, <2>1 DEF Promise!Becomes, StatusMap, Alive
<1>4. ASSUME NEW kind \in {"zero", "killed", "panic"}, Alive, ProcessEnds(kind)
      PROVE  Promise!Stop
  <2> DEFINE lost == {c \in Conns : StatusMap[c] # "lost" /\ StatusMap'[c] = "lost"}
  <2>1. lost \subseteq {c \in Conns : StatusMap[c] \in {"waiting", "admitted"}}
    <3>1. \A c \in lost : stage[c] \in {"queued"} \cup InLoop \cup Slotted
      BY <1>1, <1>4 DEF ProcessEnds, StatusMap, Slotted, Counted
    <3>2. QED
      BY <3>1, StatusValues DEF StatusMap, InLoop, Slotted
  <2>2. ASSUME NEW c \in Conns
        PROVE  StatusMap'[c] = IF c \in lost THEN "lost"
                               ELSE IF c \in Promise!Admitted THEN "done" ELSE StatusMap[c]
    <3>1. StatusMap'[c] = Status(stage'[c]) /\ StatusMap[c] = Status(stage[c])
          /\ (c \in Promise!Admitted <=> stage[c] \in Slotted)
      BY <1>1, AdmittedAreHolding DEF StatusMap, Holding
    <3>2. CASE stage[c] \in InLoop \cup Working
      <4>1. stage'[c] = "cut"
        BY <1>4, <3>2 DEF ProcessEnds, InLoop, Working
      <4>2. Status(stage[c]) # "lost"
        BY <3>2, StatusValues DEF InLoop, Slotted, Counted
      <4>3. QED
        BY <3>1, <4>1, <4>2, StatusValues
    <3>3. CASE stage[c] \in {"closed", "untracked"}
      <4>1. stage'[c] = "served"
        BY <1>4, <3>3 DEF ProcessEnds, InLoop, Working
      <4>2. QED
        BY <3>1, <3>3, <4>1, StatusValues DEF Slotted, Counted
    <3>4. CASE stage[c] = "queued" /\ ~SystemdSocket
      <4>1. stage'[c] = "reset"
        BY <1>4, <3>4 DEF ProcessEnds, InLoop, Working
      <4>2. QED
        BY <3>1, <3>4, <4>1, StatusValues
    <3>5. CASE /\ stage[c] \notin InLoop \cup Working \cup {"closed", "untracked"}
               /\ ~(stage[c] = "queued" /\ ~SystemdSocket)
      <4>1. stage'[c] = stage[c]
        BY <1>4, <3>5 DEF ProcessEnds
      <4>2. stage[c] \notin Slotted
        BY <3>5 DEF Slotted, Counted, InLoop
      <4>3. QED
        BY <3>1, <4>1, <4>2
    <3>6. QED
      BY <3>2, <3>3, <3>4, <3>5
  <2>3. StatusMap' = [c \in Conns |-> IF c \in lost THEN "lost"
                                      ELSE IF c \in Promise!Admitted THEN "done" ELSE StatusMap[c]]
    BY <2>2 DEF StatusMap
  <2>4. QED
    BY <1>4, <2>1, <2>3 DEF Promise!Stop, StatusMap, Alive, ProcessEnds
<1>5. ASSUME NEW c \in Conns, Connect(c)
      PROVE  Promise!Next
  <2>1. Promise!Becomes(c, Status("idle"), Status("queued"))
    BY <1>3, <1>5 DEF Connect, mainVars
  <2>2. QED
    BY <2>1, StatusValues DEF Promise!Arrive, Promise!Next
<1>6. ASSUME NEW c \in Conns, AcceptStep(c)
      PROVE  Promise!Next \/ UNCHANGED Promise!vars
  <2>1. CASE AcceptUnix(c)
    BY <1>2, <2>1, StatusValues DEF AcceptUnix, mainVars
  <2>2. CASE AuthorizeConnection(c) /\ peer[c] = AllowedUID
    BY <1>2, <2>2, PeersAssumption, StatusValues
    DEF AuthorizeConnection, Authorized, CredentialsRead, mainVars
  <2>3. CASE AuthorizeConnection(c) /\ peer[c] # AllowedUID
    <3>1. Promise!Becomes(c, Status("accepted"), Status("rejected")) /\ Alive
      BY <1>3, <2>3 DEF AuthorizeConnection, Authorized, mainVars
    <3>2. QED
      BY <2>3, <3>1, StatusValues DEF AuthorizeConnection, Promise!Refuse, Promise!Next
  <2>4. CASE AcquireSlot(c)
    <3>1. Promise!Becomes(c, Status("authorized"), Status("slotted"))
      BY <1>3, <2>4 DEF AcquireSlot, mainVars
    <3>2. peer[c] = AllowedUID
      BY <2>4 DEF AcquireSlot, Goes, AuthorizedInv
    <3>3. Cardinality(Promise!Admitted) < SlotLimit /\ Alive /\ Entitled[c]
      BY <1>1, <2>4, <3>2 DEF AcquireSlot, Entitled
    <3>4. Promise!Becomes(c, "waiting", "admitted")
      BY <3>1, StatusValues DEF Slotted
    <3>5. Promise!Admit(c)
      BY <3>3, <3>4, SameCardinality DEF Promise!Admit, Entitled
    <3>6. QED
      BY <3>5 DEF Promise!Next
  <2>5. CASE RejectAtCapacity(c)
    <3>1. Promise!Becomes(c, Status("authorized"), Status("rejected"))
      BY <1>3, <2>5 DEF RejectAtCapacity, mainVars
    <3>2. sem = SlotLimit
      BY <1>1, <2>5 DEF RejectAtCapacity
    <3>3. Cardinality(Promise!Admitted) = SlotLimit /\ Alive
      BY <1>1, <2>5, <3>2 DEF RejectAtCapacity
    <3>4. Promise!Becomes(c, "waiting", "refused")
      BY <3>1, StatusValues
    <3>5. Promise!Refuse(c)
      BY <3>3, <3>4, SameCardinality DEF Promise!Refuse
    <3>6. QED
      BY <3>5 DEF Promise!Next
  <2>6. CASE AddAndSpawn(c)
    BY <1>2, <2>6, StatusValues DEF AddAndSpawn, mainVars, Slotted, Counted, Working
  <2>7. CASE AddPanics(c)
    BY <1>4, <2>7 DEF AddPanics, Promise!Next
  <2>8. QED
    BY <1>6, <2>1, <2>2, <2>3, <2>4, <2>5, <2>6, <2>7 DEF AcceptStep
<1>7. ASSUME NEW c \in Conns, HandlerStep(c)
      PROVE  Promise!Next \/ UNCHANGED Promise!vars
  <2>1. CASE ReleaseSlot(c)
    <3>1. Promise!Becomes(c, Status("untracked"), Status("served"))
      BY <1>3, <2>1 DEF ReleaseSlot, mainVars
    <3>2. QED
      BY <3>1, StatusValues DEF Slotted, Promise!Complete, Promise!Next
  <2>2. CASE ~ReleaseSlot(c)
    <3>1. UNCHANGED <<peer, exit>> /\ \E from \in Slotted, to \in Slotted : Goes(c, from, to)
      BY <1>7, <2>2 DEF HandlerStep, FinishAction, RequestRestart, CloseConn, WgDone,
                        HandlerMoves, mainVars, Slotted, Counted, Working
    <3>2. QED
      BY <1>2, <3>1, StatusValues
  <2>3. QED
    BY <2>1, <2>2
<1>8. ASSUME NEW c \in Conns, HandlerEvent(c)
      PROVE  UNCHANGED Promise!vars
  <2>1. UNCHANGED <<peer, exit>> /\ \E from \in Working, to \in Working : Goes(c, from, to)
    BY <1>8 DEF HandlerEvent, ParseFails, ParseCommand, StartFails, ParseAction, ParseUpdate,
      FinishCommand, UpdateEnds, UpdateCancelled, UpdateProceeds, UpdateApplied, HandlerMoves,
      mainVars, Working
  <2>2. QED
    BY <1>2, <2>1, StatusValues DEF Slotted, Counted
<1>9. CASE CloseListener
  <2> DEFINE lost == {c \in Conns : StatusMap[c] = "waiting" /\ StatusMap'[c] = "lost"}
  <2>1. StatusMap' = [c \in Conns |-> IF c \in lost THEN "lost" ELSE StatusMap[c]]
    <3>1. ASSUME NEW c \in Conns
          PROVE  StatusMap'[c] = IF c \in lost THEN "lost" ELSE StatusMap[c]
      BY <1>9, StatusValues DEF CloseListener, StatusMap
    <3>2. QED
      BY <3>1 DEF StatusMap
  <2>2. Promise!CloseDoor
    BY <1>9, <2>1 DEF CloseListener, Promise!CloseDoor, StatusMap, Alive
  <2>3. QED
    BY <2>2 DEF Promise!Next
<1>10. CASE KilledBySignal \/ WaiterPanics \/ Exit
  BY <1>4, <1>10 DEF KilledBySignal, WaiterPanics, Exit, Promise!Next
<1>11. CASE AcceptLoopReturns \/ Signal \/ SelectSignal \/ SelectRestart \/ Drained \/ TimedOut
            \/ WaiterChecks \/ WaiterReturns \/ UNCHANGED vars
  <2>1. UNCHANGED <<connVars, exit>>
    BY <1>11 DEF AcceptLoopReturns, Signal, SelectSignal, SelectRestart, Drained, TimedOut,
                 ShutdownEnds, WaiterChecks, WaiterReturns, vars, mainVars
  <2>2. QED
    BY <2>1 DEF Promise!vars, connVars, Alive
<1>12. QED
  BY <1>5, <1>6, <1>7, <1>8, <1>9, <1>10, <1>11 DEF Next, MainStep, WaiterStep, Over

(* The server implements Admission: its semaphore, wait group, goroutines  *)
(* and shutdown never admit beyond the limit or refuse below it.           *)
THEOREM Implementation == Spec => ImplementsAdmission
<1>1. Init => AuthorizedInv
  BY DEF Init, AuthorizedInv, Slotted, Counted, Working
<1>2. Counters => TypeOK
  BY DEF Counters
<1>3. QED
  BY CountersInit, CountersStep, AuthorizedStep, PromiseInit, PromiseStep, <1>1, <1>2, PTL
  DEF Spec, ImplementsAdmission, Promise!Spec
=============================================================================

--------------------------- MODULE ResponseProofs ---------------------------
(***************************************************************************)
(* What the client of a command is told, for any number of streams, chunks *)
(* and background processes, and for any pipes: the answer is the true     *)
(* one, it comes after all the output, and nothing is left behind.         *)
(***************************************************************************)
EXTENDS CommandProofs, FiniteSetTheorems

(* Where the handler is says where its goroutines, bash and the mutex are. *)
Watching == {"watching", "grace", "killed"}

ReadersAre(states) == \A s \in Streams : reader[s] \in states

Early    == pc \in {"parse", "refuse", "start"}
Late     == pc \in {"respond", "reply", "done"}
EarlyInv == Early => /\ ReadersAre({"off"})
                     /\ watcher = "off" /\ \A p \in Procs : proc[p] = "none"
RunInv   == /\ pc \in {"drain", "wait"} => watcher \in Watching /\ proc[Leader] \in {"running", "zombie"}
            /\ pc = "watch" => watcher \in Watching /\ proc[Leader] = "gone"
            /\ pc = "drain" => \A s \in Streams : reader[s] # "off"
            /\ pc \in {"wait", "watch"} => ReadersAre({"done"})
LateInv  == Late => /\ ReadersAre({"off", "done"})
                    /\ watcher \in {"off", "over"} /\ proc[Leader] \in {"none", "gone"}
MutexInv == /\ writeMu = "main" <=> pc = "reply"
            /\ \A s \in Streams : writeMu = s <=> reader[s] = "writing"
StageInv == EarlyInv /\ RunInv /\ LateInv /\ MutexInv

LEMMA StreamsDistinct == \A s \in Streams : s \notin Ends \cup {"main", "none"}
BY StreamsAssumption DEF Ends

LEMMA StageHandler == ASSUME TypeOK, StageInv, HandlerStep PROVE StageInv'
<1> USE DEF StageInv, EarlyInv, RunInv, LateInv, MutexInv, Early, Late, ReadersAre
<1>0. Leader \in Procs
  BY DEF Procs
<1>1. CASE ParseStep
  BY <1>0, <1>1 DEF ParseStep, ReadRequest, Parsed, TooLarge, RequestBreaksOff, LeaveParse, Refuse,
              handlerVars, ctxVars, groupVars
<1>2. CASE StartCommand
  BY <1>0, <1>2, StreamsDistinct DEF StartCommand, TypeOK, Watching
<1>3. CASE StartFails
  BY <1>0, <1>3 DEF StartFails, ctxVars, groupVars
<1>4. CASE Drained
  BY <1>4 DEF Drained, ctxVars, groupVars
<1>5. CASE Reap
  BY <1>0, <1>5 DEF Reap, ctxVars, TypeOK
<1>6. CASE HandOver
  BY <1>6 DEF HandOver, groupVars
<1>7. CASE LockForReply
  BY <1>7, StreamsDistinct DEF LockForReply, ctxVars, groupVars
<1>8. CASE Reply
  BY <1>8, StreamsDistinct DEF Reply, Write, groupVars
<1>9. QED
  BY <1>1, <1>2, <1>3, <1>4, <1>5, <1>6, <1>7, <1>8 DEF HandlerStep

LEMMA StageReader == ASSUME TypeOK, StageInv, NEW s \in Streams, ReaderStep(s) PROVE StageInv'
<1> USE DEF StageInv, EarlyInv, RunInv, LateInv, MutexInv, Early, Late, ReadersAre
<1>0. reader \in [Streams -> {"off", "reading", "locking", "writing", "done"}]
  BY DEF TypeOK
<1>1. CASE ReadChunk(s)
  BY <1>0, <1>1 DEF ReadChunk, ctxVars, groupVars
<1>2. CASE ReadEOF(s)
  BY <1>0, <1>2 DEF ReadEOF, ctxVars, groupVars
<1>3. CASE LockForChunk(s)
  BY <1>0, <1>3, StreamsDistinct DEF LockForChunk, ctxVars, groupVars
<1>4. CASE WriteChunk(s)
  BY <1>0, <1>4, StreamsDistinct DEF WriteChunk, Write, groupVars
<1>5. QED
  BY <1>1, <1>2, <1>3, <1>4 DEF ReaderStep

LEMMA StageOther ==
  ASSUME TypeOK, StageInv, [Next]_vars, ~HandlerStep, ~\E s \in Streams : ReaderStep(s)
  PROVE  StageInv'
<1> USE DEF StageInv, EarlyInv, RunInv, LateInv, MutexInv, Early, Late, ReadersAre
<1>0. Leader \in Procs /\ Leader \notin Children
  BY ProcsAssumption DEF Procs
<1>1. CASE UNCHANGED <<handlerVars, watcher, proc>>
  BY <1>1 DEF handlerVars
<1>2. ASSUME NEW p \in Procs, NEW c \in Children, Fork(p, c) PROVE StageInv'
  BY <1>0, <1>2 DEF Fork, Acts, handlerVars, ctxVars, TypeOK
<1>3. ASSUME NEW p \in Procs, Exits(p) PROVE StageInv'
  <2>1. CASE p = Leader
    BY <1>0, <1>3, <2>1 DEF Exits, handlerVars, ctxVars, TypeOK
  <2>2. CASE p # Leader
    BY <1>0, <1>3, <2>2 DEF Exits, handlerVars, ctxVars, TypeOK
  <2>3. QED
    BY <2>1, <2>2
<1>4. CASE Cancel
  BY <1>4 DEF Cancel, Watching, handlerVars
<1>5. CASE GraceExpires
  <2>1. CASE proc[Leader] = "running"
    BY <1>0, <1>5, <2>1 DEF GraceExpires, Watching, handlerVars, TypeOK
  <2>2. CASE proc[Leader] # "running"
    BY <1>5, <2>2 DEF GraceExpires, Watching, handlerVars
  <2>3. QED
    BY <2>1, <2>2
<1>6. CASE \/ \E last \in {"open", "valid", "invalid"} : Type(last)
           \/ Disconnect \/ Stall \/ Resume \/ ShutdownCancels \/ TimeoutFires
           \/ \E p \in Procs : LeaveGroup(p) \/ \E s \in Streams : Output(p, s) \/ CloseOutput(p, s)
           \/ Over \/ UNCHANGED vars
  BY <1>1, <1>6 DEF Type, Disconnect, Stall, Resume, ShutdownCancels, TimeoutFires, ContextDone,
                    LeaveGroup, Output, CloseOutput, Over, vars, ctxVars, groupVars
<1>7. QED
  BY <1>2, <1>3, <1>4, <1>5, <1>6 DEF Next, WatcherStep, GroupStep

LEMMA StageStep == TypeOK /\ StageInv /\ [Next]_vars => StageInv'
BY StageHandler, StageReader, StageOther

LEMMA StageInit == Init => StageInv
BY StreamsDistinct DEF Init, StageInv, EarlyInv, RunInv, LateInv, MutexInv, Early, Late, ReadersAre, Procs

LEMMA TypesAndStages == Spec => [](TypeInv /\ StageInv)
<1>1. TypeInv => TypeOK
  BY DEF TypeInv
<1>2. QED
  BY <1>1, TypeInit, TypeStep, StageInit, StageStep, PTL DEF Spec

(* Once the handler is done no goroutine of the command is left, the mutex *)
(* is free and bash is reaped.                                             *)
THEOREM CleanEnd == Spec => []NothingLeftBehind
<1>1. TypeInv /\ StageInv => NothingLeftBehind
  BY DEF TypeInv, TypeOK, StageInv, LateInv, MutexInv, Late, ReadersAre, NothingLeftBehind
<1>2. QED
  BY <1>1, TypesAndStages, PTL

-----------------------------------------------------------------------------
(* What Run returns agrees with what became of bash, and stays so. *)
ResultInv == /\ status = "none" <=> proc[Leader] \in {"none", "running"}
             /\ watchErr # "none" => cause # "none"
             /\ result # "none" => pc = "refuse" \/ Late
             /\ result \in {"zero", "nonzero"} => status = result /\ ReadersAre({"done"})
             /\ result = "failed" => status = "none" \/ (status = "zero" /\ cause # "none")

LEMMA ResultHandler == ASSUME TypeOK, StageInv, ResultInv, HandlerStep PROVE ResultInv'
<1> USE DEF ResultInv, Late, ReadersAre
<1>0. Leader \in Procs
  BY DEF Procs
<1>1. CASE ParseStep
  BY <1>0, <1>1 DEF ParseStep, ReadRequest, Parsed, TooLarge, RequestBreaksOff, LeaveParse, Refuse,
              handlerVars, ctxVars, groupVars, StageInv, EarlyInv, Early
<1>2. CASE StartCommand
  BY <1>0, <1>2 DEF StartCommand, TypeOK, StageInv, EarlyInv, Early
<1>3. CASE StartFails
  BY <1>0, <1>3 DEF StartFails, ctxVars, groupVars, StageInv, EarlyInv, Early
<1>4. CASE Drained
  BY <1>4 DEF Drained, ctxVars, groupVars
<1>5. CASE Reap
  BY <1>0, <1>5 DEF Reap, ctxVars, TypeOK
<1>6. CASE HandOver
  BY <1>6 DEF HandOver, groupVars, TypeOK, StageInv, RunInv
<1>7. CASE LockForReply
  BY <1>7 DEF LockForReply, ctxVars, groupVars
<1>8. CASE Reply
  BY <1>8 DEF Reply, Write, Cancelled, groupVars
<1>9. QED
  BY <1>1, <1>2, <1>3, <1>4, <1>5, <1>6, <1>7, <1>8 DEF HandlerStep

LEMMA ResultStep == TypeOK /\ StageInv /\ ResultInv /\ [Next]_vars => ResultInv'
<1> SUFFICES ASSUME TypeOK, StageInv, ResultInv, [Next]_vars PROVE ResultInv'
  OBVIOUS
<1> USE DEF ResultInv, Late, ReadersAre
<1>0. Leader \in Procs /\ Leader \notin Children
  BY ProcsAssumption DEF Procs
<1>1. CASE HandlerStep
  BY <1>1, ResultHandler
<1>2. ASSUME NEW s \in Streams, ReaderStep(s) PROVE ResultInv'
  BY <1>2 DEF ReaderStep, ReadChunk, ReadEOF, LockForChunk, WriteChunk, Write, Cancelled, ctxVars,
              groupVars, TypeOK
<1>3. ASSUME NEW p \in Procs, NEW c \in Children, Fork(p, c) PROVE ResultInv'
  BY <1>0, <1>3 DEF Fork, Acts, handlerVars, ctxVars, TypeOK
<1>4. ASSUME NEW p \in Procs, Exits(p) PROVE ResultInv'
  <2>1. CASE p = Leader
    BY <1>0, <1>4, <2>1 DEF Exits, handlerVars, ctxVars, TypeOK, StageInv, EarlyInv, LateInv, Early
  <2>2. CASE p # Leader
    BY <1>0, <1>4, <2>2 DEF Exits, handlerVars, ctxVars, TypeOK
  <2>3. QED
    BY <2>1, <2>2
<1>5. CASE Cancel
  BY <1>5 DEF Cancel, handlerVars
<1>6. CASE GraceExpires
  <2>1. CASE proc[Leader] = "running"
    BY <1>0, <1>6, <2>1 DEF GraceExpires, handlerVars, TypeOK, StageInv, EarlyInv, LateInv, Early
  <2>2. CASE proc[Leader] # "running"
    BY <1>6, <2>2 DEF GraceExpires, handlerVars
  <2>3. QED
    BY <2>1, <2>2
<1>7. CASE \/ \E last \in {"open", "valid", "invalid"} : Type(last)
           \/ Disconnect \/ Stall \/ Resume \/ ShutdownCancels \/ TimeoutFires
           \/ \E p \in Procs : LeaveGroup(p) \/ \E s \in Streams : Output(p, s) \/ CloseOutput(p, s)
           \/ Over \/ UNCHANGED vars
  BY <1>7 DEF Type, Disconnect, Stall, Resume, ShutdownCancels, TimeoutFires, ContextDone,
              LeaveGroup, Output, CloseOutput, Over, vars, handlerVars, ctxVars, groupVars
<1>8. QED
  BY <1>1, <1>2, <1>3, <1>4, <1>5, <1>6, <1>7 DEF Next, WatcherStep, GroupStep

-----------------------------------------------------------------------------
(* The response that ends the stream is the result, and it is the last.  *)
AnswerInv == /\ \A e \in Ends : Answered(e) => pc = "done" /\ result = e
             /\ pc # "done" => \A i \in DOMAIN sent : sent[i][1] \in Streams

LEMMA LastAppended ==
  ASSUME NEW S, NEW q \in Seq(S), NEW x \in S
  PROVE  /\ Append(q, x) # <<>> /\ Append(q, x)[Len(Append(q, x))] = x
         /\ DOMAIN Append(q, x) = DOMAIN q \cup {Len(q) + 1}
         /\ \A i \in DOMAIN q : Append(q, x)[i] = q[i]
         /\ Append(q, x)[Len(q) + 1] = x /\ Len(q) + 1 \notin DOMAIN q
OBVIOUS

LEMMA AnswerStep ==
  TypeInv /\ AnswerInv /\ ResultInv /\ StageInv /\ [Next]_vars => AnswerInv'
<1> SUFFICES ASSUME TypeInv, AnswerInv, ResultInv, StageInv, [Next]_vars PROVE AnswerInv'
  OBVIOUS
<1> DEFINE Responses == (Streams \cup Ends) \X (0..MaxChunks)
<1>0. sent \in Seq(Responses) /\ 0 \in 0..MaxChunks
  BY ChunksAssumption DEF TypeInv, TypeOK
<1>1. CASE UNCHANGED <<pc, result, sent>>
  BY <1>1 DEF AnswerInv, Answered
<1>2. ASSUME sent' = Append(sent, <<result, 0>>), result \in Ends, UNCHANGED result, pc' = "done"
      PROVE  AnswerInv'
  <2>1. <<result, 0>> \in Responses
    BY <1>0, <1>2
  <2>2. sent'[Len(sent')] = <<result, 0>>
    BY <1>0, <1>2, <2>1, LastAppended
  <2>3. QED
    BY <1>2, <2>2 DEF AnswerInv, Answered
<1>3. ASSUME UNCHANGED sent, pc # "done", UNCHANGED result \/ pc' # "done" PROVE AnswerInv'
  BY <1>3 DEF AnswerInv, Answered
<1>4. ASSUME NEW s \in Streams, WriteChunk(s) PROVE AnswerInv'
  <2>1. CASE sent' = Append(sent, <<s, taken[s]>>)
    <3>1. <<s, taken[s]>> \in Responses
      BY DEF TypeInv, TypeOK
    <3>2. /\ sent'[Len(sent')] = <<s, taken[s]>>
          /\ DOMAIN sent' = DOMAIN sent \cup {Len(sent) + 1}
          /\ \A i \in DOMAIN sent : sent'[i] = sent[i]
          /\ sent'[Len(sent) + 1] = <<s, taken[s]>>
      BY <1>0, <2>1, <3>1, LastAppended
    <3>3. \A e \in Ends : ~Answered(e)'
      BY <3>2, StreamsDistinct DEF Answered
    <3>4. QED
      BY <1>4, <3>2, <3>3 DEF WriteChunk, AnswerInv
  <2>2. CASE UNCHANGED sent
    BY <1>1, <1>4, <2>2 DEF WriteChunk
  <2>3. QED
    BY <1>4, <2>1, <2>2 DEF WriteChunk, Write
<1>5. CASE ParseStep
  <2>1. CASE Refuse /\ client = "open"
    BY <1>2, <2>1 DEF Refuse, TypeInv
  <2>2. CASE ~(Refuse /\ client = "open")
    BY <1>1, <1>3, <1>5, <2>2 DEF ParseStep, ReadRequest, Parsed, TooLarge, RequestBreaksOff,
       LeaveParse, Refuse, handlerVars
  <2>3. QED
    BY <2>1, <2>2
<1>6. CASE Reply
  <2>1. CASE sent' = Append(sent, <<result, 0>>)
    BY <1>2, <1>6, <2>1 DEF Reply, TypeInv
  <2>2. CASE UNCHANGED sent
    BY <1>3, <1>6, <2>2 DEF Reply
  <2>3. QED
    BY <1>6, <2>1, <2>2 DEF Reply, Write
<1>7. CASE StartCommand \/ StartFails \/ Drained \/ Reap \/ HandOver \/ LockForReply
  BY <1>3, <1>7 DEF StartCommand, StartFails, Drained, Reap, HandOver, LockForReply, connVars
<1>8. ASSUME NEW s \in Streams, ReadChunk(s) \/ ReadEOF(s) \/ LockForChunk(s) PROVE AnswerInv'
  BY <1>1, <1>8 DEF ReadChunk, ReadEOF, LockForChunk, connVars
<1>9. CASE \/ WatcherStep
           \/ \E last \in {"open", "valid", "invalid"} : Type(last)
           \/ Disconnect \/ Stall \/ Resume \/ ShutdownCancels \/ TimeoutFires
           \/ \E p \in Procs : GroupStep(p)
           \/ Over \/ UNCHANGED vars
  BY <1>1, <1>9 DEF WatcherStep, Cancel, GraceExpires, Type, Disconnect, Stall, Resume,
     ShutdownCancels, TimeoutFires, ContextDone, GroupStep, Fork, LeaveGroup, Exits, Output,
     CloseOutput, Over, vars, handlerVars, connVars
<1>10. QED
  BY <1>4, <1>5, <1>6, <1>7, <1>8, <1>9 DEF Next, HandlerStep, ReaderStep

-----------------------------------------------------------------------------
(* Only running processes hold the pipes; a reader is done when its pipe   *)
(* is empty and nobody holds it.                                           *)
PipeInv == \A s \in Streams :
             /\ holding[s] \subseteq Running
             /\ reader[s] = "done" => taken[s] = produced[s] /\ holding[s] = {}

LEMMA PipeGroup ==
  ASSUME TypeOK, PipeInv, NEW p \in Procs, GroupStep(p) PROVE PipeInv'
<1> USE DEF PipeInv, Running
<1>0. /\ Children \subseteq Procs /\ proc \in [Procs -> {"none", "running", "zombie", "gone"}]
      /\ holding \in Holders
  BY DEF Procs, TypeOK
<1>1. CASE Exits(p)
  <2>1. /\ \A q \in Procs : q # p => proc'[q] = proc[q]
        /\ UNCHANGED <<reader, taken, produced>>
    BY <1>0, <1>1 DEF Exits, handlerVars, pipeVars
  <2>2. \A s \in Streams : holding'[s] = holding[s] \ {p}
    BY <1>1 DEF Exits, Released
  <2>3. QED
    BY <2>1, <2>2
<1>2. ASSUME NEW c \in Children, Fork(p, c) PROVE PipeInv'
  <2>1. PICK inherited \in SUBSET {s \in Streams : p \in holding[s]} :
          holding' = [s \in Streams |-> IF s \in inherited THEN holding[s] \cup {c} ELSE holding[s]]
    BY <1>2 DEF Fork
  <2>2. /\ \A q \in Procs : proc'[q] = IF q = c THEN "running" ELSE proc[q]
        /\ UNCHANGED <<reader, taken, produced>>
    BY <1>0, <1>2 DEF Fork, handlerVars, pipeVars
  <2>3. QED
    BY <1>0, <2>1, <2>2
<1>3. ASSUME NEW s \in Streams, Output(p, s) PROVE PipeInv'
  BY <1>3 DEF Output, handlerVars, groupVars, TypeOK
<1>4. ASSUME NEW s \in Streams, CloseOutput(p, s) PROVE PipeInv'
  BY <1>0, <1>4 DEF CloseOutput, Holders, handlerVars, pipeVars
<1>5. CASE LeaveGroup(p)
  BY <1>5 DEF LeaveGroup, handlerVars, pipeVars
<1>6. QED
  BY <1>1, <1>2, <1>3, <1>4, <1>5 DEF GroupStep

LEMMA PipeStep == TypeOK /\ PipeInv /\ [Next]_vars => PipeInv'
<1> SUFFICES ASSUME TypeOK, PipeInv, [Next]_vars PROVE PipeInv'
  OBVIOUS
<1> USE DEF PipeInv, Running
<1>0. /\ Leader \in Procs /\ proc \in [Procs -> {"none", "running", "zombie", "gone"}]
      /\ reader \in [Streams -> {"off", "reading", "locking", "writing", "done"}]
  BY DEF Procs, TypeOK
<1>1. CASE StartCommand
  BY <1>0, <1>1 DEF StartCommand
<1>2. CASE Reap
  <2>1. /\ \A q \in Procs : proc'[q] = "running" <=> proc[q] = "running"
        /\ UNCHANGED <<holding, reader, taken, produced>>
    BY <1>0, <1>2 DEF Reap, pipeVars
  <2>2. QED
    BY <2>1
<1>3. CASE HandlerStep /\ ~StartCommand /\ ~Reap
  BY <1>3 DEF HandlerStep, ParseStep, ReadRequest, Parsed, TooLarge, RequestBreaksOff, LeaveParse,
     Refuse, StartFails, Drained, HandOver, LockForReply, Reply, groupVars, pipeVars, handlerVars
<1>4. ASSUME NEW r \in Streams, ReaderStep(r) PROVE PipeInv'
  <2>1. UNCHANGED groupVars
    BY <1>4 DEF ReaderStep, ReadChunk, ReadEOF, LockForChunk, WriteChunk
  <2>2. \A s \in Streams : /\ s # r => reader'[s] = reader[s] /\ taken'[s] = taken[s]
                           /\ produced'[s] = produced[s]
    BY <1>0, <1>4 DEF ReaderStep, ReadChunk, ReadEOF, LockForChunk, WriteChunk, pipeVars, TypeOK
  <2>3. reader'[r] = "done" => taken'[r] = produced[r] /\ holding[r] = {}
    BY <1>0, <1>4 DEF ReaderStep, ReadChunk, ReadEOF, LockForChunk, WriteChunk, pipeVars
  <2>4. QED
    BY <2>1, <2>2, <2>3 DEF groupVars
<1>5. ASSUME NEW p \in Procs, GroupStep(p) PROVE PipeInv'
  BY <1>5, PipeGroup
<1>6. CASE WatcherStep
  <2>1. UNCHANGED <<reader, taken, produced>>
    BY <1>6 DEF WatcherStep, Cancel, GraceExpires, handlerVars, pipeVars
  <2>2. CASE UNCHANGED <<proc, holding>>
    BY <2>1, <2>2
  <2>3. CASE proc' = [proc EXCEPT ![Leader] = "zombie"] /\ holding' = Released(Leader)
    <3>1. \A q \in Procs : q # Leader => proc'[q] = proc[q]
      BY <1>0, <2>3
    <3>2. \A s \in Streams : holding'[s] = holding[s] \ {Leader}
      BY <2>3 DEF Released
    <3>3. QED
      BY <2>1, <3>1, <3>2
  <2>4. QED
    BY <1>6, <2>2, <2>3 DEF WatcherStep, Cancel, GraceExpires
<1>7. CASE \/ \E last \in {"open", "valid", "invalid"} : Type(last)
           \/ Disconnect \/ Stall \/ Resume \/ ShutdownCancels \/ TimeoutFires
           \/ Over \/ UNCHANGED vars
  BY <1>7 DEF Type, Disconnect, Stall, Resume, ShutdownCancels, TimeoutFires, ContextDone,
              Over, vars, handlerVars, groupVars, pipeVars
<1>8. QED
  BY <1>1, <1>2, <1>3, <1>4, <1>5, <1>6, <1>7 DEF Next

-----------------------------------------------------------------------------
(* A connection that was not lost before the answer has had every chunk    *)
(* that is read, but for the one its reader has in hand.                   *)
Unbroken == client # "gone" \/ \E e \in Ends : Answered(e)
InHand(s) == IF reader[s] \in {"locking", "writing"} THEN 1 ELSE 0
DeliveredInv == Unbroken => \A s \in Streams : Delivered(s) = taken[s] - InHand(s)

LEMMA DeliveredAppended ==
  ASSUME NEW S, sent \in Seq(S), NEW x \in S, sent' = Append(sent, x), NEW s
  PROVE  /\ Delivered(s) \in Nat
         /\ Delivered(s)' = Delivered(s) + (IF x[1] = s THEN 1 ELSE 0)
<1> DEFINE Of(q) == {i \in DOMAIN q : q[i][1] = s}
<1>1. /\ DOMAIN sent' = DOMAIN sent \cup {Len(sent) + 1}
      /\ \A i \in DOMAIN sent : sent'[i] = sent[i]
      /\ sent'[Len(sent) + 1] = x /\ Len(sent) + 1 \notin DOMAIN sent
  BY LastAppended
<1>2. IsFiniteSet(Of(sent))
  <2>1. DOMAIN sent = 1..Len(sent) /\ Len(sent) \in Int
    OBVIOUS
  <2>2. IsFiniteSet(DOMAIN sent)
    BY <2>1, FS_Interval
  <2>3. QED
    BY <2>2, FS_Subset
<1>3. Cardinality(Of(sent)) \in Nat
  BY <1>2, FS_CardinalityType
<1>4. Delivered(s) = Cardinality(Of(sent)) /\ Delivered(s)' = Cardinality(Of(sent'))
  BY DEF Delivered
<1>5. CASE x[1] = s
  <2>1. Of(sent') = Of(sent) \cup {Len(sent) + 1} /\ Len(sent) + 1 \notin Of(sent)
    BY <1>1, <1>5
  <2>2. Cardinality(Of(sent')) = Cardinality(Of(sent)) + 1
    BY <1>2, <2>1, FS_AddElement
  <2>3. QED
    BY <1>3, <1>4, <1>5, <2>2
<1>6. CASE x[1] # s
  <2>1. Of(sent') = Of(sent)
    BY <1>1, <1>6
  <2>2. Cardinality(Of(sent')) = Cardinality(Of(sent))
    BY <2>1
  <2> HIDE DEF Of
  <2>3. QED
    BY <1>3, <1>4, <1>6, <2>2
<1>7. QED
  BY <1>5, <1>6

AllInv == TypeInv /\ StageInv /\ ResultInv /\ AnswerInv /\ PipeInv /\ DeliveredInv

(* Nothing is appended, and the reader has in hand what it has read more.  *)
LEMMA DeliveredKept ==
  ASSUME DeliveredInv, UNCHANGED sent, client' # "gone" => client # "gone",
         Unbroken' => \A s \in Streams : taken'[s] - InHand(s)' = taken[s] - InHand(s)
  PROVE  DeliveredInv'
<1>1. SUFFICES ASSUME Unbroken', NEW s \in Streams PROVE Delivered(s)' = taken'[s] - InHand(s)'
  BY DEF DeliveredInv
<1>2. Unbroken
  BY <1>1 DEF Unbroken, Answered
<1>3. Delivered(s)' = Delivered(s)
  BY DEF Delivered
<1>4. QED
  BY <1>1, <1>2, <1>3 DEF DeliveredInv

(* A response is appended by somebody who found the connection open.       *)
LEMMA DeliveredMore ==
  ASSUME AllInv, client = "open", NEW x \in (Streams \cup Ends) \X (0..MaxChunks),
         sent' = Append(sent, x),
         \A s \in Streams : taken'[s] - InHand(s)' = taken[s] - InHand(s) + (IF x[1] = s THEN 1 ELSE 0)
  PROVE  DeliveredInv'
<1>1. SUFFICES ASSUME NEW s \in Streams PROVE Delivered(s)' = taken'[s] - InHand(s)'
  BY DEF DeliveredInv
<1>2. Delivered(s) = taken[s] - InHand(s)
  BY DEF AllInv, DeliveredInv, Unbroken
<1>3. Delivered(s)' = Delivered(s) + (IF x[1] = s THEN 1 ELSE 0)
  <2> DEFINE Responses == (Streams \cup Ends) \X (0..MaxChunks)
  <2>1. sent \in Seq(Responses) /\ x \in Responses
    BY DEF AllInv, TypeInv, TypeOK
  <2> HIDE DEF Responses
  <2>2. QED
    BY <2>1, DeliveredAppended
<1>4. QED
  BY <1>2, <1>3

LEMMA DeliveredReader ==
  ASSUME AllInv, NEW r \in Streams, ReaderStep(r) PROVE DeliveredInv'
<1>0. /\ reader \in [Streams -> {"off", "reading", "locking", "writing", "done"}]
      /\ taken \in [Streams -> 0..MaxChunks] /\ MaxChunks \in Nat /\ DeliveredInv
  BY ChunksAssumption DEF AllInv, TypeInv, TypeOK
<1>1. CASE ReadChunk(r)
  <2>1. \A s \in Streams : taken'[s] - InHand(s)' = taken[s] - InHand(s)
    BY <1>0, <1>1 DEF ReadChunk, InHand
  <2>2. QED
    BY <1>0, <1>1, <2>1, DeliveredKept DEF ReadChunk, connVars
<1>2. CASE ReadEOF(r) \/ LockForChunk(r)
  <2>1. \A s \in Streams : taken'[s] - InHand(s)' = taken[s] - InHand(s)
    BY <1>0, <1>2 DEF ReadEOF, LockForChunk, pipeVars, InHand
  <2>2. QED
    BY <1>0, <1>2, <2>1, DeliveredKept DEF ReadEOF, LockForChunk, connVars
<1>3. CASE WriteChunk(r)
  <2>1. CASE client = "open"
    <3>1. \A s \in Streams :
            taken'[s] - InHand(s)' = taken[s] - InHand(s) + (IF r = s THEN 1 ELSE 0)
      BY <1>0, <1>3 DEF WriteChunk, pipeVars, InHand
    <3>2. <<r, taken[r]>> \in (Streams \cup Ends) \X (0..MaxChunks) /\ <<r, taken[r]>>[1] = r
      BY <1>0
    <3>3. sent' = Append(sent, <<r, taken[r]>>)
      BY <1>3, <2>1 DEF WriteChunk, Write
    <3>4. QED
      BY <2>1, <3>1, <3>2, <3>3, DeliveredMore
  <2>2. CASE client # "open"
    <3>1. client = "gone" /\ UNCHANGED <<client, sent, pc>>
      BY <1>3, <2>2 DEF WriteChunk, Write, AllInv, TypeInv, TypeOK
    <3>2. ~Unbroken'
      BY <1>3, <3>1 DEF Unbroken, Answered, WriteChunk, AllInv, AnswerInv, StageInv, LateInv, Late,
                        ReadersAre
    <3>3. QED
      BY <3>2 DEF DeliveredInv
  <2>3. QED
    BY <2>1, <2>2
<1>4. QED
  BY <1>1, <1>2, <1>3 DEF ReaderStep

LEMMA DeliveredHandler ==
  ASSUME AllInv, HandlerStep PROVE DeliveredInv'
<1>0. DeliveredInv /\ TypeOK /\ 0 \in 0..MaxChunks
  BY ChunksAssumption DEF AllInv, TypeInv
<1>1. CASE UNCHANGED <<reader, taken, sent, client>>
  BY <1>0, <1>1, DeliveredKept DEF InHand
<1>2. ASSUME client = "open", sent' = Append(sent, <<result, 0>>), result \in Ends,
             UNCHANGED <<reader, taken>>
      PROVE  DeliveredInv'
  <2>1. \A s \in Streams : taken'[s] - InHand(s)' = taken[s] - InHand(s) + 0 /\ result # s
    BY <1>0, <1>2, ChunksAssumption, StreamsDistinct DEF InHand, TypeOK
  <2>2. <<result, 0>> \in (Streams \cup Ends) \X (0..MaxChunks) /\ <<result, 0>>[1] = result
    BY <1>0, <1>2
  <2>3. \A s \in Streams : taken'[s] - InHand(s)'
                            = taken[s] - InHand(s) + (IF <<result, 0>>[1] = s THEN 1 ELSE 0)
    BY <2>1, <2>2
  <2>4. QED
    BY <1>2, <2>2, <2>3, DeliveredMore
<1>3. CASE Refuse
  BY <1>1, <1>2, <1>3 DEF Refuse, AllInv, TypeInv, pipeVars
<1>4. CASE Reply
  BY <1>0, <1>1, <1>2, <1>4 DEF Reply, Write, AllInv, TypeInv, pipeVars
<1>5. CASE StartCommand
  <2>1. \A s \in Streams : InHand(s) = 0 /\ InHand(s)' = 0
    BY <1>0, <1>5 DEF StartCommand, InHand, AllInv, StageInv, EarlyInv, Early, ReadersAre, TypeOK
  <2>2. QED
    BY <1>0, <1>5, <2>1, DeliveredKept DEF StartCommand, pipeVars, connVars
<1>6. CASE HandlerStep /\ ~Refuse /\ ~Reply /\ ~StartCommand
  BY <1>1, <1>6 DEF HandlerStep, ParseStep, ReadRequest, Parsed, TooLarge, RequestBreaksOff,
     LeaveParse, StartFails, Drained, Reap, HandOver, LockForReply, handlerVars, pipeVars, connVars
<1>7. QED
  BY <1>3, <1>4, <1>5, <1>6

LEMMA DeliveredStep == AllInv /\ [Next]_vars => DeliveredInv'
<1> SUFFICES ASSUME AllInv, [Next]_vars PROVE DeliveredInv'
  OBVIOUS
<1>1. CASE UNCHANGED <<reader, taken, sent>> /\ (client' # "gone" => client # "gone")
  BY <1>1, DeliveredKept DEF InHand, AllInv
<1>2. CASE \/ WatcherStep
           \/ \E last \in {"open", "valid", "invalid"} : Type(last)
           \/ Disconnect \/ Stall \/ Resume \/ ShutdownCancels \/ TimeoutFires
           \/ \E p \in Procs : GroupStep(p)
           \/ Over \/ UNCHANGED vars
  BY <1>1, <1>2 DEF WatcherStep, Cancel, GraceExpires, Type, Disconnect, Stall, Resume,
     ShutdownCancels, TimeoutFires, ContextDone, GroupStep, Fork, LeaveGroup, Exits, Output,
     CloseOutput, Over, vars, handlerVars, pipeVars, connVars
<1>3. QED
  BY <1>2, DeliveredHandler, DeliveredReader DEF Next

LEMMA AllInit == Init => AllInv
<1> SUFFICES ASSUME Init PROVE AllInv
  OBVIOUS
<1>1. ResultInv /\ PipeInv
  BY DEF Init, ResultInv, PipeInv, Procs
<1>2. AnswerInv
  BY DEF Init, AnswerInv, Answered
<1>3. DeliveredInv
  <2>1. \A s \in Streams : Delivered(s) = 0
    BY FS_EmptySet DEF Init, Delivered
  <2>2. QED
    BY <2>1 DEF Init, DeliveredInv, InHand
<1>4. QED
  BY <1>1, <1>2, <1>3, TypeInit, StageInit DEF AllInv

LEMMA AllStep == AllInv /\ [Next]_vars => AllInv'
BY TypeStep, StageStep, ResultStep, AnswerStep, PipeStep, DeliveredStep DEF AllInv, TypeInv

LEMMA AllInvariant == Spec => []AllInv
BY AllInit, AllStep, PTL DEF Spec

(* The exit code is that of bash, and an error means that the command did  *)
(* not run or was cancelled.                                               *)
THEOREM TrueAnswer == Spec => []AnswerTruthful
<1>1. AllInv => AnswerTruthful
  BY DEF AllInv, AnswerInv, ResultInv, AnswerTruthful, Ends
<1>2. QED
  BY <1>1, AllInvariant, PTL

(* An exit code comes after all the output there will ever be. *)
THEOREM OutputFirst == Spec => []ExitAfterAllOutput
<1>1. ASSUME AllInv PROVE ExitAfterAllOutput
  <2> SUFFICES ASSUME NEW e \in {"zero", "nonzero"}, Answered(e), NEW s \in Streams
               PROVE  Delivered(s) = produced[s] /\ holding[s] = {}
    BY DEF ExitAfterAllOutput
  <2>1. e \in Ends /\ Unbroken
    BY DEF Ends, Unbroken
  <2>2. reader[s] = "done"
    BY <1>1, <2>1 DEF AllInv, AnswerInv, ResultInv, ReadersAre
  <2>3. taken[s] \in Nat
    BY <1>1, ChunksAssumption DEF AllInv, TypeInv, TypeOK
  <2>4. Delivered(s) = taken[s] - InHand(s)
    BY <1>1, <2>1 DEF AllInv, DeliveredInv
  <2>5. InHand(s) = 0
    BY <2>2 DEF InHand
  <2>6. QED
    BY <1>1, <2>2, <2>3, <2>4, <2>5 DEF AllInv, PipeInv
<1>2. QED
  BY <1>1, AllInvariant, PTL

(* No two of the goroutines of a command, and none of them and bash, wait  *)
(* for each other: whatever one waits for is under way.                    *)
THEOREM NoCircularWait == Spec => []WaitsForSomethingUnderWay
<1>1. ASSUME AllInv PROVE WaitsForSomethingUnderWay
  <2>1. ASSUME NEW s \in Streams, reader[s] = "locking", writeMu # "none"
        PROVE  writeMu \in Streams \ {s} /\ reader[writeMu] = "writing"
    <3>1. pc # "reply"
      BY <1>1, <2>1 DEF AllInv, StageInv, LateInv, Late, ReadersAre
    <3>2. writeMu \in Streams
      BY <1>1, <2>1, <3>1 DEF AllInv, TypeInv, TypeOK, StageInv, MutexInv
    <3>3. QED
      BY <1>1, <2>1, <3>2 DEF AllInv, StageInv, MutexInv
  <2>2. ASSUME pc = "respond" PROVE writeMu = "none"
    BY <1>1, <2>2 DEF AllInv, TypeInv, TypeOK, StageInv, LateInv, Late, ReadersAre, MutexInv
  <2>3. ASSUME pc = "drain", NEW s \in Streams PROVE reader[s] # "off"
    BY <1>1, <2>3 DEF AllInv, StageInv, RunInv
  <2>4. QED
    BY <1>1, <2>1, <2>2, <2>3
       DEF AllInv, StageInv, RunInv, Watching, PipeInv, WaitsForSomethingUnderWay
<1>2. QED
  BY <1>1, AllInvariant, PTL

-----------------------------------------------------------------------------
(* Whoever appends finds the stream open: a chunk is the next of its       *)
(* stream, and the answer is the first end.                                *)
LEMMA OpenStream == AllInv /\ pc # "done" => ~Promise!Ended
BY StreamsDistinct DEF AllInv, AnswerInv, Promise!Ended

LEMMA ChunkIsNext ==
  ASSUME AllInv, NEW s \in Streams, WriteChunk(s) PROVE [Promise!Next]_sent
<1>1. CASE UNCHANGED sent
  BY <1>1
<1>2. CASE client = "open" /\ sent' = Append(sent, <<s, taken[s]>>)
  <2>1. pc # "done" /\ InHand(s) = 1
    BY DEF WriteChunk, AllInv, StageInv, LateInv, Late, ReadersAre, InHand
  <2>2. taken[s] \in Nat
    BY ChunksAssumption DEF AllInv, TypeInv, TypeOK
  <2>3. taken[s] = Delivered(s) + 1
    <3>1. Delivered(s) = taken[s] - InHand(s)
      BY <1>2 DEF AllInv, DeliveredInv, Unbroken
    <3>2. QED
      BY <2>1, <2>2, <3>1
  <2>4. Promise!Sent(s) = Delivered(s)
    BY Zenon DEF Promise!Sent, Delivered, Cardinality, Promise!Cardinality
  <2>5. Promise!Chunk(s)
    BY <1>2, <2>1, <2>3, <2>4, OpenStream DEF Promise!Chunk
  <2>6. QED
    BY <2>5 DEF Promise!Next
<1>3. QED
  BY <1>1, <1>2 DEF WriteChunk, Write

LEMMA ResponseStep == AllInv /\ [Next]_vars => [Promise!Next]_sent
<1> SUFFICES ASSUME AllInv, [Next]_vars PROVE [Promise!Next]_sent
  OBVIOUS
<1>1. CASE UNCHANGED sent
  BY <1>1
<1>2. ASSUME NEW s \in Streams, WriteChunk(s) PROVE [Promise!Next]_sent
  BY <1>2, ChunkIsNext
<1>3. CASE Refuse \/ Reply
  <2>1. result \in Ends /\ pc # "done"
    BY <1>3 DEF Refuse, Reply, AllInv, TypeInv
  <2>2. sent' \in {sent, Append(sent, <<result, 0>>)}
    BY <1>3 DEF Refuse, Reply, Write
  <2>3. QED
    BY <1>1, <2>1, <2>2, OpenStream DEF Promise!End, Promise!Next
<1>4. CASE HandlerStep /\ ~Refuse /\ ~Reply
  BY <1>1, <1>4 DEF HandlerStep, ParseStep, ReadRequest, Parsed, TooLarge, RequestBreaksOff,
     LeaveParse, StartCommand, StartFails, Drained, Reap, HandOver, LockForReply, connVars
<1>5. ASSUME NEW s \in Streams, ReadChunk(s) \/ ReadEOF(s) \/ LockForChunk(s)
      PROVE  [Promise!Next]_sent
  BY <1>1, <1>5 DEF ReadChunk, ReadEOF, LockForChunk, connVars
<1>6. CASE \/ WatcherStep
           \/ \E last \in {"open", "valid", "invalid"} : Type(last)
           \/ Disconnect \/ Stall \/ Resume \/ ShutdownCancels \/ TimeoutFires
           \/ \E p \in Procs : GroupStep(p)
           \/ Over \/ UNCHANGED vars
  BY <1>1, <1>6 DEF WatcherStep, Cancel, GraceExpires, Type, Disconnect, Stall, Resume,
     ShutdownCancels, TimeoutFires, ContextDone, GroupStep, Fork, LeaveGroup, Exits, Output,
     CloseOutput, Over, vars, connVars
<1>7. QED
  BY <1>2, <1>3, <1>4, <1>5, <1>6 DEF Next, ReaderStep

(* What the client of a command is sent is a behaviour of ResponseStream.  *)
THEOREM ResponseImplementation == Spec => ImplementsResponseStream
<1>1. Init => Promise!Init
  BY DEF Init, Promise!Init
<1>2. QED
  BY <1>1, ResponseStep, AllInvariant, PTL DEF Spec, ImplementsResponseStream, Promise!Spec
=============================================================================

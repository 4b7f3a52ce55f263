--------------------------- MODULE CommandProofs ---------------------------
(***************************************************************************)
(* How a command comes about, for a request line of any length in any      *)
(* pieces and for any environment that is asked for: it is executed when   *)
(* it is whole, valid and within the limit, and it starts with the         *)
(* protected variables as the service has them.                            *)
(***************************************************************************)
EXTENDS Command, TLAPS

(* Accepted entries set no protected variable, and the merge keeps what no *)
(* accepted entry sets.                                                    *)
LEMMA MergeGuards ==
  ASSUME NEW parent, NEW keys \in SUBSET Keys PROVE Guarded(parent, Merge(parent, keys))
<1> DEFINE asked == {Variable(k) : k \in Accepted(keys)}
<1>1. SUFFICES ASSUME NEW v \in Variables, v.name \in blockedEnvVars \cup blockedByPrefix
               PROVE  v \notin asked
  BY DEF Guarded, Merge
<1>2. \A k \in Accepted(keys) : Variable(k).name \notin blockedEnvVars \cup blockedByPrefix
  BY DEF Accepted, isBlockedEnvVar, Variable
<1>3. QED
  BY <1>1, <1>2

-----------------------------------------------------------------------------
(* What is read of the line is sent, and within the limit. *)
RequestInv == /\ line \in {"open", "valid", "invalid"}
              /\ typed \in 0..(MaxRequest + 1) /\ got \in 0..MaxRequest
              /\ got <= typed

(* Only ParseRequest and the client touch the line. *)
LEMMA RequestStep == RequestInv /\ [Next]_vars => RequestInv'
<1> SUFFICES ASSUME RequestInv, [Next]_vars PROVE RequestInv'
  OBVIOUS
<1>0. MaxRequest \in Nat
  BY RequestAssumption
<1>1. CASE UNCHANGED requestVars
  BY <1>1 DEF RequestInv, requestVars
<1>2. ASSUME NEW last \in {"open", "valid", "invalid"}, Type(last) PROVE RequestInv'
  BY <1>0, <1>2 DEF Type, RequestInv
<1>3. CASE ReadRequest
  BY <1>0, <1>3 DEF ReadRequest, RequestInv
<1>4. ASSUME NEW to, LeaveParse(to) PROVE RequestInv'
  BY <1>0, <1>4 DEF LeaveParse, RequestInv
<1>5. CASE ParseStep
  BY <1>1, <1>3, <1>4, <1>5 DEF ParseStep, Parsed, TooLarge, RequestBreaksOff, Refuse
<1>6. CASE HandlerStep /\ ~ParseStep
  BY <1>1, <1>6 DEF HandlerStep, StartCommand, StartFails, Drained, Reap, HandOver, LockForReply,
                    Reply, Write, connVars
<1>7. ASSUME NEW s \in Streams, ReaderStep(s) PROVE RequestInv'
  BY <1>1, <1>7 DEF ReaderStep, ReadChunk, ReadEOF, LockForChunk, WriteChunk, Write, connVars
<1>8. CASE WatcherStep
  BY <1>1, <1>8 DEF WatcherStep, Cancel, GraceExpires, connVars
<1>9. CASE \/ Disconnect \/ Stall \/ Resume \/ ShutdownCancels \/ TimeoutFires
           \/ \E p \in Procs : GroupStep(p)
           \/ Over \/ UNCHANGED vars
  BY <1>1, <1>9 DEF Disconnect, Stall, Resume, ShutdownCancels, TimeoutFires, ContextDone, GroupStep,
                    Fork, LeaveGroup, Exits, Output, CloseOutput, Over, vars, connVars
<1>10. QED
  BY <1>2, <1>5, <1>6, <1>7, <1>8, <1>9 DEF Next

(* A line is executed if and only if it is a command within the limit, for *)
(* every limit and every way it is sent and read.                          *)
THEOREM LimitExact == Spec => RequestAccepted
<1>1. Init => RequestInv
  BY RequestAssumption DEF Init, RequestInv
<1>2. RequestInv /\ [Next]_vars
        => [pc = "parse" /\ pc' # "parse"
              => (pc' = "start" <=> line = "valid" /\ typed <= MaxRequest)]_vars
  <2> SUFFICES ASSUME RequestInv, Next, pc = "parse", pc' # "parse"
               PROVE  pc' = "start" <=> line = "valid" /\ typed <= MaxRequest
    OBVIOUS
  <2>0. MaxRequest \in Nat
    BY RequestAssumption
  <2>1. CASE Parsed
    BY <2>0, <2>1 DEF Parsed, LeaveParse, RequestInv
  <2>2. CASE TooLarge
    BY <2>0, <2>2 DEF TooLarge, LeaveParse, RequestInv
  <2>3. CASE RequestBreaksOff
    BY <2>3 DEF RequestBreaksOff, LeaveParse
  <2>4. Parsed \/ TooLarge \/ RequestBreaksOff
    BY DEF Next, HandlerStep, ParseStep, ReadRequest, Refuse, StartCommand, StartFails, Drained,
           Reap, HandOver, LockForReply, Reply, ReaderStep, ReadChunk, ReadEOF, LockForChunk,
           WriteChunk, WatcherStep, Cancel, GraceExpires, Type, Disconnect, Stall, Resume,
           ShutdownCancels, TimeoutFires, ContextDone, GroupStep, Fork, LeaveGroup, Exits, Output,
           CloseOutput, Over, handlerVars, vars
  <2>5. QED
    BY <2>1, <2>2, <2>3, <2>4
<1>3. QED
  BY <1>1, <1>2, RequestStep, PTL DEF Spec, RequestAccepted

-----------------------------------------------------------------------------
(* A bash that was started has the merged environment. *)
EnvInv == /\ DOMAIN proc = Procs
          /\ proc[Leader] # "none" => env = Merge(ServiceEnv, AskedEnv)

(* Only StartCommand starts it. *)
LEMMA EnvStep == EnvInv /\ [Next]_vars => EnvInv'
<1> SUFFICES ASSUME EnvInv, [Next]_vars PROVE EnvInv'
  OBVIOUS
<1>1. CASE UNCHANGED <<env, proc>>
  BY <1>1 DEF EnvInv
<1>2. CASE StartCommand
  BY <1>2 DEF StartCommand, EnvInv
<1>3. ASSUME NEW p \in Procs, NEW c \in Children, Fork(p, c) PROVE EnvInv'
  BY <1>3, ProcsAssumption DEF Fork, EnvInv, Procs
<1>4. ASSUME NEW p \in Procs, Exits(p) PROVE EnvInv'
  BY <1>4 DEF Exits, EnvInv, Procs
<1>5. CASE Reap
  BY <1>5 DEF Reap, EnvInv
<1>6. CASE GraceExpires
  <2>1. CASE proc[Leader] = "running"
    BY <1>6, <2>1 DEF GraceExpires, EnvInv
  <2>2. CASE proc[Leader] # "running"
    BY <1>1, <1>6, <2>2 DEF GraceExpires
  <2>3. QED
    BY <2>1, <2>2
<1>7. CASE HandlerStep /\ ~StartCommand /\ ~Reap
  BY <1>1, <1>7 DEF HandlerStep, ParseStep, ReadRequest, Parsed, TooLarge, RequestBreaksOff,
                    LeaveParse, Refuse, StartFails, Drained, HandOver, LockForReply, Reply, groupVars
<1>8. ASSUME NEW s \in Streams, ReaderStep(s) PROVE EnvInv'
  BY <1>1, <1>8 DEF ReaderStep, ReadChunk, ReadEOF, LockForChunk, WriteChunk, groupVars
<1>9. CASE \/ \E last \in {"open", "valid", "invalid"} : Type(last)
           \/ Disconnect \/ Stall \/ Resume \/ ShutdownCancels \/ TimeoutFires \/ Cancel
           \/ \E p \in Procs : LeaveGroup(p) \/ \E s \in Streams : Output(p, s) \/ CloseOutput(p, s)
           \/ Over \/ UNCHANGED vars
  BY <1>1, <1>9 DEF Type, Disconnect, Stall, Resume, ShutdownCancels, TimeoutFires, ContextDone,
                    Cancel, LeaveGroup, Output, CloseOutput, Over, vars, groupVars
<1>10. QED
  BY <1>2, <1>3, <1>4, <1>5, <1>6, <1>7, <1>8, <1>9 DEF Next, HandlerStep, WatcherStep, GroupStep

(* No request, whatever its keys, changes a variable the service protects. *)
THEOREM ProtectedVariables == Spec => []EnvironmentGuarded
<1>1. Init => EnvInv
  BY DEF Init, EnvInv, Procs
<1>2. EnvInv => EnvironmentGuarded
  BY MergeGuards, EnvAssumption DEF EnvInv, EnvironmentGuarded
<1>3. QED
  BY <1>1, <1>2, EnvStep, PTL DEF Spec

-----------------------------------------------------------------------------
(* Types.  A response that ends the stream is the result of Run, which is  *)
(* there by then.                                                          *)
TypeInv == /\ TypeOK /\ RequestInv
           /\ pc \in {"refuse", "respond", "reply", "done"} => result \in Ends

LEMMA MergeTyped ==
  ASSUME NEW parent \in SUBSET Variables, NEW keys \in SUBSET Keys
  PROVE  Merge(parent, keys) \in UNION {[V -> {"service", "request"}] : V \in SUBSET Variables}
<1> DEFINE asked == {Variable(k) : k \in Accepted(keys)}
           V == parent \cup asked
<1>1. asked \subseteq Variables
  BY DEF Accepted, Variable, Keys, Variables
<1>2. V \in SUBSET Variables
  BY <1>1
<1>3. Merge(parent, keys) \in [V -> {"service", "request"}]
  BY DEF Merge
<1>4. QED
  BY <1>2, <1>3

LEMMA WriteTyped ==
  ASSUME TypeOK, NEW response \in (Streams \cup Ends) \X (0..MaxChunks), Write(response)
  PROVE  /\ cause' \in {"none", "parent", "timeout", "write"}
         /\ writeMu' = "none"
         /\ sent' \in Seq((Streams \cup Ends) \X (0..MaxChunks))
         /\ UNCHANGED <<line, typed, got, client>>
<1> DEFINE Responses == (Streams \cup Ends) \X (0..MaxChunks)
<1>1. sent \in Seq(Responses) /\ response \in Responses
  BY DEF TypeOK
<1>2. Append(sent, response) \in Seq(Responses)
  <2> HIDE DEF Responses
  <2> QED BY <1>1
<1>3. sent' \in Seq(Responses)
  BY <1>1, <1>2 DEF Write
<1>4. cause' \in {"none", "parent", "timeout", "write"}
  BY DEF TypeOK, Write, Cancelled
<1>5. QED
  BY <1>3, <1>4 DEF Write, requestVars

LEMMA TypeParse == ASSUME TypeInv, ParseStep, RequestInv' PROVE TypeInv'
<1>0. 0 \in 0..MaxChunks
  BY ChunksAssumption
<1>1. CASE ReadRequest
  BY <1>1 DEF ReadRequest, TypeInv, TypeOK, RequestInv, ctxVars, groupVars, pipeVars, connVars,
              handlerVars
<1>2. ASSUME NEW to \in {"start", "refuse"}, LeaveParse(to), pc = "parse" PROVE TypeInv'
  BY <1>2 DEF LeaveParse, TypeInv, TypeOK, RequestInv, ctxVars, groupVars, pipeVars, Ends
<1>3. CASE Refuse
  <2>1. sent' \in Seq((Streams \cup Ends) \X (0..MaxChunks))
    BY <1>0, <1>3 DEF Refuse, TypeInv, TypeOK, RequestInv
  <2>2. QED
    BY <1>3, <2>1 DEF Refuse, TypeInv, TypeOK, RequestInv, ctxVars, groupVars, pipeVars, requestVars
<1>4. QED
  BY <1>1, <1>2, <1>3 DEF ParseStep, Parsed, TooLarge, RequestBreaksOff

LEMMA TypeHandler == ASSUME TypeInv, HandlerStep, ~ParseStep, RequestInv' PROVE TypeInv'
<1>0. 0 \in 0..MaxChunks /\ Leader \in Procs
  BY ChunksAssumption DEF Procs
<1>1. CASE StartCommand
  <2>1. env' \in UNION {[V -> {"service", "request"}] : V \in SUBSET Variables}
    BY <1>1, MergeTyped, EnvAssumption DEF StartCommand
  <2>2. holding' \in Holders
    BY <1>0, <1>1 DEF StartCommand, Holders
  <2>3. reader' \in [Streams -> {"off", "reading", "locking", "writing", "done"}]
    BY <1>1 DEF StartCommand
  <2>4. proc' \in [Procs -> {"none", "running", "zombie", "gone"}]
    BY <1>0, <1>1 DEF StartCommand, TypeInv, TypeOK
  <2>5. QED
    BY <1>1, <2>1, <2>2, <2>3, <2>4
       DEF StartCommand, TypeInv, TypeOK, RequestInv, connVars, pipeVars, requestVars
<1>2. CASE StartFails \/ Drained
  BY <1>2 DEF StartFails, Drained, TypeInv, TypeOK, RequestInv, ctxVars, groupVars, pipeVars,
              connVars, requestVars, Ends
<1>3. CASE Reap
  BY <1>0, <1>3 DEF Reap, TypeInv, TypeOK, RequestInv, ctxVars, pipeVars, connVars, requestVars
<1>4. CASE HandOver \/ LockForReply
  BY <1>4 DEF HandOver, LockForReply, TypeInv, TypeOK, RequestInv, ctxVars, groupVars, pipeVars,
              connVars, requestVars, Ends
<1>5. CASE Reply
  <2>1. <<result, 0>> \in (Streams \cup Ends) \X (0..MaxChunks)
    BY <1>0, <1>5 DEF Reply, TypeInv
  <2>2. QED
    BY <1>5, <2>1, WriteTyped DEF Reply, TypeInv, TypeOK, RequestInv, groupVars, pipeVars
<1>6. QED
  BY <1>1, <1>2, <1>3, <1>4, <1>5 DEF HandlerStep

LEMMA TypeReader ==
  ASSUME TypeInv, NEW s \in Streams, ReaderStep(s), RequestInv' PROVE TypeInv'
<1>1. CASE ReadChunk(s)
  <2>1. taken' \in [Streams -> 0..MaxChunks]
    BY <1>1, ChunksAssumption DEF ReadChunk, TypeInv, TypeOK
  <2>2. QED
    BY <1>1, <2>1 DEF ReadChunk, TypeInv, TypeOK, RequestInv, ctxVars, groupVars, connVars, requestVars
<1>2. CASE ReadEOF(s)
  BY <1>2 DEF ReadEOF, TypeInv, TypeOK, RequestInv, ctxVars, groupVars, pipeVars, connVars, requestVars
<1>3. CASE LockForChunk(s)
  BY <1>3 DEF LockForChunk, TypeInv, TypeOK, RequestInv, ctxVars, groupVars, pipeVars, connVars,
              requestVars
<1>4. CASE WriteChunk(s)
  <2>1. <<s, taken[s]>> \in (Streams \cup Ends) \X (0..MaxChunks)
    BY DEF TypeInv, TypeOK
  <2>2. /\ cause' \in {"none", "parent", "timeout", "write"}
        /\ writeMu' = "none"
        /\ sent' \in Seq((Streams \cup Ends) \X (0..MaxChunks))
        /\ UNCHANGED <<line, typed, got, client>>
    BY <1>4, <2>1, WriteTyped DEF WriteChunk, TypeInv
  <2>3. QED
    BY <1>4, <2>2 DEF WriteChunk, TypeInv, TypeOK, RequestInv, groupVars, pipeVars
<1>5. QED
  BY <1>1, <1>2, <1>3, <1>4 DEF ReaderStep

LEMMA ReleasedTyped == ASSUME TypeOK, NEW p PROVE Released(p) \in Holders
BY DEF TypeOK, Released, Holders

LEMMA TypeWatcher == ASSUME TypeInv, WatcherStep, RequestInv' PROVE TypeInv'
<1>0. Leader \in Procs
  BY DEF Procs
<1>1. CASE Cancel
  <2>1. term' \subseteq Procs
    BY <1>1 DEF Cancel, Group, Running, TypeInv, TypeOK
  <2>2. QED
    BY <1>1, <2>1 DEF Cancel, TypeInv, TypeOK, RequestInv, handlerVars, pipeVars, connVars, requestVars
<1>2. CASE GraceExpires
  <2>1. /\ proc' \in [Procs -> {"none", "running", "zombie", "gone"}]
        /\ status' \in {"none", "zero", "nonzero"} /\ holding' \in Holders
    <3>1. CASE proc[Leader] = "running"
      <4>1. holding' \in Holders
        BY <1>2, <3>1, ReleasedTyped DEF GraceExpires, TypeInv
      <4>2. QED
        BY <1>0, <1>2, <3>1, <4>1 DEF GraceExpires, TypeInv, TypeOK
    <3>2. CASE proc[Leader] # "running"
      BY <1>2, <3>2 DEF GraceExpires, TypeInv, TypeOK
    <3>3. QED
      BY <3>1, <3>2
  <2>2. QED
    BY <1>2, <2>1 DEF GraceExpires, TypeInv, TypeOK, RequestInv, handlerVars, pipeVars, connVars,
                      requestVars
<1>3. QED
  BY <1>1, <1>2 DEF WatcherStep

LEMMA TypeGroup == ASSUME TypeInv, RequestInv', NEW p \in Procs, GroupStep(p) PROVE TypeInv'
<1>1. ASSUME NEW c \in Children, Fork(p, c) PROVE TypeInv'
  <2>1. c \in Procs
    BY DEF Procs
  <2>2. PICK inherited : holding' = [s \in Streams |->
                            IF s \in inherited THEN holding[s] \cup {c} ELSE holding[s]]
    BY <1>1 DEF Fork
  <2>3. holding' \in Holders
    BY <2>1, <2>2 DEF TypeInv, TypeOK, Holders
  <2>4. outside' \subseteq Children
    BY <1>1 DEF Fork, TypeInv, TypeOK
  <2>5. QED
    BY <1>1, <2>1, <2>3, <2>4 DEF Fork, TypeInv, TypeOK, RequestInv, handlerVars, ctxVars, pipeVars, connVars,
                      requestVars
<1>2. CASE Exits(p)
  <2>1. /\ proc' \in [Procs -> {"none", "running", "zombie", "gone"}]
        /\ status' \in {"none", "zero", "nonzero"} /\ holding' \in Holders
        /\ outside' \subseteq Children
    <3>1. CASE p = Leader
      BY <1>2, <3>1, ReleasedTyped DEF Exits, TypeInv, TypeOK
    <3>2. CASE p # Leader
      BY <1>2, <3>2, ReleasedTyped DEF Exits, TypeInv, TypeOK
    <3>3. QED
      BY <3>1, <3>2
  <2>2. QED
    BY <1>2, <2>1 DEF Exits, TypeInv, TypeOK, RequestInv, handlerVars, ctxVars, pipeVars, connVars,
                      requestVars
<1>3. ASSUME NEW s \in Streams, Output(p, s) PROVE TypeInv'
  <2>1. /\ produced \in [Streams -> 0..MaxChunks] /\ MaxChunks \in Nat
        /\ produced[s] < MaxChunks /\ produced' = [produced EXCEPT ![s] = @ + 1]
    BY <1>3, ChunksAssumption DEF Output, TypeInv, TypeOK
  <2>2. produced' \in [Streams -> 0..MaxChunks]
    BY <2>1
  <2>3. QED
    BY <1>3, <2>2 DEF Output, TypeInv, TypeOK, RequestInv, handlerVars, ctxVars, groupVars, connVars,
                      requestVars
<1>4. ASSUME NEW s \in Streams, CloseOutput(p, s) PROVE TypeInv'
  <2>1. holding' \in Holders
    BY <1>4 DEF CloseOutput, TypeInv, TypeOK, Holders
  <2>2. QED
    BY <1>4, <2>1 DEF CloseOutput, TypeInv, TypeOK, RequestInv, handlerVars, ctxVars, pipeVars,
                      connVars, requestVars
<1>5. CASE LeaveGroup(p)
  <2>1. outside' \subseteq Children
    BY <1>5 DEF LeaveGroup, TypeInv, TypeOK
  <2>2. QED
    BY <1>5, <2>1 DEF LeaveGroup, TypeInv, TypeOK, RequestInv, handlerVars, ctxVars, pipeVars,
                      connVars, requestVars
<1>6. QED
  BY <1>1, <1>2, <1>3, <1>4, <1>5 DEF GroupStep

LEMMA TypeOther ==
  ASSUME TypeInv, RequestInv',
         \/ \E last \in {"open", "valid", "invalid"} : Type(last)
         \/ Disconnect \/ Stall \/ Resume \/ ShutdownCancels \/ TimeoutFires
         \/ Over \/ UNCHANGED vars
  PROVE  TypeInv'
BY DEF Type, Disconnect, Stall, Resume, ShutdownCancels, TimeoutFires, ContextDone, Over, vars,
       TypeInv, TypeOK, RequestInv, handlerVars, ctxVars, groupVars, pipeVars, connVars, requestVars

LEMMA TypeStep == TypeInv /\ [Next]_vars => TypeInv'
<1> SUFFICES ASSUME TypeInv, [Next]_vars PROVE TypeInv'
  OBVIOUS
<1>1. RequestInv'
  BY RequestStep DEF TypeInv
<1>2. QED
  BY <1>1, TypeParse, TypeHandler, TypeReader, TypeWatcher, TypeGroup, TypeOther DEF Next

LEMMA TypeInit == Init => TypeInv
<1>1. 0 \in 0..MaxChunks /\ 0 \in 0..MaxRequest /\ 0 \in 0..(MaxRequest + 1)
  BY ChunksAssumption, RequestAssumption
<1>2. <<>> \in UNION {[V -> {"service", "request"}] : V \in SUBSET Variables}
  <2>1. <<>> \in [{} -> {"service", "request"}]
    OBVIOUS
  <2>2. QED
    BY <2>1
<1>3. ASSUME Init PROVE TypeOK
  <2>1. /\ holding \in Holders
        /\ reader \in [Streams -> {"off", "reading", "locking", "writing", "done"}]
        /\ produced \in [Streams -> 0..MaxChunks] /\ taken \in [Streams -> 0..MaxChunks]
    BY <1>1, <1>3 DEF Init, Holders
  <2>2. stubborn \subseteq MayIgnoreTerm /\ sent \in Seq((Streams \cup Ends) \X (0..MaxChunks))
    BY <1>3 DEF Init
  <2>3. proc \in [Procs -> {"none", "running", "zombie", "gone"}]
    BY <1>3 DEF Init
  <2>4. QED
    BY <1>1, <1>2, <1>3, <2>1, <2>2, <2>3 DEF Init, TypeOK
<1>4. QED
  BY <1>1, <1>3 DEF Init, TypeInv, RequestInv

(* The types of all variables. *)
THEOREM CommandTypeCorrect == Spec => []TypeOK
<1>1. TypeInv => TypeOK
  BY DEF TypeInv
<1>2. QED
  BY <1>1, TypeInit, TypeStep, PTL DEF Spec
=============================================================================

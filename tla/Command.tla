------------------------------- MODULE Command -------------------------------
(***************************************************************************)
(* One command: ParseRequest (protocol.go) and the command path of         *)
(* handleConnection (handler.go), Run and readPipe (executor.go), the part *)
(* of os/exec they rely on (Start, the goroutine that watches the context, *)
(* Wait), the process group, the pipes and the client.  A chunk is what    *)
(* one Read of a pipe returns, a piece a part of the request line.         *)
(***************************************************************************)
EXTENDS Integers, Sequences, FiniteSets, Environment

CONSTANTS MaxRequest,    \* MaxRequestSize, in pieces of the line
          ServiceEnv,    \* the variables in the environment of the service
          AskedEnv,      \* the keys of the environment the request asks for
          Streams,       \* stdout and stderr
          Leader,        \* the bash process, leader of the group
          Children,      \* processes it may leave in the background
          MayIgnoreTerm, \* the processes that may ignore or handle SIGTERM
          MaxChunks,     \* bound: chunks written to each stream
          PipeSize,      \* bound: chunks a pipe holds
          HasTimeout,    \* -max-exec-timeout is positive
          ClientMayStall \* the client may stop reading

ASSUME ProcsAssumption == Leader \notin Children /\ MayIgnoreTerm \subseteq Children \cup {Leader}
ASSUME RequestAssumption == MaxRequest \in Nat \ {0}
ASSUME EnvAssumption == ServiceEnv \subseteq Variables /\ AskedEnv \subseteq Keys
ASSUME ChunksAssumption == MaxChunks \in Nat /\ PipeSize \in Nat \ {0}
ASSUME FlagsAssumption == HasTimeout \in BOOLEAN /\ ClientMayStall \in BOOLEAN
ASSUME StreamsAssumption == Streams \cap {"main", "none", "zero", "nonzero", "failed"} = {}

Procs == Children \cup {Leader}

VARIABLES line, typed, got,  \* the request line: its end, what is sent and read of it
          env,       \* the environment of bash
          pc,        \* the handler goroutine
          result,    \* what Run returns: exit code zero, nonzero, or an error
          reader,    \* the two goroutines in readPipe
          writeMu,   \* who holds the mutex of writeResponse
          cause,     \* why execCtx is done
          watcher,   \* the goroutine of os/exec that watches execCtx
          watchErr,  \* the error it hands to Wait
          proc, status, holding, term, stubborn, outside,  \* the processes of the command
          produced, taken,                        \* the pipes
          client, sent                            \* the connection

requestVars == <<line, typed, got>>
handlerVars == <<pc, result, reader, writeMu>>
ctxVars     == <<cause, watcher, watchErr>>
groupVars   == <<env, proc, status, holding, term, stubborn, outside>>
pipeVars    == <<produced, taken>>
connVars    == <<requestVars, client, sent>>
vars        == <<handlerVars, ctxVars, groupVars, pipeVars, connVars>>

Ends == {"zero", "nonzero", "failed"}

(* Who holds the writing end of each pipe. *)
Holders == [Streams -> SUBSET Procs]

TypeOK ==
  /\ line \in {"open", "valid", "invalid"}
  /\ typed \in 0..(MaxRequest + 1) /\ got \in 0..MaxRequest
  /\ env \in UNION {[V -> {"service", "request"}] : V \in SUBSET Variables}
  /\ pc \in {"parse", "refuse", "start", "drain", "wait", "watch", "respond", "reply", "done"}
  /\ result \in Ends \cup {"none"}
  /\ reader \in [Streams -> {"off", "reading", "locking", "writing", "done"}]
  /\ writeMu \in Streams \cup {"main", "none"}
  /\ cause \in {"none", "parent", "timeout", "write"}
  /\ watcher \in {"off", "watching", "grace", "killed", "over"}
  /\ watchErr \in {"none", "ctx", "nogroup"}
  /\ proc \in [Procs -> {"none", "running", "zombie", "gone"}]
  /\ status \in {"none", "zero", "nonzero"}
  /\ holding \in Holders
  /\ term \subseteq Procs /\ stubborn \subseteq MayIgnoreTerm /\ outside \subseteq Children
  /\ produced \in [Streams -> 0..MaxChunks] /\ taken \in [Streams -> 0..MaxChunks]
  /\ client \in {"open", "stalled", "gone"}
  /\ sent \in Seq((Streams \cup Ends) \X (0..MaxChunks))

Init == /\ line = "open" /\ typed = 0 /\ got = 0
        /\ env = <<>>
        /\ pc = "parse" /\ result = "none"
        /\ reader = [s \in Streams |-> "off"]
        /\ writeMu = "none"
        /\ cause = "none" /\ watcher = "off" /\ watchErr = "none"
        /\ proc = [p \in Procs |-> "none"] /\ status = "none"
        /\ holding = [s \in Streams |-> {}] /\ term = {}
        /\ stubborn \in SUBSET MayIgnoreTerm /\ outside = {}
        /\ produced = [s \in Streams |-> 0] /\ taken = [s \in Streams |-> 0]
        /\ client = "open" /\ sent = <<>>

Running == {p \in Procs : proc[p] = "running"}

(* The first cause stays: a context is cancelled once. *)
Cancelled(by) == cause' = IF cause = "none" THEN by ELSE cause

(* Fault: a failed write returns with the mutex locked. *)
WriteKeepsLock(response) == /\ client # "stalled"
                            /\ IF client = "open"
                               THEN writeMu' = "none" /\ sent' = Append(sent, response)
                                    /\ UNCHANGED cause
                               ELSE Cancelled("write") /\ UNCHANGED <<sent, writeMu>>
                            /\ UNCHANGED <<requestVars, client>>

(* protocol.WriteResponse under writeMu: it blocks while the client does   *)
(* not read, fails when the client is gone, and an error cancels execCtx.  *)
Write(response) == /\ client # "stalled"
                   /\ writeMu' = "none"
                   /\ IF client = "open"
                      THEN sent' = Append(sent, response) /\ UNCHANGED cause
                      ELSE Cancelled("write") /\ UNCHANGED sent
                   /\ UNCHANGED <<requestVars, client>>

-----------------------------------------------------------------------------
(* The client, the parent context and the timer *)

Disconnect == /\ pc # "done" /\ client # "gone"
              /\ client' = "gone"
              /\ UNCHANGED <<handlerVars, ctxVars, groupVars, pipeVars, requestVars, sent>>

Stall == /\ ClientMayStall /\ pc # "done" /\ client = "open"
         /\ client' = "stalled"
         /\ UNCHANGED <<handlerVars, ctxVars, groupVars, pipeVars, requestVars, sent>>

Resume == /\ client = "stalled"
          /\ client' = "open"
          /\ UNCHANGED <<handlerVars, ctxVars, groupVars, pipeVars, requestVars, sent>>

ContextDone(by) == /\ pc # "done" /\ cause = "none"
                   /\ cause' = by
                   /\ UNCHANGED <<handlerVars, watcher, watchErr, groupVars, pipeVars, connVars>>

ShutdownCancels == ContextDone("parent")
TimeoutFires    == HasTimeout /\ pc \notin {"parse", "refuse"} /\ ContextDone("timeout")

-----------------------------------------------------------------------------
(* ParseRequest.  It sees neither the context nor a deadline. *)

(* The client sends a piece, which may be the last one of a line that is a *)
(* valid command or not.                                                   *)
Type(last) == /\ pc = "parse" /\ client # "gone" /\ line = "open"
              /\ typed <= MaxRequest
              /\ typed' = typed + 1 /\ line' = last
              /\ UNCHANGED <<got, handlerVars, ctxVars, groupVars, pipeVars, client, sent>>

(* The buffered reader takes what is there, up to the limit. *)
ReadRequest == /\ pc = "parse"
               /\ got' \in (got + 1)..(IF typed < MaxRequest THEN typed ELSE MaxRequest)
               /\ UNCHANGED <<line, typed, handlerVars, ctxVars, groupVars, pipeVars, client, sent>>

LeaveParse(to) == /\ pc' = to
                  /\ result' = IF to = "refuse" THEN "failed" ELSE result
                  /\ line' = "open" /\ typed' = 0 /\ got' = 0
                  /\ UNCHANGED <<reader, writeMu, ctxVars, groupVars, pipeVars, client, sent>>

Parsed == /\ pc = "parse" /\ line # "open" /\ got = typed
          /\ LeaveParse(IF line = "valid" THEN "start" ELSE "refuse")

(* Faults: the limit is looked at before the line; the limit is never seen *)
(* to be reached.                                                          *)
LimitFirst == pc = "parse" /\ got = MaxRequest /\ LeaveParse("refuse")
LimitUnseen == pc = "parse" /\ got > MaxRequest /\ LeaveParse("refuse")

(* The limited reader is at its end and the line is not. *)
TooLarge == /\ pc = "parse" /\ got = MaxRequest /\ ~(line # "open" /\ got = typed)
            /\ LeaveParse("refuse")

(* The client has gone before the end of the line. *)
RequestBreaksOff == /\ pc = "parse" /\ client = "gone"
                    /\ line = "open" /\ got = typed /\ got < MaxRequest
                    /\ LeaveParse("refuse")

(* The error goes to the connection without the mutex, and its own failure *)
(* is only logged.                                                         *)
Refuse == /\ pc = "refuse" /\ client # "stalled"
          /\ pc' = "done"
          /\ sent' = IF client = "open" THEN Append(sent, <<result, 0>>) ELSE sent
          /\ UNCHANGED <<result, reader, writeMu, ctxVars, groupVars, pipeVars, requestVars, client>>

ParseStep == ReadRequest \/ Parsed \/ TooLarge \/ RequestBreaksOff \/ Refuse

-----------------------------------------------------------------------------
(* The process group *)

(* A process that dies of SIGTERM does nothing more. *)
Acts(p) == proc[p] = "running" /\ (p \in term => p \in stubborn)

(* A background process is in the group of its parent; of the pipes its    *)
(* parent holds it inherits those that were not redirected when it was     *)
(* started.                                                                *)
Fork(p, c) == /\ Acts(p) /\ proc[c] = "none"
              /\ proc' = [proc EXCEPT ![c] = "running"]
              /\ outside' = IF p \in outside THEN outside \cup {c} ELSE outside
              /\ \E inherited \in SUBSET {s \in Streams : p \in holding[s]} :
                   holding' = [s \in Streams |->
                                 IF s \in inherited THEN holding[s] \cup {c} ELSE holding[s]]
              /\ UNCHANGED <<handlerVars, ctxVars, env, status, term, stubborn, pipeVars, connVars>>

(* It leaves the group for one of its own: setsid, a daemon, a job of a    *)
(* shell with job control.  The leader of a group cannot (EPERM).          *)
LeaveGroup(c) == /\ Acts(c) /\ c \in Children \ outside
                 /\ outside' = outside \cup {c}
                 /\ UNCHANGED <<handlerVars, ctxVars, env, proc, status, holding, term, stubborn,
                                pipeVars, connVars>>

Output(p, s) == /\ p \in holding[s]
                /\ produced[s] < MaxChunks /\ produced[s] - taken[s] < PipeSize
                /\ produced' = [produced EXCEPT ![s] = @ + 1]
                /\ UNCHANGED <<handlerVars, ctxVars, groupVars, taken, connVars>>

(* A process closes or redirects one of its outputs and runs on (exec >&-).*)
CloseOutput(p, s) == /\ p \in holding[s]
                     /\ holding' = [holding EXCEPT ![s] = @ \ {p}]
                     /\ UNCHANGED <<handlerVars, ctxVars, env, proc, status, term, stubborn, outside,
                                    pipeVars, connVars>>

Released(p) == [s \in Streams |-> holding[s] \ {p}]

(* A process exits, by itself or of a signal; its ends of the pipes close. *)
(* Death by signal counts as a non-zero status of the leader.              *)
Exits(p) == /\ proc[p] = "running"
            /\ holding' = Released(p) /\ outside' = outside \ {p}
            /\ IF p = Leader
               THEN /\ proc' = [proc EXCEPT ![p] = "zombie"]
                    /\ status' \in {"zero", "nonzero"}
               ELSE /\ proc' = [proc EXCEPT ![p] = "gone"]
                    /\ UNCHANGED status
            /\ UNCHANGED <<handlerVars, ctxVars, env, term, stubborn, pipeVars, connVars>>

-----------------------------------------------------------------------------
(* handleConnection and Run *)

(* cmd.Start: bash runs in a group of its own with both pipes and the      *)
(* merged environment, and the readers and the watcher start.              *)
StartCommand == /\ pc = "start" /\ cause = "none"
                /\ pc' = "drain"
                /\ env' = Merge(ServiceEnv, AskedEnv)
                /\ proc' = [proc EXCEPT ![Leader] = "running"]
                /\ holding' = [s \in Streams |-> {Leader}]
                /\ reader' = [s \in Streams |-> "reading"]
                /\ watcher' = "watching"
                /\ UNCHANGED <<result, writeMu, cause, watchErr, status, term, stubborn, outside,
                               pipeVars, connVars>>

(* A pipe or the fork fails, or the context is already done. *)
StartFails == /\ pc = "start"
              /\ pc' = "respond"
              /\ result' = "failed"
              /\ UNCHANGED <<reader, writeMu, ctxVars, groupVars, pipeVars, connVars>>

(* Fault: cmd.Wait is called without waiting for the readers. *)
DrainSkipped == /\ pc = "drain"
                /\ pc' = "wait"
                /\ UNCHANGED <<result, reader, writeMu, ctxVars, groupVars, pipeVars, connVars>>

(* wg.Wait: both pipes are at their end. *)
Drained == /\ pc = "drain"
           /\ \A s \in Streams : reader[s] = "done"
           /\ pc' = "wait"
           /\ UNCHANGED <<result, reader, writeMu, ctxVars, groupVars, pipeVars, connVars>>

(* cmd.Wait, first half: Process.Wait reaps the leader. *)
Reap == /\ pc = "wait" /\ proc[Leader] = "zombie"
        /\ proc' = [proc EXCEPT ![Leader] = "gone"]
        /\ pc' = "watch"
        /\ UNCHANGED <<result, reader, writeMu, ctxVars, env, status, holding, term, stubborn, outside,
                       pipeVars, connVars>>

(* Fault: the watcher's error wins over the exit status. *)
HandOverErrorFirst == /\ pc = "watch" /\ watcher \in {"watching", "grace", "killed"}
                      /\ watcher' = "over"
                      /\ result' = IF watchErr # "none" THEN "failed"
                                   ELSE IF status = "nonzero" THEN "nonzero" ELSE "zero"
                      /\ pc' = "respond"
                      /\ UNCHANGED <<reader, writeMu, cause, watchErr, groupVars, pipeVars, connVars>>

(* Fault: Run does not wait for the watcher. *)
HandOverDetached == /\ pc = "watch"
                    /\ result' = IF status = "nonzero" THEN "nonzero" ELSE "zero"
                    /\ pc' = "respond"
                    /\ UNCHANGED <<reader, writeMu, ctxVars, groupVars, pipeVars, connVars>>

(* cmd.Wait, second half: the rendezvous with the watcher.  A non-zero     *)
(* status wins over the watcher's error.                                   *)
HandOver == /\ pc = "watch" /\ watcher \in {"watching", "grace", "killed"}
            /\ watcher' = "over"
            /\ result' = IF status = "nonzero" THEN "nonzero"
                         ELSE IF watchErr # "none" THEN "failed" ELSE "zero"
            /\ pc' = "respond"
            /\ UNCHANGED <<reader, writeMu, cause, watchErr, groupVars, pipeVars, connVars>>

LockForReply == /\ pc = "respond" /\ writeMu = "none"
                /\ pc' = "reply"
                /\ writeMu' = "main"
                /\ UNCHANGED <<result, reader, ctxVars, groupVars, pipeVars, connVars>>

Reply == /\ pc = "reply"
         /\ Write(<<result, 0>>)
         /\ pc' = "done"
         /\ UNCHANGED <<result, reader, watcher, watchErr, groupVars, pipeVars>>

-----------------------------------------------------------------------------
(* readPipe, one goroutine per stream *)

(* Faults: a Read that also returns what is not there yet; an empty pipe   *)
(* taken for its end.                                                      *)
ReadTooMuch(s) == /\ reader[s] = "reading" /\ taken[s] <= produced[s]
                  /\ taken' = [taken EXCEPT ![s] = @ + 1]
                  /\ reader' = [reader EXCEPT ![s] = "locking"]
                  /\ UNCHANGED <<pc, result, writeMu, ctxVars, groupVars, produced, connVars>>
EmptyIsEOF(s) == /\ reader[s] = "reading" /\ taken[s] = produced[s]
                 /\ reader' = [reader EXCEPT ![s] = "done"]
                 /\ UNCHANGED <<pc, result, writeMu, ctxVars, groupVars, pipeVars, connVars>>

ReadChunk(s) == /\ reader[s] = "reading" /\ taken[s] < produced[s]
                /\ taken' = [taken EXCEPT ![s] = @ + 1]
                /\ reader' = [reader EXCEPT ![s] = "locking"]
                /\ UNCHANGED <<pc, result, writeMu, ctxVars, groupVars, produced, connVars>>

(* The end of the pipe: it is empty and no process holds it any more. *)
ReadEOF(s) == /\ reader[s] = "reading" /\ taken[s] = produced[s] /\ holding[s] = {}
              /\ reader' = [reader EXCEPT ![s] = "done"]
              /\ UNCHANGED <<pc, result, writeMu, ctxVars, groupVars, pipeVars, connVars>>

LockForChunk(s) == /\ reader[s] = "locking" /\ writeMu = "none"
                   /\ reader' = [reader EXCEPT ![s] = "writing"]
                   /\ writeMu' = s
                   /\ UNCHANGED <<pc, result, ctxVars, groupVars, pipeVars, connVars>>

WriteChunk(s) == /\ reader[s] = "writing"
                 /\ Write(<<s, taken[s]>>)
                 /\ reader' = [reader EXCEPT ![s] = "reading"]
                 /\ UNCHANGED <<pc, result, watcher, watchErr, groupVars, pipeVars>>

-----------------------------------------------------------------------------
(* watchCtx of os/exec *)

(* Fault: the default of os/exec in place of cmd.Cancel, which signals     *)
(* bash alone.                                                             *)
CancelLeader == /\ watcher = "watching" /\ cause # "none"
                /\ watcher' = "grace"
                /\ term' = term \cup (Running \cap {Leader})
                /\ watchErr' = "ctx"
                /\ UNCHANGED <<handlerVars, cause, env, proc, status, holding, stubborn, outside,
                               pipeVars, connVars>>

(* The context is done: cmd.Cancel, SIGTERM to the group and to nobody     *)
(* outside it.  The group is there as long as a member runs or the leader  *)
(* is not reaped.                                                          *)
Group == Running \ outside
Cancel == /\ watcher = "watching" /\ cause # "none"
          /\ watcher' = "grace"
          /\ term' = term \cup Group
          /\ watchErr' = IF Group # {} \/ proc[Leader] = "zombie" THEN "ctx" ELSE "nogroup"
          /\ UNCHANGED <<handlerVars, cause, env, proc, status, holding, stubborn, outside, pipeVars,
                         connVars>>

(* WaitDelay is over: Process.Kill, SIGKILL to the leader alone.  The      *)
(* pipes are the caller's and stay open.                                   *)
GraceExpires == /\ watcher = "grace"
                /\ watcher' = "killed"
                /\ IF proc[Leader] = "running"
                   THEN /\ proc' = [proc EXCEPT ![Leader] = "zombie"]
                        /\ status' = "nonzero"
                        /\ holding' = Released(Leader)
                   ELSE UNCHANGED <<proc, status, holding>>
                /\ UNCHANGED <<handlerVars, cause, watchErr, env, term, stubborn, outside, pipeVars,
                               connVars>>

-----------------------------------------------------------------------------
ReaderStep(s) == ReadChunk(s) \/ ReadEOF(s) \/ LockForChunk(s) \/ WriteChunk(s)
GroupStep(p) == \/ Exits(p)
                \/ \E c \in Children : Fork(p, c)
                \/ LeaveGroup(p)
                \/ \E s \in Streams : Output(p, s) \/ CloseOutput(p, s)
HandlerStep == ParseStep \/ StartCommand \/ StartFails \/ Drained \/ Reap \/ HandOver \/ LockForReply \/ Reply
WatcherStep == Cancel \/ GraceExpires

(* SIGTERM ends a process that neither ignores nor handles it. *)
DiesOfTerm(p) == p \in term \ stubborn /\ Exits(p)

Over == pc = "done" /\ UNCHANGED vars

Next == \/ \E last \in {"open", "valid", "invalid"} : Type(last)
        \/ Disconnect \/ Stall \/ Resume \/ ShutdownCancels \/ TimeoutFires
        \/ \E p \in Procs : GroupStep(p)
        \/ \E s \in Streams : ReaderStep(s)
        \/ HandlerStep
        \/ WatcherStep
        \/ Over

Spec == Init /\ [][Next]_vars

(* Goroutines run, mutexes are handed on, timers fire, signals arrive, and *)
(* a blocked write goes on when the client reads now and then.             *)
(* Nothing is assumed of the client, of a command that was not signalled,  *)
(* or of one that handles the signal.                                      *)
Fairness == /\ \A s \in Streams : WF_vars(ReaderStep(s))
            /\ WF_vars(HandlerStep)
            /\ WF_vars(WatcherStep)
            /\ \A p \in Procs : WF_vars(DiesOfTerm(p))
            /\ \A s \in Streams : SF_vars(WriteChunk(s))
            /\ SF_vars(Reply \/ Refuse)

FairSpec == Spec /\ Fairness

-----------------------------------------------------------------------------
(* The responses on a connection are those ResponseStream allows: chunks   *)
(* of a stream in order and complete, one exit or error at the end,        *)
(* whatever the two readers, the handler and the client do meanwhile.      *)
Promise == INSTANCE ResponseStream WITH out <- sent

ImplementsResponseStream == Promise!Spec

Delivered(s) == Cardinality({i \in DOMAIN sent : sent[i][1] = s})
Answered(e) == sent # <<>> /\ sent[Len(sent)] = <<e, 0>>

(* A client that reads the exit status has read all the output there will  *)
(* ever be: Run waits for the pipes before it waits for the process.       *)
ExitAfterAllOutput ==
  Answered("zero") \/ Answered("nonzero") =>
    \A s \in Streams : Delivered(s) = produced[s] /\ holding[s] = {}

(* The answer agrees with what became of bash: an exit code is that of the *)
(* leader, and an error means the command never ran or was cancelled.      *)
AnswerTruthful == /\ Answered("zero") => status = "zero"
                  /\ Answered("nonzero") => status = "nonzero"
                  /\ Answered("failed") => status = "none" \/ (status = "zero" /\ cause # "none")

(* Once the handler has answered, no goroutine is left that could write to *)
(* the connection or wait for the context.                                 *)
NothingLeftBehind ==
  pc = "done" => /\ \A s \in Streams : reader[s] \in {"off", "done"}
                 /\ watcher \in {"off", "over"}
                 /\ writeMu = "none" /\ proc[Leader] \in {"none", "gone"}

(* A line is executed if and only if it is a command and not longer than   *)
(* the limit, however it comes in pieces and however late the client goes: *)
(* a line of exactly the limit is whole when the reader is at its end.     *)
RequestAccepted ==
  [][pc = "parse" /\ pc' # "parse" => (pc' = "start" <=> line = "valid" /\ typed <= MaxRequest)]_vars

(* A request that has come to its end, has grown past the limit or will    *)
(* get no further is taken up: nobody waits for a byte that is not read.   *)
RequestTakenUp ==
  (pc = "parse" /\ (line # "open" \/ typed > MaxRequest \/ client = "gone")) ~> (pc # "parse")

(* Whoever waits waits for something that is under way: for the mutex, that*)
(* a reader is writing under it, and the handler never has to; for output, *)
(* that a running process can still write it; in wg.Wait, that readers     *)
(* read; in Process.Wait, that bash runs or is a zombie; for the watcher of*)
(* os/exec, that it is there.  Run, the two readers, the watcher and the   *)
(* response at the end never wait for each other in a circle.              *)
WaitsForSomethingUnderWay ==
  /\ \A s \in Streams :
       /\ reader[s] = "locking" /\ writeMu # "none" => writeMu \in Streams \ {s} /\ reader[writeMu] = "writing"
       /\ reader[s] = "reading" => holding[s] \subseteq Running
  /\ pc = "respond" => writeMu = "none"
  /\ pc = "drain" => \A s \in Streams : reader[s] # "off"
  /\ pc = "wait" => proc[Leader] \in {"running", "zombie"}
  /\ pc = "watch" => watcher \in {"watching", "grace", "killed"}

(* No request changes a variable the service protects (handler.go:         *)
(* "environment variable names that clients may not set"): whatever its    *)
(* keys look like, bash has the service's own value, or none.              *)
EnvironmentGuarded == proc[Leader] # "none" => Guarded(ServiceEnv, env)

(* A cancelled command ends - shutdown, timeout or a failed write - with   *)
(* three ways out, each of which the code leaves open: the client never    *)
(* reads again; or a background process that holds a pipe for ever was not *)
(* there when SIGTERM came, handles it, or is out of its reach in another  *)
(* group.  Only what handles SIGTERM can start a process after it came, or *)
(* what is outside the group.  A request that is still being read is not   *)
(* cancelled: that waits for the client.                                   *)
HoldsPipe(p) == \E s \in Streams : p \in holding[s]
Survives(p) == p \in stubborn \cup outside \/ (p \notin term /\ stubborn \cap term # {})
Survivor == \E p \in Children : HoldsPipe(p) /\ Survives(p)
CancelledCommandEnds ==
  <>[](client = "stalled") \/ <>[]Survivor \/ ((cause # "none" /\ pc # "parse") ~> (pc = "done"))

(* When bash is over and nobody holds the pipes, the client gets its       *)
(* answer: neither a reader nor the handler waits for the mutex, the pipes *)
(* or the watcher for ever.                                                *)
PipesClosed == \A s \in Streams : holding[s] = {}
FinishedCommandAnswered ==
  <>[](client = "stalled") \/ ((proc[Leader] \in {"zombie", "gone"} /\ PipesClosed) ~> (pc = "done"))

(* README.md, -max-exec-timeout: "Maximum command execution time". *)
TimeoutBoundsExecution == (cause = "timeout") ~> (pc = "done")
=============================================================================

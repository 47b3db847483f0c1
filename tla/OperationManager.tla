-------------------------- MODULE OperationManager --------------------------
(***************************************************************************)
(* The local operation manager (harness/operation/local_manager.go): one    *)
(* goroutine that owns the actors of the running operations, starts their   *)
(* primitives, feeds them the primitives' events and queues the checkpoints *)
(* they make for the coordinator, which saves them.                         *)
(*                                                                          *)
(* Every action of the manager is one round of its select loop.  Primitives *)
(* run concurrently with it: what they do to the world (create a path,      *)
(* start a command, let it end) is a step of its own, and so is the         *)
(* delivery of each of their events.  The process may die between any two   *)
(* steps; the next manager is given what the coordinator had saved.         *)
(***************************************************************************)
EXTENDS Operations, SequencesExt, TLC

CONSTANTS
    Specs,        \* the operations the coordinator submits: ID -> ready operation
    Plans,        \* the remote job handlers: handler -> plan it executes
    Outputs,      \* how a command may end: <<stdout, stderr, exit status>>
    Overwrites,   \* what other processes may leave in its captures: <<stdout, stderr>>
    SkillFile,    \* the bytes of the file a skill operation reads
    ImageFile,    \* the bytes of the file an image operation reads
    Sources,      \* what the bytes of an image may turn out to be
    ChunkSize,    \* bound: bytes per read output event
    MaxPending,   \* bound: updates the coordinator has not received yet
    MaxRestarts   \* bound: managers started after the first

IDs == DOMAIN Specs

(* The queue of updates is unbounded in the code. *)
ASSUME BoundsAssumption == MaxPending \in Nat /\ MaxRestarts \in Nat

(* The coordinator submits operations as their constructors make them.      *)
SubmittedAsMade(o, op) ==
    \/ op.type = "value" /\ op = ValueSpec(o)
    \/ op.type = "skill_use" /\ op = SkillSpec(o)
    \/ op.type = "view_image" /\ op = ImageSpec(o)
    \/ op.type = "shell" /\ op = ShellSpec(o, op.max)
    \/ op.type = "remote_job" /\ op = RemoteSpec(o, op.state.plan)

ASSUME SpecsAssumption == \A o \in IDs : SubmittedAsMade(o, Specs[o])

(* Stands for the handler of an operation that has none. *)
NoHandler == "no handler"

ASSUME PlansAssumption == NoHandler \notin DOMAIN Plans

VARIABLES
    phase,      \* the run loop: "running", "draining" or "closed"
    ctxDone,    \* the manager's context has been cancelled
    actors,     \* operations: the running actors, by ID
    accepted,   \* IDs added to this manager
    canceled,   \* IDs whose context has been cancelled on its own
    active,     \* activePrimitives
    pending,    \* pendingUpdates
    closed,     \* remote job handlers known to have stopped
    prims,      \* the running primitives of each ID
    saved,      \* the operations as the coordinator has saved them
    disk,       \* capture directory and files of each ID
    runs,       \* history: how often the command of an ID was started
    exits,      \* history: the exit status of its last run
    strays,     \* IDs whose captures a process that nobody waits for may still write
    resumed,    \* history: saved, when this manager was started
    restarts    \* history: managers started after the first

managerVars == <<phase, actors, accepted, canceled, active, pending, closed>>
worldVars == <<disk, runs, exits, strays>>
vars == <<managerVars, ctxDone, prims, saved, worldVars, resumed, restarts>>

NoFile == <<"no file">>

(* The operation's context is cancelled with it or with the manager's. *)
Canceled(o) == o \in canceled \/ ctxDone

(* An operation is started once in a manager's lifetime: adding it again    *)
(* has no effect.                                                           *)
Fresh(o) == o \notin accepted

(* The loop is in its select and the bound on the queue is not reached. *)
Selecting == phase = "running" /\ Len(pending) < MaxPending

Init ==
    /\ phase = "running"
    /\ ctxDone = FALSE
    /\ actors = << >>
    /\ accepted = {}
    /\ canceled = {}
    /\ active = 0
    /\ pending = << >>
    /\ closed = {}
    /\ prims = [o \in IDs |-> << >>]
    /\ saved = Specs
    /\ disk = [o \in IDs |-> [directory |-> FALSE, out |-> NoFile, err |-> NoFile]]
    /\ runs = [o \in IDs |-> 0]
    /\ exits = [o \in IDs |-> NoExit]
    /\ strays = {}
    /\ resumed = Specs
    /\ restarts = 0

-----------------------------------------------------------------------------
(* How the state of an operation becomes a tool result for the model        *)
(* (TranslateResult in harness/tool/bash, tool/viewimage and                *)
(* tool/skill_use.go).  A result is the kinds of its parts; Untranslatable  *)
(* is the error that ends the coordinator, and would end it again on every  *)
(* resume, because the operation is durable by then.                        *)
Untranslatable == <<"error">>

Unfinished == {"ready", "awaiting", "canceling"}

(* translateOperationResult: a command that failed before it had a result   *)
(* is described by its captures and its error.                              *)
BashResult(op) ==
    CASE op.status \in Unfinished -> <<"running">>
      [] op.status = "completed" /\ op.state.result = NoResult -> Untranslatable
      [] OTHER ->
           LET part(c, kind) == IF c THEN <<kind>> ELSE <<>>
               parts == IF op.state.result # NoResult
                        THEN part(op.state.result.exit # 0, "exit code")
                        ELSE part(op.state.out.path, "out capture") \o part(op.state.err.path, "err capture")
               failure == part(op.status # "completed", "failure")
           IN  IF parts \o failure = <<>> THEN <<"output">> ELSE parts \o failure

ImageTranslated(op) ==
    CASE op.status \in Unfinished -> <<"running">>
      [] op.status = "completed" ->
           IF op.state.result.kind # "image" THEN Untranslatable ELSE <<"image">>
      [] OTHER -> <<"failure">>

(* Unlike the others, a skill that failed must say why. *)
SkillResult(op) ==
    CASE op.status \in Unfinished -> <<"running">>
      [] op.status = "completed" -> <<"text">>
      [] OTHER -> IF op.state.error THEN <<"failure">> ELSE Untranslatable

TranslateResult(op) ==
    CASE op.type = "shell" -> BashResult(op)
      [] op.type = "view_image" -> ImageTranslated(op)
      [] op.type = "skill_use" -> SkillResult(op)

-----------------------------------------------------------------------------
(* The actors. *)

(* initialize and the first check of the advance functions: the type and    *)
(* version are supported and the state decodes.                             *)
Supported(op) ==
    \/ op.type \in {"value", "skill_use", "view_image"}
    \/ op.type = "shell" /\ ShellDecodes(op)

Handle(actor, event) ==
    LET op == actor.op
    IN  CASE op.type = "shell" -> ShellHandle(op, actor.mem, event)
          [] op.type = "view_image" -> ImageHandle(op, actor.mem, event)
          [] op.type = "skill_use" -> SkillHandle(op, event)
          [] op.type = "value" -> AdvanceValue(op, event)

(* failLocalOperation: the function that makes the failed operation *)
FailOperation(op) ==
    CASE op.type = "shell" -> ShellFail(op).op
      [] op.type = "view_image" -> ImageFail(op).op
      [] op.type = "skill_use" -> SkillFail(op).op
      [] op.type = "remote_job" -> RemoteFail(op)
      [] OTHER -> [op EXCEPT !.status = "failed"]

(* A read also keeps the bytes it has sent and, once there are any, the     *)
(* size that the file had when it was opened.                               *)
NewPrimitive(dispatch) == [req |-> dispatch, at |-> "new", sent |-> 0, size |-> 0]

Drop(f, o) == [x \in DOMAIN f \ {o} |-> f[x]]

Put(f, o, v) == [x \in DOMAIN f \cup {o} |-> IF x = o THEN v ELSE f[x]]

(* acceptLocalStep: queue the checkpoint, end the actor of a finished       *)
(* operation, start what the step asks for.  `remaining' are the primitives *)
(* of o, `count' the active primitives, both without one that just ended.   *)
(* No dispatch is of a kind startLocalPrimitive rejects.                    *)
AcceptStep(o, actor, step, remaining, count) ==
    LET done == step.save /\ Finished(step.op)
        started == IF done THEN << >>
                   ELSE [i \in DOMAIN step.dispatches |-> NewPrimitive(step.dispatches[i])]
    IN  /\ pending' = IF step.save THEN Append(pending, step.op) ELSE pending
        /\ actors' = IF done THEN Drop(actors, o)
                     ELSE Put(actors, o, [actor EXCEPT !.op = step.op, !.mem = step.mem])
        /\ canceled' = IF done THEN canceled \cup {o} ELSE canceled
        /\ prims' = [prims EXCEPT ![o] = remaining \o started]
        /\ active' = count + Len(started)

(* Manager.failLocalOperation: the method *)
FailActors(failing) ==
    LET ops == SetToSeq({actors[o].op : o \in failing})
    IN  /\ pending' = pending \o [i \in DOMAIN ops |-> FailOperation(ops[i])]
        /\ canceled' = canceled \cup failing
        /\ actors' = [o \in DOMAIN actors \ failing |-> actors[o]]

-----------------------------------------------------------------------------
(* The run loop. *)

(* The coordinator receives the oldest update and saves it. *)
TakeUpdate ==
    /\ phase = "running"
    /\ pending # << >>
    /\ saved' = [saved EXCEPT ![Head(pending).id] = Head(pending)]
    /\ pending' = Tail(pending)
    /\ UNCHANGED <<phase, ctxDone, actors, accepted, canceled, active, closed, prims,
                   worldVars, resumed, restarts>>

(* The coordinator adds an operation it has saved, as submitted or when it  *)
(* resumes.  One that cannot be handled is refused and not accepted.        *)
AddLocal(o) ==
    LET op == saved[o]
        actor == [op |-> op, mem |-> NoMemory, handler |-> NoHandler]
        step == Handle(actor, NoEvent)
    IN  /\ Selecting
        /\ Fresh(o)
        /\ ~Finished(op)
        /\ op.type # "remote_job"
        /\ Supported(op) /\ step.ok
        /\ accepted' = accepted \cup {o}
        /\ AcceptStep(o, actor, step, prims[o], active)
        /\ UNCHANGED <<phase, ctxDone, closed, saved, worldVars, resumed, restarts>>

(* remoteJobHandlers.add: exactly one handler has the plan and it has not   *)
(* stopped; it may refuse the job.                                          *)
AddRemote(o) ==
    LET op == saved[o]
    IN  /\ Selecting
        /\ Fresh(o)
        /\ ~Finished(op)
        /\ op.type = "remote_job" /\ RemoteDecodes(op)
        /\ \E h \in DOMAIN Plans :
             /\ Matching(Plans, op) = {h}
             /\ h \notin closed
             /\ actors' = Put(actors, o, [op |-> op, mem |-> NoMemory, handler |-> h])
        /\ accepted' = accepted \cup {o}
        /\ UNCHANGED <<phase, ctxDone, canceled, active, pending, closed, prims, saved,
                       worldVars, resumed, restarts>>

(* A cancellation of a local operation only cancels its context; a handler  *)
(* is asked to cancel a remote job; an unknown ID is ignored.               *)
CancelLocal(o) ==
    /\ phase = "running"
    /\ o \in DOMAIN actors /\ actors[o].handler = NoHandler
    /\ canceled' = canceled \cup {o}
    /\ UNCHANGED <<phase, ctxDone, actors, accepted, active, pending, closed, prims, saved,
                   worldVars, resumed, restarts>>

(* A handler's update.  One of an unknown operation is ignored; one from    *)
(* the wrong handler, or one that does not validate, fails the operation.   *)
RemoteUpdate(h, update) ==
    LET o == update.id
        actor == actors[o]
    IN  /\ Selecting
        /\ h \notin closed
        /\ o \in DOMAIN actors /\ actor.handler # NoHandler
        /\ IF actor.handler # h \/ ~ValidUpdate(actor.op, update)
           THEN FailActors({o})
           ELSE /\ pending' = Append(pending, update)
                /\ actors' = IF Finished(update) THEN Drop(actors, o)
                             ELSE [actors EXCEPT ![o].op = update]
                /\ canceled' = IF Finished(update) THEN canceled \cup {o} ELSE canceled
        /\ UNCHANGED <<phase, ctxDone, accepted, active, closed, prims, saved, worldVars,
                       resumed, restarts>>

(* What the model lets a handler send: any status, the plan changed or not. *)
UpdateOf(op, status, plan) == [op EXCEPT !.status = status, !.state.plan = plan]

(* A handler's update channel closes: all its operations fail. *)
HandlerStops(h) ==
    /\ Selecting
    /\ h \notin closed
    /\ closed' = closed \cup {h}
    /\ FailActors({o \in DOMAIN actors : actors[o].handler = h})
    /\ UNCHANGED <<phase, ctxDone, accepted, active, prims, saved, worldVars, resumed, restarts>>

(* Faulty variant: a completion counts although the operation was cancelled. *)
ReceivedAsSent(o, event) == event

(* The completion of a cancelled operation is turned into its cancellation. *)
Received(o, event) ==
    IF event.type \in CompletedEvents /\ Canceled(o)
    THEN [event EXCEPT !.type = "canceled"] ELSE event

(* A primitive event arrives.  The count goes down with every primitive     *)
(* that ended, whoever it belonged to.                                      *)
HandleEvent(o, event, remaining) ==
    LET count == IF event.type \in CompletedEvents THEN active - 1 ELSE active
        step == Handle(actors[o], Received(o, event))
    IN  /\ Selecting
        /\ IF o \notin DOMAIN actors
           THEN /\ active' = count
                /\ prims' = [prims EXCEPT ![o] = remaining]
                /\ UNCHANGED <<actors, pending, canceled>>
           ELSE IF step.ok
                THEN AcceptStep(o, actors[o], step, remaining, count)
                ELSE /\ FailActors({o})
                     /\ active' = count
                     /\ prims' = [prims EXCEPT ![o] = remaining]
        /\ UNCHANGED <<phase, accepted, closed>>

(* The loop notices that the manager's context is done: it cancels what     *)
(* runs and waits for the primitives it has counted.                        *)
NoticeDone ==
    /\ phase = "running" /\ ctxDone
    /\ phase' = "draining"
    /\ canceled' = canceled \cup DOMAIN actors
    /\ UNCHANGED <<ctxDone, actors, accepted, active, pending, closed, prims, saved,
                   worldVars, resumed, restarts>>

DrainEvent(o, event, remaining) ==
    /\ phase = "draining" /\ active # 0
    /\ active' = IF event.type \in CompletedEvents THEN active - 1 ELSE active
    /\ prims' = [prims EXCEPT ![o] = remaining]
    /\ UNCHANGED <<phase, actors, accepted, canceled, pending, closed>>

(* drainLocalPrimitives returns, run returns and updates is closed. *)
Close ==
    /\ phase = "draining" /\ active = 0
    /\ phase' = "closed"
    /\ UNCHANGED <<ctxDone, actors, accepted, canceled, active, pending, closed, prims,
                   saved, worldVars, resumed, restarts>>

-----------------------------------------------------------------------------
(* The primitives, as package primitives promises them to the manager.      *)

File(o, name) ==
    CASE name = "skill" -> SkillFile
      [] name = "image" -> ImageFile
      [] OTHER -> disk[o][name]

(* What a primitive does to the world before it says so.  A command that    *)
(* ends may leave a process behind that has its captures open.              *)
PrimitiveActs(o, i) ==
    LET p == prims[o][i]
        Now(at) == prims' = [prims EXCEPT ![o][i].at = at]
    IN  /\ phase \in {"running", "draining"}
        /\ \/ /\ p.req.type = "create" /\ p.at = "new"
              /\ disk' = [disk EXCEPT ![o] =
                   CASE p.req.corr = "create_directory" -> [@ EXCEPT !.directory = TRUE]
                     [] p.req.corr = "create_out" -> [@ EXCEPT !.out = IF @ = NoFile THEN << >> ELSE @]
                     [] p.req.corr = "create_err" -> [@ EXCEPT !.err = IF @ = NoFile THEN << >> ELSE @]]
              /\ Now("created")
              /\ UNCHANGED <<runs, exits, strays>>
           \/ /\ p.req.type = "process" /\ p.at = "new" /\ ~Canceled(o)
              /\ runs' = [runs EXCEPT ![o] = @ + 1]
              /\ exits' = [exits EXCEPT ![o] = NoExit]
              /\ disk' = [disk EXCEPT ![o].out = << >>, ![o].err = << >>]
              /\ Now("started")
              /\ UNCHANGED strays
           \/ /\ p.req.type = "process" /\ p.at = "running"
              /\ \E end \in Outputs :
                   /\ disk' = [disk EXCEPT ![o].out = end[1], ![o].err = end[2]]
                   /\ exits' = [exits EXCEPT ![o] = end[3]]
              /\ strays' \in {strays, strays \cup {o}}
              /\ Now("exited")
              /\ UNCHANGED runs
        /\ UNCHANGED <<managerVars, ctxDone, saved, resumed, restarts>>

(* The events a primitive may send next, each with what becomes of it:      *)
(* << >> when it has ended, else the primitive waiting to send its next.  A *)
(* read fails when the file has become shorter than it has to be, or has    *)
(* another size at its end than it had when it was opened.                  *)
Ended == << >>
NextEvents(o, p) ==
    LET corr == p.req.corr
        E(type, result, then) == <<type, Event(type, corr, result), then>>
        failing == IF p.at \in {"started", "running"} THEN {} ELSE {E("failed", "error", Ended)}
        canceling == IF Canceled(o) /\ p.at # "exited" THEN {E("canceled", "none", Ended)} ELSE {}
        content == File(o, p.req.file)
        size == IF p.sent = 0 THEN Len(content) ELSE p.size
        left == Smaller(p.req.count, size - p.req.offset) - p.sent
        at == p.req.offset + p.sent
        n == Smaller(ChunkSize, left)
    IN  failing \cup canceling \cup
        CASE p.req.type = "create" ->
               IF p.at = "created" THEN {E("create_completed", "none", Ended)} ELSE {}
          [] p.req.type = "process" ->
               CASE p.at = "started" ->
                      {E("process_started", "none", <<[p EXCEPT !.at = "running"]>>)}
                 [] p.at = "exited" -> {E("process_exited", exits[o], Ended)}
                 [] OTHER -> {}
          [] p.req.type = "read" ->
               IF left > 0 /\ at + n <= Len(content)
               THEN {E("read_output", [offset |-> at, data |-> SubSeq(content, at + 1, at + n)],
                       <<[p EXCEPT !.sent = @ + n, !.size = size]>>)}
               ELSE IF left <= 0 /\ size = Len(content)
                    THEN {E("read_completed", size, Ended)} ELSE {}
          [] p.req.type = "compute" ->
               {E("compute_completed", PrepareViewImage(src, p.req.file.cause), Ended) :
                  src \in Sources}

DeliverEvent(o, i) ==
    /\ \E e \in NextEvents(o, prims[o][i]) :
         LET remaining == SubSeq(prims[o], 1, i - 1) \o e[3]
                            \o SubSeq(prims[o], i + 1, Len(prims[o]))
         IN  HandleEvent(o, e[2], remaining) \/ DrainEvent(o, e[2], remaining)
    /\ UNCHANGED <<ctxDone, saved, worldVars, resumed, restarts>>

-----------------------------------------------------------------------------
(* The owner of the manager. *)

CancelContext ==
    /\ phase = "running" /\ ~ctxDone
    /\ ctxDone' = TRUE
    /\ UNCHANGED <<managerVars, prims, saved, worldVars, resumed, restarts>>

(* A process that nobody waits for writes to captures it still has open. *)
StrayWrites(o) ==
    /\ o \in strays
    /\ \E text \in Overwrites : disk' = [disk EXCEPT ![o].out = text[1], ![o].err = text[2]]
    /\ UNCHANGED <<managerVars, ctxDone, prims, saved, runs, exits, strays, resumed, restarts>>

(* The manager is gone, closed or with the process, and a new one is made.  *)
(* A command that was running has a process group of its own (process.go:   *)
(* 609) and goes on.                                                        *)
Restart ==
    /\ restarts < MaxRestarts
    /\ restarts' = restarts + 1
    /\ phase' = "running"
    /\ ctxDone' = FALSE
    /\ actors' = << >>
    /\ accepted' = {} /\ canceled' = {} /\ closed' = {}
    /\ active' = 0
    /\ pending' = << >>
    /\ prims' = [o \in IDs |-> << >>]
    /\ strays' = strays \cup {o \in IDs :
         \E i \in DOMAIN prims[o] : prims[o][i].at \in {"started", "running"}}
    /\ resumed' = saved
    /\ UNCHANGED <<saved, disk, runs, exits>>

Next ==
    \/ TakeUpdate \/ NoticeDone \/ Close \/ CancelContext \/ Restart
    \/ \E o \in IDs :
         \/ AddLocal(o) \/ AddRemote(o) \/ CancelLocal(o) \/ StrayWrites(o)
         \/ \E i \in DOMAIN prims[o] : PrimitiveActs(o, i) \/ DeliverEvent(o, i)
         \/ /\ saved[o].type = "remote_job"
            /\ \E h \in DOMAIN Plans, s \in Statuses, p \in {saved[o].state.plan, "changed plan"} :
                 RemoteUpdate(h, UpdateOf(saved[o], s, p))
    \/ \E h \in DOMAIN Plans : HandlerStops(h)

(* What a primitive does without waiting for a command to end: a command    *)
(* may run for ever, unless its context is cancelled.                       *)
Progress(o) ==
    \E i \in DOMAIN prims[o] :
        DeliverEvent(o, i) \/ (prims[o][i].at = "new" /\ PrimitiveActs(o, i))

(* The goroutines of the manager, of the primitives and of the coordinator  *)
(* are scheduled; nothing makes an owner cancel or a command end.           *)
Fairness ==
    /\ WF_vars(TakeUpdate) /\ WF_vars(NoticeDone) /\ WF_vars(Close)
    /\ \A o \in IDs : WF_vars(Progress(o))

Spec == Init /\ [][Next]_vars /\ Fairness

-----------------------------------------------------------------------------
(* Properties. *)

(* The state has its shape: every actor is that of an accepted operation,   *)
(* and a running one has not finished.                                      *)
TypeOK ==
    /\ phase \in {"running", "draining", "closed"}
    /\ ctxDone \in BOOLEAN
    /\ DOMAIN actors \subseteq accepted /\ accepted \subseteq IDs
    /\ \A o \in DOMAIN actors : actors[o].op.id = o /\ actors[o].op.status \notin Terminal
    /\ active \in Nat
    /\ \A i \in DOMAIN pending : pending[i].status \in Statuses
    /\ restarts \in 0 .. MaxRestarts

(* The primitives that have not ended, each by its operation and place.     *)
Running == UNION {{o} \X DOMAIN prims[o] : o \in IDs}

(* activePrimitives is the number of primitives whose last event has not    *)
(* been received (local_manager.go, run and acceptLocalStep).  Were it      *)
(* larger, the drain at shutdown would wait for ever; were it smaller, a    *)
(* primitive would be left blocked on its event.                            *)
CountsPrimitives ==
    active = Cardinality(Running)

(* When run has returned no primitive of this manager is left: no goroutine *)
(* blocked on an event nobody reads, no command still running.              *)
QuietWhenClosed == phase = "closed" => \A o \in IDs : prims[o] = << >>

(* An operation awaits at most one primitive at a time.                     *)
OnePrimitiveEach == \A o \in IDs : Len(prims[o]) <= 1

(* An operation reports its end once: nothing follows it, neither in the    *)
(* queue nor in what the coordinator saves.                                 *)
EndsOnce ==
    \A i, j \in DOMAIN pending :
        /\ Finished(pending[i]) /\ pending[i].id = pending[j].id => j <= i
        /\ ~Finished(saved[pending[i].id])

(* A cancelled local operation does not complete, however its primitive's   *)
(* completion and the cancellation are ordered (run, primitiveEvents case). *)
CanceledNeverCompletes ==
    [][\A o \in canceled \cap DOMAIN actors :
         actors[o].handler = NoHandler /\ pending' # pending /\ phase = "running"
            /\ Len(pending') > Len(pending) /\ Last(pending').id = o
         => Last(pending').status # "completed"]_vars

(* What a manager is given to resume with decides whether a command may be  *)
(* started: not if it may have been started before (shell.go, resume).      *)
RecordedStartIsFinal ==
    [][\A o \in IDs : runs'[o] > runs[o] =>
         saved[o].type = "shell" /\ resumed[o].state.phase \in {""} \cup CreatePhases]_vars

(* The result of a completed command is the exit status of its last run,    *)
(* and the bounded text of the captures as they are on disk, although long  *)
(* ones are read in two pieces and a read may be repeated after a restart.  *)
(* The text is only that of the run if nothing else writes the captures: a  *)
(* background process of the command does, and so does the command of an    *)
(* earlier run that has outlived the harness (process.go:609).              *)
ResultIsOutput ==
    \A o \in IDs : saved[o].type = "shell" /\ saved[o].status = "completed" =>
        /\ saved[o].state.result.exit = exits[o]
        /\ o \notin strays =>
             /\ saved[o].state.result.out = BoundOutput(disk[o].out, saved[o].max)
             /\ saved[o].state.result.err = BoundOutput(disk[o].err, saved[o].max)

(* A bounded text shows at most the configured number of runes, and its     *)
(* marker counts exactly the bytes left out of the size that is reported,   *)
(* whoever writes the captures while they are read.                         *)
BoundIsTight ==
    \A o \in IDs : saved[o].type = "shell" /\ saved[o].state.result # NoResult =>
        \A c \in {"out", "err"} :
            LET r == saved[o].state.result[c]
            IN  /\ RuneCount(r.head) + RuneCount(r.tail) <= saved[o].max
                /\ Len(r.head) + r.skipped + Len(r.tail) = saved[o].state[c].size
                /\ r.truncated => r.skipped > 0

(* boundOutput is never called without the tail of a text it has only the   *)
(* beginning of, also when the captures change between the two reads: it    *)
(* would panic and take the process down.                                   *)
NeverPanics ==
    \A o \in DOMAIN actors : actors[o].op.type = "shell" =>
        LET s == actors[o].op.state
            Whole_(c) == ~BoundPanics(c.inline, c.tail, c.size)
        IN  /\ s.phase \in {"read_err", "read_err_tail"} => Whole_(s.out)
            /\ s.phase = "read_err" => s.err.tail = << >>

(* A path the operation reports names a file that was created, also when    *)
(* the command failed.                                                      *)
PathsExist ==
    \A o \in IDs : saved[o].type = "shell" =>
        \A c \in {"out", "err"} : saved[o].state[c].path => disk[o][c] # NoFile

(* A skill operation that completes has read its whole file, in however     *)
(* many chunks and across however many restarts.                            *)
SkillIsWhole ==
    \A o \in IDs : saved[o].type = "skill_use" =>
        /\ saved[o].state.content = SubSeq(SkillFile, 1, Len(saved[o].state.content))
        /\ saved[o].status = "completed" => saved[o].state.content = SkillFile

(* An image shown to the model fits the configured bounds.                  *)
ImageFits ==
    \A o \in IDs : saved[o].type = "view_image" /\ saved[o].status = "completed" =>
        LET r == saved[o].state.result
        IN  r.width \in 1 .. MaxWidth /\ r.height \in 1 .. MaxHeight /\ r.size <= MaxSize

(* Every state of an operation the coordinator may save and show the model  *)
(* can be translated, and a finished operation is never shown as running:   *)
(* one that cannot is durable and would end the coordinator on every resume.*)
ResultsTranslate ==
    \A i \in DOMAIN pending :
        pending[i].type \in {"shell", "view_image", "skill_use"} =>
            /\ TranslateResult(pending[i]) # Untranslatable
            /\ Finished(pending[i]) <=> TranslateResult(pending[i]) # <<"running">>

(* No update of a handler makes a job that is being cancelled look active   *)
(* again, or changes what the job is.                                       *)
RemoteNeverRegresses ==
    [][\A o \in IDs : saved[o].type = "remote_job" =>
         /\ saved'[o].state.plan = saved[o].state.plan
         /\ saved[o].status = "canceling" =>
              saved'[o].status \in {"canceling", "failed", "canceled"}]_vars

(* A job of a handler that stopped does not stay open.                      *)
NoJobOfStoppedHandler == \A o \in DOMAIN actors : actors[o].handler \notin closed

(* A cancelled operation ends, whatever its command does.                   *)
CancelEnds ==
    \A o \in IDs :
        (o \in DOMAIN actors /\ actors[o].handler = NoHandler /\ Canceled(o))
            ~> (o \notin DOMAIN actors \/ phase # "running")

(* A manager whose context is cancelled closes.                             *)
ShutdownEnds == ctxDone ~> (phase = "closed" \/ ~ctxDone)

-----------------------------------------------------------------------------
(* What the runs check: the properties above, by what they are about. *)

(* The manager's count of primitives is right at every moment, so that the  *)
(* drain at shutdown (local_manager.go, drainLocalPrimitives) neither hangs *)
(* nor leaves anything behind; an operation never has two at once.          *)
PrimitivesAccounted ==
    TypeOK /\ CountsPrimitives /\ QuietWhenClosed /\ OnePrimitiveEach

(* What is reported of an operation, and saved, is true and final: it ends  *)
(* once, no job is left with a handler that is gone, a result is the output *)
(* of the last run unless a stray process has its captures, the whole skill *)
(* or an image that fits, bounded without a panic, and it can be told to    *)
(* the model.                                                               *)
ReportsAreTrue ==
    /\ EndsOnce /\ NoJobOfStoppedHandler
    /\ ResultIsOutput /\ BoundIsTight /\ NeverPanics /\ PathsExist
    /\ SkillIsWhole /\ ImageFits
    /\ ResultsTranslate

(* No step takes back what was decided: a cancelled operation does not      *)
(* complete, a command whose start is on record is not started again, and a *)
(* job that is being cancelled does not look active again.                  *)
DecisionsStand ==
    CanceledNeverCompletes /\ RecordedStartIsFinal /\ RemoteNeverRegresses

(* A cancelled operation ends, whatever its command does, and a manager     *)
(* that is shut down returns.                                               *)
EndsWhenAsked == CancelEnds /\ ShutdownEnds

(* shell_test.go:154 names the rule: a command with an unknown outcome fails *)
(* "WithoutRestarting".                                                     *)
CommandRunsOnce == \A o \in IDs : runs[o] <= 1
=============================================================================

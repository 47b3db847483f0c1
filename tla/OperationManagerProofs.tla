----------------------- MODULE OperationManagerProofs -----------------------
(***************************************************************************)
(* Proofs about the operation manager, for any set of operations, handlers, *)
(* files and outputs and any bounds: its count of primitives is right, an   *)
(* operation reports its end once, and no step takes back a decision.       *)
(***************************************************************************)
EXTENDS OperationManager, FiniteSetTheorems, TLAPS

LocalTypes == {"value", "skill_use", "view_image", "shell"}
PrimitiveTypes == {"create", "process", "read", "compute"}

(* The phases of a shell operation up to the start of its command. *)
Starting == CreatePhases \cup {"process"}

ShellState(s) ==
    DOMAIN s = {"phase", "group", "exit", "out", "err", "result", "error"}

(* A state of operation o: who it is never changes. *)
WellFormed(o, op) ==
    /\ DOMAIN op = {"id", "type", "status", "max", "state"}
    /\ op.id = o /\ op.type = Specs[o].type
    /\ op.status \in Statuses
    /\ Specs[o].type = "shell" => ShellState(op.state)
    /\ Specs[o].type = "remote_job" =>
         DOMAIN op.state = {"plan", "error"} /\ op.state.plan = Specs[o].state.plan

ActorOK(o, a) ==
    /\ DOMAIN a = {"op", "mem", "handler"}
    /\ WellFormed(o, a.op) /\ ~Finished(a.op)
    /\ a.handler = NoHandler <=> Specs[o].type # "remote_job"
    /\ a.handler \in DOMAIN Plans \cup {NoHandler}

PrimitiveOK(p) == DOMAIN p = {"req", "at", "sent", "size"} /\ p.req.type \in PrimitiveTypes

(* The primitives of an operation are at most one. *)
OneOrNone(s) == s = << >> \/ (s = <<s[1]>> /\ PrimitiveOK(s[1]))

IsSequence(s) == s \in Seq(ToSet(s))

(* May state b of an operation follow its state a?  Nothing follows an end, *)
(* and a remote job that is being cancelled does not become active again.   *)
AfterCanceling == {"canceling", "failed", "canceled"}
Precedes(a, b) ==
    /\ ~Finished(a)
    /\ a.type = "remote_job" /\ a.status = "canceling" => b.status \in AfterCanceling

(* What was saved, what is queued and what the actors have are states of    *)
(* each operation in their order.                                           *)
Queue(queue, known, acts, stored) ==
    /\ IsSequence(queue)
    /\ \A i \in DOMAIN queue :
         /\ queue[i].id \in known /\ WellFormed(queue[i].id, queue[i])
         /\ Precedes(stored[queue[i].id], queue[i])
         /\ \A j \in DOMAIN queue : i < j /\ queue[j].id = queue[i].id => Precedes(queue[i], queue[j])
    /\ \A o \in DOMAIN acts :
         /\ Precedes(stored[o], acts[o].op)
         /\ \A i \in DOMAIN queue : queue[i].id = o => Precedes(queue[i], acts[o].op)

Shapes ==
    /\ phase \in {"running", "draining", "closed"}
    /\ ctxDone \in BOOLEAN
    /\ restarts \in 0 .. MaxRestarts
    /\ IsFiniteSet(accepted) /\ accepted \subseteq IDs
    /\ closed \subseteq DOMAIN Plans
    /\ DOMAIN saved = IDs /\ \A o \in IDs : WellFormed(o, saved[o])

Actors ==
    /\ DOMAIN actors \subseteq accepted
    /\ \A o \in DOMAIN actors : ActorOK(o, actors[o]) /\ actors[o].handler \notin closed

Primitives ==
    /\ DOMAIN prims = IDs
    /\ \A o \in IDs :
         /\ OneOrNone(prims[o])
         /\ prims[o] # << >> => Specs[o].type \in LocalTypes

Counted == IsFiniteSet(Running) /\ active = Cardinality(Running)

(* An operation this manager was not given is as the last one left it.      *)
Untouched ==
    \A o \in IDs \ accepted : prims[o] = << >> /\ saved[o] = resumed[o]

(* No start of the command was on record when this manager was given it.    *)
MayStart(o) == resumed[o].state.phase \in {""} \cup CreatePhases

ActorStarts ==
    \A o \in DOMAIN actors :
        Specs[o].type = "shell" /\ actors[o].op.state.phase \in Starting => MayStart(o)

ProcessStarts ==
    \A o \in IDs :
        prims[o] # << >> /\ prims[o][1].req.type = "process"
            => Specs[o].type = "shell" /\ MayStart(o)

IInv ==
    /\ Shapes /\ Actors /\ Primitives /\ Counted /\ QuietWhenClosed
    /\ Queue(pending, accepted, actors, saved)
    /\ Untouched /\ ActorStarts /\ ProcessStarts

-----------------------------------------------------------------------------
(* Sequences. *)

LEMMA InSeq == ASSUME NEW S, NEW s \in Seq(S) PROVE IsSequence(s)
  BY DEF IsSequence, ToSet
LEMMA Appended ==
    ASSUME NEW s, IsSequence(s), NEW x
    PROVE  /\ IsSequence(Append(s, x)) /\ Len(s) \in Nat
           /\ DOMAIN s = 1..Len(s) /\ DOMAIN Append(s, x) = 1..(Len(s) + 1)
           /\ Append(s, x)[Len(s) + 1] = x
           /\ \A i \in 1..Len(s) : Append(s, x)[i] = s[i]
  <1> DEFINE S == ToSet(s) \cup {x}
  <1>1. s \in Seq(S)
    BY DEF IsSequence
  <1> HIDE DEF S
  <1>2. x \in S  BY DEF S
  <1>3. Append(s, x) \in Seq(S) BY <1>1, <1>2
  <1>4. IsSequence(Append(s, x))
    BY <1>3, InSeq
  <1>5. /\ Len(s) \in Nat
        /\ DOMAIN s = 1..Len(s) /\ DOMAIN Append(s, x) = 1..(Len(s) + 1)
        /\ Append(s, x)[Len(s) + 1] = x
        /\ \A i \in 1..Len(s) : Append(s, x)[i] = s[i]
    BY <1>1, <1>2
  <1>6. QED  BY <1>4, <1>5
LEMMA Tailed ==
    ASSUME NEW s, IsSequence(s), s # << >>
    PROVE  /\ IsSequence(Tail(s)) /\ Len(s) \in Nat \ {0}
           /\ DOMAIN s = 1..Len(s) /\ DOMAIN Tail(s) = 1..(Len(s) - 1)
           /\ Head(s) = s[1]
           /\ \A i \in 1..(Len(s) - 1) : Tail(s)[i] = s[i + 1]
  <1> DEFINE S == ToSet(s)
  <1>1. s \in Seq(S)
    BY DEF IsSequence
  <1> HIDE DEF S
  <1>2. Tail(s) \in Seq(S) BY <1>1
  <1>3. IsSequence(Tail(s))
    BY <1>2, InSeq
  <1>4. /\ Len(s) \in Nat \ {0}
        /\ DOMAIN s = 1..Len(s) /\ DOMAIN Tail(s) = 1..(Len(s) - 1)
        /\ Head(s) = s[1]
        /\ \A i \in 1..(Len(s) - 1) : Tail(s)[i] = s[i + 1]
    BY <1>1
  <1>5. QED  BY <1>3, <1>4
LEMMA Joined ==
    ASSUME NEW s, IsSequence(s), NEW t, IsSequence(t)
    PROVE  /\ IsSequence(s \o t) /\ Len(s) \in Nat /\ Len(t) \in Nat
           /\ DOMAIN s = 1..Len(s) /\ DOMAIN t = 1..Len(t) /\ DOMAIN (s \o t) = 1..(Len(s) + Len(t))
           /\ \A i \in 1..Len(s) : (s \o t)[i] = s[i]
           /\ \A i \in 1..Len(t) : (s \o t)[Len(s) + i] = t[i]
  <1> DEFINE S == ToSet(s) \cup ToSet(t)
  <1>1. s \in Seq(S) /\ t \in Seq(S)
    BY DEF IsSequence
  <1> HIDE DEF S
  <1>2. s \o t \in Seq(S) BY <1>1
  <1>3. IsSequence(s \o t)
    BY <1>2, InSeq
  <1>4. /\ Len(s) \in Nat /\ Len(t) \in Nat
        /\ DOMAIN s = 1..Len(s) /\ DOMAIN t = 1..Len(t) /\ DOMAIN (s \o t) = 1..(Len(s) + Len(t))
        /\ \A i \in 1..Len(s) : (s \o t)[i] = s[i]
        /\ \A i \in 1..Len(t) : (s \o t)[Len(s) + i] = t[i]
    BY <1>1
  <1>5. QED  BY <1>3, <1>4
LEMMA Single ==
    ASSUME NEW p, NEW q, NEW i \in DOMAIN <<p>>
    PROVE  /\ i = 1 /\ [<<p>> EXCEPT ![i] = q] = <<q>>
           /\ SubSeq(<<p>>, 1, i - 1) \o << >> \o SubSeq(<<p>>, i + 1, Len(<<p>>)) = << >>
           /\ SubSeq(<<p>>, 1, i - 1) \o <<q>> \o SubSeq(<<p>>, i + 1, Len(<<p>>)) = <<q>>
  <1>1. i = 1 /\ <<p>> \in Seq({p}) /\ Len(<<p>>) = 1
    OBVIOUS
  <1>2. SubSeq(<<p>>, 1, 0) = << >> /\ SubSeq(<<p>>, 2, 1) = << >>
    BY <1>1
  <1>3. [<<p>> EXCEPT ![1] = q] = <<q>>
    OBVIOUS
  <1>4. << >> \o << >> \o << >> = << >> /\ << >> \o <<q>> \o << >> = <<q>>
    OBVIOUS
  <1>5. i - 1 = 0 /\ i + 1 = 2
    BY <1>1
  <1>6. QED  BY <1>1, <1>2, <1>3, <1>4, <1>5
-----------------------------------------------------------------------------
(* The steps of the actors. *)

(* A step of an actor keeps the identity of its operation, leaves it as it  *)
(* is unless it makes a checkpoint, starts at most one primitive, and that  *)
(* only first or after the end of another, completes only on the completion *)
(* of a primitive, and starts a command only on the way to it.              *)
StepOK(o, op, event, step) ==
    step.ok =>
        /\ WellFormed(o, step.op)
        /\ step.save \in BOOLEAN /\ (step.save \/ step.op = op)
        /\ \/ step.dispatches = << >>
           \/ /\ step.dispatches = <<step.dispatches[1]>>
              /\ step.dispatches[1].type \in PrimitiveTypes
              /\ event = NoEvent \/ event.type \in CompletedEvents
              /\ step.dispatches[1].type = "process" =>
                   Specs[o].type = "shell" /\ step.op.state.phase = "process"
        /\ step.op.status = "completed" /\ event # NoEvent =>
             event.type \in CompletedEvents \ {"canceled", "failed"}
        /\ Specs[o].type = "shell" /\ step.op.state.phase \in Starting =>
             IF event = NoEvent THEN op.state.phase \in {""} \cup CreatePhases
             ELSE op.state.phase \in Starting

LEMMA SpecShape ==
    ASSUME NEW o \in IDs
    PROVE  WellFormed(o, Specs[o]) /\ Specs[o].type \in LocalTypes \cup {"remote_job"}
  <1>1. CASE Specs[o] = ValueSpec(o)
    BY <1>1 DEF ValueSpec, WellFormed, LocalTypes, Statuses
  <1>2. CASE Specs[o] = SkillSpec(o)
    BY <1>2 DEF SkillSpec, WellFormed, LocalTypes, Statuses
  <1>3. CASE Specs[o] = ImageSpec(o)
    BY <1>3 DEF ImageSpec, WellFormed, LocalTypes, Statuses
  <1>4. CASE Specs[o] = ShellSpec(o, Specs[o].max)
    <2> DEFINE m == Specs[o].max
               s == [phase |-> "", group |-> FALSE, exit |-> NoExit,
                     out |-> EmptyCapture, err |-> EmptyCapture, result |-> NoResult, error |-> FALSE]
    <2>1. ShellState(s)
      BY DEF ShellState
    <2>2. Specs[o] = [id |-> o, type |-> "shell", status |-> "ready", max |-> m, state |-> s]
      BY <1>4, Zenon DEF ShellSpec
    <2> HIDE DEF m, s
    <2>3. QED  BY <2>1, <2>2 DEF WellFormed, LocalTypes, Statuses
  <1>5. CASE Specs[o] = RemoteSpec(o, Specs[o].state.plan)
    <2> DEFINE p == Specs[o].state.plan
    <2>1. Specs[o] = RemoteSpec(o, p)
      BY <1>5
    <2> HIDE DEF p
    <2>2. QED  BY <2>1 DEF RemoteSpec, WellFormed, LocalTypes, Statuses
  <1>6. QED
    BY <1>1, <1>2, <1>3, <1>4, <1>5, SpecsAssumption DEF SubmittedAsMade

LEMMA ValueStep ==
    ASSUME NEW o, NEW op, WellFormed(o, op), Specs[o].type = "value", NEW event
    PROVE  StepOK(o, op, event, AdvanceValue(op, event))
  BY DEF WellFormed, StepOK, AdvanceValue, Refuse, Silent, Checkpoint, Step, Statuses, Terminal

LEMMA SkillEnds ==
    ASSUME NEW o, NEW op, WellFormed(o, op), Specs[o].type = "skill_use", NEW event
    PROVE  StepOK(o, op, event, SkillFail(op)) /\ StepOK(o, op, event, SkillCancel(op))
  BY DEF WellFormed, StepOK, SkillFail, SkillCancel, Checkpoint, Step, Statuses, Terminal

LEMMA SkillReads ==
    ASSUME NEW o, NEW op, WellFormed(o, op), Specs[o].type = "skill_use"
    PROVE  StepOK(o, op, NoEvent, SkillRead(op))
  BY DEF WellFormed, StepOK, SkillRead, Dispatch, Step, Statuses, PrimitiveTypes

LEMMA SkillStep ==
    ASSUME NEW o, NEW op, WellFormed(o, op), Specs[o].type = "skill_use", NEW event,
           event = NoEvent \/ event.type # "none"
    PROVE  StepOK(o, op, event, SkillHandle(op, event))
  <1>1. StepOK(o, op, event, Refuse(op, NoMemory))
    BY DEF StepOK, Refuse, Silent, Step
  <1>2. StepOK(o, op, event, SkillAwaiting(op, event))
    <2>1. ASSUME NEW data PROVE StepOK(o, op, event, Checkpoint(SkillAppend(op, data)))
      BY DEF WellFormed, StepOK, SkillAppend, Checkpoint, Step, Statuses, Terminal
    <2>2. event.type = "read_completed" =>
            StepOK(o, op, event, Checkpoint([op EXCEPT !.status = "completed"]))
      BY DEF WellFormed, StepOK, Checkpoint, Step, Statuses, Terminal, CompletedEvents
    <2>3. QED
      BY <2>1, <2>2, SkillEnds DEF SkillAwaiting
  <1>3. QED
    BY <1>1, <1>2, SkillEnds, SkillReads DEF SkillHandle

LEMMA ImageEnds ==
    ASSUME NEW o, NEW op, WellFormed(o, op), Specs[o].type = "view_image", NEW event,
           NEW status \in Terminal, NEW result,
           status = "completed" => event.type = "compute_completed"
    PROVE  StepOK(o, op, event, ImageFinish(op, status, result))
  BY DEF WellFormed, StepOK, ImageFinish, Checkpoint, Step, Statuses, Terminal, CompletedEvents

LEMMA ImageStep ==
    ASSUME NEW o, NEW op, WellFormed(o, op), Specs[o].type = "view_image", NEW mem, NEW event,
           event = NoEvent \/ event.type # "none"
    PROVE  StepOK(o, op, event, ImageHandle(op, mem, event))
  <1>1. StepOK(o, op, event, Refuse(op, mem))
    BY DEF StepOK, Refuse, Silent, Step
  <1>2. StepOK(o, op, event, ImageFail(op)) /\ StepOK(o, op, event, ImageCancel(op))
    BY ImageEnds DEF ImageFail, ImageCancel, Terminal
  <1>3. event = NoEvent => StepOK(o, op, event, ImageRead(op))
    BY DEF WellFormed, StepOK, ImageRead, Dispatch, Step, Statuses, PrimitiveTypes
  <1>4. ASSUME NEW cause, event.type \in CompletedEvents, event # NoEvent,
               op.status # "completed"
        PROVE  StepOK(o, op, event, ImageProcess(op, mem, cause))
    BY <1>4 DEF WellFormed, StepOK, ImageProcess, Silent, Dispatch, Step, PrimitiveTypes
  <1>5. ASSUME NEW data, op.status # "completed"
        PROVE  StepOK(o, op, event, Silent(op, data, << >>))
    BY <1>5 DEF WellFormed, StepOK, Silent, Step
  <1>6. ASSUME op.status = "awaiting", event # NoEvent
        PROVE  StepOK(o, op, event, ImageHandleRead(op, mem, event))
    BY <1>6, <1>1, <1>4, <1>5 DEF ImageHandleRead, CompletedEvents
  <1>7. StepOK(o, op, event, ImageProcessed(op, mem, event))
    BY <1>1, <1>2, ImageEnds DEF ImageProcessed, Terminal
  <1>8. ASSUME op.status = "awaiting", event # NoEvent
        PROVE  StepOK(o, op, event, ImageHandleEvent(op, mem, event))
    <2>1. CASE event.type = "failed"
      <3>1. StepOK(o, op, event, ImageProcess(op, mem, TRUE))
        BY <1>8, <2>1
           DEF CompletedEvents, WellFormed, StepOK, ImageProcess, Silent, Dispatch, Step, PrimitiveTypes
      <3>2. QED
        BY <3>1, <2>1, <1>1, <1>2 DEF ImageHandleEvent
    <2>2. CASE event.type # "failed"
      BY <2>2, <1>8, <1>1, <1>2, <1>6, <1>7 DEF ImageHandleEvent
    <2>3. QED  BY <2>1, <2>2
  <1>9. QED
    BY <1>1, <1>2, <1>3, <1>8 DEF ImageHandle

(* Whether a command may still be started after a step of op. *)
Follows(op, event) ==
    IF event = NoEvent THEN op.state.phase \in {""} \cup CreatePhases
    ELSE op.state.phase \in Starting

LEMMA Checkpoints ==
    ASSUME NEW o, NEW op, NEW event, NEW x, WellFormed(o, x), x.status # "completed",
           Specs[o].type = "shell" => x.state.phase \notin Starting
    PROVE  StepOK(o, op, event, Checkpoint(x))
  BY DEF StepOK, Checkpoint, Step

LEMMA Completions ==
    ASSUME NEW o, NEW op, NEW event, NEW x, WellFormed(o, x),
           event.type \in CompletedEvents \ {"canceled", "failed"},
           Specs[o].type = "shell" => x.state.phase \notin Starting
    PROVE  StepOK(o, op, event, Checkpoint(x))
  BY DEF StepOK, Checkpoint, Step

LEMMA ShellEnds ==
    ASSUME NEW o, NEW op, WellFormed(o, op), Specs[o].type = "shell", NEW event
    PROVE  StepOK(o, op, event, ShellFail(op)) /\ StepOK(o, op, event, ShellCancel(op))
  <1> DEFINE f == [op EXCEPT !.status = "failed", !.state.phase = "", !.state.error = TRUE]
             c == [op EXCEPT !.status = "canceled", !.state.phase = "", !.state.error = TRUE]
  <1>1. WellFormed(o, f) /\ f.status = "failed" /\ f.state.phase = ""
    BY DEF WellFormed, ShellState, Statuses, Terminal
  <1>2. WellFormed(o, c) /\ c.status = "canceled" /\ c.state.phase = ""
    BY DEF WellFormed, ShellState, Statuses, Terminal
  <1>3. ShellFail(op) = Checkpoint(f) /\ ShellCancel(op) = Checkpoint(c)
    BY DEF ShellFail, ShellCancel
  <1> HIDE DEF f, c
  <1>4. QED
    BY <1>1, <1>2, <1>3, Checkpoints DEF Starting, CreatePhases

LEMMA WithPhase ==
    ASSUME NEW o, NEW op, WellFormed(o, op), Specs[o].type = "shell", NEW p
    PROVE  /\ WellFormed(o, [op EXCEPT !.state.phase = p])
           /\ [op EXCEPT !.state.phase = p].state.phase = p
           /\ [op EXCEPT !.state.phase = p].status = op.status
  BY DEF WellFormed, ShellState

LEMMA Failing ==
    ASSUME NEW o, NEW op, NEW x, WellFormed(o, x), Specs[o].type = "shell", NEW event
    PROVE  StepOK(o, op, event, ShellFail(x))
  <1>1. StepOK(o, x, event, ShellFail(x))
    BY ShellEnds
  <1>2. ShellFail(x).save = TRUE /\ ShellFail(x).ok = TRUE /\ ShellFail(x).dispatches = << >>
        /\ ShellFail(x).op.state.phase = ""
    BY DEF ShellFail, Checkpoint, Step, WellFormed, ShellState
  <1>3. QED
    BY <1>1, <1>2 DEF StepOK, Starting, CreatePhases

LEMMA Dispatching ==
    ASSUME NEW o, NEW op, NEW x, WellFormed(o, x), Specs[o].type = "shell",
           NEW event, event = NoEvent \/ event.type \in CompletedEvents,
           x.state.phase \in Starting => Follows(op, event)
    PROVE  StepOK(o, op, event, DispatchPhase(x))
  <1>1. ASSUME NEW d, d.type \in PrimitiveTypes, d.type = "process" => x.state.phase = "process"
        PROVE  StepOK(o, op, event, ShellDispatch(x, d))
    <2> DEFINE a == [x EXCEPT !.status = "awaiting"]
    <2>1. WellFormed(o, a) /\ a.status = "awaiting" /\ a.state = x.state
      BY DEF WellFormed, Statuses
    <2>2. ShellDispatch(x, d) = Step(a, NoMemory, <<d>>)
      BY DEF ShellDispatch
    <2> HIDE DEF a
    <2>3. StepOK(o, op, event, Step(a, NoMemory, <<d>>))
      BY <1>1, <2>1 DEF StepOK, Step, Follows
    <2>4. QED
      BY <2>2, <2>3
  <1>2. ShellCreate(x).type = "create" /\ ShellStart.type = "process" /\ ShellRead(x).type = "read"
    BY DEF ShellCreate, ShellStart, ShellRead, Dispatch
  <1>3. StepOK(o, op, event, ShellDispatch(x, ShellCreate(x)))
    BY <1>1, <1>2 DEF PrimitiveTypes
  <1>4. x.state.phase = "process" => StepOK(o, op, event, ShellDispatch(x, ShellStart))
    BY <1>1, <1>2 DEF PrimitiveTypes
  <1>5. StepOK(o, op, event, ShellDispatch(x, ShellRead(x)))
    BY <1>1, <1>2 DEF PrimitiveTypes
  <1>6. QED
    BY <1>3, <1>4, <1>5, Failing DEF DispatchPhase

LEMMA NextPhases ==
    ASSUME NEW o, NEW op, NEW x, WellFormed(o, x), Specs[o].type = "shell",
           NEW event, event = NoEvent \/ event.type \in CompletedEvents, NEW p,
           p \in Starting => Follows(op, event)
    PROVE  StepOK(o, op, event, NextPhase(x, p))
  <1> DEFINE y == [x EXCEPT !.state.phase = p]
  <1>1. WellFormed(o, y) /\ y.state.phase = p
    BY DEF WellFormed, ShellState
  <1>2. NextPhase(x, p) = DispatchPhase(y)
    BY DEF NextPhase
  <1> HIDE DEF y
  <1>3. QED  BY <1>1, <1>2, Dispatching

LEMMA ShellStep ==
    ASSUME NEW o, NEW op, WellFormed(o, op), Specs[o].type = "shell", NEW mem, NEW event,
           event = NoEvent \/ event.type # "none"
    PROVE  StepOK(o, op, event, ShellHandle(op, mem, event))
  <1> DEFINE OK(step) == StepOK(o, op, event, step)
  <1>1. OK(Refuse(op, mem))
    BY DEF StepOK, Refuse, Silent, Step
  <1>2. OK(ShellFail(op)) /\ OK(ShellCancel(op))
    BY ShellEnds
  <1>3. ASSUME op.state.phase \in CreatePhases, event # NoEvent
        PROVE  OK(ShellCreated(op, event))
    <2>1. CASE event.type = "create_completed"
      <3> DEFINE x == [op EXCEPT !.state.out.path = TRUE]
                 y == [op EXCEPT !.state.err.path = TRUE]
      <3>1. WellFormed(o, x) /\ WellFormed(o, y)
        BY DEF WellFormed, ShellState
      <3>2. Follows(op, event) /\ event.type \in CompletedEvents
        BY <1>3, <2>1 DEF Follows, Starting, CompletedEvents
      <3>3. ShellCreated(op, event) \in
              {NextPhase(op, "create_out"), NextPhase(x, "create_err"), NextPhase(y, "process")}
        BY <1>3, <2>1 DEF ShellCreated, CreatePhases
      <3> HIDE DEF x, y
      <3>4. QED
        BY <3>1, <3>2, <3>3, NextPhases
    <2>2. CASE event.type # "create_completed"
      BY <1>2, <2>2 DEF ShellCreated
    <2>3. QED  BY <2>1, <2>2
  <1>4. ASSUME op.state.phase = "process", event # NoEvent
        PROVE  OK(ShellProcessEvent(op, event))
    <2> DEFINE x == [op EXCEPT !.status = "awaiting", !.state.group = TRUE]
               y == [op EXCEPT !.state.group = FALSE, !.state.exit = event.result]
    <2>1. WellFormed(o, x) /\ x.status = "awaiting" /\ x.state.phase = op.state.phase
      BY DEF WellFormed, ShellState, Statuses
    <2>2. WellFormed(o, y)
      BY DEF WellFormed, ShellState
    <2>3. OK(Checkpoint(x))
      <3> HIDE DEF x
      <3>1. QED  BY <1>4, <2>1 DEF StepOK, Checkpoint, Step, Starting
    <2>4. event.type = "process_exited" => OK(NextPhase(y, "read_out"))
      <3> HIDE DEF y
      <3>1. QED  BY <2>2, NextPhases DEF CompletedEvents, Starting, CreatePhases
    <2>5. QED
      BY <1>2, <2>3, <2>4 DEF ShellProcessEvent
  <1>5. ASSUME NEW x, WellFormed(o, x), event.type = "read_completed"
        PROVE  OK(ShellFinish(x))
    <2>1. OK(ShellFail(x))
      BY <1>5, Failing
    <2>2. CASE x.state.exit # NoExit
      <3> DEFINE B(c) == BoundParts(c.inline, c.tail, c.size, x.max)
                 t == [x.state EXCEPT
                        !.phase = "", !.exit = NoExit,
                        !.result = [exit |-> x.state.exit, out |-> B(x.state.out), err |-> B(x.state.err)],
                        !.out = [EmptyCapture EXCEPT !.size = x.state.out.size, !.path = TRUE],
                        !.err = [EmptyCapture EXCEPT !.size = x.state.err.size, !.path = TRUE]]
                 y == [x EXCEPT !.status = "completed", !.state = t]
      <3>1. ShellFinish(x) = Checkpoint(y)
        BY <2>2 DEF ShellFinish
      <3>2. ShellState(t) /\ t.phase = ""
        BY <1>5 DEF WellFormed, ShellState
      <3> HIDE DEF t
      <3>3. WellFormed(o, y) /\ y.status = "completed" /\ y.state.phase = ""
        BY <1>5, <3>2 DEF WellFormed, Statuses, Terminal
      <3> HIDE DEF y
      <3>4. QED
        BY <1>5, <3>1, <3>3, Completions DEF Starting, CreatePhases, CompletedEvents
    <2>3. QED
      BY <2>1, <2>2 DEF ShellFinish
  <1>6. ASSUME op.state.phase \in ReadPhases, event.type = "read_completed", NEW data, NEW size
        PROVE  OK(ShellReadCompleted(op, data, size))
    <2> DEFINE long == size > ReadLimit(op)
               first == IF long THEN SubSeq(data, 1, ReadLimit(op) - TailReadLimit(op)) ELSE data
               First(c) == [op.state[c] EXCEPT !.inline = first, !.size = size, !.tail = << >>]
               a == [op EXCEPT !.state.out = First("out")]
               b == [op EXCEPT !.state.out.tail = data]
               c == [op EXCEPT !.state.err = First("err")]
               d == [op EXCEPT !.state.err.tail = data]
    <2>1. ShellReadCompleted(op, data, size) \in
            {NextPhase(a, IF long THEN "read_out_tail" ELSE "read_err"), NextPhase(b, "read_err"),
             NextPhase(c, "read_err_tail"), ShellFinish(c), ShellFinish(d)}
      BY <1>6 DEF ShellReadCompleted, ReadPhases
    <2>2. WellFormed(o, a) /\ WellFormed(o, b) /\ WellFormed(o, c) /\ WellFormed(o, d)
      <3> HIDE DEF First
      <3>1. WellFormed(o, a)  BY DEF WellFormed, ShellState
      <3>2. WellFormed(o, b)  BY DEF WellFormed, ShellState
      <3>3. WellFormed(o, c)  BY DEF WellFormed, ShellState
      <3>4. WellFormed(o, d)  BY DEF WellFormed, ShellState
      <3>5. QED  BY <3>1, <3>2, <3>3, <3>4
    <2> HIDE DEF long, a, b, c, d
    <2>3. ASSUME NEW x, WellFormed(o, x), NEW p \in ReadPhases
          PROVE  OK(NextPhase(x, p))
      <3>1. event.type \in CompletedEvents /\ p \notin Starting
        BY <1>6 DEF CompletedEvents, Starting, CreatePhases, ReadPhases
      <3>2. QED  BY <2>3, <3>1, NextPhases
    <2>4. OK(NextPhase(a, "read_out_tail")) /\ OK(NextPhase(a, "read_err"))
          /\ OK(NextPhase(b, "read_err")) /\ OK(NextPhase(c, "read_err_tail"))
      BY <2>2, <2>3 DEF ReadPhases
    <2>5. OK(ShellFinish(c)) /\ OK(ShellFinish(d))
      BY <1>5, <1>6, <2>2
    <2>6. QED  BY <2>1, <2>4, <2>5
  <1>7. ASSUME op.status = "awaiting", op.state.phase \in ReadPhases
        PROVE  OK(ShellReadEvent(op, mem, event))
    <2>1. ASSUME NEW m PROVE OK(Silent(op, m, << >>))
      <3>1. op.state.phase \notin Starting
        BY <1>7 DEF ReadPhases, Starting, CreatePhases
      <3>2. QED  BY <1>7, <3>1 DEF StepOK, Silent, Step
    <2>2. QED
      BY <1>2, <1>6, <1>7, <2>1 DEF ShellReadEvent
  <1>8. ASSUME op.status = "awaiting", event # NoEvent
        PROVE  OK(ShellAwaiting(op, mem, event))
    BY <1>8, <1>2, <1>3, <1>4, <1>7 DEF ShellAwaiting
  <1>9. ASSUME op.status = "awaiting", event = NoEvent
        PROVE  OK(ShellResume(op))
    <2>1. op.state.phase # "process" => OK(DispatchPhase(op))
      BY <1>9, Dispatching DEF Follows, Starting
    <2>2. QED  BY <1>2, <2>1 DEF ShellResume
  <1>10. ASSUME event = NoEvent, ShellInitial(op)
         PROVE  OK(NextPhase(op, "create_directory"))
    BY <1>10, NextPhases DEF ShellInitial, Follows
  <1>11. QED
    BY <1>1, <1>2, <1>8, <1>9, <1>10 DEF ShellHandle

LEMMA HandleStep ==
    ASSUME NEW o, NEW actor, WellFormed(o, actor.op), Specs[o].type \in LocalTypes, NEW event,
           event = NoEvent \/ event.type # "none"
    PROVE  StepOK(o, actor.op, event, Handle(actor, event))
  <1>1. actor.op.type = Specs[o].type
    BY DEF WellFormed
  <1>2. QED
    BY <1>1, ValueStep, SkillStep, ImageStep, ShellStep DEF Handle, LocalTypes

LEMMA FailedOperation ==
    ASSUME NEW o, NEW op, WellFormed(o, op)
    PROVE  WellFormed(o, FailOperation(op)) /\ FailOperation(op).status = "failed"
  <1> USE DEF WellFormed, Statuses, Terminal
  <1>1. CASE op.type = "shell"
    BY <1>1 DEF FailOperation, ShellFail, Checkpoint, Step, ShellState
  <1>2. CASE op.type = "view_image"
    BY <1>2 DEF FailOperation, ImageFail, ImageFinish, Checkpoint, Step
  <1>3. CASE op.type = "skill_use"
    BY <1>3 DEF FailOperation, SkillFail, Checkpoint, Step
  <1>4. CASE op.type = "remote_job"
    BY <1>4 DEF FailOperation, RemoteFail
  <1>5. CASE op.type \notin {"shell", "view_image", "skill_use", "remote_job"}
    BY <1>5 DEF FailOperation
  <1>6. QED  BY <1>1, <1>2, <1>3, <1>4, <1>5

(* What a primitive sends, and what is left of it. *)
Sends(p, e) ==
    /\ DOMAIN e[2] = {"type", "corr", "result"} /\ e[2].type # "none"
    /\ \/ e[3] = << >> /\ e[2].type \in CompletedEvents
       \/ \E q : /\ e[3] = <<q>> /\ PrimitiveOK(q) /\ q.req = p.req
                 /\ e[2].type \notin CompletedEvents

LEMMA PrimitiveSends ==
    ASSUME NEW o, NEW p, PrimitiveOK(p), NEW e \in NextEvents(o, p)
    PROVE  Sends(p, e)
  <1> DEFINE E(type, result, then) == <<type, Event(type, p.req.corr, result), then>>
  <1>1. ASSUME NEW t \in CompletedEvents, NEW r
        PROVE  Sends(p, E(t, r, << >>))
    BY DEF Sends, Event, CompletedEvents
  <1>2. ASSUME NEW t \in {"process_started", "read_output"}, NEW r, NEW q,
               PrimitiveOK(q), q.req = p.req
        PROVE  Sends(p, E(t, r, <<q>>))
    BY <1>2 DEF Sends, Event, CompletedEvents
  <1>3. CASE p.req.type = "create"
    <2>1. e \in {E("failed", "error", << >>), E("canceled", "none", << >>),
                 E("create_completed", "none", << >>)}
      BY <1>3 DEF NextEvents, Ended
    <2>2. QED  BY <1>1, <2>1 DEF CompletedEvents
  <1>4. CASE p.req.type = "process"
    <2> DEFINE q == [p EXCEPT !.at = "running"]
    <2>1. PrimitiveOK(q) /\ q.req = p.req
      BY DEF PrimitiveOK
    <2>2. Sends(p, E("process_started", "none", <<q>>))
      BY <1>2, <2>1
    <2>3. e \in {E("failed", "error", << >>), E("canceled", "none", << >>),
                 E("process_started", "none", <<q>>), E("process_exited", exits[o], << >>)}
      BY <1>4 DEF NextEvents, Ended
    <2>4. QED
      BY <1>1, <2>2, <2>3 DEF CompletedEvents
  <1>5. CASE p.req.type = "read"
    <2> DEFINE q(n, m) == [p EXCEPT !.sent = n, !.size = m]
    <2>1. ASSUME NEW n, NEW m PROVE PrimitiveOK(q(n, m)) /\ q(n, m).req = p.req
      BY DEF PrimitiveOK
    <2>2. \/ \E t \in {"failed", "canceled", "read_completed"} : \E x : e = E(t, x, << >>)
          \/ \E x, n, m : e = E("read_output", x, <<q(n, m)>>)
      BY <1>5 DEF NextEvents, Ended
    <2> HIDE DEF q
    <2>3. ASSUME NEW x, NEW n, NEW m PROVE Sends(p, E("read_output", x, <<q(n, m)>>))
      BY <1>2, <2>1
    <2>4. QED
      BY <1>1, <2>2, <2>3 DEF CompletedEvents
  <1>6. CASE p.req.type = "compute"
    <2>1. \E t \in {"failed", "canceled", "compute_completed"} : \E x : e = E(t, x, << >>)
      BY <1>6 DEF NextEvents, Ended
    <2>2. QED
      BY <1>1, <2>1 DEF CompletedEvents
  <1>7. QED
    BY <1>3, <1>4, <1>5, <1>6 DEF PrimitiveOK, PrimitiveTypes
-----------------------------------------------------------------------------
(* The queue of updates. *)

LEMMA PrecedesTransitive ==
    ASSUME NEW a, NEW b, NEW c, Precedes(a, b), Precedes(b, c), a.type = b.type
    PROVE  Precedes(a, c)
  BY DEF Precedes, AfterCanceling, Finished, Terminal

(* An operation is added as it was saved; nothing of it is queued. *)
LEMMA QueueAdd ==
    ASSUME NEW queue, NEW known, NEW acts, NEW stored, Queue(queue, known, acts, stored),
           NEW o, \A i \in DOMAIN queue : queue[i].id # o, NEW a, a.op = stored[o],
           ~Finished(stored[o])
    PROVE  Queue(queue, known \cup {o}, Put(acts, o, a), stored)
  <1>1. Precedes(stored[o], stored[o])
    BY DEF Precedes, AfterCanceling
  <1>2. DOMAIN Put(acts, o, a) = DOMAIN acts \cup {o} /\ Put(acts, o, a)[o] = a
        /\ \A x \in DOMAIN acts : x # o => Put(acts, o, a)[x] = acts[x]
    BY DEF Put
  <1> DEFINE b == Put(acts, o, a)
  <1>3. b[o] = a /\ DOMAIN b = DOMAIN acts \cup {o} /\ \A x \in DOMAIN acts : x # o => b[x] = acts[x]
    BY <1>2
  <1> HIDE DEF b
  <1>4. Queue(queue, known \cup {o}, b, stored)
    BY <1>1, <1>3 DEF Queue
  <1>5. QED  BY <1>4 DEF b

(* A checkpoint of an actor is queued; the actor goes on from it, if it     *)
(* does.                                                                    *)
LEMMA QueuePush ==
    ASSUME NEW queue, NEW known, NEW acts, NEW stored, Queue(queue, known, acts, stored),
           NEW o \in DOMAIN acts, o \in known, NEW x, WellFormed(o, x),
           WellFormed(o, acts[o].op), WellFormed(o, stored[o]), Precedes(acts[o].op, x),
           NEW left,
           \A y \in DOMAIN left : y # o => y \in DOMAIN acts /\ left[y] = acts[y],
           o \in DOMAIN left => left[o].op = x /\ ~Finished(x)
    PROVE  Queue(Append(queue, x), known, left, stored)
  <1> DEFINE q == Append(queue, x)
             n == Len(queue)
  <1>1. /\ IsSequence(q) /\ n \in Nat
        /\ DOMAIN queue = 1..n /\ DOMAIN q = 1..(n + 1) /\ q[n + 1] = x
        /\ \A i \in 1..n : q[i] = queue[i]
    BY Appended DEF Queue
  <1> HIDE DEF q, n
  <1>2. x.id = o /\ x.type = acts[o].op.type /\ x.type = stored[o].type
    BY DEF WellFormed
  <1>3. Precedes(stored[o], x)
    <2>1. Precedes(stored[o], acts[o].op)
      BY DEF Queue
    <2>2. QED  BY <1>2, <2>1, PrecedesTransitive
  <1>4. ASSUME NEW i \in 1..n, queue[i].id = o PROVE Precedes(queue[i], x)
    <2>1. Precedes(queue[i], acts[o].op) /\ queue[i].type = acts[o].op.type
      BY <1>1, <1>4 DEF Queue, WellFormed
    <2>2. QED  BY <2>1, PrecedesTransitive
  <1>5. ASSUME NEW i \in DOMAIN q
        PROVE  /\ q[i].id \in known /\ WellFormed(q[i].id, q[i])
               /\ Precedes(stored[q[i].id], q[i])
               /\ \A j \in DOMAIN q : i < j /\ q[j].id = q[i].id => Precedes(q[i], q[j])
    <2>1. CASE i = n + 1
      BY <1>1, <1>2, <1>3, <2>1
    <2>2. CASE i \in 1..n
      <3>1. /\ queue[i].id \in known /\ WellFormed(queue[i].id, queue[i])
            /\ Precedes(stored[queue[i].id], queue[i])
            /\ \A j \in 1..n : i < j /\ queue[j].id = queue[i].id => Precedes(queue[i], queue[j])
        BY <1>1, <2>2 DEF Queue
      <3>2. q[i] = queue[i]
        BY <1>1, <2>2
      <3>3. ASSUME NEW j \in DOMAIN q, i < j, q[j].id = q[i].id PROVE Precedes(q[i], q[j])
        <4>1. CASE j = n + 1
          BY <1>1, <1>2, <1>4, <2>2, <3>2, <3>3, <4>1
        <4>2. CASE j \in 1..n
          BY <1>1, <3>1, <3>2, <3>3, <4>2
        <4>3. QED  BY <1>1, <4>1, <4>2
      <3>4. QED  BY <3>1, <3>2, <3>3
    <2>3. QED  BY <1>1, <2>1, <2>2
  <1>6. ASSUME NEW y \in DOMAIN left
        PROVE  /\ Precedes(stored[y], left[y].op)
               /\ \A i \in DOMAIN q : q[i].id = y => Precedes(q[i], left[y].op)
    <2>1. CASE y = o
      <3>1. left[y].op = x /\ ~Finished(x)
        BY <2>1
      <3>2. Precedes(x, x)
        BY <3>1 DEF Precedes, AfterCanceling
      <3>3. QED  BY <1>1, <1>3, <1>4, <2>1, <3>1, <3>2
    <2>2. CASE y # o
      <3>1. left[y] = acts[y] /\ y \in DOMAIN acts
        BY <2>2
      <3>2. Precedes(stored[y], acts[y].op)
            /\ \A i \in 1..n : queue[i].id = y => Precedes(queue[i], acts[y].op)
        BY <1>1, <3>1 DEF Queue
      <3>3. QED  BY <1>1, <1>2, <2>2, <3>1, <3>2
    <2>3. QED  BY <2>1, <2>2
  <1>7. Queue(q, known, left, stored)
    BY <1>1, <1>5, <1>6 DEF Queue
  <1>8. QED  BY <1>7 DEF q

(* Operations fail: nothing follows of them. *)
LEMMA QueueFail ==
    ASSUME NEW queue, NEW known, NEW acts, NEW stored, Queue(queue, known, acts, stored),
           DOMAIN acts \subseteq known, \A y \in DOMAIN acts : ~Finished(acts[y].op),
           NEW fails, IsSequence(fails),
           \A k \in DOMAIN fails :
               /\ fails[k].id \in DOMAIN acts /\ WellFormed(fails[k].id, fails[k])
               /\ fails[k].status = "failed"
               /\ \A l \in DOMAIN fails : fails[l].id = fails[k].id => l = k,
           NEW left,
           \A y \in DOMAIN left :
               /\ y \in DOMAIN acts /\ left[y] = acts[y]
               /\ \A k \in DOMAIN fails : fails[k].id # y
    PROVE  Queue(queue \o fails, known, left, stored)
  <1> DEFINE q == queue \o fails
             n == Len(queue)
             m == Len(fails)
  <1>1. /\ IsSequence(q) /\ n \in Nat /\ m \in Nat
        /\ DOMAIN queue = 1..n /\ DOMAIN fails = 1..m /\ DOMAIN q = 1..(n + m)
        /\ \A i \in 1..n : q[i] = queue[i]
        /\ \A k \in 1..m : q[n + k] = fails[k]
    BY Joined DEF Queue
  <1> HIDE DEF q, n, m
  <1>2. ASSUME NEW a, ~Finished(a), NEW k \in 1..m PROVE Precedes(a, fails[k])
    BY <1>1, <1>2 DEF Precedes, AfterCanceling
  <1>3. ASSUME NEW i \in 1..(n + m), i \notin 1..n PROVE i - n \in 1..m /\ q[i] = fails[i - n]
    <2>1. i - n \in 1..m /\ n + (i - n) = i
      BY <1>1, <1>3
    <2>2. QED  BY <1>1, <2>1
  <1>4. ASSUME NEW i \in DOMAIN q
        PROVE  /\ q[i].id \in known /\ WellFormed(q[i].id, q[i])
               /\ Precedes(stored[q[i].id], q[i])
               /\ \A j \in DOMAIN q : i < j /\ q[j].id = q[i].id => Precedes(q[i], q[j])
    <2>1. CASE i \notin 1..n
      <3> DEFINE k == i - n
      <3>1. k \in 1..m /\ q[i] = fails[k]
        BY <1>1, <1>3, <2>1
      <3> HIDE DEF k
      <3>2. fails[k].id \in DOMAIN acts /\ WellFormed(fails[k].id, fails[k])
        BY <1>1, <3>1
      <3>3. ~Finished(stored[fails[k].id])
        BY <3>2 DEF Queue, Precedes
      <3>4. ASSUME NEW j \in DOMAIN q, i < j, q[j].id = q[i].id PROVE FALSE
        <4>1. j \in 1..(n + m) /\ j \notin 1..n
          BY <1>1, <2>1, <3>4
        <4>2. j - n \in 1..m /\ q[j] = fails[j - n]
          BY <1>3, <4>1
        <4>3. \A l \in 1..m : fails[l].id = fails[k].id => l = k
          BY <1>1, <3>1
        <4>4. j - n = k
          BY <3>1, <3>4, <4>2, <4>3
        <4>5. QED  BY <1>1, <3>4, <4>1, <4>4 DEF k
      <3>5. QED
        BY <1>2, <3>1, <3>2, <3>3, <3>4
    <2>2. CASE i \in 1..n
      <3>1. /\ queue[i].id \in known /\ WellFormed(queue[i].id, queue[i])
            /\ Precedes(stored[queue[i].id], queue[i])
            /\ \A j \in 1..n : i < j /\ queue[j].id = queue[i].id => Precedes(queue[i], queue[j])
        BY <1>1, <2>2 DEF Queue
      <3>2. q[i] = queue[i]
        BY <1>1, <2>2
      <3>3. ASSUME NEW j \in DOMAIN q, i < j, q[j].id = q[i].id PROVE Precedes(q[i], q[j])
        <4>1. CASE j \notin 1..n
          <5> DEFINE k == j - n
          <5>1. k \in 1..m /\ q[j] = fails[k]
            BY <1>1, <1>3, <4>1
          <5> HIDE DEF k
          <5>2. fails[k].id \in DOMAIN acts /\ queue[i].id = fails[k].id
            BY <1>1, <3>2, <3>3, <5>1
          <5>3. ~Finished(queue[i])
            BY <1>1, <2>2, <5>2 DEF Queue, Precedes
          <5>4. QED  BY <1>2, <3>2, <5>1, <5>3
        <4>2. CASE j \in 1..n
          BY <1>1, <3>1, <3>2, <3>3, <4>2
        <4>3. QED  BY <4>1, <4>2
      <3>4. QED  BY <3>1, <3>2, <3>3
    <2>3. QED  BY <2>1, <2>2
  <1>5. ASSUME NEW y \in DOMAIN left
        PROVE  /\ Precedes(stored[y], left[y].op)
               /\ \A i \in DOMAIN q : q[i].id = y => Precedes(q[i], left[y].op)
    <2>1. /\ left[y] = acts[y] /\ Precedes(stored[y], acts[y].op)
          /\ \A i \in 1..n : queue[i].id = y => Precedes(queue[i], acts[y].op)
      BY <1>1 DEF Queue
    <2>2. ASSUME NEW i \in DOMAIN q, q[i].id = y PROVE Precedes(q[i], left[y].op)
      <3>1. CASE i \in 1..n
        BY <1>1, <2>1, <2>2, <3>1
      <3>2. CASE i \notin 1..n
        <4>1. i - n \in 1..m /\ q[i] = fails[i - n]
          BY <1>1, <1>3, <3>2
        <4>2. QED  BY <1>1, <2>2, <4>1
      <3>3. QED  BY <3>1, <3>2
    <2>3. QED  BY <2>1, <2>2
  <1>6. Queue(q, known, left, stored)
    BY <1>1, <1>4, <1>5 DEF Queue
  <1>7. QED  BY <1>6 DEF q

(* The coordinator saves the oldest update. *)
LEMMA QueueTake ==
    ASSUME NEW queue, NEW known, NEW acts, NEW stored, Queue(queue, known, acts, stored),
           queue # << >>, known \subseteq DOMAIN stored, DOMAIN acts \subseteq known
    PROVE  Queue(Tail(queue), known, acts, [stored EXCEPT ![Head(queue).id] = Head(queue)])
  <1> DEFINE q == Tail(queue)
             n == Len(queue)
             u == queue[1]
             t == [stored EXCEPT ![Head(queue).id] = Head(queue)]
  <1>1. /\ IsSequence(q) /\ n \in Nat \ {0}
        /\ DOMAIN queue = 1..n /\ DOMAIN q = 1..(n - 1) /\ Head(queue) = u
        /\ \A i \in 1..(n - 1) : q[i] = queue[i + 1]
    BY Tailed DEF Queue
  <1>2. u.id \in known
    BY <1>1 DEF Queue
  <1>3. t[u.id] = u /\ \A y \in DOMAIN stored : y # u.id => t[y] = stored[y]
    BY <1>1, <1>2
  <1> HIDE DEF q, n, u, t
  <1>4. ASSUME NEW i \in DOMAIN q
        PROVE  /\ q[i].id \in known /\ WellFormed(q[i].id, q[i])
               /\ Precedes(t[q[i].id], q[i])
               /\ \A j \in DOMAIN q : i < j /\ q[j].id = q[i].id => Precedes(q[i], q[j])
    <2>1. i + 1 \in 1..n /\ 1 \in 1..n /\ 1 < i + 1 /\ q[i] = queue[i + 1]
      BY <1>1
    <2>2. /\ queue[i + 1].id \in known /\ WellFormed(queue[i + 1].id, queue[i + 1])
          /\ Precedes(stored[queue[i + 1].id], queue[i + 1])
          /\ \A j \in 1..n : i + 1 < j /\ queue[j].id = queue[i + 1].id => Precedes(queue[i + 1], queue[j])
      BY <1>1, <2>1 DEF Queue
    <2>3. queue[i + 1].id = u.id => Precedes(u, queue[i + 1])
      BY <1>1, <2>1 DEF Queue, u
    <2>4. Precedes(t[q[i].id], q[i])
      BY <1>3, <2>1, <2>2, <2>3
    <2>5. ASSUME NEW j \in DOMAIN q, i < j, q[j].id = q[i].id PROVE Precedes(q[i], q[j])
      <3>1. j + 1 \in 1..n /\ i + 1 < j + 1 /\ q[j] = queue[j + 1]
        BY <1>1, <2>5
      <3>2. QED  BY <2>1, <2>2, <2>5, <3>1
    <2>6. QED  BY <2>1, <2>2, <2>4, <2>5
  <1>5. ASSUME NEW y \in DOMAIN acts
        PROVE  /\ Precedes(t[y], acts[y].op)
               /\ \A i \in DOMAIN q : q[i].id = y => Precedes(q[i], acts[y].op)
    <2>1. /\ Precedes(stored[y], acts[y].op)
          /\ \A i \in 1..n : queue[i].id = y => Precedes(queue[i], acts[y].op)
      BY <1>1 DEF Queue
    <2>2. u.id = y => Precedes(u, acts[y].op)
      BY <1>1, <2>1 DEF u
    <2>3. Precedes(t[y], acts[y].op)
      BY <1>3, <2>1, <2>2
    <2>4. ASSUME NEW i \in DOMAIN q, q[i].id = y PROVE Precedes(q[i], acts[y].op)
      <3>1. i + 1 \in 1..n /\ q[i] = queue[i + 1]
        BY <1>1
      <3>2. QED  BY <2>1, <2>4, <3>1
    <2>5. QED  BY <2>3, <2>4
  <1>6. Queue(q, known, acts, t)
    BY <1>1, <1>4, <1>5 DEF Queue
  <1>7. QED  BY <1>6 DEF q, t

(* What FailActors appends. *)
FailuresOf(acts, failing) ==
    LET ops == SetToSeq({acts[o].op : o \in failing})
    IN  [i \in DOMAIN ops |-> FailOperation(ops[i])]

LEMMA SetToSeqInjective ==
    ASSUME NEW S, IsFiniteSet(S)
    PROVE  /\ SetToSeq(S) \in [1..Cardinality(S) -> S] /\ Cardinality(S) \in Nat
           /\ \A i, j \in 1..Cardinality(S) : SetToSeq(S)[i] = SetToSeq(S)[j] => i = j
  <1>1. PICK f \in Bijection(1..Cardinality(S), S) : TRUE
    BY FS_CardinalityType DEF ExistsBijection
  <1>2. f \in [1..Cardinality(S) -> S] /\ IsInjective(f)
    BY <1>1 DEF Bijection, Injection
  <1>3. SetToSeq(S) \in [1..Cardinality(S) -> S] /\ IsInjective(SetToSeq(S))
    BY <1>2 DEF SetToSeq
  <1>4. QED
    BY <1>3, FS_CardinalityType DEF IsInjective

LEMMA FailuresAre ==
    ASSUME NEW acts, NEW failing, IsFiniteSet(failing),
           \A o \in failing : WellFormed(o, acts[o].op)
    PROVE  /\ IsSequence(FailuresOf(acts, failing))
           /\ \A k \in DOMAIN FailuresOf(acts, failing) :
                LET f == FailuresOf(acts, failing)
                IN  /\ f[k].id \in failing /\ WellFormed(f[k].id, f[k]) /\ f[k].status = "failed"
                    /\ \A l \in DOMAIN f : f[l].id = f[k].id => l = k
  <1> DEFINE S == {acts[o].op : o \in failing}
             ops == SetToSeq(S)
             n == Cardinality(S)
             f == [i \in DOMAIN ops |-> FailOperation(ops[i])]
  <1>1. IsFiniteSet(S)
    <2> DEFINE g == [o \in failing |-> acts[o].op]
    <2>1. g \in Surjection(failing, S)
      BY DEF Surjection
    <2>2. QED  BY <2>1, FS_Surjection
  <1>2. /\ ops \in [1..n -> S] /\ n \in Nat
        /\ \A i, j \in 1..n : ops[i] = ops[j] => i = j
    BY <1>1, SetToSeqInjective
  <1>3. ASSUME NEW x \in S
        PROVE  /\ x.id \in failing /\ x = acts[x.id].op
               /\ WellFormed(x.id, x)
    BY DEF WellFormed
  <1> HIDE DEF S, ops, n
  <1>4. ASSUME NEW k \in 1..n
        PROVE  /\ f[k].id = ops[k].id /\ f[k].id \in failing
               /\ WellFormed(f[k].id, f[k]) /\ f[k].status = "failed"
    <2>1. ops[k] \in S /\ f[k] = FailOperation(ops[k])
      BY <1>2
    <2>2. WellFormed(ops[k].id, ops[k]) /\ ops[k].id \in failing
      BY <1>3, <2>1
    <2>3. WellFormed(ops[k].id, f[k]) /\ f[k].status = "failed"
      BY <2>1, <2>2, FailedOperation
    <2>4. f[k].id = ops[k].id
      BY <2>3 DEF WellFormed
    <2>5. QED  BY <2>2, <2>3, <2>4
  <1>5. ASSUME NEW k \in 1..n, NEW l \in 1..n, f[l].id = f[k].id PROVE l = k
    <2>1. ops[k].id = ops[l].id /\ ops[k] \in S /\ ops[l] \in S
      BY <1>2, <1>4, <1>5
    <2>2. ops[k] = ops[l]
      BY <1>3, <2>1
    <2>3. QED  BY <1>2, <2>2
  <1>6. DOMAIN f = 1..n
    BY <1>2
  <1>7. FailuresOf(acts, failing) = f
    BY DEF FailuresOf, ops, S
  <1>8. IsSequence(f)
    <2> DEFINE T == {f[k] : k \in 1..n}
    <2>1. f \in [1..n -> T]
      BY <1>6
    <2>2. f \in Seq(T)
      BY <1>2, <2>1
    <2>3. QED  BY <2>2, InSeq
  <1> HIDE DEF f
  <1>9. QED
    BY <1>4, <1>5, <1>6, <1>7, <1>8

-----------------------------------------------------------------------------
(* The count of primitives. *)

RunningOf(pr) == UNION {{o} \X DOMAIN pr[o] : o \in IDs}

LEMMA RunningIs ==
    ASSUME NEW pr, \A o \in IDs : OneOrNone(pr[o])
    PROVE  RunningOf(pr) = {<<o, 1>> : o \in {x \in IDs : pr[x] # << >>}}
  <1>1. ASSUME NEW o \in IDs PROVE DOMAIN pr[o] = IF pr[o] = << >> THEN {} ELSE {1}
    <2>1. CASE pr[o] = << >>
      BY <2>1
    <2>2. CASE pr[o] # << >>
      <3>1. pr[o] = <<pr[o][1]>>
        BY <2>2 DEF OneOrNone
      <3> DEFINE p == pr[o][1]
      <3>2. DOMAIN <<p>> = {1}
        OBVIOUS
      <3>3. QED  BY <2>2, <3>1, <3>2
    <2>3. QED  BY <2>1, <2>2
  <1>2. QED
    BY <1>1 DEF RunningOf

(* The primitives of one operation change. *)
LEMMA CountChange ==
    ASSUME NEW pr, \A x \in IDs : OneOrNone(pr[x]), NEW o \in IDs,
           IsFiniteSet(RunningOf(pr)),
           NEW after, \A x \in IDs : OneOrNone(after[x]),
           \A x \in IDs : x # o => after[x] = pr[x]
    PROVE  /\ IsFiniteSet(RunningOf(after)) /\ Cardinality(RunningOf(pr)) \in Nat
           /\ pr[o] = << >> /\ after[o] = << >> =>
                Cardinality(RunningOf(after)) = Cardinality(RunningOf(pr))
           /\ pr[o] # << >> /\ after[o] # << >> =>
                Cardinality(RunningOf(after)) = Cardinality(RunningOf(pr))
           /\ pr[o] = << >> /\ after[o] # << >> =>
                Cardinality(RunningOf(after)) = Cardinality(RunningOf(pr)) + 1
           /\ pr[o] # << >> /\ after[o] = << >> =>
                Cardinality(RunningOf(after)) = Cardinality(RunningOf(pr)) - 1
  <1> DEFINE R == RunningOf(pr)
             A == RunningOf(after)
  <1>1. /\ R = {<<x, 1>> : x \in {y \in IDs : pr[y] # << >>}}
        /\ A = {<<x, 1>> : x \in {y \in IDs : after[y] # << >>}}
    BY RunningIs
  <1>2. Cardinality(R) \in Nat
    BY FS_CardinalityType
  <1> HIDE DEF R, A
  <1>3. <<o, 1>> \in R <=> pr[o] # << >>
    BY <1>1
  <1>4. after[o] = << >> => A = R \ {<<o, 1>>}
    BY <1>1
  <1>5. after[o] # << >> => A = R \cup {<<o, 1>>}
    BY <1>1
  <1>6. IsFiniteSet(R)
    BY DEF R
  <1>7. /\ IsFiniteSet(R \ {<<o, 1>>}) /\ IsFiniteSet(R \cup {<<o, 1>>})
        /\ <<o, 1>> \in R => /\ Cardinality(R \ {<<o, 1>>}) = Cardinality(R) - 1
                             /\ Cardinality(R \cup {<<o, 1>>}) = Cardinality(R)
        /\ <<o, 1>> \notin R => /\ Cardinality(R \ {<<o, 1>>}) = Cardinality(R)
                                /\ Cardinality(R \cup {<<o, 1>>}) = Cardinality(R) + 1
    BY <1>6, FS_AddElement, FS_RemoveElement
  <1>8. QED
    BY <1>2, <1>3, <1>4, <1>5, <1>7 DEF R, A

-----------------------------------------------------------------------------
(* What the helpers of the manager do. *)

(* The actors change, but not their operations. *)
LEMMA QueueSame ==
    ASSUME NEW queue, NEW known, NEW acts, NEW stored, Queue(queue, known, acts, stored),
           NEW left, \A y \in DOMAIN left : y \in DOMAIN acts /\ left[y].op = acts[y].op
    PROVE  Queue(queue, known, left, stored)
  BY DEF Queue

(* What AcceptStep does to the queue and the actors. *)
Accepts(o, actor, step) ==
    /\ pending' = IF step.save THEN Append(pending, step.op) ELSE pending
    /\ actors' = IF step.save /\ Finished(step.op) THEN Drop(actors, o)
                 ELSE Put(actors, o, [actor EXCEPT !.op = step.op, !.mem = step.mem])

(* The actors of the manager are those of acts, o's possibly excepted. *)
ActorsFrom(o, acts) ==
    \A y \in DOMAIN actors \ {o} : y \in DOMAIN acts /\ acts[y] = actors[y]

(* What becomes of the actors. *)
ActorsThen(o, actor, step) ==
    /\ DOMAIN actors' \subseteq DOMAIN actors \cup {o}
    /\ \A y \in DOMAIN actors' \ {o} : actors'[y] = actors[y]
    /\ o \in DOMAIN actors' =>
         /\ ActorOK(o, actors'[o]) /\ actors'[o].op = step.op
         /\ actors'[o].handler = actor.handler

LEMMA AcceptActors ==
    ASSUME NEW o, NEW actor, ActorOK(o, actor), Specs[o].type \in LocalTypes,
           NEW event, NEW step, StepOK(o, actor.op, event, step), step.ok,
           Accepts(o, actor, step), NEW known, o \in known, WellFormed(o, saved[o]),
           NEW acts, Queue(pending, known, acts, saved), o \in DOMAIN acts, acts[o] = actor,
           ActorsFrom(o, acts)
    PROVE  Queue(pending', known, actors', saved) /\ ActorsThen(o, actor, step)
  <1> DEFINE b == [actor EXCEPT !.op = step.op, !.mem = step.mem]
             done == step.save /\ Finished(step.op)
  <1>1. b.op = step.op /\ b.handler = actor.handler /\ DOMAIN b = {"op", "mem", "handler"}
    BY DEF ActorOK
  <1> HIDE DEF b
  <1>2. WellFormed(o, step.op) /\ step.save \in BOOLEAN /\ (step.save \/ step.op = actor.op)
    BY DEF StepOK
  <1>3. ~done => ~Finished(step.op)
    BY <1>2 DEF ActorOK
  <1>4. pending' = (IF step.save THEN Append(pending, step.op) ELSE pending)
        /\ actors' = (IF done THEN Drop(actors, o) ELSE Put(actors, o, b))
    BY DEF Accepts, b
  <1>5. /\ DOMAIN actors' \subseteq DOMAIN actors \cup {o}
        /\ \A y \in DOMAIN actors' \ {o} : actors'[y] = actors[y]
        /\ o \in DOMAIN actors' => actors'[o] = b /\ ~done
    <2>1. CASE done
      BY <1>4, <2>1 DEF Drop
    <2>2. CASE ~done
      BY <1>4, <2>2 DEF Put
    <2>3. QED  BY <2>1, <2>2
  <1>6. ASSUME o \in DOMAIN actors'
        PROVE  /\ ActorOK(o, actors'[o]) /\ actors'[o].op = step.op
               /\ actors'[o].handler = actor.handler
    BY <1>1, <1>2, <1>3, <1>5, <1>6 DEF ActorOK
  <1> HIDE DEF done
  <1>7. Queue(pending', known, actors', saved)
    <2>1. CASE step.save
      <3>1. Precedes(actor.op, step.op)
        <4>1. actor.op.type # "remote_job" /\ ~Finished(actor.op)
          BY DEF ActorOK, WellFormed, LocalTypes
        <4>2. QED  BY <4>1 DEF Precedes
      <3>2. WellFormed(o, acts[o].op)
        BY DEF ActorOK
      <3>3. \A y \in DOMAIN actors' : y # o => y \in DOMAIN acts /\ actors'[y] = acts[y]
        BY <1>5 DEF ActorsFrom
      <3>4. o \in DOMAIN actors' => actors'[o].op = step.op /\ ~Finished(step.op)
        BY <1>3, <1>5, <1>6
      <3>5. QED
        BY <1>2, <1>4, <2>1, <3>1, <3>2, <3>3, <3>4, QueuePush
    <2>2. CASE ~step.save
      <3>1. \A y \in DOMAIN actors' : y \in DOMAIN acts /\ actors'[y].op = acts[y].op
        BY <1>2, <1>5, <1>6, <2>2 DEF ActorsFrom
      <3>2. QED  BY <1>4, <2>2, <3>1, QueueSame
    <2>3. QED  BY <1>2, <2>1, <2>2
  <1>8. QED  BY <1>5, <1>6, <1>7 DEF ActorsThen

(* The primitives that a step starts. *)
Started(step) ==
    IF step.save /\ Finished(step.op) THEN << >>
    ELSE [i \in DOMAIN step.dispatches |-> NewPrimitive(step.dispatches[i])]

LEMMA StartedIs ==
    ASSUME NEW o, NEW op, NEW event, NEW step, StepOK(o, op, event, step), step.ok
    PROVE  \/ Started(step) = << >>
           \/ \E p : /\ Started(step) = <<p>> /\ PrimitiveOK(p) /\ step.dispatches # << >>
                     /\ p.req.type = "process" =>
                          Specs[o].type = "shell" /\ step.op.state.phase = "process"
  <1>1. CASE step.dispatches = << >>
    BY <1>1 DEF Started
  <1>2. CASE step.dispatches # << >>
    <2> DEFINE d == step.dispatches[1]
    <2>1. /\ step.dispatches = <<d>> /\ d.type \in PrimitiveTypes
          /\ d.type = "process" => Specs[o].type = "shell" /\ step.op.state.phase = "process"
      BY <1>2 DEF StepOK
    <2> HIDE DEF d
    <2>2. [i \in DOMAIN <<d>> |-> NewPrimitive(<<d>>[i])] = <<NewPrimitive(d)>>
      OBVIOUS
    <2>3. Started(step) = << >> \/ Started(step) = <<NewPrimitive(d)>>
      BY <2>1, <2>2 DEF Started
    <2>4. PrimitiveOK(NewPrimitive(d)) /\ NewPrimitive(d).req = d
      BY <2>1 DEF PrimitiveOK, NewPrimitive
    <2>5. QED  BY <1>2, <2>1, <2>3, <2>4
  <1>3. QED  BY <1>1, <1>2

LEMMA OneIs ==
    ASSUME NEW p, PrimitiveOK(p)
    PROVE  OneOrNone(<<p>>) /\ <<p>> # << >> /\ <<p>>[1] = p /\ Len(<<p>>) = 1
  BY DEF OneOrNone

(* Operations fail. *)
LEMMA Failed ==
    ASSUME Shapes, Actors, Queue(pending, accepted, actors, saved), ActorStarts,
           NEW failing \in SUBSET DOMAIN actors, FailActors(failing)
    PROVE  /\ Queue(pending', accepted, actors', saved)
           /\ DOMAIN actors' = DOMAIN actors \ failing
           /\ \A y \in DOMAIN actors' : actors'[y] = actors[y]
           /\ pending' = pending \o FailuresOf(actors, failing)
  <1>1. /\ DOMAIN actors' = DOMAIN actors \ failing
        /\ \A y \in DOMAIN actors' : actors'[y] = actors[y]
    BY DEF FailActors
  <1>2. pending' = pending \o FailuresOf(actors, failing)
    BY DEF FailActors, FailuresOf
  <1>3. IsFiniteSet(failing)
    BY FS_Subset DEF Shapes, Actors
  <1>4. /\ DOMAIN actors \subseteq accepted
        /\ \A y \in DOMAIN actors : ~Finished(actors[y].op) /\ WellFormed(y, actors[y].op)
    BY DEF Actors, ActorOK
  <1> DEFINE f == FailuresOf(actors, failing)
  <1>5. /\ IsSequence(f)
        /\ \A k \in DOMAIN f :
             /\ f[k].id \in failing /\ WellFormed(f[k].id, f[k]) /\ f[k].status = "failed"
             /\ \A l \in DOMAIN f : f[l].id = f[k].id => l = k
    BY <1>3, <1>4, FailuresAre
  <1> HIDE DEF f
  <1>6. \A y \in DOMAIN actors' :
          y \in DOMAIN actors /\ actors'[y] = actors[y] /\ \A k \in DOMAIN f : f[k].id # y
    BY <1>1, <1>5
  <1>7. \A k \in DOMAIN f : f[k].id \in DOMAIN actors
    BY <1>5
  <1>8. Queue(pending \o f, accepted, actors', saved)
    BY <1>4, <1>5, <1>6, <1>7, QueueFail
  <1>9. QED  BY <1>1, <1>2, <1>8 DEF f

-----------------------------------------------------------------------------
(* Every action keeps the inductive invariant. *)

LEMMA RunningDef == Running = RunningOf(prims)
  BY DEF Running, RunningOf

LEMMA InitInv == Init => IInv
  <1> SUFFICES ASSUME Init PROVE IInv
    OBVIOUS
  <1>1. Shapes
    <2>1. DOMAIN saved = IDs
      BY DEF Init, IDs
    <2>2. \A o \in IDs : WellFormed(o, saved[o])
      BY SpecShape DEF Init
    <2>3. restarts \in 0 .. MaxRestarts
      BY BoundsAssumption DEF Init
    <2>4. QED
      BY <2>1, <2>2, <2>3, FS_EmptySet DEF Init, Shapes
  <1>2. Actors /\ ActorStarts /\ DOMAIN actors = {}
    BY DEF Init, Actors, ActorStarts
  <1>3. \A o \in IDs : prims[o] = << >>
    BY DEF Init
  <1>4. Primitives /\ ProcessStarts /\ QuietWhenClosed
    BY <1>3 DEF Init, Primitives, ProcessStarts, QuietWhenClosed, OneOrNone
  <1>5. Running = {}
    BY <1>3 DEF Running
  <1>6. Counted
    BY <1>5, FS_EmptySet DEF Counted, Init
  <1>7. Queue(pending, accepted, actors, saved)
    <2>1. IsSequence(pending) /\ DOMAIN pending = {}
      BY DEF Init, IsSequence
    <2>2. QED  BY <1>2, <2>1 DEF Queue
  <1>8. Untouched
    BY <1>3 DEF Untouched, Init
  <1>9. QED
    BY <1>1, <1>2, <1>4, <1>6, <1>7, <1>8 DEF IInv

LEMMA TakeUpdateInv == ASSUME IInv, TakeUpdate PROVE IInv'
  <1> DEFINE u == Head(pending)
  <1>1. /\ IsSequence(pending) /\ Head(pending) = pending[1] /\ 1 \in DOMAIN pending
    BY Tailed DEF IInv, Queue, TakeUpdate
  <1>2. u.id \in accepted /\ WellFormed(u.id, u)
    BY <1>1 DEF IInv, Queue
  <1>3. saved' = [saved EXCEPT ![u.id] = u] /\ pending' = Tail(pending) /\ pending # << >>
    BY DEF TakeUpdate
  <1>4. UNCHANGED <<phase, ctxDone, actors, accepted, active, closed, prims, resumed, restarts>>
    BY DEF TakeUpdate
  <1>5. Queue(pending', accepted', actors', saved')
    <2>1. DOMAIN saved = IDs /\ accepted \subseteq IDs /\ DOMAIN actors \subseteq accepted
      BY DEF IInv, Shapes, Actors
    <2>2. Queue(Tail(pending), accepted, actors, [saved EXCEPT ![u.id] = u])
      BY <1>3, <2>1, QueueTake DEF IInv
    <2>3. QED  BY <1>3, <1>4, <2>2
  <1> HIDE DEF u
  <1>6. DOMAIN saved' = IDs /\ saved'[u.id] = u /\ \A x \in IDs : x # u.id => saved'[x] = saved[x]
    BY <1>2, <1>3 DEF IInv, Shapes
  <1>7. Shapes'
    BY <1>2, <1>4, <1>6 DEF IInv, Shapes
  <1>8. Untouched'
    BY <1>2, <1>4, <1>6 DEF IInv, Untouched
  <1>9. Actors' /\ Primitives' /\ Counted' /\ QuietWhenClosed' /\ ActorStarts' /\ ProcessStarts'
    BY <1>4 DEF IInv, Actors, Primitives, Counted, Running, QuietWhenClosed, ActorStarts,
                ProcessStarts, MayStart
  <1>10. QED
    BY <1>5, <1>7, <1>8, <1>9 DEF IInv

LEMMA AddLocalInv == ASSUME IInv, NEW o \in IDs, AddLocal(o) PROVE IInv'
  <1> DEFINE actor == [op |-> saved[o], mem |-> NoMemory, handler |-> NoHandler]
             step == Handle(actor, NoEvent)
             acts == Put(actors, o, actor)
  <1>1. /\ o \notin accepted /\ ~Finished(saved[o]) /\ saved[o].type # "remote_job" /\ step.ok
        /\ accepted' = accepted \cup {o}
        /\ AcceptStep(o, actor, step, prims[o], active)
        /\ UNCHANGED <<phase, ctxDone, closed, saved, resumed, restarts>>
    BY DEF AddLocal, Fresh
  <1>2. WellFormed(o, saved[o]) /\ Specs[o].type \in LocalTypes
    <2>1. WellFormed(o, saved[o])
      BY DEF IInv, Shapes
    <2>2. QED  BY <1>1, <2>1, SpecShape DEF WellFormed
  <1>3. /\ actor.op = saved[o] /\ actor.handler = NoHandler /\ DOMAIN actor = {"op", "mem", "handler"}
    OBVIOUS
  <1> HIDE DEF actor
  <1>4. ActorOK(o, actor)
    BY <1>1, <1>2, <1>3 DEF ActorOK, LocalTypes
  <1>5. StepOK(o, actor.op, NoEvent, step)
    BY <1>2, <1>3, HandleStep
  <1> HIDE DEF step
  <1>6. o \notin DOMAIN actors
    BY <1>1 DEF IInv, Actors
  <1>7. Queue(pending, accepted', acts, saved)
    <2>1. \A i \in DOMAIN pending : pending[i].id # o
      BY <1>1 DEF IInv, Queue
    <2>2. QED  BY <1>1, <1>3, <2>1, QueueAdd DEF IInv
  <1>8. /\ o \in DOMAIN acts /\ acts[o] = actor
        /\ \A y \in DOMAIN actors \ {o} : y \in DOMAIN acts /\ acts[y] = actors[y]
    BY DEF Put
  <1> HIDE DEF acts
  <1>9. Queue(pending', accepted', actors', saved) /\ ActorsThen(o, actor, step)
    <2>1. Accepts(o, actor, step)
      BY <1>1 DEF AcceptStep, Accepts
    <2>2. ActorsFrom(o, acts)
      BY <1>8 DEF ActorsFrom
    <2>3. o \in accepted'
      BY <1>1
    <2>4. QED
      BY <1>1, <1>2, <1>4, <1>5, <1>7, <1>8, <2>1, <2>2, <2>3, AcceptActors
  <1>10. prims[o] = << >>
    BY <1>1 DEF IInv, Untouched
  <1>11. prims' = [prims EXCEPT ![o] = << >> \o Started(step)] /\ active' = active + Len(Started(step))
    BY <1>1, <1>10 DEF AcceptStep, Started
  <1>12. DOMAIN prims' = IDs /\ \A x \in IDs : x # o => prims'[x] = prims[x]
    BY <1>11 DEF IInv, Primitives
  <1>13. MayStart(o)' <=> saved[o].state.phase \in {""} \cup CreatePhases
    BY <1>1 DEF IInv, Untouched, MayStart
  <1>14. Specs[o].type = "shell" /\ step.op.state.phase \in Starting => MayStart(o)'
    BY <1>1, <1>3, <1>5, <1>13 DEF StepOK
  <1>15. /\ OneOrNone(prims'[o])
         /\ prims'[o] = << >> => Len(Started(step)) = 0
         /\ prims'[o] # << >> => /\ Len(Started(step)) = 1
                                 /\ prims'[o][1].req.type = "process" =>
                                      Specs[o].type = "shell" /\ MayStart(o)'
    <2>1. prims'[o] = << >> \o Started(step)
      BY <1>11 DEF IInv, Primitives
    <2>2. CASE Started(step) = << >>
      BY <2>1, <2>2 DEF OneOrNone
    <2>3. CASE Started(step) # << >>
      <3>1. PICK p : /\ Started(step) = <<p>> /\ PrimitiveOK(p)
                     /\ p.req.type = "process" =>
                          Specs[o].type = "shell" /\ step.op.state.phase = "process"
        BY <1>1, <1>5, <2>3, StartedIs
      <3>2. prims'[o] = <<p>>
        BY <2>1, <3>1
      <3>3. p.req.type = "process" => Specs[o].type = "shell" /\ MayStart(o)'
        BY <1>14, <3>1 DEF Starting
      <3>4. QED  BY <3>1, <3>2, <3>3, OneIs
    <2>4. QED  BY <2>2, <2>3
  <1>16. Shapes'
    BY <1>1, FS_AddElement DEF IInv, Shapes
  <1>17. Actors'
    <2>1. NoHandler \notin closed
      BY PlansAssumption DEF IInv, Shapes
    <2>2. DOMAIN actors' \subseteq accepted'
      BY <1>1, <1>9 DEF IInv, Actors, ActorsThen
    <2>3. QED
      BY <1>1, <1>3, <1>9, <2>1, <2>2 DEF IInv, Actors, ActorsThen
  <1>18. Primitives'
    BY <1>2, <1>12, <1>15 DEF IInv, Primitives
  <1>19. Counted' /\ QuietWhenClosed'
    <2>1. phase = "running"
      BY DEF AddLocal, Selecting
    <2>2. \A x \in IDs : OneOrNone(prims[x])
      BY DEF IInv, Primitives
    <2>3. \A x \in IDs : OneOrNone(prims'[x])
      BY <1>18 DEF Primitives
    <2>4. IsFiniteSet(RunningOf(prims)) /\ active = Cardinality(RunningOf(prims))
      BY RunningDef DEF IInv, Counted
    <2>5. /\ IsFiniteSet(RunningOf(prims')) /\ Cardinality(RunningOf(prims)) \in Nat
          /\ prims'[o] = << >> => Cardinality(RunningOf(prims')) = Cardinality(RunningOf(prims))
          /\ prims'[o] # << >> => Cardinality(RunningOf(prims')) = Cardinality(RunningOf(prims)) + 1
      BY <1>10, <1>12, <2>2, <2>3, <2>4, CountChange
    <2>6. active' = Cardinality(RunningOf(prims'))
      <3>1. active \in Nat /\ active' = active + Len(Started(step))
        BY <1>11, <2>4, <2>5
      <3>2. CASE prims'[o] = << >>
        <4>1. Len(Started(step)) = 0  BY <1>15, <3>2
        <4>2. QED  BY <2>4, <2>5, <3>1, <3>2, <4>1
      <3>3. CASE prims'[o] # << >>
        <4>1. Len(Started(step)) = 1  BY <1>15, <3>3
        <4>2. QED  BY <2>4, <2>5, <3>1, <3>3, <4>1
      <3>4. QED  BY <3>2, <3>3
    <2>7. QED
      BY <1>1, <2>1, <2>5, <2>6 DEF Counted, Running, RunningOf, QuietWhenClosed
  <1>20. Untouched'
    BY <1>1, <1>12 DEF IInv, Untouched
  <1>21. ActorStarts'
    BY <1>1, <1>9, <1>14 DEF IInv, ActorStarts, MayStart, ActorsThen
  <1>22. ProcessStarts'
    BY <1>1, <1>12, <1>15 DEF IInv, ProcessStarts, MayStart
  <1>23. QED
    BY <1>1, <1>9, <1>16, <1>17, <1>18, <1>19, <1>20, <1>21, <1>22 DEF IInv

LEMMA AddRemoteInv == ASSUME IInv, NEW o \in IDs, AddRemote(o) PROVE IInv'
  <1>1. PICK h \in DOMAIN Plans :
          /\ h \notin closed
          /\ actors' = Put(actors, o, [op |-> saved[o], mem |-> NoMemory, handler |-> h])
    BY DEF AddRemote
  <1> DEFINE a == [op |-> saved[o], mem |-> NoMemory, handler |-> h]
  <1>2. /\ o \notin accepted /\ ~Finished(saved[o]) /\ saved[o].type = "remote_job"
        /\ accepted' = accepted \cup {o}
        /\ UNCHANGED <<phase, ctxDone, active, pending, closed, prims, saved, resumed, restarts>>
    BY DEF AddRemote, Fresh
  <1>3. /\ actors' = Put(actors, o, a)
        /\ a.op = saved[o] /\ a.handler = h /\ DOMAIN a = {"op", "mem", "handler"}
    BY <1>1
  <1> HIDE DEF a
  <1>4. WellFormed(o, saved[o]) /\ Specs[o].type = "remote_job"
    BY <1>2 DEF IInv, Shapes, WellFormed
  <1>5. ActorOK(o, a)
    BY <1>2, <1>3, <1>4, PlansAssumption DEF ActorOK
  <1>6. /\ DOMAIN actors' = DOMAIN actors \cup {o} /\ actors'[o] = a
        /\ \A y \in DOMAIN actors' \ {o} : actors'[y] = actors[y]
    BY <1>3 DEF Put
  <1>7. Queue(pending', accepted', actors', saved')
    <2>1. \A i \in DOMAIN pending : pending[i].id # o
      BY <1>2 DEF IInv, Queue
    <2>2. Queue(pending, accepted \cup {o}, Put(actors, o, a), saved)
      BY <1>2, <1>3, <2>1, QueueAdd DEF IInv
    <2>3. QED  BY <1>2, <1>3, <2>2
  <1>8. Shapes'
    BY <1>2, FS_AddElement DEF IInv, Shapes
  <1>9. Actors'
    BY <1>1, <1>2, <1>3, <1>5, <1>6 DEF IInv, Actors
  <1>10. Primitives' /\ Counted' /\ QuietWhenClosed' /\ Untouched' /\ ProcessStarts'
    BY <1>2 DEF IInv, Primitives, Counted, Running, QuietWhenClosed, Untouched, ProcessStarts, MayStart
  <1>11. ActorStarts'
    BY <1>2, <1>4, <1>6 DEF IInv, ActorStarts, MayStart
  <1>12. QED
    BY <1>7, <1>8, <1>9, <1>10, <1>11 DEF IInv

(* Actors fail and nothing else of the invariant changes. *)
LEMMA FailingInv ==
    ASSUME IInv, NEW failing \in SUBSET DOMAIN actors, FailActors(failing),
           closed' \subseteq DOMAIN Plans,
           \A y \in DOMAIN actors \ failing : actors[y].handler \notin closed',
           UNCHANGED <<phase, ctxDone, accepted, saved, resumed, restarts>>
    PROVE  /\ Shapes' /\ Actors' /\ ActorStarts'
           /\ Queue(pending', accepted', actors', saved')
  <1>1. /\ Queue(pending', accepted, actors', saved)
        /\ DOMAIN actors' = DOMAIN actors \ failing
        /\ \A y \in DOMAIN actors' : actors'[y] = actors[y]
    BY Failed DEF IInv
  <1>2. Queue(pending', accepted', actors', saved')
    BY <1>1
  <1>3. Shapes'
    BY DEF IInv, Shapes
  <1>4. Actors'
    BY <1>1 DEF IInv, Actors
  <1>5. ActorStarts'
    BY <1>1 DEF IInv, ActorStarts, MayStart
  <1>6. QED  BY <1>2, <1>3, <1>4, <1>5

(* Neither the primitives nor what the manager was given change. *)
LEMMA PrimitivesStay ==
    ASSUME IInv, UNCHANGED <<phase, active, prims, accepted, saved, resumed>>
    PROVE  Primitives' /\ Counted' /\ QuietWhenClosed' /\ Untouched' /\ ProcessStarts'
  BY DEF IInv, Primitives, Counted, Running, QuietWhenClosed, Untouched, ProcessStarts, MayStart

LEMMA HandlerStopsInv == ASSUME IInv, NEW h \in DOMAIN Plans, HandlerStops(h) PROVE IInv'
  <1> DEFINE failing == {o \in DOMAIN actors : actors[o].handler = h}
  <1>1. /\ closed' = closed \cup {h} /\ FailActors(failing)
        /\ UNCHANGED <<phase, ctxDone, accepted, active, prims, saved, resumed, restarts>>
    BY DEF HandlerStops
  <1>2. /\ failing \in SUBSET DOMAIN actors /\ closed' \subseteq DOMAIN Plans
        /\ \A y \in DOMAIN actors \ failing : actors[y].handler \notin closed'
    BY <1>1 DEF IInv, Shapes, Actors
  <1> HIDE DEF failing
  <1>3. QED
    BY <1>1, <1>2, FailingInv, PrimitivesStay DEF IInv

LEMMA RemoteUpdateInv ==
    ASSUME IInv, NEW h \in DOMAIN Plans, NEW x \in IDs, saved[x].type = "remote_job",
           NEW s \in Statuses, NEW p, RemoteUpdate(h, UpdateOf(saved[x], s, p))
    PROVE  IInv'
  <1> DEFINE update == UpdateOf(saved[x], s, p)
  <1>1. WellFormed(x, saved[x]) /\ Specs[x].type = "remote_job"
    BY DEF IInv, Shapes, WellFormed
  <1>3. /\ DOMAIN update = {"id", "type", "status", "max", "state"} /\ update.id = x
        /\ update.type = "remote_job" /\ update.status \in Statuses
        /\ DOMAIN update.state = {"plan", "error"}
    BY <1>1 DEF WellFormed, UpdateOf
  <1>2. RemoteUpdate(h, update)
    OBVIOUS
  <1> HIDE DEF update
  <1>4. /\ x \in DOMAIN actors
        /\ UNCHANGED <<phase, ctxDone, accepted, active, closed, prims, saved, resumed, restarts>>
    BY <1>2, <1>3 DEF RemoteUpdate
  <1>5. Primitives' /\ Counted' /\ QuietWhenClosed' /\ Untouched' /\ ProcessStarts'
    BY <1>4, PrimitivesStay
  <1>6. CASE actors[x].handler # h \/ ~ValidUpdate(actors[x].op, update)
    <2>1. FailActors({x})
      BY <1>2, <1>3, <1>6 DEF RemoteUpdate
    <2>2. {x} \in SUBSET DOMAIN actors
      BY <1>4
    <2>3. closed' \subseteq DOMAIN Plans
          /\ \A y \in DOMAIN actors \ {x} : actors[y].handler \notin closed'
      BY <1>4 DEF IInv, Shapes, Actors
    <2>4. Shapes' /\ Actors' /\ ActorStarts' /\ Queue(pending', accepted', actors', saved')
      BY <1>4, <2>1, <2>2, <2>3, FailingInv
    <2>5. QED  BY <1>5, <2>4 DEF IInv
  <1>7. CASE ~(actors[x].handler # h \/ ~ValidUpdate(actors[x].op, update))
    <2>1. /\ pending' = Append(pending, update)
          /\ actors' = IF Finished(update) THEN Drop(actors, x) ELSE [actors EXCEPT ![x].op = update]
      BY <1>2, <1>3, <1>7 DEF RemoteUpdate
    <2>2. ActorOK(x, actors[x]) /\ actors[x].handler \notin closed
      BY <1>4 DEF IInv, Actors
    <2>3. WellFormed(x, update)
      BY <1>1, <1>3, <1>7, <2>2 DEF ValidUpdate, WellFormed, ActorOK
    <2>4. Precedes(actors[x].op, update)
      BY <1>7, <2>2 DEF ValidUpdate, ValidTransition, Precedes, AfterCanceling, ActorOK
    <2>5. /\ DOMAIN actors' \subseteq DOMAIN actors
          /\ \A y \in DOMAIN actors' \ {x} : actors'[y] = actors[y]
          /\ x \in DOMAIN actors' => actors'[x] = [actors[x] EXCEPT !.op = update] /\ ~Finished(update)
      <3>1. CASE Finished(update)
        BY <2>1, <3>1 DEF Drop
      <3>2. CASE ~Finished(update)
        BY <1>4, <2>1, <3>2
      <3>3. QED  BY <3>1, <3>2
    <2>6. x \in DOMAIN actors' =>
            actors'[x].op = update /\ ActorOK(x, actors'[x]) /\ actors'[x].handler = actors[x].handler
      BY <2>2, <2>3, <2>5 DEF ActorOK
    <2>7. Queue(pending', accepted', actors', saved')
      <3>1. x \in accepted /\ WellFormed(x, actors[x].op)
        BY <1>4, <2>2 DEF IInv, Actors, ActorOK
      <3>2. \A y \in DOMAIN actors' : y # x => y \in DOMAIN actors /\ actors'[y] = actors[y]
        BY <2>5
      <3>3. x \in DOMAIN actors' => actors'[x].op = update /\ ~Finished(update)
        BY <2>5, <2>6
      <3>4. Queue(Append(pending, update), accepted, actors', saved)
        BY <1>1, <1>4, <2>3, <2>4, <3>1, <3>2, <3>3, QueuePush DEF IInv
      <3>5. QED  BY <1>4, <2>1, <3>4
    <2>8. Shapes'
      BY <1>4 DEF IInv, Shapes
    <2>9. Actors'
      BY <1>4, <2>2, <2>5, <2>6 DEF IInv, Actors
    <2>10. ActorStarts'
      BY <1>1, <1>4, <2>5 DEF IInv, ActorStarts, MayStart
    <2>11. QED  BY <1>5, <2>7, <2>8, <2>9, <2>10 DEF IInv
  <1>8. QED  BY <1>6, <1>7

LEMMA CancelInv ==
    ASSUME IInv, (\E o \in IDs : CancelLocal(o)) \/ CancelContext \/ NoticeDone PROVE IInv'
  <1>1. /\ UNCHANGED <<actors, accepted, active, pending, closed, prims, saved, resumed, restarts>>
        /\ phase' \in {phase, "draining"} /\ ctxDone' \in BOOLEAN
    BY DEF IInv, Shapes, CancelLocal, CancelContext, NoticeDone, managerVars
  <1>2. Shapes'
    BY <1>1 DEF IInv, Shapes
  <1>3. Actors' /\ ActorStarts' /\ Queue(pending', accepted', actors', saved')
    BY <1>1 DEF IInv, Actors, ActorStarts, MayStart
  <1>4. Primitives' /\ Counted' /\ Untouched' /\ ProcessStarts'
    BY <1>1 DEF IInv, Primitives, Counted, Running, Untouched, ProcessStarts, MayStart
  <1>5. QuietWhenClosed'
    BY <1>1 DEF IInv, QuietWhenClosed
  <1>6. QED  BY <1>2, <1>3, <1>4, <1>5 DEF IInv

(* The drain ends when the count is zero: then nothing runs. *)
LEMMA CloseInv == ASSUME IInv, Close PROVE IInv'
  <1>1. /\ phase' = "closed" /\ active = 0
        /\ UNCHANGED <<ctxDone, actors, accepted, active, pending, closed, prims, saved, resumed, restarts>>
    BY DEF Close
  <1>2. \A o \in IDs : OneOrNone(prims[o])
    BY DEF IInv, Primitives
  <1>3. RunningOf(prims) = {}
    BY <1>1, RunningDef, FS_EmptySet DEF IInv, Counted
  <1>4. \A o \in IDs : prims[o] = << >>
    <2> DEFINE busy == {x \in IDs : prims[x] # << >>}
    <2>1. {<<x, 1>> : x \in busy} = {}
      BY <1>2, <1>3, RunningIs
    <2> HIDE DEF busy
    <2>2. busy = {}
      BY <2>1
    <2>3. QED  BY <2>2 DEF busy
  <1>5. QuietWhenClosed'
    BY <1>1, <1>4 DEF QuietWhenClosed
  <1>6. Shapes'
    BY <1>1 DEF IInv, Shapes
  <1>7. Actors' /\ ActorStarts' /\ Queue(pending', accepted', actors', saved')
    BY <1>1 DEF IInv, Actors, ActorStarts, MayStart
  <1>8. Primitives' /\ Counted' /\ Untouched' /\ ProcessStarts'
    BY <1>1 DEF IInv, Primitives, Counted, Running, Untouched, ProcessStarts, MayStart
  <1>9. QED  BY <1>5, <1>6, <1>7, <1>8 DEF IInv

LEMMA RestartInv == ASSUME IInv, Restart PROVE IInv'
  <1>1. /\ phase' = "running" /\ ctxDone' = FALSE /\ active' = 0 /\ pending' = << >>
        /\ accepted' = {} /\ closed' = {} /\ restarts < MaxRestarts /\ restarts' = restarts + 1
        /\ saved' = saved /\ resumed' = saved
    BY DEF Restart
  <1>2. DOMAIN actors' = {} /\ DOMAIN pending' = {} /\ IsSequence(pending')
    BY DEF Restart, IsSequence
  <1>3. DOMAIN prims' = IDs /\ \A o \in IDs : prims'[o] = << >>
    BY DEF Restart
  <1>4. Shapes'
    <2>1. restarts' \in 0 .. MaxRestarts
      BY <1>1, BoundsAssumption DEF IInv, Shapes
    <2>2. QED
      BY <1>1, <2>1, FS_EmptySet DEF IInv, Shapes
  <1>5. Actors' /\ ActorStarts' /\ Queue(pending', accepted', actors', saved')
    BY <1>2 DEF Actors, ActorStarts, Queue
  <1>6. Primitives' /\ ProcessStarts' /\ QuietWhenClosed'
    BY <1>3 DEF Primitives, ProcessStarts, QuietWhenClosed, OneOrNone
  <1>7. Running' = {}
    BY <1>3 DEF Running
  <1>8. Counted'
    BY <1>1, <1>7, FS_EmptySet DEF Counted
  <1>9. Untouched'
    BY <1>1, <1>3 DEF Untouched
  <1>10. QED  BY <1>4, <1>5, <1>6, <1>8, <1>9 DEF IInv

(* The primitive of o becomes what is in left, which is counted. *)
PrimitivesBecome(o, left) ==
    /\ prims' = [prims EXCEPT ![o] = left]
    /\ active' = IF left = << >> THEN active - 1 ELSE active
    /\ UNCHANGED <<phase, accepted, saved, resumed>>

LEMMA PrimitivesChange ==
    ASSUME IInv, NEW o \in IDs, prims[o] # << >>, NEW left, PrimitivesBecome(o, left),
           OneOrNone(left),
           left # << >> /\ left[1].req.type = "process" => Specs[o].type = "shell" /\ MayStart(o)
    PROVE  Primitives' /\ Counted' /\ QuietWhenClosed' /\ Untouched' /\ ProcessStarts'
  <1>1. /\ active' = IF left = << >> THEN active - 1 ELSE active
        /\ UNCHANGED <<phase, accepted, saved, resumed>>
    BY DEF PrimitivesBecome
  <1>2. DOMAIN prims' = IDs /\ prims'[o] = left /\ \A x \in IDs : x # o => prims'[x] = prims[x]
    BY DEF IInv, Primitives, PrimitivesBecome
  <1>3. Primitives'
    BY <1>2 DEF IInv, Primitives
  <1>4. Counted'
    <2>1. \A x \in IDs : OneOrNone(prims[x])
      BY DEF IInv, Primitives
    <2>2. \A x \in IDs : OneOrNone(prims'[x])
      BY <1>3 DEF Primitives
    <2>3. IsFiniteSet(RunningOf(prims)) /\ active = Cardinality(RunningOf(prims))
      BY RunningDef DEF IInv, Counted
    <2>4. /\ IsFiniteSet(RunningOf(prims')) /\ Cardinality(RunningOf(prims)) \in Nat
          /\ prims'[o] = << >> => Cardinality(RunningOf(prims')) = Cardinality(RunningOf(prims)) - 1
          /\ prims'[o] # << >> => Cardinality(RunningOf(prims')) = Cardinality(RunningOf(prims))
      BY <1>2, <2>1, <2>2, <2>3, CountChange
    <2>5. active' = Cardinality(RunningOf(prims'))
      BY <1>1, <1>2, <2>3, <2>4
    <2>6. QED  BY <2>4, <2>5 DEF Counted, Running, RunningOf
  <1>5. o \in accepted
    BY DEF IInv, Untouched
  <1>6. Untouched'
    BY <1>1, <1>2, <1>5 DEF IInv, Untouched
  <1>7. QuietWhenClosed'
    BY <1>1, <1>2 DEF IInv, QuietWhenClosed
  <1>8. ProcessStarts'
    BY <1>1, <1>2 DEF IInv, ProcessStarts, MayStart
  <1>9. QED  BY <1>3, <1>4, <1>6, <1>7, <1>8

(* The one primitive of an operation. *)
LEMMA TheOne ==
    ASSUME IInv, NEW o \in IDs, NEW i \in DOMAIN prims[o]
    PROVE  /\ i = 1 /\ prims[o] = <<prims[o][1]>> /\ prims[o] # << >> /\ PrimitiveOK(prims[o][1])
           /\ prims[o][i] = prims[o][1]
           /\ Specs[o].type \in LocalTypes /\ o \in accepted
           /\ prims[o][1].req.type = "process" => Specs[o].type = "shell" /\ MayStart(o)
  <1>1. prims[o] # << >>
    OBVIOUS
  <1>2. prims[o] = <<prims[o][1]>> /\ PrimitiveOK(prims[o][1])
    BY <1>1 DEF IInv, Primitives, OneOrNone
  <1>3. PICK p : p = prims[o][1]
    OBVIOUS
  <1>4. prims[o] = <<p>>
    BY <1>2, <1>3
  <1>5. i = 1
    BY <1>4
  <1>6. QED
    BY <1>1, <1>2, <1>5 DEF IInv, Primitives, ProcessStarts, Untouched

LEMMA PrimitiveActsInv ==
    ASSUME IInv, NEW o \in IDs, NEW i \in DOMAIN prims[o], PrimitiveActs(o, i) PROVE IInv'
  <1>1. PICK at : prims' = [prims EXCEPT ![o][i].at = at]
    BY DEF PrimitiveActs
  <1>2. UNCHANGED <<managerVars, ctxDone, saved, resumed, restarts>>
    BY DEF PrimitiveActs
  <1>3. PICK p : p = prims[o][1]
    OBVIOUS
  <1>4. /\ i = 1 /\ prims[o] = <<p>> /\ prims[o] # << >> /\ PrimitiveOK(p)
        /\ p.req.type = "process" => Specs[o].type = "shell" /\ MayStart(o)
    BY <1>3, TheOne
  <1> DEFINE q == [p EXCEPT !.at = at]
  <1>5. PrimitiveOK(q) /\ q.req = p.req
    BY <1>4 DEF PrimitiveOK
  <1>6. prims' = [prims EXCEPT ![o] = <<q>>]
    <2>1. prims' = [prims EXCEPT ![o] = [prims[o] EXCEPT ![i] = [prims[o][i] EXCEPT !.at = at]]]
      BY <1>1
    <2>2. prims[o][i] = p /\ i \in DOMAIN <<p>>
      BY <1>4
    <2>3. [<<p>> EXCEPT ![i] = q] = <<q>>
      BY <2>2, Single
    <2>4. QED  BY <1>4, <2>1, <2>2, <2>3
  <1> HIDE DEF q
  <1>7. OneOrNone(<<q>>) /\ <<q>> # << >> /\ <<q>>[1] = q
    BY <1>5, OneIs
  <1>8. PrimitivesBecome(o, <<q>>)
    BY <1>2, <1>6, <1>7 DEF PrimitivesBecome, managerVars
  <1>9. Primitives' /\ Counted' /\ QuietWhenClosed' /\ Untouched' /\ ProcessStarts'
    BY <1>4, <1>5, <1>7, <1>8, PrimitivesChange
  <1>10. Shapes'
    BY <1>2 DEF IInv, Shapes, managerVars
  <1>11. Actors' /\ ActorStarts' /\ Queue(pending', accepted', actors', saved')
    BY <1>2 DEF IInv, Actors, ActorStarts, MayStart, managerVars
  <1>12. QED  BY <1>9, <1>10, <1>11 DEF IInv

(* The event of a primitive as the actor receives it still says whether the *)
(* primitive has ended.                                                     *)
LEMMA ReceivedIs ==
    ASSUME NEW o, NEW event, DOMAIN event = {"type", "corr", "result"}, event.type # "none"
    PROVE  /\ Received(o, event).type # "none" /\ Received(o, event) # NoEvent
           /\ Received(o, event).type \in CompletedEvents <=> event.type \in CompletedEvents
           /\ Canceled(o) /\ event.type \in CompletedEvents => Received(o, event).type = "canceled"
  <1>1. CASE event.type \in CompletedEvents /\ Canceled(o)
    <2>1. Received(o, event).type = "canceled"
      BY <1>1 DEF Received
    <2>2. QED  BY <1>1, <2>1 DEF CompletedEvents, NoEvent
  <1>2. CASE ~(event.type \in CompletedEvents /\ Canceled(o))
    <2>1. Received(o, event) = event
      BY <1>2 DEF Received
    <2>2. QED  BY <1>2, <2>1 DEF NoEvent
  <1>3. QED  BY <1>1, <1>2

(* What is left in the place of the primitive that sent e. *)
LEMMA Remains ==
    ASSUME IInv, NEW o \in IDs, NEW i \in DOMAIN prims[o], NEW e \in NextEvents(o, prims[o][i])
    PROVE  /\ Sends(prims[o][1], e)
           /\ SubSeq(prims[o], 1, i - 1) \o e[3] \o SubSeq(prims[o], i + 1, Len(prims[o])) = e[3]
           /\ OneOrNone(e[3])
           /\ e[3] = << >> <=> e[2].type \in CompletedEvents
           /\ e[3] # << >> /\ e[3][1].req.type = "process" => Specs[o].type = "shell" /\ MayStart(o)
  <1>1. PICK p : p = prims[o][1]
    OBVIOUS
  <1>2. /\ i = 1 /\ prims[o] = <<p>> /\ PrimitiveOK(p) /\ prims[o][i] = p
        /\ p.req.type = "process" => Specs[o].type = "shell" /\ MayStart(o)
    BY <1>1, TheOne
  <1>3. i \in DOMAIN <<p>>
    BY <1>2
  <1>4. Sends(p, e)
    BY <1>2, PrimitiveSends
  <1>5. CASE e[3] = << >>
    <2>1. e[2].type \in CompletedEvents
      BY <1>4, <1>5 DEF Sends
    <2>2. SubSeq(<<p>>, 1, i - 1) \o << >> \o SubSeq(<<p>>, i + 1, Len(<<p>>)) = << >>
      BY <1>3, Single
    <2>3. QED  BY <1>1, <1>2, <1>4, <1>5, <2>1, <2>2 DEF OneOrNone
  <1>6. CASE e[3] # << >>
    <2>1. PICK q : e[3] = <<q>> /\ PrimitiveOK(q) /\ q.req = p.req /\ e[2].type \notin CompletedEvents
      BY <1>4, <1>6 DEF Sends
    <2>2. SubSeq(<<p>>, 1, i - 1) \o <<q>> \o SubSeq(<<p>>, i + 1, Len(<<p>>)) = <<q>>
      BY <1>3, Single
    <2>3. OneOrNone(<<q>>) /\ <<q>>[1] = q
      BY <2>1, OneIs
    <2>4. QED  BY <1>1, <1>2, <1>4, <1>6, <2>1, <2>2, <2>3
  <1>7. QED  BY <1>5, <1>6

LEMMA DrainEventInv ==
    ASSUME IInv, NEW o \in IDs, NEW i \in DOMAIN prims[o], NEW e \in NextEvents(o, prims[o][i]),
           DrainEvent(o, e[2], e[3]), UNCHANGED <<ctxDone, saved, resumed, restarts>>
    PROVE  IInv'
  <1>1. UNCHANGED <<phase, actors, accepted, pending, closed>>
    BY DEF DrainEvent
  <1>2. prims[o] # << >>
    BY TheOne
  <1>3. PrimitivesBecome(o, e[3])
    BY <1>1, Remains DEF DrainEvent, PrimitivesBecome
  <1>4. Primitives' /\ Counted' /\ QuietWhenClosed' /\ Untouched' /\ ProcessStarts'
    BY <1>2, <1>3, Remains, PrimitivesChange
  <1>5. Shapes'
    BY <1>1 DEF IInv, Shapes
  <1>6. Actors' /\ ActorStarts' /\ Queue(pending', accepted', actors', saved')
    BY <1>1 DEF IInv, Actors, ActorStarts, MayStart
  <1>7. QED  BY <1>4, <1>5, <1>6 DEF IInv

(* An actor takes an event and answers with a step. *)
Takes(o, e) ==
    /\ o \in DOMAIN actors
    /\ LET step == Handle(actors[o], Received(o, e[2]))
       IN  /\ step.ok
           /\ AcceptStep(o, actors[o], step, e[3],
                         IF e[2].type \in CompletedEvents THEN active - 1 ELSE active)
    /\ UNCHANGED <<phase, ctxDone, accepted, closed, saved, resumed, restarts>>

LEMMA TakesInv ==
    ASSUME IInv, NEW o \in IDs, NEW i \in DOMAIN prims[o], NEW e \in NextEvents(o, prims[o][i]),
           Takes(o, e)
    PROVE  IInv'
  <1> DEFINE actor == actors[o]
             event == Received(o, e[2])
             step == Handle(actor, event)
             left == e[3] \o Started(step)
  <1>1. /\ o \in DOMAIN actors /\ step.ok
        /\ AcceptStep(o, actor, step, e[3], IF e[2].type \in CompletedEvents THEN active - 1 ELSE active)
        /\ UNCHANGED <<phase, ctxDone, accepted, closed, saved, resumed, restarts>>
    BY DEF Takes
  <1>2. /\ ActorOK(o, actor) /\ WellFormed(o, actor.op) /\ actor.handler \notin closed
        /\ WellFormed(o, saved[o]) /\ Specs[o].type \in LocalTypes /\ o \in accepted /\ prims[o] # << >>
    BY <1>1, TheOne DEF IInv, Shapes, Actors, ActorOK
  <1>3. DOMAIN e[2] = {"type", "corr", "result"} /\ e[2].type # "none"
    BY Remains DEF Sends
  <1>4. /\ event.type # "none" /\ event # NoEvent
        /\ event.type \in CompletedEvents <=> e[2].type \in CompletedEvents
    BY <1>3, ReceivedIs
  <1> HIDE DEF event
  <1>5. StepOK(o, actor.op, event, step)
    BY <1>2, <1>4, HandleStep
  <1> HIDE DEF step, actor
  <1>6. Queue(pending', accepted, actors', saved) /\ ActorsThen(o, actor, step)
    <2>1. Accepts(o, actor, step)
      BY <1>1 DEF AcceptStep, Accepts
    <2>2. ActorsFrom(o, actors)
      BY DEF ActorsFrom
    <2>3. actors[o] = actor /\ Queue(pending, accepted, actors, saved)
      BY DEF actor, IInv
    <2>4. QED
      BY <1>1, <1>2, <1>5, <2>1, <2>2, <2>3, AcceptActors
  <1>7. Specs[o].type = "shell" /\ step.op.state.phase \in Starting => MayStart(o)
    BY <1>1, <1>4, <1>5 DEF StepOK, IInv, ActorStarts, actor
  <1>8. /\ OneOrNone(left)
        /\ left # << >> /\ left[1].req.type = "process" => Specs[o].type = "shell" /\ MayStart(o)
        /\ active' = IF left = << >> THEN active - 1 ELSE active
    <2>1. active' = (IF e[2].type \in CompletedEvents THEN active - 1 ELSE active) + Len(Started(step))
      BY <1>1 DEF AcceptStep, Started
    <2>2. active \in Nat
      BY FS_CardinalityType DEF IInv, Counted
    <2>3. CASE e[2].type \in CompletedEvents
      <3>1. e[3] = << >>
        BY <2>3, Remains
      <3>2. CASE Started(step) = << >>
        <4>1. left = << >> /\ Len(Started(step)) = 0
          BY <3>1, <3>2
        <4>2. QED  BY <2>1, <2>2, <2>3, <4>1 DEF OneOrNone
      <3>3. CASE Started(step) # << >>
        <4>1. PICK p : /\ Started(step) = <<p>> /\ PrimitiveOK(p)
                       /\ p.req.type = "process" =>
                            Specs[o].type = "shell" /\ step.op.state.phase = "process"
          BY <1>1, <1>5, <3>3, StartedIs
        <4>2. left = <<p>> /\ Len(Started(step)) = 1
          BY <3>1, <4>1
        <4>3. active' = active
          BY <2>1, <2>2, <2>3, <4>2
        <4>4. p.req.type = "process" => Specs[o].type = "shell" /\ MayStart(o)
          BY <1>7, <4>1 DEF Starting
        <4> HIDE DEF left
        <4>5. QED  BY <4>1, <4>2, <4>3, <4>4, OneIs
      <3>4. QED  BY <3>2, <3>3
    <2>4. CASE e[2].type \notin CompletedEvents
      <3>1. step.dispatches = << >>
        BY <1>1, <1>4, <1>5, <2>4 DEF StepOK
      <3>2. Started(step) = << >>
        BY <3>1 DEF Started
      <3>3. PICK q : e[3] = <<q>>
        BY <2>4, Remains DEF Sends
      <3>4. left = e[3] /\ Len(Started(step)) = 0 /\ e[3] # << >>
        BY <3>2, <3>3
      <3>5. active' = active
        BY <2>1, <2>2, <2>4, <3>4
      <3> HIDE DEF left
      <3>6. QED  BY <3>4, <3>5, Remains
    <2>5. QED  BY <2>3, <2>4
  <1>9. PrimitivesBecome(o, left)
    BY <1>1, <1>8 DEF PrimitivesBecome, AcceptStep, Started
  <1> HIDE DEF left
  <1>10. Primitives' /\ Counted' /\ QuietWhenClosed' /\ Untouched' /\ ProcessStarts'
    BY <1>2, <1>8, <1>9, PrimitivesChange
  <1>11. Shapes'
    BY <1>1 DEF IInv, Shapes
  <1>12. Actors'
    BY <1>1, <1>2, <1>6 DEF IInv, Actors, ActorsThen
  <1>13. ActorStarts'
    BY <1>1, <1>6, <1>7 DEF IInv, ActorStarts, MayStart, ActorsThen
  <1>14. QED  BY <1>1, <1>6, <1>10, <1>11, <1>12, <1>13 DEF IInv

LEMMA HandleEventInv ==
    ASSUME IInv, NEW o \in IDs, NEW i \in DOMAIN prims[o], NEW e \in NextEvents(o, prims[o][i]),
           HandleEvent(o, e[2], e[3]), UNCHANGED <<ctxDone, saved, resumed, restarts>>
    PROVE  IInv'
  <1>1. UNCHANGED <<phase, accepted, closed>>
    BY DEF HandleEvent
  <1>2. CASE o \in DOMAIN actors /\ Handle(actors[o], Received(o, e[2])).ok
    <2>1. Takes(o, e)
      BY <1>1, <1>2 DEF HandleEvent, Takes
    <2>2. QED  BY <2>1, TakesInv
  <1>3. CASE ~(o \in DOMAIN actors /\ Handle(actors[o], Received(o, e[2])).ok)
    <2>1. PrimitivesBecome(o, e[3])
      BY <1>1, <1>3, Remains DEF HandleEvent, PrimitivesBecome
    <2>2. prims[o] # << >>
      BY TheOne
    <2>3. Primitives' /\ Counted' /\ QuietWhenClosed' /\ Untouched' /\ ProcessStarts'
      BY <2>1, <2>2, Remains, PrimitivesChange
    <2>4. Shapes' /\ Actors' /\ ActorStarts' /\ Queue(pending', accepted', actors', saved')
      <3>1. CASE o \notin DOMAIN actors
        <4>1. UNCHANGED <<actors, pending>>
          BY <3>1 DEF HandleEvent
        <4>2. Shapes'
          BY <1>1 DEF IInv, Shapes
        <4>3. Actors' /\ ActorStarts' /\ Queue(pending', accepted', actors', saved')
          BY <1>1, <4>1 DEF IInv, Actors, ActorStarts, MayStart
        <4>4. QED  BY <4>2, <4>3
      <3>2. CASE o \in DOMAIN actors
        <4>1. FailActors({o}) /\ {o} \in SUBSET DOMAIN actors
          BY <1>3, <3>2 DEF HandleEvent
        <4>2. closed' \subseteq DOMAIN Plans
              /\ \A y \in DOMAIN actors \ {o} : actors[y].handler \notin closed'
          BY <1>1 DEF IInv, Shapes, Actors
        <4>3. QED  BY <1>1, <4>1, <4>2, FailingInv
      <3>3. QED  BY <3>1, <3>2
    <2>5. QED  BY <2>3, <2>4 DEF IInv
  <1>4. QED  BY <1>2, <1>3

LEMMA DeliverEventInv ==
    ASSUME IInv, NEW o \in IDs, NEW i \in DOMAIN prims[o], DeliverEvent(o, i) PROVE IInv'
  <1>1. UNCHANGED <<ctxDone, saved, resumed, restarts>>
    BY DEF DeliverEvent
  <1>2. PICK e \in NextEvents(o, prims[o][i]) :
          LET remaining == SubSeq(prims[o], 1, i - 1) \o e[3] \o SubSeq(prims[o], i + 1, Len(prims[o]))
          IN  HandleEvent(o, e[2], remaining) \/ DrainEvent(o, e[2], remaining)
    BY DEF DeliverEvent
  <1>3. SubSeq(prims[o], 1, i - 1) \o e[3] \o SubSeq(prims[o], i + 1, Len(prims[o])) = e[3]
    BY Remains
  <1>4. HandleEvent(o, e[2], e[3]) \/ DrainEvent(o, e[2], e[3])
    BY <1>2, <1>3
  <1>5. QED  BY <1>1, <1>4, HandleEventInv, DrainEventInv

LEMMA NextInv == ASSUME IInv, [Next]_vars PROVE IInv'
  <1> DEFINE Same == UNCHANGED <<phase, ctxDone, actors, accepted, active, pending, closed, prims,
                                 saved, resumed, restarts>>
  <1>0. ASSUME Same PROVE IInv'
    <2>1. Shapes' /\ Actors' /\ ActorStarts' /\ Queue(pending', accepted', actors', saved')
      BY <1>0 DEF IInv, Shapes, Actors, ActorStarts, MayStart
    <2>2. QED  BY <1>0, <2>1, PrimitivesStay DEF IInv
  <1>1. CASE UNCHANGED vars \/ \E o \in IDs : StrayWrites(o)
    <2>1. Same
      BY <1>1 DEF vars, managerVars, StrayWrites
    <2>2. QED  BY <1>0, <2>1
  <1> HIDE DEF Same
  <1>2. CASE Next /\ ~\E o \in IDs : StrayWrites(o)
    BY <1>2, TakeUpdateInv, CancelInv, CloseInv, RestartInv, AddLocalInv, AddRemoteInv,
       PrimitiveActsInv, DeliverEventInv, RemoteUpdateInv, HandlerStopsInv DEF Next
  <1>3. QED  BY <1>1, <1>2

-----------------------------------------------------------------------------
(* The theorems. *)

(* The inductive invariant: the manager counts its primitives, an operation *)
(* has at most one, and its states, saved, queued and at the actor, are in  *)
(* their order (local_manager.go, run and acceptLocalStep).                 *)
THEOREM ManagerInvariant == Spec => []IInv
  <1>1. QED  BY InitInv, NextInv, PTL DEF Spec

(* The count of active primitives is that of the running ones at every      *)
(* moment, so that drainLocalPrimitives returns exactly when none is left,  *)
(* and no operation ever has two (local_manager.go, run, acceptLocalStep    *)
(* and drainLocalPrimitives), for any operations, handlers and outputs.     *)
THEOREM PrimitivesAlwaysAccounted == Spec => []PrimitivesAccounted
  <1>1. ASSUME IInv PROVE PrimitivesAccounted
    <2>1. active \in Nat
      BY <1>1, FS_CardinalityType DEF IInv, Counted
    <2>2. \A o \in DOMAIN actors : actors[o].op.id = o /\ actors[o].op.status \notin Terminal
      BY <1>1 DEF IInv, Actors, ActorOK, WellFormed, Finished
    <2>3. \A i \in DOMAIN pending : pending[i].status \in Statuses
      BY <1>1 DEF IInv, Queue, WellFormed
    <2>4. TypeOK
      BY <1>1, <2>1, <2>2, <2>3 DEF IInv, Shapes, Actors, TypeOK
    <2>5. ASSUME NEW o \in IDs PROVE Len(prims[o]) <= 1
      <3>1. CASE prims[o] = << >>
        BY <3>1
      <3>2. CASE prims[o] # << >>
        <4>1. PICK p : prims[o] = <<p>> /\ PrimitiveOK(p)
          BY <1>1, <3>2 DEF IInv, Primitives, OneOrNone
        <4>2. QED  BY <4>1, OneIs
      <3>3. QED  BY <3>1, <3>2
    <2>6. QED
      BY <1>1, <2>4, <2>5 DEF IInv, Counted, PrimitivesAccounted, CountsPrimitives, OnePrimitiveEach
  <1>2. QED  BY <1>1, ManagerInvariant, PTL

(* An operation reports its end once and last: nothing follows it in the    *)
(* queue of updates, and the coordinator has saved no end of an operation   *)
(* it is still to receive an update of (local_manager.go, acceptLocalStep   *)
(* and failLocalOperation).  The coordinator relies on it.                  *)
THEOREM OperationsEndOnce == Spec => []EndsOnce
  <1>1. ASSUME IInv PROVE EndsOnce
    <2>1. DOMAIN pending = 1..Len(pending) /\ Len(pending) \in Nat
      BY <1>1, Appended DEF IInv, Queue
    <2>2. ASSUME NEW i \in DOMAIN pending, NEW j \in DOMAIN pending,
                 Finished(pending[i]), pending[i].id = pending[j].id
          PROVE  j <= i
      <3>1. ~(i < j)
        BY <1>1, <2>2 DEF IInv, Queue, Precedes
      <3>2. QED  BY <2>1, <3>1
    <2>3. \A i \in DOMAIN pending : ~Finished(saved[pending[i].id])
      BY <1>1 DEF IInv, Queue, Precedes
    <2>4. QED  BY <2>2, <2>3 DEF EndsOnce
  <1>2. QED  BY <1>1, ManagerInvariant, PTL

(* No job is left open with a remote job handler that has stopped           *)
(* (local_manager.go, the closed update channel in run).                    *)
THEOREM StoppedHandlersHaveNoJobs == Spec => []NoJobOfStoppedHandler
  <1>1. IInv => NoJobOfStoppedHandler
    BY DEF IInv, Actors, NoJobOfStoppedHandler
  <1>2. QED  BY <1>1, ManagerInvariant, PTL

-----------------------------------------------------------------------------
(* Decisions. *)

(* Only a round that receives an update changes what is saved. *)
LEMMA SavedChanges == ASSUME [Next]_vars, ~TakeUpdate PROVE saved' = saved
  <1>1. CASE UNCHANGED vars
    BY <1>1 DEF vars
  <1>2. CASE NoticeDone \/ Close \/ CancelContext \/ Restart
    BY <1>2 DEF NoticeDone, Close, CancelContext, Restart
  <1>3. ASSUME NEW o \in IDs, AddLocal(o) \/ AddRemote(o) \/ CancelLocal(o) \/ StrayWrites(o)
        PROVE  saved' = saved
    BY <1>3 DEF AddLocal, AddRemote, CancelLocal, StrayWrites
  <1>4. ASSUME NEW o \in IDs, NEW i \in DOMAIN prims[o], PrimitiveActs(o, i) \/ DeliverEvent(o, i)
        PROVE  saved' = saved
    BY <1>4 DEF PrimitiveActs, DeliverEvent
  <1>5. ASSUME NEW h, NEW u, RemoteUpdate(h, u) PROVE saved' = saved
    BY <1>5 DEF RemoteUpdate
  <1>6. ASSUME NEW h, HandlerStops(h) PROVE saved' = saved
    BY <1>6 DEF HandlerStops
  <1>7. QED  BY <1>1, <1>2, <1>3, <1>4, <1>5, <1>6 DEF Next

(* Only a process primitive that acts starts a command. *)
LEMMA RunsChange ==
    ASSUME [Next]_vars, \A o \in IDs : \A i \in DOMAIN prims[o] : ~PrimitiveActs(o, i)
    PROVE  runs' = runs
  <1>1. CASE UNCHANGED vars
    BY <1>1 DEF vars, worldVars
  <1>2. CASE TakeUpdate \/ NoticeDone \/ Close \/ CancelContext \/ Restart
    BY <1>2 DEF TakeUpdate, NoticeDone, Close, CancelContext, Restart, worldVars
  <1>3. ASSUME NEW o \in IDs, AddLocal(o) \/ AddRemote(o) \/ CancelLocal(o) \/ StrayWrites(o)
        PROVE  runs' = runs
    BY <1>3 DEF AddLocal, AddRemote, CancelLocal, StrayWrites, worldVars
  <1>4. ASSUME NEW o \in IDs, NEW i \in DOMAIN prims[o], DeliverEvent(o, i) PROVE runs' = runs
    BY <1>4 DEF DeliverEvent, worldVars
  <1>5. ASSUME NEW h, NEW u, RemoteUpdate(h, u) PROVE runs' = runs
    BY <1>5 DEF RemoteUpdate, worldVars
  <1>6. ASSUME NEW h, HandlerStops(h) PROVE runs' = runs
    BY <1>6 DEF HandlerStops, worldVars
  <1>7. QED  BY <1>1, <1>2, <1>3, <1>4, <1>5, <1>6 DEF Next

LEMMA ActsRun ==
    ASSUME NEW o, NEW i, PrimitiveActs(o, i)
    PROVE  \/ runs' = runs
           \/ prims[o][i].req.type = "process" /\ runs' = [runs EXCEPT ![o] = @ + 1]
  BY DEF PrimitiveActs

Runs == runs \in [IDs -> Nat]

LEMMA RunsAreCounted == Spec => []Runs
  <1>1. Init => Runs
    BY DEF Init, Runs
  <1>2. ASSUME Runs, [Next]_vars PROVE Runs'
    <2>1. ASSUME NEW o \in IDs, NEW i \in DOMAIN prims[o], PrimitiveActs(o, i) PROVE Runs'
      BY <1>2, <2>1, ActsRun DEF Runs
    <2>2. CASE \A o \in IDs : \A i \in DOMAIN prims[o] : ~PrimitiveActs(o, i)
      BY <1>2, <2>2, RunsChange DEF Runs
    <2>3. QED  BY <2>1, <2>2
  <1>3. QED  BY <1>1, <1>2, PTL DEF Spec

StartIsFinal ==
    \A o \in IDs : runs'[o] > runs[o] =>
        saved[o].type = "shell" /\ resumed[o].state.phase \in {""} \cup CreatePhases

LEMMA StartStep == ASSUME IInv, Runs, [Next]_vars PROVE StartIsFinal
  <1>1. ASSUME NEW o \in IDs, NEW i \in DOMAIN prims[o], PrimitiveActs(o, i), runs' # runs
        PROVE  StartIsFinal
    <2>1. prims[o][i].req.type = "process" /\ runs' = [runs EXCEPT ![o] = @ + 1]
      BY <1>1, ActsRun
    <2>2. Specs[o].type = "shell" /\ MayStart(o)
      BY <2>1, TheOne
    <2>3. saved[o].type = "shell"
      BY <2>2 DEF IInv, Shapes, WellFormed
    <2>4. \A x \in IDs : x # o => ~(runs'[x] > runs[x])
      BY <2>1 DEF Runs
    <2>5. QED  BY <2>2, <2>3, <2>4 DEF StartIsFinal, MayStart
  <1>2. CASE runs' = runs
    <2>1. ASSUME NEW o \in IDs PROVE ~(runs'[o] > runs[o])
      <3>1. runs[o] \in Nat
        BY DEF Runs
      <3>2. QED  BY <1>2, <3>1
    <2>2. QED  BY <2>1 DEF StartIsFinal
  <1>3. QED  BY <1>1, <1>2, RunsChange

RemoteStands ==
    \A o \in IDs : saved[o].type = "remote_job" =>
        /\ saved'[o].state.plan = saved[o].state.plan
        /\ saved[o].status = "canceling" => saved'[o].status \in {"canceling", "failed", "canceled"}

LEMMA RemoteStep == ASSUME IInv, [Next]_vars PROVE RemoteStands
  <1>1. CASE saved' = saved
    BY <1>1 DEF RemoteStands
  <1>2. CASE TakeUpdate
    <2> DEFINE u == Head(pending)
    <2>1. IsSequence(pending) /\ Head(pending) = pending[1] /\ 1 \in DOMAIN pending
      BY <1>2, Tailed DEF IInv, Queue, TakeUpdate
    <2>2. u.id \in IDs /\ WellFormed(u.id, u) /\ Precedes(saved[u.id], u)
      BY <2>1 DEF IInv, Queue, Shapes
    <2>3. saved' = [saved EXCEPT ![u.id] = u]
      BY <1>2 DEF TakeUpdate
    <2> HIDE DEF u
    <2>4. DOMAIN saved = IDs /\ \A o \in IDs : WellFormed(o, saved[o])
      BY DEF IInv, Shapes
    <2>5. ASSUME NEW o \in IDs, saved[o].type = "remote_job"
          PROVE  /\ saved'[o].state.plan = saved[o].state.plan
                 /\ saved[o].status = "canceling" => saved'[o].status \in {"canceling", "failed", "canceled"}
      <3>1. CASE o = u.id
        <4>1. saved'[o] = u
          BY <2>3, <2>4, <3>1
        <4>2. u.state.plan = saved[o].state.plan
          BY <2>2, <2>4, <2>5, <3>1 DEF WellFormed
        <4>3. saved[o].status = "canceling" => u.status \in {"canceling", "failed", "canceled"}
          BY <2>2, <2>5, <3>1 DEF Precedes, AfterCanceling
        <4>4. QED  BY <4>1, <4>2, <4>3
      <3>2. CASE o # u.id
        BY <2>3, <2>4, <3>2
      <3>3. QED  BY <3>1, <3>2
    <2>6. QED  BY <2>5 DEF RemoteStands
  <1>3. QED  BY <1>1, <1>2, SavedChanges

(* The newest update of a round that queues some is not the completion of a *)
(* cancelled local operation.                                               *)
NotCompleted(o) ==
    actors[o].handler = NoHandler /\ Len(pending') > Len(pending) /\ Last(pending').id = o
        => Last(pending').status # "completed"

LEMMA LastAppended ==
    ASSUME NEW s, IsSequence(s), NEW x
    PROVE  Last(Append(s, x)) = x
  <1>1. Len(s) \in Nat /\ DOMAIN Append(s, x) = 1..(Len(s) + 1) /\ Append(s, x)[Len(s) + 1] = x
        /\ IsSequence(Append(s, x))
    BY Appended
  <1>2. Len(Append(s, x)) = Len(s) + 1
    BY <1>1 DEF IsSequence
  <1>3. QED  BY <1>1, <1>2 DEF Last

(* Failing actors queues failures only. *)
LEMMA LastFailed ==
    ASSUME IInv, NEW failing \in SUBSET DOMAIN actors, FailActors(failing),
           Len(pending') > Len(pending)
    PROVE  Last(pending').status = "failed"
  <1> DEFINE f == FailuresOf(actors, failing)
             n == Len(pending)
             m == Len(f)
  <1>1. pending' = pending \o f
    BY Failed DEF IInv
  <1>2. IsFiniteSet(failing) /\ \A o \in failing : WellFormed(o, actors[o].op)
    BY FS_Subset DEF IInv, Shapes, Actors, ActorOK
  <1>3. IsSequence(f) /\ \A k \in DOMAIN f : f[k].status = "failed"
    BY <1>2, FailuresAre
  <1> HIDE DEF f
  <1>4. IsSequence(pending)
    BY DEF IInv, Queue
  <1>5. /\ n \in Nat /\ m \in Nat /\ DOMAIN f = 1..m
        /\ \A k \in 1..m : (pending \o f)[n + k] = f[k]
    BY <1>3, <1>4, Joined
  <1>6. Len(pending \o f) = n + m
    BY <1>3, <1>4 DEF IsSequence
  <1> HIDE DEF n, m
  <1>7. m \in 1..m
    BY <1>1, <1>5, <1>6 DEF n
  <1>8. Last(pending') = f[m]
    BY <1>1, <1>5, <1>6, <1>7 DEF Last
  <1>9. QED  BY <1>3, <1>5, <1>7, <1>8

(* A round that queues nothing. *)
LEMMA NothingQueued == ASSUME IInv, pending' = pending, NEW o PROVE NotCompleted(o)
  <1>1. Len(pending) \in Nat
    BY Appended DEF IInv, Queue
  <1>2. QED  BY <1>1 DEF NotCompleted

(* The step of an actor queues its own checkpoint. *)
LEMMA LastAccepted ==
    ASSUME IInv, NEW x, NEW actor, NEW event, NEW step, StepOK(x, actor.op, event, step), step.ok,
           Accepts(x, actor, step), NEW o, x # o \/ step.op.status # "completed"
    PROVE  NotCompleted(o)
  <1>1. CASE ~step.save
    <2>1. pending' = pending
      BY <1>1 DEF Accepts
    <2>2. QED  BY <2>1, NothingQueued
  <1>2. CASE step.save
    <2>1. pending' = Append(pending, step.op) /\ IsSequence(pending)
      BY <1>2 DEF Accepts, IInv, Queue
    <2>2. Last(pending') = step.op
      BY <2>1, LastAppended
    <2>3. step.op.id = x
      BY DEF StepOK, WellFormed
    <2>4. QED  BY <2>2, <2>3 DEF NotCompleted
  <1>3. QED  BY <1>1, <1>2

LEMMA AddStands ==
    ASSUME IInv, NEW x \in IDs, AddLocal(x), NEW o \in canceled \cap DOMAIN actors
    PROVE  NotCompleted(o)
  <1> DEFINE actor == [op |-> saved[x], mem |-> NoMemory, handler |-> NoHandler]
             step == Handle(actor, NoEvent)
  <1>1. /\ x \notin accepted /\ saved[x].type # "remote_job" /\ step.ok
        /\ AcceptStep(x, actor, step, prims[x], active)
    BY DEF AddLocal, Fresh
  <1>2. WellFormed(x, saved[x]) /\ Specs[x].type \in LocalTypes
    <2>1. WellFormed(x, saved[x])
      BY DEF IInv, Shapes
    <2>2. QED  BY <1>1, <2>1, SpecShape DEF WellFormed
  <1>3. actor.op = saved[x]
    OBVIOUS
  <1>4. StepOK(x, actor.op, NoEvent, step)
    BY <1>2, <1>3, HandleStep
  <1> HIDE DEF actor, step
  <1>5. Accepts(x, actor, step)
    BY <1>1 DEF AcceptStep, Accepts
  <1>6. x # o
    BY <1>1 DEF IInv, Actors
  <1>7. QED  BY <1>1, <1>4, <1>5, <1>6, LastAccepted

LEMMA DeliverStands ==
    ASSUME IInv, NEW x \in IDs, NEW i \in DOMAIN prims[x], DeliverEvent(x, i),
           NEW o \in canceled \cap DOMAIN actors
    PROVE  NotCompleted(o)
  <1>1. PICK e \in NextEvents(x, prims[x][i]) :
          LET remaining == SubSeq(prims[x], 1, i - 1) \o e[3] \o SubSeq(prims[x], i + 1, Len(prims[x]))
          IN  HandleEvent(x, e[2], remaining) \/ DrainEvent(x, e[2], remaining)
    BY DEF DeliverEvent
  <1>2. SubSeq(prims[x], 1, i - 1) \o e[3] \o SubSeq(prims[x], i + 1, Len(prims[x])) = e[3]
    BY Remains
  <1>3. CASE DrainEvent(x, e[2], e[3])
    <2>1. pending' = pending
      BY <1>3 DEF DrainEvent
    <2>2. QED  BY <2>1, NothingQueued
  <1>4. CASE HandleEvent(x, e[2], e[3])
    <2> DEFINE actor == actors[x]
               event == Received(x, e[2])
               step == Handle(actor, event)
    <2>1. CASE x \notin DOMAIN actors
      <3>1. pending' = pending
        BY <1>4, <2>1 DEF HandleEvent
      <3>2. QED  BY <3>1, NothingQueued
    <2>2. CASE x \in DOMAIN actors /\ ~step.ok
      <3>1. FailActors({x}) /\ {x} \in SUBSET DOMAIN actors
        BY <1>4, <2>2 DEF HandleEvent
      <3>2. Len(pending') > Len(pending) => Last(pending').status = "failed"
        BY <3>1, LastFailed
      <3>3. QED  BY <3>2 DEF NotCompleted
    <2>3. CASE x \in DOMAIN actors /\ step.ok
      <3>1. WellFormed(x, actor.op) /\ Specs[x].type \in LocalTypes
        BY <2>3, TheOne DEF IInv, Actors, ActorOK
      <3>2. DOMAIN e[2] = {"type", "corr", "result"} /\ e[2].type # "none"
        BY Remains DEF Sends
      <3>3. /\ event.type # "none" /\ event # NoEvent
            /\ event.type \in CompletedEvents <=> e[2].type \in CompletedEvents
            /\ Canceled(x) /\ e[2].type \in CompletedEvents => event.type = "canceled"
        BY <3>2, ReceivedIs
      <3>4. Accepts(x, actor, step)
        BY <1>4, <2>3 DEF HandleEvent, AcceptStep, Accepts
      <3> HIDE DEF event
      <3>5. StepOK(x, actor.op, event, step)
        BY <3>1, <3>3, HandleStep
      <3> HIDE DEF step, actor
      <3>6. x = o => step.op.status # "completed"
        BY <2>3, <3>3, <3>5 DEF StepOK, Canceled
      <3>7. QED  BY <2>3, <3>4, <3>5, <3>6, LastAccepted
    <2>4. QED  BY <2>1, <2>2, <2>3
  <1>5. QED  BY <1>1, <1>2, <1>3, <1>4

LEMMA RemoteStepStands ==
    ASSUME IInv, NEW h \in DOMAIN Plans, NEW update, RemoteUpdate(h, update),
           NEW o \in canceled \cap DOMAIN actors
    PROVE  NotCompleted(o)
  <1> DEFINE x == update.id
  <1>1. x \in DOMAIN actors /\ actors[x].handler # NoHandler
    BY DEF RemoteUpdate
  <1>2. CASE actors[x].handler # h \/ ~ValidUpdate(actors[x].op, update)
    <2>1. FailActors({x}) /\ {x} \in SUBSET DOMAIN actors
      BY <1>1, <1>2 DEF RemoteUpdate
    <2>2. Len(pending') > Len(pending) => Last(pending').status = "failed"
      BY <2>1, LastFailed
    <2>3. QED  BY <2>2 DEF NotCompleted
  <1>3. CASE ~(actors[x].handler # h \/ ~ValidUpdate(actors[x].op, update))
    <2>1. pending' = Append(pending, update) /\ IsSequence(pending)
      BY <1>3 DEF RemoteUpdate, IInv, Queue
    <2>2. Last(pending') = update
      BY <2>1, LastAppended
    <2>3. QED  BY <1>1, <2>2 DEF NotCompleted
  <1>4. QED  BY <1>2, <1>3

LEMMA CanceledStep ==
    ASSUME IInv, [Next]_vars, NEW o \in canceled \cap DOMAIN actors PROVE NotCompleted(o)
  <1>1. CASE UNCHANGED vars
    BY <1>1, NothingQueued DEF vars, managerVars
  <1>2. CASE NoticeDone \/ Close \/ CancelContext
    BY <1>2, NothingQueued DEF NoticeDone, Close, CancelContext, managerVars
  <1>3. ASSUME NEW x \in IDs, AddRemote(x) \/ CancelLocal(x) \/ StrayWrites(x)
        PROVE  NotCompleted(o)
    BY <1>3, NothingQueued DEF AddRemote, CancelLocal, StrayWrites, managerVars
  <1>4. ASSUME NEW x \in IDs, NEW i \in DOMAIN prims[x], PrimitiveActs(x, i) PROVE NotCompleted(o)
    BY <1>4, NothingQueued DEF PrimitiveActs, managerVars
  <1>5. CASE TakeUpdate \/ Restart
    <2>1. IsSequence(pending) /\ Len(pending) \in Nat
      BY Appended DEF IInv, Queue
    <2>2. CASE TakeUpdate
      <3>1. pending # << >> /\ pending' = Tail(pending)
        BY <2>2 DEF TakeUpdate
      <3>2. Len(Tail(pending)) = Len(pending) - 1
        BY <2>1, <3>1 DEF IsSequence
      <3>3. QED  BY <2>1, <3>1, <3>2 DEF NotCompleted
    <2>3. CASE Restart
      <3>1. Len(pending') = 0
        BY <2>3 DEF Restart
      <3>2. QED  BY <2>1, <3>1 DEF NotCompleted
    <2>4. QED  BY <1>5, <2>2, <2>3
  <1>6. ASSUME NEW h \in DOMAIN Plans, HandlerStops(h) PROVE NotCompleted(o)
    <2> DEFINE failing == {x \in DOMAIN actors : actors[x].handler = h}
    <2>1. FailActors(failing) /\ failing \in SUBSET DOMAIN actors
      BY <1>6 DEF HandlerStops
    <2> HIDE DEF failing
    <2>2. Len(pending') > Len(pending) => Last(pending').status = "failed"
      BY <2>1, LastFailed
    <2>3. QED  BY <2>2 DEF NotCompleted
  <1>7. QED
    BY <1>1, <1>2, <1>3, <1>4, <1>5, <1>6, AddStands, DeliverStands, RemoteStepStands DEF Next

(* No step takes back a decision: a cancelled local operation does not      *)
(* complete, however its primitive's completion and its cancellation are    *)
(* ordered (local_manager.go, the event case of run); a command whose start *)
(* is on record is not started again (shell.go, resume); and a job that is  *)
(* being cancelled does not look active again, nor does its plan change     *)
(* (remote_job.go, the validation of an update).                            *)
THEOREM DecisionsAlwaysStand == Spec => DecisionsStand
  <1>1. ASSUME IInv, [Next]_vars
        PROVE  [\A o \in canceled \cap DOMAIN actors :
                  actors[o].handler = NoHandler /\ pending' # pending /\ phase = "running"
                     /\ Len(pending') > Len(pending) /\ Last(pending').id = o
                  => Last(pending').status # "completed"]_vars
    BY <1>1, CanceledStep DEF NotCompleted
  <1>2. ASSUME IInv, Runs, [Next]_vars
        PROVE  [\A o \in IDs : runs'[o] > runs[o] =>
                  saved[o].type = "shell" /\ resumed[o].state.phase \in {""} \cup CreatePhases]_vars
    BY <1>2, StartStep DEF StartIsFinal
  <1>3. ASSUME IInv, [Next]_vars
        PROVE  [\A o \in IDs : saved[o].type = "remote_job" =>
                  /\ saved'[o].state.plan = saved[o].state.plan
                  /\ saved[o].status = "canceling" =>
                       saved'[o].status \in {"canceling", "failed", "canceled"}]_vars
    BY <1>3, RemoteStep DEF RemoteStands
  <1>4. QED
    BY <1>1, <1>2, <1>3, ManagerInvariant, RunsAreCounted, PTL
       DEF Spec, DecisionsStand, CanceledNeverCompletes, RecordedStartIsFinal, RemoteNeverRegresses
=============================================================================

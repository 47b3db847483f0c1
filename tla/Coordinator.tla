----------------------------- MODULE Coordinator -----------------------------
(***************************************************************************)
(* The coordinator of one session (harness/coordinator/loop.go) with what  *)
(* it works on: the inbox in front of it, the session log it records every *)
(* decision in, the model it calls, and the operation manager behind it.   *)
(*                                                                         *)
(* The coordinator is one goroutine.  Every action below ends where it     *)
(* waits for a channel or has just finished one store call, so that other  *)
(* goroutines interleave, and the process may die, at each of these points.*)
(* A store call that fails, persisted or not, makes Run return its error   *)
(* and all memory of the run is dropped: that is Die before or after the   *)
(* step, and so is a cancelled context.                                    *)
(***************************************************************************)
EXTENDS LoopState, FiniteSets

CONSTANTS
    External,       \* IDs of messages users may submit
    HardStops,      \* IDs of stop requests of mode hard
    IdleStops,      \* IDs of stop requests of mode when_idle
    Settings,       \* IDs of settings updates
    Calls,          \* IDs the model may give its tool calls, each once
    OpsPerCall,     \* how many operations a translator may submit for a call
    MaxHeartbeats,  \* bound: heartbeats per session
    MaxStarts,      \* bound: times the session is opened
    InitialLog      \* the log the session starts from

VARIABLES
    pc,             \* where the coordinator goroutine is
    ls,             \* its loopState
    modelActive,    \* cancelModel is set: a response is awaited
    stop,           \* the accepted stop request: "none", "when_idle" or "hard"
    cancelled,      \* stop.cancellationRequested
    statuses,       \* the statuses scheduleToolCalls collects: <<key, is error>>
    heartbeat,      \* heartbeat timer: "off", "armed" or "fired"
    log,            \* the session file
    image,          \* what reading it back gives
    rejected,       \* history: the store refused an append
    queue, seen,    \* the inbox: queued inputs, IDs seen
    inflight,       \* turns whose Respond goroutine has not ended
    manager,        \* operation manager: unfinished operations and their status
    updates,        \* operation updates not received yet
    issued,         \* history: IDs of control inputs and tool calls given out so far
    starts          \* history: times the session was opened

loopVars == <<pc, ls, modelActive, stop, cancelled, statuses, heartbeat>>
storeVars == <<log, image, rejected>>
envVars == <<queue, seen, inflight, manager, updates, issued, starts>>
vars == <<loopVars, storeVars, envVars>>

Up == pc \notin {"down", "stopped"}

Input(id, kind) == [type |-> "input", id |-> id, kind |-> kind]

HeartbeatID(n) == <<"heartbeat", n>>

HeartbeatIDs == {HeartbeatID(n) : n \in 1..MaxHeartbeats}

head == image.head

(* Turn IDs are fresh; numbering them keeps them so. *)
FreshTurn == head.latest + 1

ASSUME TurnAssumption == NoTurn = 0

ASSUME OpsAssumption == OpsPerCall \subseteq Nat

(* A session starts out new or as a fork: it may have inherited turns,     *)
(* inputs, settings and context, but owns no turn, call or operation.      *)
OwnsNothing(start) ==
    /\ start.head = [NewHead EXCEPT !.sequence = start.head.sequence,
                                    !.latest = start.head.latest,
                                    !.turns = start.head.turns]
    /\ start.head.latest \in Nat
    /\ \A turn \in start.head.turns : turn \in Nat /\ turn <= start.head.latest
    /\ start.replayed = [NewLoopState EXCEPT !.turn = start.head.latest,
                                             !.available = start.replayed.available,
                                             !.delivered = start.replayed.delivered,
                                             !.turnInputs = start.replayed.turnInputs,
                                             !.effort = start.replayed.effort,
                                             !.builder = start.replayed.builder]
    /\ start.replayed.available \in Nat
    /\ start.replayed.delivered \in Nat
    /\ start.replayed.turnInputs \in Nat

(* Of a log: a response answers the newest turn before it, and an input ID *)
(* is on record at most once.                                              *)
AnswersLatest(lines) ==
    \A k \in DOMAIN lines :
      lines[k].record.type = "response" =>
        LET turns == {l \in 1..(k - 1) : lines[l].record.type = "turn"}
        IN \E l \in turns : /\ \A j \in turns : j <= l
                            /\ lines[l].record.turn = lines[k].record.turn

RecordedOnce(lines) ==
    \A j, k \in DOMAIN lines :
      (/\ lines[j].record.type = "input" /\ lines[k].record.type = "input"
       /\ lines[j].record.id = lines[k].record.id) => j = k

RecordTypes == {"input", "turn", "response", "status", "operation", "fork"}

(* The log of a new session is empty, that of a fork ends with the fork    *)
(* line; both decode, and what a fork inherits was recorded as by this one.*)
ASSUME InitialLogAssumption ==
    /\ InitialLog \in Seq(ToSet(InitialLog))
    /\ Decode(InitialLog).ok
    /\ Inherited(InitialLog) = Len(InitialLog)
    /\ \A k \in DOMAIN InitialLog : InitialLog[k].record.type \in RecordTypes
    /\ AnswersLatest(InitialLog) /\ RecordedOnce(InitialLog)
    /\ OwnsNothing(Image(InitialLog))

ControlIDs == HardStops \cup IdleStops \cup Settings \cup HeartbeatIDs

(* IDs are UUIDs: messages and control inputs share none, and a control    *)
(* input never has the ID of an earlier one.  The inbox refuses an input   *)
(* without an ID, and the service names its calls; nothing checks that it  *)
(* does (responsesapi/response.go:131), and the store refuses the status   *)
(* of a call that has no ID, which would end the run.                      *)
ASSUME IDsAssumption ==
    /\ External \cap ControlIDs = {}
    /\ NoID \notin External \cup ControlIDs \cup Calls
    /\ \A k \in DOMAIN InitialLog :
         LET record == InitialLog[k].record
         IN record.type = "input" =>
              /\ record.id \notin ControlIDs
              /\ record.kind # "external" => record.id \notin External

Init ==
    /\ pc = "down"
    /\ ls = NewLoopState
    /\ modelActive = FALSE /\ stop = "none" /\ cancelled = FALSE
    /\ statuses = {} /\ heartbeat = "off"
    /\ log = InitialLog /\ image = Image(InitialLog) /\ rejected = FALSE
    /\ queue = << >> /\ seen = {} /\ inflight = {}
    /\ manager = << >> /\ updates = << >>
    /\ issued = {} /\ starts = 0

-----------------------------------------------------------------------------
(* Pieces of the handlers *)

(* storeItemInSessionStore and SaveOperation. *)
Persist(record) ==
    IF CanAppend(head, record)
      THEN /\ log' = Append(log, Line(head, record))
           /\ image' = Extend(image, record)
           /\ UNCHANGED rejected
      ELSE rejected' = TRUE /\ UNCHANGED <<log, image>>

(* isWaitingForOnlyToolCalls, and the heartbeat timer at the top of the    *)
(* loop: a timer that has fired is not set again while the wait lasts.     *)
WaitingForOnlyToolCalls(state, active, mode) ==
    /\ ~active
    /\ mode # "hard"
    /\ PendingInputs(state) = 0
    /\ DOMAIN state.toolCalls # {}

TopOfLoop(state, active, mode) ==
    /\ pc' = "select"
    /\ heartbeat' = IF ~WaitingForOnlyToolCalls(state, active, mode) THEN "off"
                    ELSE IF heartbeat = "off" /\ MaxHeartbeats > 0 THEN "armed"
                    ELSE heartbeat

(* Faulty variant: a session whose tools are running counts as idle. *)
IsIdleWhileToolsRun(state, active) == ~active /\ PendingInputs(state) = 0

IsIdle(state, active) ==
    /\ ~active
    /\ PendingInputs(state) = 0
    /\ DOMAIN state.toolCalls = {}
    /\ ~HasPendingOperations(state)

(* dispatchOperationToManager for a set of operations. *)
Dispatched(ops) ==
    Override([op \in {o \in ops : ~IsTerminal(ls, o)} |-> ls.operations[op]], manager)

(* Run has returned: its inbox, models and manager are cancelled with it. *)
Exit(to) ==
    /\ pc' = to
    /\ ls' = NewLoopState
    /\ modelActive' = FALSE /\ stop' = "none" /\ cancelled' = FALSE
    /\ statuses' = {} /\ heartbeat' = "off"
    /\ queue' = << >> /\ seen' = {} /\ inflight' = {}
    /\ manager' = << >> /\ updates' = << >>

-----------------------------------------------------------------------------
(* Opening the session *)

(* Faulty variant: the inbox forgets the inputs of earlier runs. *)
StartUnseeded ==
    /\ ~Up
    /\ starts < MaxStarts
    /\ starts' = starts + 1
    /\ pc' = "boot_schedule"
    /\ ls' = Restore(image)
    /\ seen' = {}
    /\ UNCHANGED <<modelActive, stop, cancelled, statuses, heartbeat, storeVars,
                   queue, inflight, manager, updates, issued>>

(* Resume and restore; then scheduleToolCalls is next. *)
Start ==
    /\ ~Up
    /\ starts < MaxStarts
    /\ starts' = starts + 1
    /\ pc' = "boot_schedule"
    /\ ls' = Restore(image)
    /\ seen' = image.inputIDs
    /\ UNCHANGED <<modelActive, stop, cancelled, statuses, heartbeat, storeVars,
                   queue, inflight, manager, updates, issued>>

(* Faulty variant: the status and its operations stay in memory. *)
ScheduleToolCallUnstored(key, ops) ==
    /\ pc \in {"boot_schedule", "schedule"}
    /\ key \in DOMAIN ls.toolCalls
    /\ ~ls.toolCalls[key].translated
    /\ LET record == [type |-> "status", turn |-> key[1], call |-> key[2],
                      error |-> ops = {}, waits |-> ops, ops |-> [op \in ops |-> "ready"]]
       IN /\ ls' = AddItem(AddOperations(ls, record.ops), record)
          /\ statuses' = statuses \cup {<<key, record.error>>}
    /\ UNCHANGED <<pc, modelActive, stop, cancelled, heartbeat, storeVars, envVars>>

(* scheduleToolCall: a translator answers with an error (as does a missing *)
(* tool) or submits operations; the status is added locally, then stored.  *)
(* An operation is named after its call: its UUID is fresh, and one that   *)
(* was never stored is known to nobody after a crash.                      *)
ScheduleToolCall(key, ops) ==
    /\ pc \in {"boot_schedule", "schedule"}
    /\ key \in DOMAIN ls.toolCalls
    /\ ~ls.toolCalls[key].translated
    /\ LET record == [type |-> "status", turn |-> key[1], call |-> key[2],
                      error |-> ops = {}, waits |-> ops, ops |-> [op \in ops |-> "ready"]]
       IN /\ ls' = AddItem(AddOperations(ls, record.ops), record)
          /\ Persist(record)
          /\ statuses' = statuses \cup {<<key, record.error>>}
    /\ UNCHANGED <<pc, modelActive, stop, cancelled, heartbeat, envVars>>

(* Faulty variant: goes on after the first call. *)
ScheduledOne ==
    \/ DOMAIN ls.toolCalls = {}
    \/ \E key \in DOMAIN ls.toolCalls : ls.toolCalls[key].translated

Scheduled == \A key \in DOMAIN ls.toolCalls : ls.toolCalls[key].translated

RequireModelResponse == \E status \in statuses : status[2]

BootScheduled ==
    /\ pc = "boot_schedule"
    /\ Scheduled
    /\ pc' = "boot_reconcile"
    /\ UNCHANGED <<ls, modelActive, stop, cancelled, statuses, heartbeat, storeVars, envVars>>

(* Faulty variant: the final status is stored without the operations. *)
ReconcileToolCallBare(key) ==
    /\ pc \in {"boot_reconcile", "reconcile"}
    /\ key \in DOMAIN ls.toolCalls
    /\ CallIsTerminal(ls, key)
    /\ LET record == [type |-> "status", turn |-> key[1], call |-> key[2], error |-> FALSE,
                      waits |-> ls.toolCalls[key].waits, ops |-> << >>]
       IN ls' = AddItem(ls, record) /\ Persist(record)
    /\ UNCHANGED <<pc, modelActive, stop, cancelled, statuses, heartbeat, envVars>>

(* One iteration of reconcileToolCalls: a call whose operations are all    *)
(* terminal is recorded with their final states, and finished by that.     *)
ReconcileToolCall(key) ==
    /\ pc \in {"boot_reconcile", "reconcile"}
    /\ key \in DOMAIN ls.toolCalls
    /\ CallIsTerminal(ls, key)
    /\ LET waits == ls.toolCalls[key].waits
           record == [type |-> "status", turn |-> key[1], call |-> key[2], error |-> FALSE,
                      waits |-> waits, ops |-> [op \in waits |-> ls.operations[op]]]
       IN ls' = AddItem(ls, record) /\ Persist(record)
    /\ UNCHANGED <<pc, modelActive, stop, cancelled, statuses, heartbeat, envVars>>

Reconciled == \A key \in DOMAIN ls.toolCalls : ~CallIsTerminal(ls, key)

(* Run before its loop: all unfinished operations are handed to the        *)
(* manager; the model is called if anything is pending.                    *)
BootDispatch ==
    /\ pc = "boot_reconcile"
    /\ Reconciled
    /\ manager' = Dispatched(DOMAIN ls.operations)
    /\ statuses' = {}
    /\ IF RequireModelResponse \/ PendingInputs(ls) > 0
         THEN pc' = "boot_request" /\ UNCHANGED heartbeat
         ELSE TopOfLoop(ls, modelActive, stop)
    /\ UNCHANGED <<ls, modelActive, stop, cancelled, storeVars,
                   queue, seen, inflight, updates, issued, starts>>

-----------------------------------------------------------------------------
(* Receiving events *)

(* handleInboxInput(s) for one input; acceptStop keeps a hard stop. *)
HandleInput(record) ==
    LET added == AddItem(ls, record)
        asked == IF record.kind = "external" THEN [added EXCEPT !.callModel = TRUE] ELSE added
    IN /\ ls' = IF record.kind = "settings" THEN asked ELSE ClearToolGrace(asked)
       /\ stop' = IF record.kind \in {"hard", "when_idle"} /\ stop # "hard"
                    THEN record.kind ELSE stop
       /\ Persist(record)

(* The select receives an input, or processEvents slurps one. *)
TakeInput ==
    /\ pc \in {"select", "slurp_inputs"}
    /\ queue # << >>
    /\ HandleInput(Head(queue))
    /\ queue' = Tail(queue)
    /\ pc' = "slurp_inputs"
    /\ UNCHANGED <<modelActive, cancelled, statuses, heartbeat,
                   seen, inflight, manager, updates, issued, starts>>

(* handleOperationUpdate. *)
TakeUpdate ==
    /\ pc \in {"select", "slurp_updates"}
    /\ updates # << >>
    /\ LET update == Head(updates)
       IN /\ ls' = AddOperations(ls, [op \in {update.op} |-> update.status])
          /\ Persist([type |-> "operation", op |-> update.op, sameType |-> TRUE,
                      status |-> update.status])
    /\ updates' = Tail(updates)
    /\ pc' = IF pc = "select" THEN "slurp_inputs" ELSE pc
    /\ UNCHANGED <<modelActive, stop, cancelled, statuses, heartbeat,
                   queue, seen, inflight, manager, issued, starts>>

(* The heartbeat timer fires: postHeartbeat submits to the inbox. *)
PostHeartbeat ==
    /\ pc = "select"
    /\ heartbeat = "armed"
    /\ \E n \in 1..MaxHeartbeats :
         /\ HeartbeatID(n) \notin issued
         /\ \A m \in 1..(n - 1) : HeartbeatID(m) \in issued
         /\ issued' = issued \cup {HeartbeatID(n)}
         /\ seen' = seen \cup {HeartbeatID(n)}
         /\ queue' = Append(queue, Input(HeartbeatID(n), "heartbeat"))
    /\ heartbeat' = "fired"
    /\ pc' = "slurp_inputs"
    /\ UNCHANGED <<ls, modelActive, stop, cancelled, statuses, storeVars,
                   inflight, manager, updates, starts>>

GraceExpires ==
    /\ pc = "select"
    /\ ls.grace
    /\ ls' = ClearToolGrace(ls)
    /\ pc' = "slurp_inputs"
    /\ UNCHANGED <<modelActive, stop, cancelled, statuses, heartbeat, storeVars, envVars>>

(* Faulty variant: any response that comes in is taken for the current one. *)
AwaitedAny(turn) == modelActive

Awaited(turn) == modelActive /\ turn = ls.turn

(* processModelResponse up to the store call of handleModelResponse. *)
TakeResponse(turn, calls) ==
    /\ pc = "select"
    /\ turn \in inflight
    /\ Awaited(turn)
    /\ inflight' = inflight \ {turn}
    /\ modelActive' = FALSE
    /\ LET record == [type |-> "response", turn |-> turn, calls |-> calls]
       IN ls' = AddItem(ls, record) /\ Persist(record)
    /\ issued' = issued \cup calls
    /\ pc' = "schedule"
    /\ UNCHANGED <<stop, cancelled, statuses, heartbeat,
                   queue, seen, manager, updates, starts>>

(* A response to a turn that was interrupted is dropped. *)
DropResponse(turn) ==
    /\ pc = "select"
    /\ turn \in inflight
    /\ ~Awaited(turn)
    /\ inflight' = inflight \ {turn}
    /\ TopOfLoop(ls, modelActive, stop)
    /\ UNCHANGED <<ls, modelActive, stop, cancelled, statuses, storeVars,
                   queue, seen, manager, updates, issued, starts>>

(* The model call failed: Run returns the error. *)
ModelFails(turn) ==
    /\ pc = "select"
    /\ turn \in inflight
    /\ Awaited(turn)
    /\ Exit("down")
    /\ UNCHANGED <<storeVars, issued, starts>>

(* The rest of processModelResponse: the new operations are dispatched,    *)
(* and the calls get a grace period unless one of them failed at once.     *)
ResponseScheduled ==
    /\ pc = "schedule"
    /\ Scheduled
    /\ LET keys == {status[1] : status \in statuses}
       IN /\ manager' = Dispatched({op \in DOMAIN ls.operations :
                          \E key \in keys \cap DOMAIN ls.toolCalls :
                            op \in ls.toolCalls[key].waits})
          /\ ls' = IF ~RequireModelResponse /\ statuses # {}
                     THEN [ls EXCEPT !.callModel = FALSE, !.grace = TRUE,
                                     !.graceCalls = @ \cup keys]
                     ELSE [ls EXCEPT !.callModel = RequireModelResponse]
    /\ statuses' = {}
    /\ pc' = "slurp_inputs"
    /\ UNCHANGED <<modelActive, stop, cancelled, heartbeat, storeVars,
                   queue, seen, inflight, updates, issued, starts>>

(* slurpChannel gives up after a quiet millisecond or at its limit, so it  *)
(* may leave anything behind.                                              *)
SlurpEnds ==
    /\ pc \in {"slurp_inputs", "slurp_updates"}
    /\ pc' = IF pc = "slurp_inputs" THEN "slurp_updates" ELSE "reconcile"
    /\ UNCHANGED <<ls, modelActive, stop, cancelled, statuses, heartbeat, storeVars, envVars>>

-----------------------------------------------------------------------------
(* Deciding: the loop body after processEvents has reconciled *)

(* Faulty variant: every running tool is waited for. *)
CallModelAfterTools == PendingInputs(ls) > 0 /\ ~modelActive /\ DOMAIN ls.toolCalls = {}

CallModelNow ==
    \/ ls.callModel
    \/ PendingInputs(ls) > 0 /\ ~modelActive /\ ls.graceCalls = {}

(* Faulty variant: the model call goes on. *)
HardStopKeepsModel ==
    /\ pc = "reconcile"
    /\ Reconciled
    /\ stop = "hard"
    /\ IF HasPendingOperations(ls)
         THEN /\ cancelled' = TRUE
              /\ manager' = IF cancelled THEN manager
                            ELSE [op \in DOMAIN manager |->
                                    IF op \in DOMAIN ls.operations /\ ~IsTerminal(ls, op)
                                      THEN "canceling" ELSE manager[op]]
              /\ TopOfLoop(ls, modelActive, stop)
              /\ UNCHANGED <<ls, modelActive, stop, statuses, queue, seen, inflight, updates>>
         ELSE Exit("stopped")
    /\ UNCHANGED <<storeVars, issued, starts>>

(* Faulty variant: operations are waited for and not asked to cancel. *)
HardStopWaits ==
    /\ pc = "reconcile"
    /\ Reconciled
    /\ stop = "hard"
    /\ IF HasPendingOperations(ls)
         THEN /\ cancelled' = TRUE
              /\ modelActive' = (modelActive /\ cancelled)
              /\ TopOfLoop(ls, modelActive', stop)
              /\ UNCHANGED <<ls, stop, statuses, queue, seen, inflight, manager, updates>>
         ELSE Exit("stopped")
    /\ UNCHANGED <<storeVars, issued, starts>>

(* handleStop: the first time, the model is interrupted and every pending  *)
(* operation is asked to cancel; Run returns once none is pending.         *)
HardStop ==
    /\ pc = "reconcile"
    /\ Reconciled
    /\ stop = "hard"
    /\ IF HasPendingOperations(ls)
         THEN /\ cancelled' = TRUE
              /\ modelActive' = (modelActive /\ cancelled)
              /\ manager' = IF cancelled THEN manager
                            ELSE [op \in DOMAIN manager |->
                                    IF op \in DOMAIN ls.operations /\ ~IsTerminal(ls, op)
                                      THEN "canceling" ELSE manager[op]]
              /\ TopOfLoop(ls, modelActive', stop)
              /\ UNCHANGED <<ls, stop, statuses, queue, seen, inflight, updates>>
         ELSE Exit("stopped")
    /\ UNCHANGED <<storeVars, issued, starts>>

(* Faulty variant: the new turn does not name its predecessor. *)
RequestModelUnchained ==
    /\ \/ pc = "boot_request"
       \/ pc = "reconcile" /\ Reconciled /\ stop # "hard" /\ CallModelNow
    /\ LET record == [type |-> "turn", turn |-> FreshTurn, prev |-> NoTurn]
           added == [AddItem(ls, record) EXCEPT !.callModel = FALSE]
           next == IF pc = "reconcile" THEN ClearToolGrace(added) ELSE added
       IN /\ ls' = next
          /\ Persist(record)
          /\ TopOfLoop(next, TRUE, stop)
    /\ modelActive' = TRUE
    /\ inflight' = inflight \cup {FreshTurn}
    /\ UNCHANGED <<stop, cancelled, statuses, queue, seen, manager, updates, issued, starts>>

(* requestModelResponse: the current call is interrupted, the context      *)
(* built and committed as a new turn, and the model called.                *)
RequestModel ==
    /\ \/ pc = "boot_request"
       \/ pc = "reconcile" /\ Reconciled /\ stop # "hard" /\ CallModelNow
    /\ LET record == [type |-> "turn", turn |-> FreshTurn, prev |-> ls.turn]
           added == [AddItem(ls, record) EXCEPT !.callModel = FALSE]
           next == IF pc = "reconcile" THEN ClearToolGrace(added) ELSE added
       IN /\ ls' = next
          /\ Persist(record)
          /\ TopOfLoop(next, TRUE, stop)
    /\ modelActive' = TRUE
    /\ inflight' = inflight \cup {FreshTurn}
    /\ UNCHANGED <<stop, cancelled, statuses, queue, seen, manager, updates, issued, starts>>

(* Nothing to ask the model: leave if a stop when idle is due, or wait. *)
WaitOrStop ==
    /\ pc = "reconcile"
    /\ Reconciled
    /\ stop # "hard"
    /\ ~CallModelNow
    /\ IF stop = "when_idle" /\ IsIdle(ls, modelActive)
         THEN Exit("stopped")
         ELSE /\ TopOfLoop(ls, modelActive, stop)
              /\ UNCHANGED <<ls, modelActive, stop, cancelled, statuses,
                             queue, seen, inflight, manager, updates>>
    /\ UNCHANGED <<storeVars, issued, starts>>

-----------------------------------------------------------------------------
(* Around the coordinator *)

(* Inbox.Submit by users and owners.  A message may be submitted again,    *)
(* also after a restart; a control input has a fresh ID.                   *)
Submit(id, kind) ==
    /\ Up
    /\ id \notin seen
    /\ id \notin issued
    /\ seen' = seen \cup {id}
    /\ queue' = Append(queue, Input(id, kind))
    /\ issued' = IF kind = "external" THEN issued ELSE issued \cup {id}
    /\ UNCHANGED <<loopVars, storeVars, inflight, manager, updates, starts>>

(* The operation manager reports progress, and in the end one terminal     *)
(* state, for each operation it was given.  One that was asked to cancel   *)
(* may still complete or fail first.                                       *)
OperationProgresses(op) ==
    /\ op \in DOMAIN manager
    /\ manager[op] = "ready"
    /\ manager' = [manager EXCEPT ![op] = "awaiting"]
    /\ updates' = Append(updates, [op |-> op, status |-> "awaiting"])
    /\ UNCHANGED <<loopVars, storeVars, queue, seen, inflight, issued, starts>>

OperationEnds(op) ==
    /\ op \in DOMAIN manager
    /\ \E status \in TerminalStatuses :
         /\ status = "canceled" => manager[op] = "canceling"
         /\ updates' = Append(updates, [op |-> op, status |-> status])
    /\ manager' = Without(manager, op)
    /\ UNCHANGED <<loopVars, storeVars, queue, seen, inflight, issued, starts>>

(* The process dies, the context is cancelled, or a store call fails. *)
Die ==
    /\ Up
    /\ starts < MaxStarts
    /\ Exit("down")
    /\ UNCHANGED <<storeVars, issued, starts>>

OpsOf(call) == {{<<call, i>> : i \in 1..n} : n \in OpsPerCall}

Next ==
    \/ Start
    \/ \E key \in DOMAIN ls.toolCalls :
         \/ \E ops \in OpsOf(key[2]) \cup {{}} : ScheduleToolCall(key, ops)
         \/ ReconcileToolCall(key)
    \/ BootScheduled
    \/ BootDispatch
    \/ TakeInput
    \/ TakeUpdate
    \/ PostHeartbeat
    \/ GraceExpires
    \/ \E turn \in inflight :
         \/ \E calls \in SUBSET (Calls \ issued) : TakeResponse(turn, calls)
         \/ DropResponse(turn)
         \/ ModelFails(turn)
    \/ ResponseScheduled
    \/ SlurpEnds
    \/ HardStop
    \/ RequestModel
    \/ WaitOrStop
    \/ \E id \in External : Submit(id, "external")
    \/ \E id \in HardStops : Submit(id, "hard")
    \/ \E id \in IdleStops : Submit(id, "when_idle")
    \/ \E id \in Settings : Submit(id, "settings")
    \/ \E op \in DOMAIN manager : OperationProgresses(op) \/ OperationEnds(op)
    \/ Die

Spec == Init /\ [][Next]_vars

(* The coordinator goroutine keeps running; a select does not pass over a  *)
(* ready branch for ever (Go picks among ready ones at random).            *)
Step ==
    \/ \E key \in DOMAIN ls.toolCalls :
         \/ \E ops \in OpsOf(key[2]) \cup {{}} : ScheduleToolCall(key, ops)
         \/ ReconcileToolCall(key)
    \/ BootScheduled \/ BootDispatch
    \/ TakeInput \/ TakeUpdate \/ GraceExpires
    \/ \E turn \in inflight : DropResponse(turn)
    \/ ResponseScheduled \/ SlurpEnds
    \/ HardStop \/ RequestModel \/ WaitOrStop

(* A model call ends, with a response or an error.  An operation that was  *)
(* asked to cancel ends; other operations may run for ever.                *)
Fairness ==
    /\ WF_vars(Step)
    /\ WF_vars(\E turn \in inflight :
                 \/ \E calls \in SUBSET (Calls \ issued) : TakeResponse(turn, calls)
                 \/ ModelFails(turn))
    /\ \A op \in UNION UNION {OpsOf(call) : call \in Calls} :
         WF_vars(op \in DOMAIN manager /\ manager[op] = "canceling" /\ OperationEnds(op))

FairSpec == Spec /\ Fairness
-----------------------------------------------------------------------------
(* Properties *)

PCs == {"down", "stopped", "boot_schedule", "boot_reconcile", "boot_request", "select",
        "schedule", "slurp_inputs", "slurp_updates", "reconcile"}

(* The modes of the loop stay what they are, and its counters keep their   *)
(* order: a response delivers what its turn was asked with, and a turn is  *)
(* asked with what is available (loop.go:37-53, 541-641).  Inputs that     *)
(* come while the model is asked would otherwise be taken as answered, or  *)
(* answered ones be pending for ever.                                      *)
TypeOK ==
    /\ pc \in PCs
    /\ ls.available \in Nat /\ ls.delivered \in Nat /\ ls.turnInputs \in Nat
    /\ Up => ls.delivered <= ls.turnInputs /\ ls.turnInputs <= ls.available
    /\ ls.callModel \in BOOLEAN /\ ls.grace \in BOOLEAN
    /\ modelActive \in BOOLEAN /\ cancelled \in BOOLEAN /\ rejected \in BOOLEAN
    /\ stop \in {"none", "when_idle", "hard"}
    /\ heartbeat \in {"off", "armed", "fired"}

Durable(state) ==
    [turn |-> state.turn, toolCalls |-> state.toolCalls, operations |-> state.operations,
     available |-> state.available, delivered |-> state.delivered,
     turnInputs |-> state.turnInputs, effort |-> state.effort, builder |-> state.builder]

(***************************************************************************)
(* Recovery is exact: whenever the process may die, restoring the session  *)
(* from its log gives the state the coordinator has in memory: the same    *)
(* context for the model, the same unfinished calls and operations, the    *)
(* same count of unanswered inputs (loop.go:486-521, 541-641).             *)
(***************************************************************************)
RecoveryIsExact == Up => Durable(Restore(image)) = Durable(ls)

(***************************************************************************)
(* Reading the log back from its first line, inherited history included,   *)
(* gives what appending to it one record at a time has built up, and finds *)
(* no fault in it (codec.go:87-206, loop.go:496-521).                      *)
(***************************************************************************)
LogReadsBack == Decode(log).ok /\ image = Image(log)

(***************************************************************************)
(* The manager only ever has operations the store has, and has not stored  *)
(* a terminal state for: an operation is committed before it is dispatched *)
(* and is not started again once its end is on record (README: "dispatch   *)
(* committed operations").                                                 *)
(***************************************************************************)
DispatchedIsCommitted ==
    \A op \in DOMAIN manager :
      op \in DOMAIN head.ops /\ head.ops[op] \notin TerminalStatuses

(***************************************************************************)
(* The store accepts whatever the coordinator appends, in every            *)
(* interleaving and after every restart: turns chain, responses answer an  *)
(* unanswered turn of this session, statuses refer to operations properly. *)
(* A refused append ends Run with an error (loop.go:878-941).              *)
(***************************************************************************)
StoreAccepts == ~rejected

(***************************************************************************)
(* reconcileToolCalls never meets an untranslated call, which would end    *)
(* Run with an error (loop.go:839-841).                                    *)
(***************************************************************************)
TranslatedBeforeReconcile ==
    pc \in {"boot_reconcile", "reconcile"} => Scheduled

(***************************************************************************)
(* The pending-input counter means what its name says: it is the number of *)
(* messages, heartbeats and final tool results in the context that came    *)
(* after the last recorded response.  Were it too low the model would not  *)
(* be called, were it too high a session would never be idle.              *)
(***************************************************************************)
PendingIsUnanswered ==
    LET context == Build(ls.builder)
        last == SelectLastInSeq(context, LAMBDA entry : entry.kind = "response")
    IN Up => PendingInputs(ls) =
         Cardinality({k \in (last + 1)..Len(context) : ~context[k].running})

Count(context, entry) == Cardinality({k \in DOMAIN context : context[k] = entry})

RecordedCalls ==
    UNION { {<<log[k].record.turn, call>> : call \in log[k].record.calls} :
              k \in {l \in DOMAIN log : log[l].record.type = "response"} }

(***************************************************************************)
(* While the model is being asked, the request it was given holds every    *)
(* recorded message exactly once, and for every tool call of every         *)
(* recorded response a result, at most one of them final (providers refuse *)
(* a request with an unanswered tool call).                                *)
(***************************************************************************)
RequestIsComplete ==
    LET context == Build(ls.builder)
    IN Up /\ modelActive =>
         /\ \A id \in image.inputIDs : Count(context, Entry("message", id, FALSE)) = 1
         /\ \A key \in RecordedCalls :
              LET final == Count(context, Entry("result", key, FALSE))
              IN /\ final <= 1
                 /\ final = 0 => Count(ls.builder.committed, Entry("result", key, TRUE)) > 0

(***************************************************************************)
(* A recorded response answers the newest turn on record: a late response  *)
(* to an interrupted turn is never taken for an answer (loop.go:153-156).  *)
(***************************************************************************)
ResponseAnswersLatestTurn == AnswersLatest(log)

(***************************************************************************)
(* A message is recorded at most once, however often it is submitted, also *)
(* across restarts: Resume tells the inbox what was recorded               *)
(* (state.go:286-318, local.go:16-23, 73-77).                              *)
(***************************************************************************)
MessageRecordedOnce == RecordedOnce(log)

PendingOperations(state) == {op \in DOMAIN state.operations : ~IsTerminal(state, op)}

(***************************************************************************)
(* After a hard stop has asked for cancellation, no model is awaited, and  *)
(* no new operation, turn or response enters the session (loop.go:39 "no   *)
(* new nonterminal operations may enter coordinator state").               *)
(***************************************************************************)
HardStopIsFinal ==
    [][cancelled /\ cancelled' =>
         /\ ~modelActive'
         /\ PendingOperations(ls') \subseteq PendingOperations(ls)
         /\ head'.turns = head.turns /\ head'.responded = head.responded]_vars

(***************************************************************************)
(* When Run returns for a stop, no operation is left running, and all ends *)
(* are on record; a stop when idle leaves nothing unanswered besides       *)
(* (loop.go:261-275, coordinator.go:30-33).                                *)
(***************************************************************************)
StopLeavesNothingRunning ==
    [][pc # "stopped" /\ pc' = "stopped" =>
         /\ DOMAIN manager = {}
         /\ \A op \in DOMAIN head.ops : head.ops[op] \in TerminalStatuses
         /\ stop = "when_idle" =>
              /\ \A k \in DOMAIN log :
                   log[k].record.type = "turn" =>
                     \E l \in DOMAIN log : l > k /\ log[l].record.type = "response"
              /\ \A k \in DOMAIN log :
                   log[k].record.type = "input" /\ log[k].record.kind = "external" =>
                     \E l \in DOMAIN log : l > k /\ log[l].record.type = "response"]_vars

Recorded(id) ==
    \E k \in DOMAIN log : log[k].record.type = "input" /\ log[k].record.id = id

Answered(id) ==
    \E k, l, m \in DOMAIN log :
      /\ k < l /\ l < m
      /\ log[k].record.type = "input" /\ log[k].record.id = id
      /\ log[l].record.type = "turn"
      /\ log[m].record.type = "response" /\ log[m].record.turn = log[l].record.turn

(***************************************************************************)
(* A recorded message is answered, by a response to a turn requested after *)
(* it, unless a hard stop or the end of the run comes first.  It does not  *)
(* have to wait for a running tool, no operation is assumed to end         *)
(* (loop.go:205-209, 417-427).                                             *)
(***************************************************************************)
MessageIsAnswered ==
    \A id \in External :
      (Up /\ Recorded(id)) ~> (Answered(id) \/ ~Up \/ stop = "hard")

(***************************************************************************)
(* A hard stop ends the run: every pending operation has been asked to     *)
(* cancel, and their ends are noticed (loop.go:170-179, 261-270).          *)
(***************************************************************************)
HardStopEnds == (stop = "hard") ~> ~Up

(***************************************************************************)
(* A stop when idle ends the run if the operations end (or a hard stop     *)
(* overtakes it): no pending input, grace period or heartbeat is left to   *)
(* wait for ever (loop.go:185-187, 209, 272-275).                          *)
(***************************************************************************)
IdleStopEnds ==
    <>[](DOMAIN manager = {}) => ((stop = "when_idle") ~> (~Up \/ stop = "hard"))

(***************************************************************************)
(* Both kinds of stop end the run, whatever it is doing when they come     *)
(* (loop.go:167-188, 261-275).                                             *)
(***************************************************************************)
StopsEnd == HardStopEnds /\ IdleStopEnds
=============================================================================

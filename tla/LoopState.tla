------------------------------ MODULE LoopState ------------------------------
(***************************************************************************)
(* The coordinator's local state (loopState in harness/coordinator/loop.go)*)
(* and the one function that changes it for every item, whether the item   *)
(* is being recorded now or replayed from the session log.                 *)
(***************************************************************************)
EXTENDS SessionHistory

-----------------------------------------------------------------------------
(* The model request under construction (harness/contextbuilder): entries  *)
(* that an earlier request already contained are committed, those that     *)
(* arrived since are staged.  An entry is [kind, of, running]: a user      *)
(* message or heartbeat text (of its input ID), a model response (of its   *)
(* turn), or a tool result (of its call), which is a placeholder while the *)
(* call is running.                                                        *)

NewBuilder == [committed |-> << >>, staged |-> << >>]

Entry(kind, of, running) == [kind |-> kind, of |-> of, running |-> running]

(* AddExternalInput, and AddControlMessage for a heartbeat. *)
AddMessage(builder, id) ==
    [builder EXCEPT !.staged = Append(@, Entry("message", id, FALSE))]

(* A response goes behind the request it answers, ahead of what was staged *)
(* while the model was thinking.                                           *)
AddModelResponse(builder, turn) ==
    [builder EXCEPT !.committed = Append(@, Entry("response", turn, FALSE))]

(* The entries without those that equal `entry`, in order (DeleteFunc). *)
KeepOther(acc, entry) ==
    IF entry = acc.dropped THEN acc ELSE [acc EXCEPT !.kept = Append(@, entry)]

Drop(entries, entry) ==
    FoldLeft(KeepOther, [dropped |-> entry, kept |-> << >>], entries).kept

(* A result replaces the placeholder of the same call, if still staged. *)
AddToolResult(builder, key, running) ==
    [builder EXCEPT !.staged =
       Append(Drop(@, Entry("result", key, TRUE)), Entry("result", key, running))]

Commit(builder) ==
    [committed |-> builder.committed \o builder.staged, staged |-> << >>]

Build(builder) == builder.committed \o builder.staged

-----------------------------------------------------------------------------
(* The loop state. *)

NewLoopState ==
    [ turn |-> NoTurn,          \* currentTurnID
      toolCalls |-> << >>,      \* unfinished calls: <<turn, call>> -> [translated, waits]
      operations |-> << >>,     \* operation -> status
      available |-> 0,          \* availableInputs
      delivered |-> 0,          \* deliveredInputs
      turnInputs |-> 0,         \* currentTurnInputs
      callModel |-> FALSE,
      grace |-> FALSE,          \* the grace timer is set
      graceCalls |-> {},        \* graceToolCalls
      effort |-> "default",     \* the settings in force
      builder |-> NewBuilder ]

PendingInputs(ls) == ls.available - ls.delivered

IsTerminal(ls, op) == op \in DOMAIN ls.operations /\ ls.operations[op] \in TerminalStatuses

HasPendingOperations(ls) == \E op \in DOMAIN ls.operations : ~IsTerminal(ls, op)

CallIsTerminal(ls, key) == \A op \in ls.toolCalls[key].waits : IsTerminal(ls, op)

Without(f, x) == [y \in DOMAIN f \ {x} |-> f[y]]

ClearToolGrace(ls) == [ls EXCEPT !.graceCalls = {}, !.grace = FALSE]

AddOperations(ls, ops) == [ls EXCEPT !.operations = Override(ops, @)]

AddToolCalls(ls, record) ==
    LET keys == {<<record.turn, call>> : call \in record.calls}
        fresh == [k \in keys |-> [translated |-> FALSE, waits |-> {}]]
    IN [ls EXCEPT !.toolCalls = Override(fresh, @)]

AddToolCallOperations(ls, record) ==
    IF StatusKey(record) \notin DOMAIN ls.toolCalls
      THEN ls
      ELSE [ls EXCEPT !.toolCalls[StatusKey(record)] =
              [translated |-> TRUE, waits |-> @.waits \cup record.waits]]

FinishToolCall(ls, key) ==
    LET left == ls.graceCalls \ {key}
    IN [ls EXCEPT !.toolCalls = Without(@, key),
                  !.graceCalls = left,
                  !.grace = @ /\ left # {},
                  !.available = @ + 1]

(* Faulty variant: a call that is still running gets no placeholder. *)
AddToolResultForFinished(ls, record) ==
    LET key == StatusKey(record)
    IN IF \/ key \notin DOMAIN ls.toolCalls
          \/ ~(record.waits \subseteq DOMAIN ls.operations)
          \/ ~CallIsTerminal(ls, key)
         THEN ls
         ELSE FinishToolCall([ls EXCEPT !.builder = AddToolResult(@, key, FALSE)], key)

(* A status becomes a tool result in the context; the result is final, and *)
(* the call finished, once all operations of the call are terminal.  An    *)
(* inherited status has lost its operations and gives no result.           *)
AddToolResultFor(ls, record) ==
    LET key == StatusKey(record)
        running == ~CallIsTerminal(ls, key)
        added == [ls EXCEPT !.builder = AddToolResult(@, key, running)]
    IN IF key \notin DOMAIN ls.toolCalls \/ ~(record.waits \subseteq DOMAIN ls.operations)
         THEN ls
         ELSE IF running THEN added ELSE FinishToolCall(added, key)

AddInput(ls, record) ==
    CASE record.kind \in {"external", "heartbeat"} ->
           [ls EXCEPT !.builder = AddMessage(@, record.id), !.available = @ + 1]
      [] record.kind = "settings" -> [ls EXCEPT !.effort = record.id]
      [] OTHER -> ls

AddTurn(ls, record) ==
    [ls EXCEPT !.turn = record.turn,
               !.turnInputs = ls.available,
               !.builder = Commit(@)]

(* Faulty variant: inputs that arrived during the call count as delivered. *)
AddResponseDeliversAll(ls, record) ==
    AddToolCalls(
      [ls EXCEPT !.builder = AddModelResponse(@, record.turn),
                 !.delivered = IF record.turn = ls.turn THEN ls.available ELSE @],
      record)

AddResponse(ls, record) ==
    AddToolCalls(
      [ls EXCEPT !.builder = AddModelResponse(@, record.turn),
                 !.delivered = IF record.turn = ls.turn THEN ls.turnInputs ELSE @],
      record)

AddStatus(ls, record) ==
    AddToolResultFor(
      AddToolCallOperations(AddOperations(ls, record.ops), record), record)

AddFork(ls) == ClearToolGrace([ls EXCEPT !.toolCalls = << >>, !.operations = << >>])

(* addItemToLocalState.  Only regular turns are ever requested, so the     *)
(* branch for the response to a compaction turn does not occur.            *)
AddItem(ls, record) ==
    CASE record.type = "fork" -> AddFork(ls)
      [] record.type = "input" -> AddInput(ls, record)
      [] record.type = "turn" -> AddTurn(ls, record)
      [] record.type = "response" -> AddResponse(ls, record)
      [] record.type = "status" -> AddStatus(ls, record)

(* loadHistory: one item. *)
Replay(ls, line) == AddItem(ls, line.record)

(***************************************************************************)
(* What reading a session log back amounts to: the store's head, the state *)
(* that loadHistory replays from the items, and what Resume adds to it.    *)
(***************************************************************************)
Image(lines) ==
    [ head |-> Decode(lines).head,
      replayed |-> FoldLeft(Replay, NewLoopState, Items(lines)),
      unrecorded |-> UnrecordedOperations(lines),
      inputIDs |-> ResumeInputIDs(lines) ]

(* The same after one more record. *)
Extend(image, record) ==
    [ head |-> AppendTo(image.head, record),
      replayed |-> IF IsItem(record) THEN AddItem(image.replayed, record) ELSE image.replayed,
      unrecorded |-> StillUnrecorded(image.unrecorded, record),
      inputIDs |-> IF record.type = "input" /\ record.kind = "external"
                     THEN image.inputIDs \cup {record.id} ELSE image.inputIDs ]

(* restore: all items of the history, then the operations Resume found. *)
Restore(image) ==
    AddOperations(image.replayed, ToResume(image.head.ops, image.unrecorded))
=============================================================================

--------------------------- MODULE SessionHistory ---------------------------
(***************************************************************************)
(* What one session's log means (harness/sessionstore/localfile/state.go   *)
(* and codec.go): which record may follow which history, the head that a   *)
(* history leaves behind, what Resume finds in it, and what a fork copies. *)
(*                                                                         *)
(* A record is one line of the log after the session line:                 *)
(*   [type |-> "input",     id, kind]                                      *)
(*   [type |-> "turn",      turn, prev]                                    *)
(*   [type |-> "response",  turn, calls]                                   *)
(*   [type |-> "status",    turn, call, error, waits, ops]                 *)
(*   [type |-> "fork",      parent, prev]                                  *)
(*   [type |-> "operation", op, sameType, status]                          *)
(* All but the last are items.  An operation is abstracted to its status,  *)
(* `ops` maps the operations a status carries to their status, and         *)
(* `sameType` says that a saved operation still has the type and version   *)
(* it was initialised with.                                                *)
(***************************************************************************)
EXTENDS Naturals, Sequences, SequencesExt

CONSTANTS
    NoTurn,     \* the empty TurnID
    NoID        \* the empty ID of an input or a tool call

TerminalStatuses == {"completed", "failed", "canceled"}

OperationStatuses == {"ready", "awaiting", "canceling"} \cup TerminalStatuses

(* What a user sent, the note of an interrupted run, and the modes of      *)
(* control.                                                                *)
InputKinds == {"external", "crash", "hard", "when_idle", "heartbeat", "settings"}

(* One map written over another. *)
Override(f, g) ==
    [x \in DOMAIN f \cup DOMAIN g |-> IF x \in DOMAIN f THEN f[x] ELSE g[x]]

IsItem(record) == record.type # "operation"

-----------------------------------------------------------------------------
(* The head of a session: what an append needs to know of the history. *)

NewHead ==
    [ sequence |-> 0,           \* itemSequence
      latest |-> NoTurn,        \* latestTurnID
      turns |-> {}, owned |-> {}, responded |-> {},
      statuses |-> {},          \* (turn, call) pairs that have a status
      ops |-> << >> ]           \* operations and their latest stored status

StatusKey(record) == <<record.turn, record.call>>

(* validateStatusOperationReferences: an error carries no operation, a     *)
(* success waits for exactly the operations it initialises.                *)
ReferencesValid(record) ==
    IF record.error
      THEN record.waits = {} /\ DOMAIN record.ops = {}
      ELSE DOMAIN record.ops # {} /\ record.waits = DOMAIN record.ops

(* validateOperation, of every operation a status carries. *)
StatusesValid(record) ==
    \A op \in DOMAIN record.ops : record.ops[op] \in OperationStatuses

(* The checks of appendInput, appendTurn, appendModelResponse,             *)
(* appendToolCallStatus and saveOperation: may this record be appended?    *)
(* Of a tool call's second and later statuses the operations are not       *)
(* checked.                                                                *)
CanAppend(head, record) ==
    \/ /\ record.type = "input"
       /\ record.id # NoID
       /\ record.kind \in InputKinds
    \/ /\ record.type = "turn"
       /\ record.turn # NoTurn
       /\ record.prev = head.latest
       /\ record.turn \notin head.turns
    \/ /\ record.type = "response"
       /\ record.turn \in head.owned
       /\ record.turn \notin head.responded
    \/ /\ record.type = "status"
       /\ record.turn \in head.owned
       /\ record.call # NoID
       /\ \/ StatusKey(record) \in head.statuses
          \/ /\ StatusesValid(record)
             /\ DOMAIN record.ops \cap DOMAIN head.ops = {}
             /\ ReferencesValid(record)
    \/ /\ record.type = "operation"
       /\ record.status \in OperationStatuses
       /\ record.op \in DOMAIN head.ops
       /\ record.sameType

(* What the same functions do to the head once their checks have passed. *)
AppendTo(head, record) ==
    LET next == IF IsItem(record)
                  THEN [head EXCEPT !.sequence = @ + 1] ELSE head
    IN CASE record.type = "turn" ->
              [next EXCEPT !.turns = @ \cup {record.turn},
                           !.owned = @ \cup {record.turn},
                           !.latest = record.turn]
         [] record.type = "response" ->
              [next EXCEPT !.responded = @ \cup {record.turn}]
         [] record.type = "status" /\ StatusKey(record) \notin head.statuses ->
              [next EXCEPT !.statuses = @ \cup {StatusKey(record)},
                           !.ops = Override(@, record.ops)]
         [] record.type = "operation" ->
              [next EXCEPT !.ops[record.op] = record.status]
         [] OTHER -> next

(* Faulty variant: the inherited tool-call statuses still count as owned. *)
ResetOwnedButStatuses(head) ==
    [head EXCEPT !.owned = {}, !.responded = {}, !.ops = << >>]

(* resetOwnedState: nothing before a fork belongs to the forked session. *)
ResetOwned(head) ==
    [head EXCEPT !.owned = {}, !.responded = {}, !.statuses = {}, !.ops = << >>]

(* inheritItem: an inherited item counts, but initialises no operation. *)
InheritTo(head, line) ==
    LET record == line.record
        next == [head EXCEPT !.sequence = line.seq]
    IN CASE record.type = "turn" ->
              [next EXCEPT !.turns = @ \cup {record.turn},
                           !.owned = @ \cup {record.turn},
                           !.latest = record.turn]
         [] record.type = "response" ->
              [next EXCEPT !.responded = @ \cup {record.turn}]
         [] record.type = "status" ->
              [next EXCEPT !.statuses = @ \cup {StatusKey(record)}]
         [] record.type = "fork" -> ResetOwned(next)
         [] OTHER -> next

-----------------------------------------------------------------------------
(* Reading a log back.  A line is [seq, record]; operation lines carry no  *)
(* sequence number (0).                                                    *)

(* Faulty variant: an item gets the sequence number of the item before it. *)
LineUnnumbered(head, record) ==
    [seq |-> IF IsItem(record) THEN head.sequence ELSE 0, record |-> record]

Line(head, record) ==
    [seq |-> IF IsItem(record) THEN head.sequence + 1 ELSE 0, record |-> record]

(* The items of a log, in order: one more line, and a whole log. *)
KeepItem(items, line) == IF IsItem(line.record) THEN Append(items, line) ELSE items

Items(lines) == FoldLeft(KeepItem, << >>, lines)

(* Everything up to the last fork line is inherited history. *)
Inherited(lines) ==
    SelectLastInSeq(lines, LAMBDA line : line.record.type = "fork")

(* One line of inherited history: items only, numbered without a gap, and  *)
(* no operations in them.                                                  *)
ReplayInherited(state, line) ==
    [ ok |-> /\ state.ok
             /\ IsItem(line.record)
             /\ line.seq = state.head.sequence + 1
             /\ line.record.type = "status" => DOMAIN line.record.ops = {},
      head |-> InheritTo(state.head, line) ]

(* One line of the session's own history: an item has the next number, and *)
(* every record passes the checks it passed when it was appended.          *)
ReplayOwned(state, line) ==
    LET accepted == CanAppend(state.head, line.record)
    IN [ ok |-> /\ state.ok
                /\ IsItem(line.record) => line.seq = state.head.sequence + 1
                /\ accepted,
         head |-> IF state.ok /\ accepted
                    THEN AppendTo(state.head, line.record) ELSE state.head ]

(* decodeLog: the head, and whether the log is sound. *)
Decode(lines) ==
    LET fork == Inherited(lines)
        start == FoldLeft(ReplayInherited, [ok |-> TRUE, head |-> NewHead],
                          SubSeq(lines, 1, fork))
    IN FoldLeft(ReplayOwned, start, SubSeq(lines, fork + 1, Len(lines)))

(* The operations whose last snapshot in the tool-call history is not      *)
(* terminal: their final state is missing from it.  One more record, and   *)
(* a whole log.                                                            *)
StillUnrecorded(pending, record) ==
    IF record.type # "status" THEN pending
    ELSE (pending \cup {op \in DOMAIN record.ops : record.ops[op] \notin TerminalStatuses})
           \ {op \in DOMAIN record.ops : record.ops[op] \in TerminalStatuses}

ScanUnrecorded(pending, line) == StillUnrecorded(pending, line.record)

UnrecordedOperations(lines) == FoldLeft(ScanUnrecorded, {}, lines)

(* Faulty variant: terminal states missing from the history are left out. *)
ToResumeUnfinished(ops, unrecorded) ==
    [ op \in {o \in DOMAIN ops : ops[o] \notin TerminalStatuses} |-> ops[op] ]

(* resume: the operations a new coordinator has to know of beyond the      *)
(* items, and the external input IDs its inbox must not accept again.      *)
ToResume(ops, unrecorded) ==
    [ op \in {o \in DOMAIN ops : ops[o] \notin TerminalStatuses \/ o \in unrecorded} |-> ops[op] ]

ResumeOperations(lines) == ToResume(Decode(lines).head.ops, UnrecordedOperations(lines))

ResumeInputIDs(lines) ==
    { lines[k].record.id :
        k \in {l \in DOMAIN lines : /\ lines[l].record.type = "input"
                                    /\ lines[l].record.kind = "external"} }

-----------------------------------------------------------------------------
(* Forking. *)

(* An item is about its turn; inputs and forks are about none. *)
IsAbout(record, turn) == record.type \in {"turn", "response", "status"} /\ record.turn = turn

(* forkStoredState's boundary: the last item about the turn before the     *)
(* next turn starts; 0 when the parent never had that turn.                *)
ForkBoundary(items, previous) ==
    LET About(k) == IsAbout(items[k].record, previous)
        Ends(k) == /\ items[k].record.type = "turn"
                   /\ \E j \in 1..(k - 1) : About(j)
        Kept == {k \in DOMAIN items : About(k) /\ \A j \in 1..k : ~Ends(j)}
    IN IF Kept = {} THEN 0 ELSE CHOOSE k \in Kept : \A j \in Kept : j <= k

(* inheritItem: a tool call's status is copied without its operations. *)
WithoutOperations(line) ==
    IF line.record.type # "status" THEN line
    ELSE [ seq |-> line.seq,
           record |-> [type |-> "status", turn |-> line.record.turn, call |-> line.record.call,
                       error |-> line.record.error, waits |-> line.record.waits, ops |-> << >>] ]

(* The initial log of a fork: the parent's items up to the boundary, their *)
(* operation snapshots removed, and the fork item.                         *)
ForkLines(lines, parent, previous) ==
    LET items == Items(lines)
        boundary == ForkBoundary(items, previous)
        inherited == [k \in 1..boundary |-> WithoutOperations(items[k])]
    IN Append(inherited,
              [seq |-> boundary + 1,
               record |-> [type |-> "fork", parent |-> parent, prev |-> previous]])

(* The head that forkStoredState builds beside those lines, and that the   *)
(* store caches without reading the file back: the items inherited one by  *)
(* one, then appendFork.                                                   *)
ForkHead(lines) ==
    ResetOwned([FoldLeft(InheritTo, NewHead, Front(lines)) EXCEPT !.sequence = @ + 1])
=============================================================================

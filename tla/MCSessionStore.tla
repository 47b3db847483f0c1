--------------------------- MODULE MCSessionStore ---------------------------
(***************************************************************************)
(* Bounded instances of the session store.  Callers append what the        *)
(* coordinator appends (an external and a control input, turns, responses, *)
(* statuses of one tool call per turn with one operation, saved operation  *)
(* states) and also records the checks must refuse: an input, a turn or a  *)
(* status without an ID, a turn with a stale predecessor, a second         *)
(* response, a status for an inherited turn, an operation of another type. *)
(***************************************************************************)
EXTENDS SessionStore

CONSTANT Inputs, MaxTurns

Turns(s) == {<<s, n>> : n \in 1..MaxTurns}

Op(turn) == <<"op", turn>>

TurnRecords(s, head) ==
    LET fresh == Turns(s) \ head.turns
        n == IF fresh = {} THEN {} ELSE {CHOOSE t \in fresh : \A u \in fresh : t[2] <= u[2]}
    IN {[type |-> "turn", turn |-> t, prev |-> p] : t \in n \cup {NoTurn}, p \in {head.latest, NoTurn}}

ResponseRecords(head) ==
    {[type |-> "response", turn |-> t, calls |-> {"call"}] : t \in head.turns}

Status(turn, ops) ==
    [type |-> "status", turn |-> turn, call |-> "call", error |-> ops = << >>,
     waits |-> DOMAIN ops, ops |-> ops]

(* The first status of a call follows its response; one that started an    *)
(* operation may be recorded again, with the operation's state by then.    *)
StatusRecords(head) ==
    LET first == {t \in head.turns : <<t, "call">> \notin head.statuses}
        started == {t \in head.turns : Op(t) \in DOMAIN head.ops}
    IN   {Status(t, [o \in {Op(t)} |-> "ready"]) : t \in first \ (head.owned \ head.responded)}
    \cup {Status(t, << >>) : t \in first \ (head.owned \ head.responded)}
    \cup {Status(t, [o \in {Op(t)} |-> head.ops[o]]) : t \in started}
    \cup {[Status(t, << >>) EXCEPT !.call = NoID] : t \in head.owned}

(* The operation manager reports nothing after a terminal state. *)
OperationRecords(head) ==
    {[type |-> "operation", op |-> o, sameType |-> same, status |-> st] :
       o \in {p \in DOMAIN head.ops : head.ops[p] \notin TerminalStatuses},
       same \in BOOLEAN, st \in {"awaiting", "completed"}}

MCRecords(s, head) ==
    Inputs \cup TurnRecords(s, head) \cup ResponseRecords(head)
           \cup StatusRecords(head) \cup OperationRecords(head)

OneInput == {[type |-> "input", id |-> id, kind |-> "external"] : id \in {"m", NoID}}

NoInputs == {}
=============================================================================

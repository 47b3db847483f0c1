-------------------------------- MODULE Inbox --------------------------------
(***************************************************************************)
(* The session inbox (harness/inbox): goroutines submit inputs over an     *)
(* unbuffered channel to one goroutine that drops repeated IDs, queues the *)
(* rest without bound and offers the head of the queue to the coordinator. *)
(*                                                                         *)
(* A submission is a rendezvous: the submitting goroutine waits in a       *)
(* select until the inbox goroutine takes the input, its own context is    *)
(* done, or the inbox context is done.  Cancelling the inbox context does  *)
(* not stop the inbox goroutine at once: its select may still take         *)
(* submissions and hand out inputs until it picks the ctx.Done branch.     *)
(***************************************************************************)
EXTENDS Naturals, Sequences, SequenceTheorems, TLAPS

CONSTANTS
    Callers,    \* goroutines that call Submit
    Inputs,     \* valid inputs: records [id, kind, ...]
    Invalid,    \* inputs that Input.Validate refuses
    SeenIDs     \* the seenIDs argument of New (IDs of recorded external inputs)

VARIABLES
    seen,       \* IDs the inbox goroutine has seen
    queued,     \* accepted inputs not handed out yet
    received,   \* history: inputs handed out on the output channel, in order
    submit,     \* per caller: the state of its latest Submit call
    ctxDone,    \* the inbox context is cancelled
    running     \* the inbox goroutine has not returned (output is not closed)

vars == <<seen, queued, received, submit, ctxDone, running>>

(* The states of a Submit call: before the first, blocked in the select,   *)
(* returned nil, or returned an error.                                     *)
CallStates == {"none", "waiting", "ok", "error"}

AllInputs == Inputs \cup Invalid

NoInput == CHOOSE input \in AllInputs : TRUE

ASSUME InputsAssumption == AllInputs # {}

-----------------------------------------------------------------------------

(* Faulty variant: New forgets the IDs it was given. *)
InitForgetsSeen ==
    /\ seen = {} /\ queued = << >> /\ received = << >>
    /\ submit = [c \in Callers |-> [state |-> "none", input |-> NoInput]]
    /\ ctxDone = FALSE /\ running = TRUE

(* New: the inbox goroutine starts with the given IDs marked as seen. *)
Init ==
    /\ seen = SeenIDs
    /\ queued = << >>
    /\ received = << >>
    /\ submit = [c \in Callers |-> [state |-> "none", input |-> NoInput]]
    /\ ctxDone = FALSE
    /\ running = TRUE

(* Submit up to its select: an invalid input or a cancelled context is an  *)
(* error, anything else waits for the rendezvous.                          *)
BeginSubmit(c, input, callerDone) ==
    /\ submit[c].state # "waiting"
    /\ submit' = [submit EXCEPT ![c] =
            [state |-> IF input \in Invalid \/ callerDone \/ ctxDone
                         THEN "error" ELSE "waiting",
             input |-> input]]
    /\ UNCHANGED <<seen, queued, received, ctxDone, running>>

(* Faulty variant: only an identical input counts as a duplicate. *)
TakeSubmissionByValue(c) ==
    /\ running
    /\ submit[c].state = "waiting"
    /\ seen' = seen \cup {submit[c].input.id}
    /\ queued' = IF \E k \in 1..Len(received \o queued) :
                      (received \o queued)[k] = submit[c].input
                   THEN queued ELSE Append(queued, submit[c].input)
    /\ submit' = [submit EXCEPT ![c].state = "ok"]
    /\ UNCHANGED <<received, ctxDone, running>>

(* The inbox goroutine takes a waiting submission; a repeated ID is        *)
(* dropped, and its submitter is told nil all the same.                    *)
TakeSubmission(c) ==
    /\ running
    /\ submit[c].state = "waiting"
    /\ LET input == submit[c].input IN
         IF input.id \in seen
           THEN UNCHANGED <<seen, queued>>
           ELSE /\ seen' = seen \cup {input.id}
                /\ queued' = Append(queued, input)
    /\ submit' = [submit EXCEPT ![c].state = "ok"]
    /\ UNCHANGED <<received, ctxDone, running>>

(* Faulty variant: a waiting Submit does not watch the inbox context. *)
AbandonSubmitOwnContext(c) ==
    /\ submit[c].state = "waiting"
    /\ ~ctxDone
    /\ submit' = [submit EXCEPT ![c].state = "error"]
    /\ UNCHANGED <<seen, queued, received, ctxDone, running>>

(* A waiting Submit gives up: its own context or the inbox context is done. *)
AbandonSubmit(c) ==
    /\ submit[c].state = "waiting"
    /\ submit' = [submit EXCEPT ![c].state = "error"]
    /\ UNCHANGED <<seen, queued, received, ctxDone, running>>

(* Faulty variant: the input handed out stays queued. *)
HandOutAgain ==
    /\ running
    /\ queued # << >>
    /\ Len(received) < 3
    /\ received' = Append(received, Head(queued))
    /\ UNCHANGED <<seen, queued, submit, ctxDone, running>>

(* The inbox goroutine hands the head of the queue to the reader. *)
HandOut ==
    /\ running
    /\ queued # << >>
    /\ received' = Append(received, Head(queued))
    /\ queued' = Tail(queued)
    /\ UNCHANGED <<seen, submit, ctxDone, running>>

(* The owner of the session cancels the inbox context. *)
CancelContext ==
    /\ ~ctxDone
    /\ ctxDone' = TRUE
    /\ UNCHANGED <<seen, queued, received, submit, running>>

(* The inbox goroutine picks ctx.Done: it returns and closes the output. *)
Return ==
    /\ running
    /\ ctxDone
    /\ running' = FALSE
    /\ UNCHANGED <<seen, queued, received, submit, ctxDone>>

Next ==
    \/ \E c \in Callers :
         \/ \E input \in AllInputs, callerDone \in BOOLEAN :
              BeginSubmit(c, input, callerDone)
         \/ TakeSubmission(c)
         \/ AbandonSubmit(c)
    \/ HandOut
    \/ CancelContext
    \/ Return

(* The goroutine's select takes any branch that stays ready (Go picks      *)
(* among ready branches at random), the coordinator keeps reading its      *)
(* inbox between any two events, and a Submit whose inbox is gone sees     *)
(* that its inbox context is done.                                         *)
Fairness ==
    /\ WF_vars(HandOut)
    /\ WF_vars(Return)
    /\ \A c \in Callers : WF_vars(TakeSubmission(c))
    /\ \A c \in Callers : WF_vars(ctxDone /\ AbandonSubmit(c))

Spec == Init /\ [][Next]_vars

FairSpec == Spec /\ Fairness
-----------------------------------------------------------------------------

(* The queue and the output carry valid inputs only: what Validate refuses *)
(* never gets past Submit (local.go:34-36).                                *)
TypeOK ==
    /\ queued \in Seq(Inputs)
    /\ received \in Seq(Inputs)
    /\ submit \in [Callers -> [state : CallStates, input : AllInputs]]
    /\ ctxDone \in BOOLEAN
    /\ running \in BOOLEAN

(* All inputs the inbox accepted, in the order it accepted them. *)
Accepted == received \o queued

(* The IDs that were accepted in this life of the inbox. *)
AcceptedIDs == {Accepted[k].id : k \in 1..Len(Accepted)}

(***************************************************************************)
(* A Submit that returned nil stands for an input the session has: its ID  *)
(* was recorded before the inbox was made, or exactly one input with that  *)
(* ID is on its way to the coordinator or was handed to it (local.go:48,   *)
(* 74-78; README.md: "session-scoped, in-memory deduplication").           *)
(***************************************************************************)
AcknowledgedOnce ==
    \A c \in Callers :
      submit[c].state = "ok" =>
        \/ submit[c].input.id \in SeenIDs
        \/ \E k \in 1..Len(Accepted) :
             /\ Accepted[k].id = submit[c].input.id
             /\ \A l \in 1..Len(Accepted) :
                  Accepted[l].id = submit[c].input.id => l = k

(***************************************************************************)
(* The bookkeeping set `seen` is exactly what was recorded before and what *)
(* was accepted since (local.go:73-77): an ID in `seen` without an input   *)
(* behind it would be dropped for ever, an accepted ID missing from it     *)
(* would be delivered again.                                               *)
(***************************************************************************)
SeenExact == seen = SeenIDs \cup AcceptedIDs /\ SeenIDs \cap AcceptedIDs = {}

FIFO == INSTANCE DedupFIFO WITH
    Known <- SeenIDs,
    accepted <- Accepted,
    handed <- Len(received),
    open <- running

(* The inbox implements the abstract deduplicating FIFO: deduplication by  *)
(* ID alone, whatever the kind, and delivery in order of first acceptance  *)
(* (local.go:59-87).                                                       *)
ImplementsFIFO == FIFO!Spec

(* While the inbox lives, an input whose Submit returned nil is eventually *)
(* handed to the coordinator (local.go:62-71, 79-84).                      *)
AcceptedIsHandedOut ==
    \A input \in Inputs :
      (\E k \in 1..Len(queued) : queued[k] = input) ~>
        (~running \/ \E k \in 1..Len(received) : received[k] = input)

(* Every Submit eventually returns, also one that waits when the inbox     *)
(* context is cancelled and the inbox goroutine returns (local.go:45-52).  *)
SubmitReturns ==
    \A c \in Callers : submit[c].state = "waiting" ~> submit[c].state # "waiting"

(* Nobody waits for ever on either side of the inbox: every Submit returns,*)
(* and what was acknowledged is handed out (local.go:45-87).               *)
NothingIsStuck == SubmitReturns /\ AcceptedIsHandedOut
-----------------------------------------------------------------------------
(* A small instance for TLC: two IDs, one of them submitted under two       *)
(* kinds, a third ID recorded in an earlier life of the session, and an     *)
(* input that Validate refuses.                                             *)
MCInputs == {[id |-> "x", kind |-> "external"], [id |-> "x", kind |-> "crash"],
             [id |-> "y", kind |-> "control"], [id |-> "old", kind |-> "external"]}

MCInvalid == {[id |-> "", kind |-> "external"]}

MCSeenIDs == {"old"}

-----------------------------------------------------------------------------
(* Proofs, for any set of callers, any inputs and any set of IDs known      *)
(* beforehand: the bookkeeping is exact, a nil from Submit stands for       *)
(* exactly one input, and the inbox implements DedupFIFO.                   *)

(* No two accepted inputs share an ID. *)
NoDuplicates ==
    \A k, l \in 1..Len(Accepted) : Accepted[k].id = Accepted[l].id => k = l

(* Only a valid input waits in Submit's select. *)
WaitingValid ==
    \A c \in Callers : submit[c].state = "waiting" => submit[c].input \in Inputs

(* An acknowledged input's ID has been seen. *)
AcknowledgedSeen ==
    \A c \in Callers : submit[c].state = "ok" => submit[c].input.id \in seen

(* The inductive invariant: SeenExact alone does not say that `seen` is    *)
(* consulted for every waiting input, nor that accepted IDs are unique.    *)
IInv ==
    /\ TypeOK
    /\ SeenExact
    /\ NoDuplicates
    /\ WaitingValid
    /\ AcknowledgedSeen

-----------------------------------------------------------------------------

(* Appending at the end of the second sequence appends to the concatenation. *)
LEMMA ConcatAppend ==
    ASSUME NEW S, NEW s \in Seq(S), NEW t \in Seq(S), NEW e \in S
    PROVE  s \o Append(t, e) = Append(s \o t, e)
<1>1. <<e>> \in Seq(S) /\ s \o t \in Seq(S)
  BY ConcatProperties
<1>2. Append(t, e) = t \o <<e>> /\ Append(s \o t, e) = (s \o t) \o <<e>>
  BY <1>1, AppendIsConcat
<1>3. QED
  BY <1>1, <1>2, ConcatAssociative

(* Moving the head of the second sequence to the end of the first leaves   *)
(* the concatenation as it was.                                            *)
LEMMA ConcatShift ==
    ASSUME NEW S, NEW s \in Seq(S), NEW t \in Seq(S), t # << >>
    PROVE  Append(s, Head(t)) \o Tail(t) = s \o t
<1>1. Head(t) \in S /\ Tail(t) \in Seq(S) /\ <<Head(t)>> \in Seq(S)
  BY HeadTailProperties
<1>2. Append(s, Head(t)) = s \o <<Head(t)>>
  BY <1>1, AppendIsConcat
<1>3. <<Head(t)>> \o Tail(t) = t
  <2>1. /\ <<Head(t)>> \o Tail(t) \in Seq(S)
        /\ Len(<<Head(t)>> \o Tail(t)) = 1 + Len(Tail(t))
        /\ \A i \in 1..1 + Len(Tail(t)) :
             (<<Head(t)>> \o Tail(t))[i] = IF i <= 1 THEN Head(t) ELSE Tail(t)[i - 1]
    BY <1>1, ConcatProperties
  <2>2. /\ Len(t) \in Nat \ {0}
        /\ Len(Tail(t)) = Len(t) - 1
        /\ \A i \in 1..Len(Tail(t)) : Tail(t)[i] = t[i + 1]
        /\ Head(t) = t[1]
    BY HeadTailProperties, EmptySeq
  <2>3. \A i \in 1..Len(t) : (<<Head(t)>> \o Tail(t))[i] = t[i]
    BY <2>1, <2>2
  <2>4. QED
    BY <2>1, <2>2, <2>3, SeqEqual
<1>4. QED
  BY <1>1, <1>2, <1>3, ConcatAssociative
-----------------------------------------------------------------------------

(* An inbox that is empty, whatever IDs it is told. *)
LEMMA InitIInv == Init => IInv
<1> SUFFICES ASSUME Init PROVE IInv
  OBVIOUS
<1>1. Accepted = << >> /\ Len(Accepted) = 0
  BY DEF Init, Accepted
<1>2. TypeOK
  <2>1. NoInput \in AllInputs
    BY InputsAssumption DEF NoInput
  <2>2. submit \in [Callers -> [state : CallStates, input : AllInputs]]
    BY <2>1 DEF Init, CallStates
  <2>3. queued \in Seq(Inputs) /\ received \in Seq(Inputs)
    BY EmptySeq DEF Init
  <2>4. ctxDone \in BOOLEAN /\ running \in BOOLEAN
    BY DEF Init
  <2>5. QED
    BY <2>2, <2>3, <2>4 DEF TypeOK
<1>3. QED
  BY <1>1, <1>2 DEF Init, IInv, SeenExact, AcceptedIDs, NoDuplicates,
                    WaitingValid, AcknowledgedSeen

(* A step that leaves seen, the queue, the history and waiting inputs as   *)
(* they are, and acknowledges nothing new, keeps the invariant.            *)
LEMMA BeginSubmitIInv ==
    ASSUME IInv, NEW c \in Callers, NEW input \in AllInputs,
           NEW callerDone \in BOOLEAN, BeginSubmit(c, input, callerDone)
    PROVE  IInv'
<1>1. Accepted' = Accepted /\ seen' = seen
  BY DEF BeginSubmit, Accepted
<1>2. TypeOK'
  BY DEF IInv, TypeOK, BeginSubmit, CallStates
<1>3. WaitingValid' /\ AcknowledgedSeen'
  BY <1>1 DEF IInv, TypeOK, BeginSubmit, WaitingValid, AcknowledgedSeen, AllInputs
<1>4. SeenExact' /\ NoDuplicates'
  BY <1>1 DEF IInv, SeenExact, AcceptedIDs, NoDuplicates
<1>5. QED
  BY <1>2, <1>3, <1>4 DEF IInv

(* The inbox goroutine takes a submission. *)
LEMMA TakeSubmissionIInv ==
    ASSUME IInv, NEW c \in Callers, TakeSubmission(c)
    PROVE  IInv'
<1> DEFINE input == submit[c].input
<1>1. input \in Inputs
  BY DEF IInv, WaitingValid, TakeSubmission
<1>2. CASE input.id \in seen
  <2>1. Accepted' = Accepted /\ seen' = seen /\ queued' = queued
    BY <1>2 DEF TakeSubmission, Accepted
  <2>2. TypeOK'
    BY <2>1 DEF IInv, TypeOK, TakeSubmission, CallStates
  <2>3. WaitingValid' /\ AcknowledgedSeen'
    BY <1>2, <2>1 DEF IInv, TypeOK, TakeSubmission, WaitingValid, AcknowledgedSeen
  <2>4. SeenExact' /\ NoDuplicates'
    BY <2>1 DEF IInv, SeenExact, AcceptedIDs, NoDuplicates
  <2>5. QED
    BY <2>2, <2>3, <2>4 DEF IInv
<1>3. CASE input.id \notin seen
  <2>1. /\ seen' = seen \cup {input.id}
        /\ queued' = Append(queued, input)
        /\ received' = received
        /\ submit' = [submit EXCEPT ![c].state = "ok"]
    BY <1>3 DEF TakeSubmission
  <2>2. queued \in Seq(Inputs) /\ received \in Seq(Inputs) /\ Accepted \in Seq(Inputs)
    BY ConcatProperties DEF IInv, TypeOK, Accepted
  <2>3. Accepted' = Append(Accepted, input)
    BY <1>1, <2>1, <2>2, ConcatAppend DEF Accepted
  <2>4. TypeOK'
    BY <1>1, <2>1, <2>2 DEF IInv, TypeOK, TakeSubmission, CallStates
  <2>5. WaitingValid' /\ AcknowledgedSeen'
    BY <2>1 DEF IInv, TypeOK, WaitingValid, AcknowledgedSeen
  <2>6. /\ Len(Accepted) \in Nat
        /\ Len(Accepted') = Len(Accepted) + 1
        /\ \A k \in 1..Len(Accepted) : Accepted'[k] = Accepted[k]
        /\ Accepted'[Len(Accepted) + 1] = input
    BY <1>1, <2>2, <2>3, AppendProperties, LenProperties
  <2>7. \A k \in 1..Len(Accepted) : Accepted[k].id # input.id
    BY <1>3 DEF IInv, SeenExact, AcceptedIDs
  <2>8. NoDuplicates'
    BY <2>6, <2>7 DEF IInv, NoDuplicates
  <2>9. AcceptedIDs' = AcceptedIDs \cup {input.id}
    <3>1. \A k \in 1..Len(Accepted') :
            Accepted'[k].id \in AcceptedIDs \cup {input.id}
      BY <2>6 DEF AcceptedIDs
    <3>2. \A x \in AcceptedIDs : \E k \in 1..Len(Accepted') : x = Accepted'[k].id
      BY <2>6 DEF AcceptedIDs
    <3>3. \E k \in 1..Len(Accepted') : input.id = Accepted'[k].id
      BY <2>6
    <3>4. QED
      BY <3>1, <3>2, <3>3 DEF AcceptedIDs
  <2>10. SeenExact'
    <3>1. input.id \notin SeenIDs
      BY <1>3 DEF IInv, SeenExact
    <3>2. QED
      BY <2>1, <2>9, <3>1 DEF IInv, SeenExact
  <2>11. QED
    BY <2>4, <2>5, <2>8, <2>10 DEF IInv
<1>4. QED
  BY <1>2, <1>3

(* The inbox goroutine hands out its first input. *)
LEMMA HandOutIInv ==
    ASSUME IInv, HandOut
    PROVE  IInv' /\ Accepted' = Accepted
<1>1. queued \in Seq(Inputs) /\ received \in Seq(Inputs) /\ queued # << >>
  BY DEF IInv, TypeOK, HandOut
<1>2. Accepted' = Accepted
  BY <1>1, ConcatShift DEF HandOut, Accepted
<1>3. TypeOK'
  <2>1. Head(queued) \in Inputs /\ Tail(queued) \in Seq(Inputs)
    BY <1>1, HeadTailProperties
  <2>2. QED
    BY <1>1, <2>1 DEF IInv, TypeOK, HandOut
<1>4. WaitingValid' /\ AcknowledgedSeen'
  BY DEF IInv, HandOut, WaitingValid, AcknowledgedSeen
<1>5. SeenExact' /\ NoDuplicates'
  BY <1>2 DEF IInv, HandOut, SeenExact, AcceptedIDs, NoDuplicates
<1>6. QED
  BY <1>2, <1>3, <1>4, <1>5 DEF IInv

(* Every step keeps the invariant. *)
LEMMA NextIInv == IInv /\ [Next]_vars => IInv'
<1> SUFFICES ASSUME IInv, [Next]_vars PROVE IInv'
  OBVIOUS
<1>1. ASSUME NEW c \in Callers, AbandonSubmit(c) PROVE IInv'
  <2>1. Accepted' = Accepted /\ seen' = seen
    BY <1>1 DEF AbandonSubmit, Accepted
  <2>2. TypeOK' /\ WaitingValid' /\ AcknowledgedSeen'
    BY <1>1, <2>1 DEF IInv, TypeOK, AbandonSubmit, CallStates, WaitingValid, AcknowledgedSeen
  <2>3. QED
    BY <2>1, <2>2 DEF IInv, SeenExact, AcceptedIDs, NoDuplicates
<1>2. CASE CancelContext \/ Return \/ UNCHANGED vars
  <2>1. /\ Accepted' = Accepted /\ seen' = seen /\ submit' = submit
        /\ queued' = queued /\ received' = received
        /\ ctxDone' \in BOOLEAN /\ running' \in BOOLEAN
    BY <1>2 DEF CancelContext, Return, vars, Accepted, IInv, TypeOK
  <2>2. QED
    BY <2>1 DEF IInv, TypeOK, SeenExact, AcceptedIDs, NoDuplicates,
                WaitingValid, AcknowledgedSeen
<1>3. QED
  BY <1>1, <1>2, BeginSubmitIInv, TakeSubmissionIInv, HandOutIInv DEF Next

(* The inductive invariant holds in every state of the inbox. *)
THEOREM InductiveInvariant == Spec => []IInv
  BY InitIInv, NextIInv, PTL DEF Spec

(* `seen` is at all times exactly the recorded IDs and the accepted ones:  *)
(* the inbox goroutine (local.go:70-78) neither forgets nor invents an ID. *)
THEOREM SeenIsExact == Spec => []SeenExact
<1>1. IInv => SeenExact
  BY DEF IInv
<1>2. QED
  BY <1>1, InductiveInvariant, PTL

(* A nil from Submit stands for exactly one input of the session, whatever *)
(* the interleaving of submitters, reader and cancellation.                *)
THEOREM NilMeansAcknowledgedOnce == Spec => []AcknowledgedOnce
<1>1. IInv => AcknowledgedOnce
  <2> SUFFICES ASSUME IInv, NEW c \in Callers, submit[c].state = "ok",
                      submit[c].input.id \notin SeenIDs
               PROVE  \E k \in 1..Len(Accepted) :
                        /\ Accepted[k].id = submit[c].input.id
                        /\ \A l \in 1..Len(Accepted) :
                             Accepted[l].id = submit[c].input.id => l = k
    BY DEF AcknowledgedOnce
  <2>1. submit[c].input.id \in AcceptedIDs
    BY DEF IInv, AcknowledgedSeen, SeenExact
  <2>2. PICK k \in 1..Len(Accepted) : Accepted[k].id = submit[c].input.id
    BY <2>1 DEF AcceptedIDs
  <2>3. QED
    BY <2>2 DEF IInv, NoDuplicates
<1>2. QED
  BY <1>1, InductiveInvariant, PTL
-----------------------------------------------------------------------------

(* Every step of the inbox is a step of the abstract FIFO, or changes      *)
(* nothing a reader of the inbox can tell.                                 *)
LEMMA StepRefines ==
    ASSUME IInv, [Next]_vars
    PROVE  [FIFO!Next]_<<Accepted, Len(received), running>>
<1>1. ASSUME NEW c \in Callers, TakeSubmission(c), submit[c].input.id \notin seen
      PROVE  FIFO!Accept(submit[c].input) /\ submit[c].input \in Inputs
  <2> DEFINE input == submit[c].input
  <2>1. input \in Inputs
    BY <1>1 DEF IInv, WaitingValid, TakeSubmission
  <2>2. queued \in Seq(Inputs) /\ received \in Seq(Inputs)
    BY DEF IInv, TypeOK
  <2>3. Accepted' = Append(Accepted, input)
    <3>1. queued' = Append(queued, input) /\ received' = received
      BY <1>1 DEF TakeSubmission
    <3>2. QED
      BY <2>1, <2>2, <3>1, ConcatAppend DEF Accepted
  <2>4. input.id \notin SeenIDs /\ \A k \in 1..Len(Accepted) : Accepted[k].id # input.id
    BY <1>1 DEF IInv, SeenExact, AcceptedIDs
  <2>5. QED
    BY <1>1, <2>1, <2>3, <2>4 DEF FIFO!Accept, TakeSubmission
<1>2. CASE HandOut
  <2>1. queued \in Seq(Inputs) /\ received \in Seq(Inputs) /\ queued # << >>
    BY <1>2 DEF IInv, TypeOK, HandOut
  <2>2. Len(received') = Len(received) + 1
    BY <1>2, <2>1, HeadTailProperties, AppendProperties DEF HandOut
  <2>3. Len(received) < Len(Accepted)
    <3>1. Len(Accepted) = Len(received) + Len(queued)
      BY <2>1, ConcatProperties DEF Accepted
    <3>2. Len(queued) \in Nat \ {0} /\ Len(received) \in Nat
      BY <2>1, EmptySeq, LenProperties
    <3>3. QED
      BY <3>1, <3>2
  <2>4. Accepted' = Accepted
    BY <1>2, HandOutIInv
  <2>5. QED
    BY <1>2, <2>2, <2>3, <2>4 DEF FIFO!Next, FIFO!Hand, HandOut
<1>3. CASE Return
  BY <1>3 DEF FIFO!Next, FIFO!Close, Return, Accepted
<1>4. ASSUME \/ \E c \in Callers :
                  \/ \E input \in AllInputs, callerDone \in BOOLEAN :
                       BeginSubmit(c, input, callerDone)
                  \/ TakeSubmission(c) /\ submit[c].input.id \in seen
                  \/ AbandonSubmit(c)
             \/ CancelContext
             \/ UNCHANGED vars
      PROVE  UNCHANGED <<Accepted, Len(received), running>>
  BY <1>4 DEF BeginSubmit, TakeSubmission, AbandonSubmit, CancelContext, vars, Accepted
<1>5. QED
  BY <1>1, <1>2, <1>3, <1>4 DEF Next, FIFO!Next

(* The inbox implements the abstract FIFO for every set of callers, inputs *)
(* and known IDs: first submissions are handed out once, in order, and     *)
(* deduplication goes by ID alone.                                         *)
THEOREM InboxImplementsFIFO == Spec => ImplementsFIFO
<1>1. Init => FIFO!Init
  BY DEF Init, FIFO!Init, Accepted
<1>2. IInv /\ [Next]_vars => [FIFO!Next]_FIFO!fifoVars
  BY StepRefines DEF FIFO!fifoVars
<1>3. QED
  BY <1>1, <1>2, InductiveInvariant, PTL DEF Spec, ImplementsFIFO, FIFO!Spec
=============================================================================

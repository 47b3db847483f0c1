-------------------------- MODULE RemotePrimitive --------------------------
(***************************************************************************)
(* One remote request (harness/primitives/remote.go): its attempts, the     *)
(* idle timer of each, the streaming of the response, the retries and the   *)
(* one terminal event.                                                      *)
(*                                                                          *)
(* The server's side of an attempt is external: it may answer, go silent,   *)
(* fail or end its body at any time. The receiver of the events may be slow;*)
(* the timer must not take that for silence of the server.                  *)
(***************************************************************************)
EXTENDS Naturals, Sequences, FiniteSets

CONSTANTS
    MaxAttempts, \* request.RetryPolicy.MaxAttempts
    MaxChunks,   \* bound: chunks of a response's body
    Requests,    \* whether the request is valid: a subset of BOOLEAN
    Policies,    \* backoff policies: [initial, max]
    Limit        \* arithmetic of durations wraps around here: 2^63 in the code

VARIABLES
    policy,   \* request.RetryPolicy
    valid,    \* the request passes prepareRemoteRequest
    pc,       \* where the goroutine is
    ctxDone,  \* the context is cancelled
    attempt,
    timer,    \* the idle timer: "stopped", "armed" or "fired"
    status,   \* the response's status: "ok" or "retryable"
    body,     \* chunks the body of this attempt's response has
    offset,   \* chunks read in this attempt
    sending,  \* the event that is being sent, and what follows it
    err,      \* the attempt's error: "nil", "retryable" or "final"
    streamed, \* the attempt had a response whose stream failed
    events,   \* history: the events received
    blamed    \* history: an idle timer ran out while the receiver was waited for

vars == <<policy, valid, pc, ctxDone, attempt, timer, status, body, offset, sending, err, streamed,
          events, blamed>>

attemptVars == <<status, body, offset, err, streamed>>

NoSend == [event |-> [type |-> "none"], then |-> "none"]

Init ==
    /\ valid \in Requests /\ policy \in Policies
    /\ pc = "begin"
    /\ ctxDone = FALSE
    /\ attempt = 0
    /\ timer = "stopped"
    /\ status = "ok" /\ body = 0 /\ offset = 0
    /\ sending = NoSend
    /\ err = "nil" /\ streamed = FALSE
    /\ events = <<>>
    /\ blamed = FALSE

Cancel ==
    /\ ~ctxDone /\ pc # "done"
    /\ ctxDone' = TRUE
    /\ UNCHANGED <<policy, valid, pc, attempt, timer, attemptVars, sending, events, blamed>>

(* Offer an event; next is where the goroutine goes when it was received.   *)
Offer(event, next) ==
    /\ pc' = "sending"
    /\ sending' = [event |-> event, then |-> next]

Terminal(type) == Offer([type |-> type, attempt |-> attempt], "done")

-----------------------------------------------------------------------------
(* Events. *)

IsTerminal(event) == event.type \in {"completed", "failed", "canceled"}

Receive ==
    /\ pc = "sending"
    /\ events' = Append(events, sending.event)
    /\ pc' = sending.then
    /\ sending' = NoSend
    /\ UNCHANGED <<policy, valid, ctxDone, attempt, timer, attemptVars, blamed>>

(* sendRemoteEvent gives up when the context is done; the terminal event is *)
(* sent in any case.                                                        *)
GiveUp ==
    /\ pc = "sending" /\ ctxDone /\ ~IsTerminal(sending.event)
    /\ pc' = IF sending.then = "streaming" THEN "attempted" ELSE "cancel"
    /\ sending' = NoSend
    /\ err' = "final" /\ streamed' = TRUE
    /\ UNCHANGED <<policy, valid, ctxDone, attempt, timer, status, body, offset, events, blamed>>

-----------------------------------------------------------------------------
(* An attempt. *)

Begin ==
    /\ pc = "begin"
    /\ IF ~valid THEN Terminal("failed")
       ELSE IF ctxDone THEN Terminal("canceled")
       ELSE pc' = "attempt" /\ UNCHANGED sending
    /\ UNCHANGED <<policy, valid, ctxDone, attempt, timer, attemptVars, events, blamed>>

(* The offset a response's output starts at. *)
NewOffset == 0

StartAttempt ==
    /\ pc = "attempt"
    /\ attempt' = attempt + 1
    /\ timer' = "armed"
    /\ body' = 0 /\ offset' = NewOffset /\ err' = "nil" /\ streamed' = FALSE
    /\ pc' = "do"
    /\ UNCHANGED <<policy, valid, ctxDone, status, sending, events, blamed>>

(* idleTimeout.pause *)
Paused == IF timer = "armed" THEN "stopped" ELSE timer

(* The server answers: the timer is paused and the answer reported, unless  *)
(* the timer has just fired.                                                *)
Answer ==
    /\ pc = "do"
    /\ status' \in {"ok", "retryable"}
    /\ body' \in 0..MaxChunks
    /\ timer' = Paused
    /\ Offer([type |-> "started", attempt |-> attempt], "streaming")
    /\ UNCHANGED <<policy, valid, ctxDone, attempt, offset, err, streamed, events, blamed>>

(* idleTimeout.arm, before a read. *)
Armed == IF timer = "fired" THEN timer ELSE "armed"

Read ==
    /\ pc = "streaming"
    /\ timer' = Armed
    /\ pc' = "reading"
    /\ UNCHANGED <<policy, valid, ctxDone, attempt, attemptVars, sending, events, blamed>>

(* A read returns a chunk; it is offered with its offset. *)
ReadChunk ==
    /\ pc = "reading" /\ offset < body
    /\ offset' = offset + 1
    /\ timer' = Paused
    /\ Offer([type |-> "output", attempt |-> attempt, offset |-> offset], "streaming")
    /\ UNCHANGED <<policy, valid, ctxDone, attempt, status, body, err, streamed, events, blamed>>

(* The body ends, or the read fails: because the connection broke, the      *)
(* timer fired or the context is done.                                      *)
BodyEnds ==
    /\ pc = "reading" /\ offset = body
    /\ timer' = Paused
    /\ pc' = "attempted"
    /\ UNCHANGED <<policy, valid, ctxDone, attempt, attemptVars, sending, events, blamed>>

AttemptFails ==
    /\ pc \in {"do", "reading"}
    /\ err' \in {"retryable", "final"}
    /\ streamed' = (pc = "reading")
    /\ pc' = "attempted"
    /\ UNCHANGED <<policy, valid, ctxDone, attempt, timer, status, body, offset, sending, events, blamed>>

(* The idle timer runs out and cancels the attempt. *)
TimerFires ==
    /\ timer = "armed" /\ pc # "attempt"
    /\ timer' = "fired"
    /\ blamed' = (blamed \/ pc = "sending")
    /\ UNCHANGED <<policy, valid, pc, ctxDone, attempt, attemptVars, sending, events>>

LastAttempt == attempt = MaxAttempts

(* normalizeRemoteAttemptError: a timer that fired makes the error an idle  *)
(* timeout, whatever the attempt came to.                                   *)
AttemptError == IF timer = "fired" /\ ~ctxDone THEN "retryable" ELSE err

(* After an attempt: cancelled; the failed stream is reported; then the     *)
(* request fails, completes or is retried.                                  *)
Attempted ==
    /\ pc = "attempted"
    /\ err' = AttemptError
    /\ timer' = "stopped"
    /\ IF ctxDone THEN Terminal("canceled")
       ELSE IF streamed THEN Offer([type |-> "stream failed", attempt |-> attempt], "judge")
       ELSE pc' = "judge" /\ UNCHANGED sending
    /\ UNCHANGED <<policy, valid, ctxDone, attempt, status, body, offset, streamed, events, blamed>>

(* The exponential backoff of a retry policy: one doubling is the maximum   *)
(* once twice the delay would exceed it.                                    *)
Doubled(p, delay) ==
    IF delay >= p.max \/ delay > p.max - delay THEN p.max ELSE delay * 2 % Limit

(* RemoteRetryPolicy.Backoff *)
Backoff(p, failed) ==
    LET delay[n \in 0..failed] == IF n = 0 THEN p.initial ELSE Doubled(p, delay[n - 1])
    IN  IF delay[failed - 1] > p.max THEN p.max ELSE delay[failed - 1]

Judge ==
    /\ pc = "judge"
    /\ \/ err = "final" /\ Terminal("failed")
       \/ err = "nil" /\ (status = "ok" \/ LastAttempt) /\ Terminal("completed")
       \/ err = "retryable" /\ LastAttempt /\ Terminal("failed")
       \/ /\ ~LastAttempt /\ (err = "retryable" \/ (err = "nil" /\ status = "retryable"))
          /\ Offer([type |-> "retry", attempt |-> attempt, delay |-> Backoff(policy, attempt)], "backoff")
    /\ UNCHANGED <<policy, valid, ctxDone, attempt, timer, attemptVars, events, blamed>>

(* waitForRemoteRetry: the backoff ends, or the context is done. *)
BackoffEnds ==
    /\ pc = "backoff"
    /\ pc' \in {"attempt"} \cup (IF ctxDone THEN {"cancel"} ELSE {})
    /\ UNCHANGED <<policy, valid, ctxDone, attempt, timer, attemptVars, sending, events, blamed>>

SendCanceled ==
    /\ pc = "cancel"
    /\ Terminal("canceled")
    /\ UNCHANGED <<policy, valid, ctxDone, attempt, timer, attemptVars, events, blamed>>

(* Whatever the server does, a fired timer or a done context ends the wait. *)
Interrupted == (timer = "fired" \/ ctxDone) /\ AttemptFails

Next ==
    \/ Cancel \/ Receive \/ GiveUp \/ Begin \/ StartAttempt \/ Answer \/ Read \/ ReadChunk
    \/ BodyEnds \/ AttemptFails \/ TimerFires \/ Attempted \/ Judge \/ BackoffEnds \/ SendCanceled

(* The goroutine and the receiver go on, and timers fire; the server need   *)
(* do nothing.                                                              *)
GoesOn ==
    \/ Receive \/ GiveUp \/ Begin \/ StartAttempt \/ Read \/ Attempted \/ Judge
    \/ BackoffEnds \/ SendCanceled

Fairness ==
    /\ WF_vars(GoesOn)
    /\ WF_vars(TimerFires) /\ WF_vars(Interrupted)

Spec == Init /\ [][Next]_vars /\ Fairness

-----------------------------------------------------------------------------
(* Properties. *)

TypeOK ==
    /\ attempt \in 0..MaxAttempts
    /\ timer \in {"stopped", "armed", "fired"}
    /\ pc = "done" <=> \E i \in DOMAIN events : IsTerminal(events[i])

(* The events of a request, in the order in which they are received: one    *)
(* terminal event, last; attempts in order; and in each, the answer before  *)
(* its output, whose offsets are contiguous.                                *)
WellOrdered ==
    \A i \in DOMAIN events :
        /\ IsTerminal(events[i]) => i = Len(events)
        /\ i > 1 => events[i].attempt >= events[i - 1].attempt
        /\ events[i].type = "output" =>
            LET before == {j \in 1..(i - 1) : events[j].attempt = events[i].attempt}
            IN  /\ \E j \in before : events[j].type = "started"
                /\ \A j \in before : events[j].type \in {"started", "output"}
                /\ events[i].offset
                     = Cardinality({j \in before : events[j].type = "output"})

(* A completed request has delivered the whole body of its last attempt.    *)
CompletedIsWhole ==
    \A i \in DOMAIN events :
        events[i].type = "completed" =>
            Cardinality({j \in DOMAIN events : /\ events[j].type = "output"
                                               /\ events[j].attempt = events[i].attempt}) = body

(* The delay before a retry is the initial one, doubled with every failed   *)
(* attempt in unbounded arithmetic, and never more than the maximum: it     *)
(* does not wrap around for a maximum near the largest duration.            *)
BackoffNeverOverflows ==
    \A i \in DOMAIN events :
        events[i].type = "retry" =>
            LET exact == policy.initial * 2 ^ (events[i].attempt - 1)
            IN  events[i].delay = IF exact > policy.max THEN policy.max ELSE exact

(* An idle timeout is the server's silence: time the receiver takes for an  *)
(* event does not count.                                                    *)
SlowReceiverNotBlamed == ~blamed

(* The request ends, even if the server never answers.                      *)
Ends == <>(pc = "done")
=============================================================================

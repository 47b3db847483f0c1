------------------------- MODULE ResponsesExchange -------------------------
(***************************************************************************)
(* One request to a model (harness/llm/responsesapi: exchange and           *)
(* exchangeAttempt in stream.go, retry.go, Respond in adapter.go and the    *)
(* decoding of response.go).                                                *)
(*                                                                          *)
(* Every attempt is a remote request whose goroutine sends its events on    *)
(* one unbuffered channel that all attempts, and the timers between them,   *)
(* share. The remote request is taken from RemotePrimitive with one attempt:*)
(* an answer, frames, then one terminal event. What the model's server      *)
(* streams is external: any sequence of the frames in Frames.               *)
(***************************************************************************)
EXTENDS Integers, Sequences, SequencesExt, FiniteSets

CONSTANTS
    MaxAttempts, \* adapter.maxAttempts
    MaxFrames,   \* bound: frames of one response
    Frames,      \* the frames a server may stream
    HTTPErrors,  \* the errors an answer that is not 2xx may carry
    RetryAfters, \* values of the Retry-After header, in seconds; 0 is none
    Second,      \* a second, in the units of Limit
    Policy,      \* request.RetryPolicy: [initial, max]
    Limit        \* arithmetic of durations wraps around here: 2^63 in the code

VARIABLES
    pc,       \* "begin", "reading", "judged", "waiting" or "returned"
    ctxDone,  \* the context is cancelled
    attempt,
    remote,   \* the goroutine of every attempt: "none", "asked", "streaming", "broken", "ended"
    status,   \* the answer's status: 0, 200 or an error's
    header,   \* its Retry-After
    httpBody, \* the error in the body of an answer that is not 2xx
    state,    \* responseState, and the parse error
    result,   \* what the attempt came to
    delay,    \* of the timer that runs
    sent,     \* history: the frames streamed in every attempt
    outcome   \* what Respond returns

vars == <<pc, ctxDone, attempt, remote, status, header, httpBody, state, result, delay, sent, outcome>>

NoError == [status |-> 0, code |-> "", type |-> "", hint |-> 0]

NoResponse == [status |-> "", object |-> FALSE, output |-> <<>>]

NewState ==
    [terminal |-> FALSE, response |-> NoResponse, items |-> <<>>, failure |-> NoError,
     err |-> NoError, parseErr |-> FALSE]

NoResult == [err |-> "nil", body |-> NoResponse, apiError |-> NoError, retry |-> FALSE]

Init ==
    /\ pc = "begin"
    /\ ctxDone = FALSE
    /\ attempt = 0
    /\ remote = [a \in 1..MaxAttempts |-> "none"]
    /\ status = 0 /\ header = 0 /\ httpBody = NoError
    /\ state = NewState
    /\ result = NoResult
    /\ delay = 0
    /\ sent = [a \in 1..MaxAttempts |-> <<>>]
    /\ outcome = [kind |-> "none", output |-> <<>>]

Cancel ==
    /\ ~ctxDone /\ pc # "returned"
    /\ ctxDone' = TRUE
    /\ UNCHANGED <<pc, attempt, remote, status, header, httpBody, state, result, delay, sent, outcome>>

-----------------------------------------------------------------------------
(* The decoding of a response, and what Respond returns. *)

Skipped == {"web_search_call", "partial_call"}

Known == Skipped \cup {"message", "function_call", "reasoning"}

(* responseOutputItem: a call that is in progress or incomplete is left out.*)
Included(item) == item.kind \notin Skipped

Failed(kind) == [kind |-> kind, output |-> <<>>]

decodeResponse(body) ==
    IF \/ body.status \notin {"completed", "max_output_tokens", "content_filter", "failed"}
       \/ \E i \in DOMAIN body.output : body.output[i].kind \notin Known
    THEN Failed("undecodable")
    ELSE [kind |-> body.status, output |-> SelectSeq(body.output, Included)]

(* Respond, after exchange. *)
Respond(err, body) ==
    outcome' = IF err # "nil" THEN Failed(err)
               ELSE IF status # 200 THEN Failed("api error")
               ELSE decodeResponse(body)

Return(err, body) ==
    /\ pc' = "returned"
    /\ Respond(err, body)

-----------------------------------------------------------------------------
(* exchange: the loop over attempts. *)

Begin ==
    /\ pc = "begin"
    /\ IF ctxDone
       THEN /\ Return("canceled", NoResponse)
            /\ UNCHANGED <<attempt, remote, status, header, httpBody, state, result>>
       ELSE /\ attempt' = attempt + 1
            /\ remote' = [remote EXCEPT ![attempt + 1] = "asked"]
            /\ status' = 0 /\ header' = 0 /\ httpBody' = NoError
            /\ state' = NewState /\ result' = NoResult
            /\ pc' = "reading"
            /\ UNCHANGED outcome
    /\ UNCHANGED <<ctxDone, delay, sent>>

-----------------------------------------------------------------------------
(* exchangeAttempt: one event of the channel at a time.                     *)

Reading == pc = "reading"

(* remote.response_started *)
Started(a) ==
    /\ Reading /\ remote[a] = "asked"
    /\ \E answer \in HTTPErrors \cup {[NoError EXCEPT !.status = 200]} :
        /\ status' = answer.status
        /\ httpBody' = IF answer.status = 200 THEN NoError ELSE answer
    /\ header' \in RetryAfters
    /\ remote' = [remote EXCEPT ![a] = "streaming"]
    /\ UNCHANGED <<pc, ctxDone, attempt, state, result, delay, sent, outcome>>

Deaf(s) == s.parseErr \/ s.terminal \/ s.err # NoError

Items(s, index, item) ==
    [i \in DOMAIN s.items \cup {index} |-> IF i = index THEN item ELSE s.items[i]]

(* responseState.observe *)
Observe(s, frame) ==
    IF Deaf(s) THEN s
    ELSE CASE frame.type = "garbage" -> [s EXCEPT !.parseErr = TRUE]
           [] frame.type \in {"response.completed", "response.incomplete", "response.failed"} ->
                [s EXCEPT !.terminal = TRUE, !.response = frame.response,
                          !.failure = IF frame.type = "response.failed" THEN frame.error
                                                                      ELSE NoError]
           [] frame.type = "response.output_item.done" ->
                IF frame.index < 0 THEN s
                ELSE [s EXCEPT !.items = Items(s, frame.index, frame.item)]
           [] frame.type = "error" -> [s EXCEPT !.err = frame.error]
           [] OTHER -> s

(* Faulty variant: a frame that does not parse ends the attempt at once. *)
ReturnsEarly(s) == IF s.parseErr THEN "judged" ELSE "reading"

(* What follows a frame: the next event, whatever the frame was. *)
AfterFrame(s) == "reading"

Marked(frame, a) ==
    CASE frame.type = "response.output_item.done" -> [frame EXCEPT !.item.from = a]
      [] frame.type \in {"response.completed", "response.incomplete", "response.failed"} ->
           [frame EXCEPT !.response.output =
                [i \in DOMAIN frame.response.output |->
                    [frame.response.output[i] EXCEPT !.from = a]]]
      [] OTHER -> frame

(* remote.output: a frame. Everything after the terminal response, an error *)
(* or a frame that does not parse is read and dropped.                      *)
Output(a) ==
    /\ Reading /\ remote[a] = "streaming" /\ status = 200
    /\ Len(sent[a]) < MaxFrames
    /\ \E frame \in Frames :
        /\ state' = Observe(state, Marked(frame, a))
        /\ sent' = [sent EXCEPT ![a] = Append(@, Marked(frame, a))]
        /\ pc' = AfterFrame(state')
    /\ UNCHANGED <<ctxDone, attempt, remote, status, header, httpBody, result, delay, outcome>>

(* The body of an answer that is an error is kept, up to a length. *)
BodyTooLong(a) ==
    /\ Reading /\ remote[a] = "streaming" /\ status \notin {0, 200}
    /\ ~state.parseErr
    /\ state' = [state EXCEPT !.parseErr = TRUE]
    /\ UNCHANGED <<pc, ctxDone, attempt, remote, status, header, httpBody, result, delay, sent, outcome>>

(* remote.stream_failed, which is ignored: the terminal event follows. *)
StreamFails(a) ==
    /\ Reading /\ remote[a] = "streaming"
    /\ remote' = [remote EXCEPT ![a] = "broken"]
    /\ UNCHANGED <<pc, ctxDone, attempt, status, header, httpBody, state, result, delay, sent, outcome>>

-----------------------------------------------------------------------------
(* What an attempt came to. *)

FatalCodes ==
    {"context_length_exceeded", "insufficient_quota", "usage_not_included", "usage_limit_reached",
     "credit_balance_exhausted", "billing_hard_limit_reached", "cyber_policy",
     "misalignment_policy_violation", "invalid_prompt", "bio_policy", "invalid_api_key",
     "invalid_token"}

FatalTypes == {"authentication_error", "permission_error", "insufficient_quota"}

RetryableStatusCodes == {408, 425, 429, 500, 502, 503, 504, 529} \cup (520..524)

retryableResponseError(e) ==
    /\ e # NoError
    /\ e.code \notin FatalCodes
    /\ e.type \notin FatalTypes
    /\ e.status \in 200..299 \/ e.status \in RetryableStatusCodes

(* The items in the order of their indexes; gaps are allowed. *)
InOrder(items) ==
    LET at == SelectSeq([i \in 1..(MaxFrames + 1) |-> i - 1], LAMBDA i : i \in DOMAIN items)
    IN  [k \in DOMAIN at |-> items[at[k]]]

(* unwrap: a final output is authoritative; an empty one is filled with the *)
(* items that were streamed.                                                *)
unwrap(s) ==
    IF s.response.output # <<>> THEN s.response
    ELSE [s.response EXCEPT !.output = InOrder(s.items)]

(* The verdict when the terminal event arrives. *)
Verdict(terminal) ==
    IF state.parseErr THEN [NoResult EXCEPT !.err = "invalid"]
    ELSE IF state.terminal /\ ~state.response.object THEN [NoResult EXCEPT !.err = "unexpected EOF"]
    ELSE IF state.terminal
         THEN [err |-> "nil", body |-> unwrap(state), apiError |-> state.failure,
               retry |-> retryableResponseError(state.failure)]
    ELSE IF ctxDone THEN [NoResult EXCEPT !.err = "canceled"]
    ELSE IF state.err # NoError
         THEN [NoResult EXCEPT !.err = "api error", !.apiError = state.err,
                               !.retry = retryableResponseError(state.err)]
    ELSE IF status \notin {0, 200}
         THEN [NoResult EXCEPT !.apiError = httpBody, !.retry = retryableResponseError(httpBody)]
    ELSE IF terminal # "completed"
         THEN [NoResult EXCEPT !.err = "transport error", !.retry = terminal = "failed"]
    ELSE [NoResult EXCEPT !.err = "unexpected EOF", !.retry = TRUE]

(* The terminal events the goroutine of an attempt may send. *)
Terminals(a) ==
    (IF remote[a] = "streaming" THEN {"completed"} ELSE {})
    \cup (IF remote[a] \in {"asked", "broken"} THEN {"failed"} ELSE {})
    \cup (IF ctxDone THEN {"canceled"} ELSE {})

Terminal(a) ==
    /\ Reading /\ remote[a] \in {"asked", "streaming", "broken"}
    /\ \E terminal \in Terminals(a) : result' = Verdict(terminal)
    /\ remote' = [remote EXCEPT ![a] = "ended"]
    /\ pc' = "judged"
    /\ UNCHANGED <<ctxDone, attempt, status, header, httpBody, state, delay, sent, outcome>>

-----------------------------------------------------------------------------
(* The delay before a retry. *)

Min2(a, b) == IF a < b THEN a ELSE b

Max2(a, b) == IF a > b THEN a ELSE b

(* A product of durations, wrapped around to a signed one. *)
Wrapped(x) == ((x + Limit) % (2 * Limit)) - Limit

retryAfterHeader(seconds) ==
    IF seconds > (Limit - 1) \div Second THEN 0 ELSE Wrapped(seconds * Second)

Hint(e) ==
    Max2(retryAfterHeader(header), IF e.code = "rate_limit_exceeded" THEN e.hint ELSE 0)

Overloaded(e) == e.code \in {"server_is_overloaded", "slow_down"}

(* An overloaded server is given more time. *)
EffectivePolicy(e) ==
    IF Overloaded(e) THEN [initial |-> 10 * Second, max |-> 60 * Second] ELSE Policy

(* RemoteRetryPolicy.Backoff of harness/primitives, as in RemotePrimitive. *)
Doubled(policy, pause) ==
    IF pause >= policy.max \/ pause > policy.max - pause THEN policy.max ELSE pause * 2 % Limit

Backoff(policy, failed) ==
    LET pause[n \in 0..failed] == IF n = 0 THEN policy.initial ELSE Doubled(policy, pause[n - 1])
    IN  IF pause[failed - 1] > policy.max THEN policy.max ELSE pause[failed - 1]

(* responseRetryDelay, with a jitter of tenths. *)
responseRetryDelay(e, jitter) ==
    LET backoff == Backoff(EffectivePolicy(e), attempt)
    IN  IF Hint(e) > 0 THEN Min2(Hint(e), Policy.max)
        ELSE backoff - ((backoff \div 5) * jitter) \div 10

LastAttempt == attempt >= MaxAttempts

(* After an attempt: return, or start the timer of the backoff. *)
AfterAttempt ==
    /\ pc = "judged"
    /\ IF ~result.retry \/ LastAttempt
       THEN Return(result.err, result.body) /\ UNCHANGED delay
       ELSE IF ctxDone THEN Return("canceled", NoResponse) /\ UNCHANGED delay
       ELSE /\ \E jitter \in {0, 9} : delay' = responseRetryDelay(result.apiError, jitter)
            /\ pc' = "waiting"
            /\ UNCHANGED outcome
    /\ UNCHANGED <<ctxDone, attempt, remote, status, header, httpBody, state, result, sent>>

(* The timer's event: it fired, or it was cancelled. *)
TimerFires ==
    /\ pc = "waiting"
    /\ pc' = "begin"
    /\ UNCHANGED <<ctxDone, attempt, remote, status, header, httpBody, state, result, delay, sent, outcome>>

TimerCanceled ==
    /\ pc = "waiting" /\ ctxDone
    /\ Return("canceled", NoResponse)
    /\ UNCHANGED <<ctxDone, attempt, remote, status, header, httpBody, state, result, delay, sent>>

Next ==
    \/ Cancel \/ Begin \/ AfterAttempt \/ TimerFires \/ TimerCanceled
    \/ \E a \in 1..MaxAttempts : Started(a) \/ Output(a) \/ BodyTooLong(a) \/ StreamFails(a) \/ Terminal(a)

(* The exchange goes on, and a remote request ends (RemotePrimitive, Ends). *)
Fairness ==
    /\ WF_vars(Begin \/ AfterAttempt \/ TimerFires)
    /\ \A a \in 1..MaxAttempts : WF_vars(Terminal(a))

Spec == Init /\ [][Next]_vars /\ Fairness

-----------------------------------------------------------------------------
(* Properties. *)

TypeOK ==
    /\ pc \in {"begin", "reading", "judged", "waiting", "returned"}
    /\ attempt \in 0..MaxAttempts
    /\ remote \in [1..MaxAttempts -> {"none", "asked", "streaming", "broken", "ended"}]
    /\ pc = "returned" <=> outcome.kind # "none"

(* While an attempt is read, its goroutine is the only one that may send on *)
(* the shared channel, and when exchange waits or returns there is none: no *)
(* event of an earlier attempt is taken for the next one's, and nobody is   *)
(* left blocked on the channel for ever.                                    *)
OneSender ==
    \A a \in 1..MaxAttempts :
        remote[a] \in {"asked", "streaming", "broken"} => Reading /\ a = attempt

(* The frame that decides an attempt: the first that is terminal, an error  *)
(* or unreadable.                                                           *)
Decisive(a) ==
    SelectSeq(sent[a], LAMBDA frame : frame.type \notin {"response.output_item.done", "other"})

(* The items the server finished before that frame: the last of every index.*)
Finished(a) ==
    LET isDone(i) == sent[a][i].type = "response.output_item.done" /\ sent[a][i].index >= 0
        before == {i \in DOMAIN sent[a] : \A j \in 1..i :
                      sent[a][j].type \in {"response.output_item.done", "other"}}
        latest == {i \in before : isDone(i) /\ \A j \in before :
                      j > i /\ isDone(j) => sent[a][j].index # sent[a][i].index}
    IN  {<<sent[a][i].index, sent[a][i].item>> : i \in latest}

(* A response is returned only from the last attempt, with what that        *)
(* attempt's server reported as final: the final output itself or, when it  *)
(* is empty, the finished items by index; without calls that were cut off.  *)
ResponseIsLastStream ==
    outcome.kind \in {"completed", "max_output_tokens", "content_filter", "failed"} =>
        LET final == Decisive(attempt)[1].response
            runnable(items) == {item \in items : item.kind \in {"message", "function_call", "reasoning"}}
        IN  /\ final.status = outcome.kind
            /\ final.output # <<>> => ToSet(outcome.output) = runnable(ToSet(final.output))
            /\ final.output = <<>> =>
                 LET by(item) == CHOOSE p \in Finished(attempt) : p[2] = item
                 IN  /\ ToSet(outcome.output) = runnable({p[2] : p \in Finished(attempt)})
                     /\ \A i, j \in DOMAIN outcome.output :
                            i < j => by(outcome.output[i])[1] <= by(outcome.output[j])[1]

(* A request is only repeated when its attempt cannot have produced a       *)
(* response: it broke off, or the provider's error is one that may pass.    *)
(* Never after a complete response, an error about the account, the key or  *)
(* the prompt, or a stream that makes no sense.                             *)
NeverAskedAgain ==
    \A a \in 1..(attempt - 1) :
        Decisive(a) # <<>> =>
            /\ Decisive(a)[1].type \in {"response.failed", "error"}
            /\ Decisive(a)[1].error.code \notin FatalCodes
            /\ Decisive(a)[1].error.type \notin FatalTypes

(* A retry waits as long as the provider asks, up to the policy's maximum;  *)
(* without a hint, or with one that no duration can hold, at least four     *)
(* fifths of the initial backoff; and never longer than the maximum.        *)
DelayIsSane ==
    pc = "waiting" =>
        LET e == result.apiError
            policy == EffectivePolicy(e)
            fits == header * Second < Limit
        IN  /\ delay <= Max2(policy.max, Policy.max)
            /\ header > 0 /\ fits => delay >= Min2(header * Second, Policy.max)
            /\ header = 0 \/ ~fits =>
                 delay >= Min2((4 * policy.initial) \div 5, IF e.hint > 0 THEN e.hint ELSE policy.initial)

(* A request to the model ends. *)
Returns == <>(pc = "returned")
=============================================================================

-------------------------- MODULE ComputePrimitive --------------------------
(***************************************************************************)
(* A callback run in a goroutine of its own (harness/primitives/compute.go).*)
(* It may return, panic or end its goroutine with runtime.Goexit; the       *)
(* manager waits for exactly one event of every request.                    *)
(***************************************************************************)
EXTENDS Naturals, Sequences, FiniteSets

CONSTANT Requests

VARIABLES
    pc,       \* request -> "begin", "running", "sending" or "done"
    run,      \* request -> whether it has a callback
    ctxDone,
    ended,    \* request -> how the callback ended: "none", "value", "error", "panic" or "exit"
    offered,  \* request -> the event that is being sent
    events    \* history: request -> the events received

vars == <<pc, run, ctxDone, ended, offered, events>>

Init ==
    /\ pc = [r \in Requests |-> "begin"]
    /\ run \in [Requests -> BOOLEAN]
    /\ ctxDone = [r \in Requests |-> FALSE]
    /\ ended = [r \in Requests |-> "none"]
    /\ offered = [r \in Requests |-> "none"]
    /\ events = [r \in Requests |-> <<>>]

Cancel(r) ==
    /\ ~ctxDone[r] /\ pc[r] # "done"
    /\ ctxDone' = [ctxDone EXCEPT ![r] = TRUE]
    /\ UNCHANGED <<pc, run, ended, offered, events>>

Offer(r, event) ==
    /\ pc' = [pc EXCEPT ![r] = "sending"]
    /\ offered' = [offered EXCEPT ![r] = event]

Begin(r) ==
    /\ pc[r] = "begin"
    /\ IF ~run[r] THEN Offer(r, "failed")
       ELSE IF ctxDone[r] THEN Offer(r, "canceled")
       ELSE pc' = [pc EXCEPT ![r] = "running"] /\ UNCHANGED offered
    /\ UNCHANGED <<run, ctxDone, ended, events>>

(* The deferred function sees a panic by recover, and a Goexit by the       *)
(* callback not having returned.                                            *)
Failure(how) == how \in {"error", "panic", "exit"}

(* The callback ends and the deferred function reports it. *)
End(r) ==
    /\ pc[r] = "running"
    /\ \E how \in {"value", "error", "panic", "exit"} :
        /\ ended' = [ended EXCEPT ![r] = how]
        /\ Offer(r, IF ctxDone[r] THEN "canceled" ELSE IF Failure(how) THEN "failed" ELSE "completed")
    /\ UNCHANGED <<run, ctxDone, events>>

Receive(r) ==
    /\ pc[r] = "sending"
    /\ events' = [events EXCEPT ![r] = Append(@, offered[r])]
    /\ pc' = [pc EXCEPT ![r] = "done"]
    /\ UNCHANGED <<run, ctxDone, ended, offered>>

Next == \E r \in Requests : Cancel(r) \/ Begin(r) \/ End(r) \/ Receive(r)

Spec == Init /\ [][Next]_vars

-----------------------------------------------------------------------------
(* Properties. *)

(* A request is reported as completed exactly when its callback returned a  *)
(* value and nobody had cancelled it: never after a panic or an exit, when  *)
(* there is no value, and in no more than one event.                        *)
OneTrueEvent ==
    \A r \in Requests : pc[r] = "done" =>
        /\ Len(events[r]) = 1
        /\ events[r][1] = "completed" => ended[r] = "value"
        /\ events[r][1] = "failed" => ended[r] # "value"
=============================================================================

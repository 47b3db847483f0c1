--------------------------- MODULE TimerPrimitive ---------------------------
(***************************************************************************)
(* A timer for a point of wall-clock time (harness/primitives/timer.go).    *)
(* It sleeps on the monotonic clock, which stands still while the machine   *)
(* is suspended and does not follow when the wall clock is set; so it never *)
(* sleeps longer than MaximumSleep and looks at the wall clock again.       *)
(***************************************************************************)
EXTENDS Integers

CONSTANTS
    Deadlines,     \* wall-clock deadlines
    MaximumSleep,  \* timerMaximumSleep
    MaxTime,       \* bound: ticks of the monotonic clock
    Jumps          \* how far the wall clock may jump, at most once

VARIABLES
    deadline,
    mono,    \* the monotonic clock
    skew,    \* wall clock minus monotonic clock
    jumped,
    pc,
    wakeAt,  \* when the sleep ends, on the monotonic clock
    ctxDone,
    fired,   \* wall-clock time of the event, -1 if none
    past     \* history: ticks since the wall clock has passed the deadline for good

vars == <<deadline, mono, skew, jumped, pc, wakeAt, ctxDone, fired, past>>

Now == mono + skew

Init ==
    /\ deadline \in Deadlines
    /\ mono = 0 /\ skew = 0 /\ jumped = FALSE
    /\ pc = "begin"
    /\ wakeAt = 0
    /\ ctxDone = FALSE
    /\ fired = -1
    /\ past = 0

Cancel ==
    /\ ~ctxDone /\ pc # "done"
    /\ ctxDone' = TRUE
    /\ UNCHANGED <<deadline, mono, skew, jumped, pc, wakeAt, fired, past>>

Larger(a, b) == IF a > b THEN a ELSE b

Smaller(a, b) == IF a < b THEN a ELSE b

timerDelay == Smaller(Larger(deadline - Now, 0), MaximumSleep)

(* runTimer, up to the first sleep. *)
Begin ==
    /\ pc = "begin"
    /\ IF ctxDone THEN pc' = "done" /\ UNCHANGED wakeAt
       ELSE pc' = "sleeping" /\ wakeAt' = mono + timerDelay
    /\ UNCHANGED <<deadline, mono, skew, jumped, ctxDone, fired, past>>

Due == Now >= deadline

(* The sleep ends: fire, or sleep again. *)
Wake ==
    /\ pc = "sleeping" /\ mono >= wakeAt
    /\ IF Due THEN pc' = "done" /\ fired' = Now /\ UNCHANGED wakeAt
       ELSE wakeAt' = mono + timerDelay /\ UNCHANGED <<pc, fired>>
    /\ UNCHANGED <<deadline, mono, skew, jumped, ctxDone, past>>

Canceled ==
    /\ pc = "sleeping" /\ ctxDone
    /\ pc' = "done"
    /\ UNCHANGED <<deadline, mono, skew, jumped, wakeAt, ctxDone, fired, past>>

(* Time passes; a goroutine that is to wake up does so before that. *)
Tick ==
    /\ mono < MaxTime /\ pc # "begin"
    /\ ~(pc = "sleeping" /\ (mono >= wakeAt \/ ctxDone))
    /\ mono' = mono + 1
    /\ past' = IF pc # "done" /\ Due THEN past + 1 ELSE 0
    /\ UNCHANGED <<deadline, skew, jumped, pc, wakeAt, ctxDone, fired>>

(* The wall clock is set, or the machine was suspended. *)
Jump ==
    /\ ~jumped /\ pc # "done"
    /\ jumped' = TRUE
    /\ skew' \in Jumps
    /\ past' = 0
    /\ UNCHANGED <<deadline, mono, pc, wakeAt, ctxDone, fired>>

Next == Cancel \/ Begin \/ Wake \/ Canceled \/ Tick \/ Jump

Spec == Init /\ [][Next]_vars /\ WF_vars(Begin \/ Wake \/ Canceled \/ Tick)

-----------------------------------------------------------------------------
(* Properties. *)

(* The timer never fires before its deadline on the wall clock, although it *)
(* sleeps on another clock.                                                 *)
NotEarly == fired # -1 => fired >= deadline

(* A timer whose deadline has passed on the wall clock, because the machine *)
(* slept or the clock was set, fires within MaximumSleep.                   *)
NotLate == past <= MaximumSleep
=============================================================================

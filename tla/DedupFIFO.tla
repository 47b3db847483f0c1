------------------------------ MODULE DedupFIFO ------------------------------
(***************************************************************************)
(* What the session inbox promises its reader: the inputs it accepts form  *)
(* one growing sequence in which no input ID occurs twice and no ID that   *)
(* was known beforehand occurs at all, and the reader is handed that       *)
(* sequence in order, one input at a time, until the inbox is closed.      *)
(* Once closed, nothing is accepted or handed out any more; what was       *)
(* accepted and not handed out is lost, because the inbox is in memory.    *)
(***************************************************************************)
EXTENDS Naturals, Sequences

CONSTANTS
    Inputs,     \* records with at least an id field
    Known       \* IDs that were accepted in an earlier life of the session

VARIABLES
    accepted,   \* every input accepted, in acceptance order
    handed,     \* how many of them the reader has been given
    open        \* FALSE once the inbox is closed

fifoVars == <<accepted, handed, open>>

Init ==
    /\ accepted = << >>
    /\ handed = 0
    /\ open = TRUE

Accept(input) ==
    /\ open
    /\ input.id \notin Known
    /\ \A k \in 1..Len(accepted) : accepted[k].id # input.id
    /\ accepted' = Append(accepted, input)
    /\ UNCHANGED <<handed, open>>

Hand ==
    /\ open
    /\ handed < Len(accepted)
    /\ handed' = handed + 1
    /\ UNCHANGED <<accepted, open>>

Close ==
    /\ open
    /\ open' = FALSE
    /\ UNCHANGED <<accepted, handed>>

Next ==
    \/ \E input \in Inputs : Accept(input)
    \/ Hand
    \/ Close

Spec == Init /\ [][Next]_fifoVars
=============================================================================

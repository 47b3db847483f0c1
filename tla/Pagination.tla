----------------------------- MODULE Pagination -----------------------------
(***************************************************************************)
(* The pages in which the fetch and read tools print a long text            *)
(* (gui/tools.go, paginate), and the agent that follows the note at the end *)
(* of each page to the next one.                                            *)
(*                                                                          *)
(* A text is its bytes: TRUE for a byte that starts a character. Integers   *)
(* are those of the machine, from -MaxInt - 1 to MaxInt.                    *)
(***************************************************************************)
EXTENDS Integers, Sequences, FiniteSets, FiniteSetsExt

CONSTANTS
    Texts,   \* texts
    Limits,  \* the -max flag
    Offsets, \* the -offset flag of the first call
    MaxInt

VARIABLES
    text, limit,
    offset, \* the offset of the next call
    pages,  \* history: the pages so far: [from, to]
    at      \* "read", "done", "stuck" or "panicked"

vars == <<text, limit, offset, pages, at>>

Total == Len(text)

(* text[i], counted from 0, starts a character. *)
RuneStart(i) == text[i + 1]

Wrap(n) == IF n > MaxInt THEN n - 2 * (MaxInt + 1) ELSE n

Clamped == Min({Max({offset, 0}), Total})

(* The next character at or after the offset. *)
From == Min({i \in Clamped .. Total : i = Total \/ RuneStart(i)})

(* The last boundary that is not behind the limit, or none. *)
OnBoundary(from, end) ==
    IF end <= from THEN end ELSE Max({i \in from .. end : i = from \/ RuneStart(i)})

To ==
    IF limit > 0 /\ Wrap(From + limit) < Total THEN OnBoundary(From, Wrap(From + limit)) ELSE Total

Init ==
    /\ text \in Texts /\ limit \in Limits /\ offset \in Offsets
    /\ pages = <<>> /\ at = "read"

(* One call; the note names the offset of the rest. A page that is empty    *)
(* has a note that names its own offset: every further call is the same.    *)
ReadPage ==
    /\ at = "read"
    /\ IF To < From
       THEN at' = "panicked" /\ UNCHANGED <<pages, offset>> \* text[offset:end]
       ELSE /\ pages' = Append(pages, [from |-> From, to |-> To])
            /\ offset' = To
            /\ at' = IF To = Total THEN "done" ELSE IF To = From THEN "stuck" ELSE "read"
    /\ UNCHANGED <<text, limit>>

Next == ReadPage

Spec == Init /\ [][Next]_vars

-----------------------------------------------------------------------------
(* Properties. *)

(* The pages are one piece of the text: none begins inside a character, and *)
(* every one begins where the last one ended, so nothing is lost or printed *)
(* twice; none is longer than the limit.                                    *)
PagesJoin ==
    \A i \in DOMAIN pages :
        /\ pages[i].from = Total \/ RuneStart(pages[i].from)
        /\ i > 1 => pages[i].from = pages[i - 1].to
        /\ limit > 0 => pages[i].to - pages[i].from <= limit

(* The bytes of the character at i. *)
Width(i) == Min({n \in 1 .. Total - i : i + n = Total \/ RuneStart(i + n)})

(* The comment on paginate promises "a note on how to continue": following  *)
(* the notes reaches the end of the text, each page going further than the  *)
(* last. There are two exceptions: a character that is wider than the limit *)
(* is never passed, and a limit with which the sum overflows makes the call *)
(* panic, on the first page or on a later one.                              *)
NotesAdvance ==
    /\ at \in {"read", "done"} => \A i \in DOMAIN pages : pages[i].from < pages[i].to \/ pages[i].to = Total
    /\ at = "done" => pages[Len(pages)].to = Total
    /\ at = "stuck" => limit < Width(offset)
    /\ at = "panicked" => From + limit > MaxInt
=============================================================================

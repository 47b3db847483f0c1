----------------------------- MODULE WebSearch -----------------------------
(***************************************************************************)
(* The search command of the web-research skill (gui/tools.go, cmdSearch):  *)
(* through the Brave API if there is a key, else by reading the page of     *)
(* results DuckDuckGo serves, which mixes results with advertisements and   *)
(* may ask for a CAPTCHA instead.                                           *)
(*                                                                          *)
(* A page is the sequence of its elements in the order of the document,     *)
(* each with its depth and its class.                                       *)
(***************************************************************************)
EXTENDS Naturals, Sequences, SequencesExt, FiniteSets, FiniteSetsExt

CONSTANTS
    MaxBlocks, \* blocks of a page
    Counts,    \* values of -n
    Nothing

(* A block of the page: a result or an advertisement, with a title that is  *)
(* a link and perhaps a snippet; or the dialog of a CAPTCHA.                *)
Blocks == [class : {"result", "result--ad"}, snippet : BOOLEAN]
            \cup [class : {"anomaly-modal__modal"}, snippet : {FALSE}]

VARIABLES
    at,      \* "flags", "asked", "page", "answer" or "done"
    args,    \* [query, n, key]
    page,    \* the blocks of the page DuckDuckGo serves
    listed,  \* what the Brave API answers: a number of results
    results, \* sequence of [title, snippet]: numbers of blocks, or Nothing
    err

vars == <<at, args, page, listed, results, err>>

Init ==
    /\ at = "flags"
    /\ args \in [query : BOOLEAN, n : Counts, key : BOOLEAN]
    /\ page = <<>> /\ listed = 0
    /\ results = <<>> /\ err = FALSE

-----------------------------------------------------------------------------
(* The walk. *)

Node(depth, class, block) == [depth |-> depth, class |-> class, block |-> block]

BlockNodes(b, i) ==
    <<Node(1, b.class, i)>>
        \o (IF b.class = "anomaly-modal__modal" THEN <<>> ELSE <<Node(2, "result__a", i)>>)
        \o (IF b.snippet THEN <<Node(2, "result__snippet", i)>> ELSE <<>>)

Nodes == <<Node(0, "body", 0)>> \o FlattenSeq([i \in DOMAIN page |-> BlockNodes(page[i], i)])

(* walk does not visit what is inside an element for which the visitor      *)
(* answered no.                                                             *)
Skipped(state, node) == node.depth > state.skip

None == 99 \* a depth nothing is deeper than

(* The visitor of duckDuckGoSearch. *)
Visit(state, node) ==
    IF Skipped(state, node) THEN state
    ELSE CASE node.class = "anomaly-modal__modal" ->
                [state EXCEPT !.challenged = TRUE, !.skip = node.depth]
           [] node.class = "result--ad" ->
                [state EXCEPT !.skip = node.depth]
           [] node.class = "result__a" ->
                [state EXCEPT !.results = Append(@, [title |-> node.block, snippet |-> Nothing]),
                              !.skip = node.depth]
           [] node.class = "result__snippet" /\ state.results # <<>> ->
                [state EXCEPT !.results[Len(state.results)].snippet = node.block, !.skip = node.depth]
           [] OTHER ->
                [state EXCEPT !.skip = None]

Walked == FoldLeft(Visit, [results |-> <<>>, challenged |-> FALSE, skip |-> None], Nodes)

-----------------------------------------------------------------------------
(* The command. *)

Fail ==
    /\ err' = TRUE /\ at' = "done"

(* The flags are wrong, or the query is empty. *)
ParseFlags ==
    /\ at = "flags"
    /\ \/ Fail
       \/ args.query /\ at' = "asked" /\ UNCHANGED err
    /\ UNCHANGED <<args, page, listed, results>>

(* The request fails: no answer in time, or another status than 200. *)
RequestFails ==
    /\ at = "asked"
    /\ Fail
    /\ UNCHANGED <<args, page, listed, results>>

(* braveSearch asks for the number of results within the API's limits and   *)
(* takes what it is given.                                                  *)
BraveSearch ==
    /\ at = "asked" /\ args.key
    /\ \E n \in 0 .. Max({args.n, 1}) :
        /\ listed' = n
        /\ results' = [i \in 1 .. n |-> [title |-> i, snippet |-> i]]
    /\ at' = "answer"
    /\ UNCHANGED <<args, page, err>>

(* duckDuckGoSearch is served a page ... *)
ServePage ==
    /\ at = "asked" /\ ~args.key
    /\ \E n \in 0 .. MaxBlocks : page' \in [1 .. n -> Blocks]
    /\ at' = "page"
    /\ UNCHANGED <<args, listed, results, err>>

(* A CAPTCHA instead of results. *)
Challenged == Walked.results = <<>> /\ Walked.challenged

(* ... and walks over it. *)
DuckDuckGoSearch ==
    /\ at = "page"
    /\ IF Challenged
       THEN Fail /\ UNCHANGED results
       ELSE /\ results' = SubSeq(Walked.results, 1, Min({Len(Walked.results), Max({args.n, 1})}))
            /\ at' = "answer" /\ UNCHANGED err
    /\ UNCHANGED <<args, page, listed>>

(* The results are printed, or that there are none. *)
PrintResults ==
    /\ at = "answer"
    /\ at' = "done"
    /\ UNCHANGED <<args, page, listed, results, err>>

Next == ParseFlags \/ RequestFails \/ BraveSearch \/ ServePage \/ DuckDuckGoSearch \/ PrintResults

Spec == Init /\ [][Next]_vars

-----------------------------------------------------------------------------
(* Properties. *)

IsResult(i) == page[i].class = "result"

(* The results are those of the page in its order, without advertisements,  *)
(* and each has its own snippet: neither that of an advertisement next to   *)
(* it nor that of another result.                                           *)
ResultsAsServed ==
    page # <<>> =>
        \A k \in DOMAIN results :
            LET i == results[k].title
            IN  /\ IsResult(i)
                /\ Cardinality({j \in 1 .. i : IsResult(j)}) = k
                /\ results[k].snippet = IF page[i].snippet THEN i ELSE Nothing

(* "No results." is never said of a search that was not answered: a page    *)
(* that asks for a CAPTCHA and has no results is an error.                  *)
EmptyIsEmpty ==
    at \in {"answer", "done"} /\ ~err /\ results = <<>> =>
        IF args.key THEN listed = 0
        ELSE \A i \in DOMAIN page : page[i].class = "result--ad"
=============================================================================

------------------------------ MODULE HtmlText ------------------------------
(***************************************************************************)
(* How a page becomes text (gui/tools.go, textWriter): the nodes are        *)
(* visited in order, and white space, line breaks and marks are written     *)
(* around the words.                                                        *)
(*                                                                          *)
(* A word is the number of its place in the page. The buffer also holds     *)
(* spaces, line ends and marks (a bullet, a bracket, a fence ...).          *)
(***************************************************************************)
EXTENDS Integers, Sequences, FiniteSets, FiniteSetsExt, SequencesExt

CONSTANTS
    MaxWords, MaxTags, MaxDepth,
    Tags,   \* tags that are opened and closed
    Voids,  \* tags without contents
    Shapes  \* texts of a node: sequences over W, SP and NL

W == 1
SP == 0
NL == -1
MK == -2

VARIABLES
    writer,  \* [buffer, spacing]
    pre,     \* open pre elements
    stack,   \* open elements: [tag, words]
    words,   \* words of the page so far
    tags,    \* tags so far
    visible, \* history: words of visible nodes
    gaps,    \* history: visible words after white space or a break
    since,   \* history: what came since the last visible word
    verbatim, raw \* history: text since the last tag inside pre; whether there was any

vars == <<writer, pre, stack, words, tags, visible, gaps, since, verbatim, raw>>

Nothing == [white |-> FALSE, break |-> FALSE]

Init ==
    /\ writer = [buffer |-> <<>>, spacing |-> FALSE]
    /\ pre = 0 /\ stack = <<>> /\ words = 0 /\ tags = 0
    /\ visible = <<>> /\ gaps = {} /\ since = Nothing
    /\ verbatim = <<>> /\ raw = FALSE

-----------------------------------------------------------------------------
(* The writer. *)

AtLineStart(buffer) == buffer = <<>> \/ Last(buffer) = NL

Write(w, symbols) ==
    [buffer |-> w.buffer \o (IF w.spacing /\ ~AtLineStart(w.buffer) THEN <<SP>> ELSE <<>>) \o symbols,
     spacing |-> FALSE]

(* The length of the buffer without the symbols at its end. *)
LengthBefore(buffer, symbol) == Max({i \in 0 .. Len(buffer) : i = 0 \/ buffer[i] # symbol})

Trimmed(buffer) == SubSeq(buffer, 1, LengthBefore(buffer, SP))

(* Line ends that are missing at the end of the buffer. *)
Missing(buffer, count) == Max({0, count - (Len(buffer) - LengthBefore(buffer, NL))})

Newline(w, count) ==
    LET buffer == Trimmed(w.buffer)
    IN  [buffer |-> buffer \o (IF buffer = <<>> THEN <<>> ELSE [i \in 1 .. Missing(buffer, count) |-> NL]),
         spacing |-> FALSE]

(* textWriter.text outside pre: white space is noted, words are written.    *)
Text(w, text) ==
    FoldLeft(LAMBDA v, s : IF s \in {SP, NL} THEN [v EXCEPT !.spacing = TRUE] ELSE Write(v, <<s>>), w, text)

(* Inside pre the text is copied. *)
RawText(w, text) == [w EXCEPT !.buffer = @ \o text]

-----------------------------------------------------------------------------
(* Tags. *)

Gap(tag) == CASE tag \in {"p", "h", "pre"} -> 2 [] OTHER -> 1

Breaks == {"p", "h", "pre", "div", "li", "tr", "br", "hr"}

Opened(w, tag) ==
    CASE tag \in {"p", "div", "tr"} -> Newline(w, Gap(tag))
      [] tag \in {"h", "li"}        -> Write(Newline(w, Gap(tag)), <<MK, SP>>)
      [] tag = "pre"                -> Newline(Write(Newline(w, 2), <<MK>>), 1)
      [] tag = "a"                  -> Write(w, <<MK>>)
      [] tag \in {"td", "b"}        -> w

Closed(w, tag) ==
    CASE tag \in {"p", "div", "tr", "h", "li"} -> Newline(w, Gap(tag))
      [] tag = "td"  -> [Write(w, <<SP, MK>>) EXCEPT !.spacing = TRUE]
      [] tag = "pre" -> Newline(Write(Newline(w, 1), <<MK>>), 2)
      [] tag = "a"   -> [buffer |-> Append(w.buffer, MK), spacing |-> FALSE]
      [] tag = "b"   -> w

VoidTag(w, tag) ==
    CASE tag = "br"  -> Newline(w, 1)
      [] tag = "hr"  -> Newline(Write(Newline(w, 2), <<MK>>), 2)
      [] tag = "img" -> Write(w, <<MK>>)

(* A break is passed: a cell ends with one, and begins after another cell   *)
(* or with its row.                                                         *)
Passed(tag, breaks) == since' = IF tag \in breaks THEN [since EXCEPT !.break = TRUE] ELSE since

-----------------------------------------------------------------------------
(* The visit. *)

InRow == stack # <<>> /\ Last(stack).tag = "tr"

(* The parser leaves nothing but cells in a row, and cells in nothing else. *)
Allowed(tag) == InRow <=> tag = "td"

OpenTag ==
    /\ tags < MaxTags /\ Len(stack) < MaxDepth
    /\ \E tag \in {t \in Tags : Allowed(t)} :
        /\ writer' = Opened(writer, tag)
        /\ pre' = IF tag = "pre" THEN pre + 1 ELSE pre
        /\ stack' = Append(stack, [tag |-> tag, words |-> Len(visible)])
        /\ Passed(tag, Breaks)
    /\ tags' = tags + 1 /\ verbatim' = <<>>
    /\ UNCHANGED <<words, visible, gaps, raw>>

(* A link without text is not written as one, so it is not opened as "a".   *)
CloseTag ==
    /\ stack # <<>>
    /\ LET tag == Last(stack).tag
       IN  /\ tag = "a" => Len(visible) > Last(stack).words
           /\ writer' = Closed(writer, tag)
           /\ pre' = IF tag = "pre" THEN pre - 1 ELSE pre
           /\ Passed(tag, Breaks \cup {"td"})
    /\ stack' = Front(stack)
    /\ verbatim' = <<>>
    /\ UNCHANGED <<words, tags, visible, gaps, raw>>

Void ==
    /\ tags < MaxTags
    /\ \E tag \in {t \in Voids : Allowed(t)} : writer' = VoidTag(writer, tag) /\ Passed(tag, Breaks)
    /\ tags' = tags + 1 /\ verbatim' = <<>>
    /\ UNCHANGED <<pre, stack, words, visible, gaps, raw>>

(* The words of a shape, numbered from the next word on. *)
Numbered(shape) ==
    [i \in DOMAIN shape |->
        IF shape[i] = W THEN words + Cardinality({j \in 1 .. i : shape[j] = W}) ELSE shape[i]]

(* What the reader of the page would see. *)
Seen(text) ==
    FoldLeft(LAMBDA h, s :
                IF s \in {SP, NL} THEN [h EXCEPT !.since.white = TRUE]
                ELSE [visible |-> Append(h.visible, s), since |-> Nothing,
                      gaps |-> IF h.since # Nothing THEN h.gaps \cup {s} ELSE h.gaps],
             [visible |-> visible, since |-> since, gaps |-> gaps], text)

TextNode ==
    /\ ~InRow
    /\ \E shape \in Shapes :
        LET text == Numbered(shape)
            seen == Seen(text)
            count == Cardinality({i \in DOMAIN shape : shape[i] = W})
        IN  /\ words + count <= MaxWords /\ (count = 0 => tags < MaxTags)
            /\ words' = words + count
            /\ tags' = IF count = 0 THEN tags + 1 ELSE tags
            /\ writer' = IF pre > 0 THEN RawText(writer, text) ELSE Text(writer, text)
            /\ verbatim' = IF pre > 0 THEN verbatim \o text ELSE <<>>
            /\ raw' = (raw \/ pre > 0)
            /\ visible' = seen.visible /\ gaps' = seen.gaps /\ since' = seen.since
            /\ UNCHANGED <<pre, stack>>

(* A script, a form, navigation, a hidden element: nothing of it is visited.*)
SkipNode ==
    /\ words < MaxWords
    /\ words' = words + 1
    /\ UNCHANGED <<writer, pre, stack, tags, visible, gaps, since, verbatim, raw>>

Next == OpenTag \/ CloseTag \/ Void \/ TextNode \/ SkipNode

Spec == Init /\ [][Next]_vars

-----------------------------------------------------------------------------
(* Properties. *)

buffer == writer.buffer

(* The symbols between a word and the one before it. *)
Before(word) ==
    LET j == CHOOSE j \in DOMAIN buffer : buffer[j] = word
        i == Max({0} \cup {i \in 1 .. (j - 1) : buffer[i] > 0})
    IN  {buffer[k] : k \in (i + 1) .. (j - 1)}

(* Exactly the visible words are written, in order, and words that the page *)
(* sets apart are apart in the text; words it joins, across the tags of one *)
(* line, stay joined.                                                       *)
WordsAsSeen ==
    /\ SelectSeq(buffer, LAMBDA s : s > 0) = visible
    /\ \A i \in 2 .. Len(visible) :
        IF visible[i] \in gaps THEN Before(visible[i]) # {}
        ELSE Before(visible[i]) \cap {SP, NL} = {}

(* Outside pre no line ends in a space and there is never more than one     *)
(* empty line.                                                              *)
Layout ==
    ~raw => \A i \in 1 .. (Len(buffer) - 1) :
        /\ ~(buffer[i] = SP /\ buffer[i + 1] = NL)
        /\ ~(i > 2 /\ buffer[i - 1] = NL /\ buffer[i] = NL /\ buffer[i + 1] = NL)

(* Inside pre the text is what it was, every space of it. *)
PreIsVerbatim == pre > 0 => SubSeq(buffer, Len(buffer) - Len(verbatim) + 1, Len(buffer)) = verbatim
=============================================================================

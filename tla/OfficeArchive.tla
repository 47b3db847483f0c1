--------------------------- MODULE OfficeArchive ---------------------------
(***************************************************************************)
(* Presentations, workbooks and OpenDocument files as text (gui/tools.go):  *)
(* the parts of a zip archive are put in the order of the numbers in their  *)
(* names, and each is read token by token. What docxText and xlsxSheet make *)
(* of a part is left out.                                                   *)
(*                                                                          *)
(* A part is made of paragraphs, a paragraph of runs, and a run of words;   *)
(* an entry of the shared strings is a paragraph. A part that is not well   *)
(* formed is read up to the token where that shows.                         *)
(***************************************************************************)
EXTENDS Naturals, Sequences, SequencesExt, FiniteSets, TLC

CONSTANTS
    Archives, \* archives: sequences of members [dir, digits], in the order of the archive
    Parts,    \* number -> the paragraphs of the part with that number
    Strings,  \* the shared strings of a workbook
    Sheets    \* the names of the sheets in the workbook

Blank == " " \* white space between elements

NewLine == "nl"

VARIABLES
    kind,    \* "pptx", "xlsx" or "odf"
    archive,
    queue,   \* parts that are still to be read, in order
    shared,  \* the shared strings that were read
    names,   \* the names of sheets that were read
    cut,     \* history: a part was not well formed
    out,     \* what was written: [heading, number, text]
    at       \* "open", "strings", "names", "parts", "done" or "failed"

vars == <<kind, archive, queue, shared, names, cut, out, at>>

Init ==
    /\ kind \in {"pptx", "xlsx", "odf"}
    /\ archive \in Archives
    /\ queue = <<>> /\ shared = <<>> /\ names = <<>> /\ cut = FALSE
    /\ out = <<>> /\ at = "open"

-----------------------------------------------------------------------------
(* The members. *)

(* trailingNumber: the digits at the end of the name are a number. *)
TrailingNumber(member) == FoldLeft(LAMBDA n, d : (10 * n) + d, 0, member.digits)

(* zipMembers: the parts that lie in the directory itself, by number. *)
ZipMembers ==
    SortSeq(SelectSeq(archive, LAMBDA member : member.dir = "parts"),
            LAMBDA a, b : TrailingNumber(a) < TrailingNumber(b))

Number(member) == FoldLeft(LAMBDA n, d : (10 * n) + d, 0, member.digits)

-----------------------------------------------------------------------------
(* Tokens: [start], [end] or [data]. *)

Start(tag) == [start |-> tag]

End(tag) == [end |-> tag]

Data(word) == [data |-> word]

IsStart(token, tag) == DOMAIN token = {"start"} /\ token.start = tag

IsEnd(token, tag) == DOMAIN token = {"end"} /\ token.end = tag

IsData(token) == DOMAIN token = {"data"}

RunTokens(run) ==
    <<Data(Blank), Start("r"), Start("t")>> \o [i \in DOMAIN run |-> Data(run[i])] \o <<End("t"), End("r")>>

(* A paragraph and what surrounds it. *)
ParagraphTokens(tag, paragraph) ==
    <<Data(Blank), Start(tag)>> \o FlattenSeq([i \in DOMAIN paragraph |-> RunTokens(paragraph[i])]) \o <<End(tag)>>

PartTokens(tag, paragraphs) ==
    FlattenSeq([i \in DOMAIN paragraphs |-> ParagraphTokens(tag, paragraphs[i])]) \o <<Data(Blank)>>

(* The beginnings of a part: the decoder stops at the end or at an error.   *)
Readable(tokens) == {SubSeq(tokens, 1, n) : n \in {Len(tokens), Len(tokens) \div 2, Len(tokens) \div 3}}

(* Inside a run. *)
InText(inText, token) == (inText \/ IsStart(token, "t")) /\ ~IsEnd(token, "t")

(* pptxText: the text of the runs; a paragraph is a line. *)
SlideStep(state, token) ==
    [inText |-> InText(state.inText, token),
     text |-> IF IsEnd(token, "p") THEN Append(state.text, NewLine)
              ELSE IF IsData(token) /\ state.inText THEN Append(state.text, token.data)
              ELSE state.text]

SlideText(tokens) == FoldLeft(SlideStep, [inText |-> FALSE, text |-> <<>>], tokens).text

(* odfText writes all character data. *)
OdfText(tokens) ==
    FoldLeft(LAMBDA text, token : IF IsEnd(token, "p") THEN Append(text, NewLine)
                                  ELSE IF IsData(token) THEN Append(text, token.data)
                                  ELSE text, <<>>, tokens)

(* The entry that is being read. *)
Current(state, token) == IF IsStart(token, "si") THEN <<>> ELSE state.current

(* The shared strings of xlsxText: the runs of an entry are joined. *)
StringStep(state, token) ==
    LET current == Current(state, token)
    IN  [inText |-> InText(state.inText, token),
         current |-> IF IsData(token) /\ state.inText THEN Append(current, token.data) ELSE current,
         shared |-> IF IsEnd(token, "si") THEN Append(state.shared, current) ELSE state.shared]

SharedStrings(tokens) ==
    FoldLeft(StringStep, [inText |-> FALSE, current |-> <<>>, shared |-> <<>>], tokens).shared

-----------------------------------------------------------------------------
(* Reading. *)

(* The archive is opened, or it is none. An OpenDocument file has one part, *)
(* which must be there.                                                     *)
Open ==
    /\ at = "open"
    /\ \/ /\ kind # "odf" \/ ZipMembers # <<>>
          /\ queue' = IF kind = "odf" THEN <<Head(ZipMembers)>> ELSE ZipMembers
          /\ at' = IF kind = "xlsx" THEN "strings" ELSE "parts"
       \/ UNCHANGED queue /\ at' = "failed"
    /\ UNCHANGED <<kind, archive, shared, names, cut, out>>

(* The shared strings, if there are any; an error ends the list. *)
ReadStrings ==
    /\ at = "strings"
    /\ \E tokens \in Readable(PartTokens("si", Strings)) \cup {<<>>} :
        /\ shared' = SharedStrings(tokens)
        /\ cut' = (tokens # PartTokens("si", Strings))
    /\ at' = "names"
    /\ UNCHANGED <<kind, archive, queue, names, out>>

(* The names of the sheets, in the order of the workbook. *)
ReadNames ==
    /\ at = "names"
    /\ \E n \in 0 .. Len(Sheets) :
        /\ names' = SubSeq(Sheets, 1, n)
        /\ cut' = (cut \/ n < Len(Sheets))
    /\ at' = "parts"
    /\ UNCHANGED <<kind, archive, queue, shared, out>>

(* The heading of a part counts the parts that were written. *)
Heading ==
    CASE kind = "pptx" -> <<"Slide", Len(out) + 1>>
      [] kind = "xlsx" -> IF Len(out) < Len(names) THEN <<names[Len(out) + 1], 0>> ELSE <<"Sheet", Len(out) + 1>>
      [] kind = "odf"  -> <<"", 0>>

(* What a part becomes. *)
TextOf(tokens) ==
    CASE kind = "pptx" -> SlideText(tokens)
      [] kind = "odf"  -> OdfText(tokens)
      [] kind = "xlsx" -> <<>>

(* One part: a slide that is not well formed is read as far as it goes.     *)
ReadPart ==
    /\ at = "parts" /\ queue # <<>>
    /\ LET tokens == PartTokens("p", Parts[Number(Head(queue))])
       IN  \E read \in (IF kind = "pptx" THEN Readable(tokens) ELSE {tokens}) :
            /\ out' = Append(out, [heading |-> Heading, number |-> Number(Head(queue)), text |-> TextOf(read)])
            /\ cut' = (cut \/ read # tokens)
    /\ queue' = Tail(queue)
    /\ UNCHANGED <<kind, archive, shared, names, at>>

(* A part cannot be opened, or a worksheet or document is not well formed:  *)
(* there is an error and no text.                                           *)
PartFails ==
    /\ at = "parts" /\ queue # <<>>
    /\ at' = "failed" /\ out' = <<>>
    /\ UNCHANGED <<kind, archive, queue, shared, names, cut>>

Finish ==
    /\ at = "parts" /\ queue = <<>>
    /\ at' = "done"
    /\ UNCHANGED <<kind, archive, queue, shared, names, cut, out>>

Next == Open \/ ReadStrings \/ ReadNames \/ ReadPart \/ PartFails \/ Finish

Spec == Init /\ [][Next]_vars

-----------------------------------------------------------------------------
(* Properties. *)

(* "slide10.xml sorts after slide9.xml": the slides of a presentation, and  *)
(* the sheets of a workbook, are written in the order of their numbers,     *)
(* whatever the order of the archive, each once and none left out.          *)
PartsInOrder ==
    /\ \A i, j \in DOMAIN out : i < j => out[i].number < out[j].number
    /\ at = "done" /\ kind # "odf" =>
        {out[i].number : i \in DOMAIN out} = {Number(m) : m \in {m \in ToSet(archive) : m.dir = "parts"}}

(* Words of a paragraph, run after run. *)
Words(paragraph) == FlattenSeq(paragraph)

(* A shared string that a cell refers to by its index is the text of that   *)
(* entry, its runs joined and nothing else in it: also when the list of     *)
(* strings breaks off, what was read of it is right.                        *)
SharedByIndex == \A i \in DOMAIN shared : shared[i] = Words(Strings[i])

(* A slide has one line for each of its paragraphs, with the words of its   *)
(* runs and no other text.                                                  *)
SlideIsLines ==
    kind = "pptx" /\ ~cut =>
        \A i \in DOMAIN out :
            LET paragraphs == Parts[out[i].number]
            IN  out[i].text = FlattenSeq([p \in DOMAIN paragraphs |-> Append(Words(paragraphs[p]), NewLine)])
=============================================================================

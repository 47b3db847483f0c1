----------------------------- MODULE SSEFramer -----------------------------
(***************************************************************************)
(* The framer of server-sent events (harness/primitives/remote_sse.go): the *)
(* bytes of a response arrive in chunks cut anywhere, and are put together  *)
(* to frames that end with an empty line. A line ends with CR, LF or CR LF, *)
(* so a frame that ends with a CR is given out before it is known whether   *)
(* an LF belongs to it.                                                     *)
(*                                                                          *)
(* append is modelled byte by byte: what it does to a segment up to a line  *)
(* ending is what it does to its bytes one after the other.                 *)
(***************************************************************************)
EXTENDS Naturals, Sequences, SequencesExt, FiniteSetsExt

CONSTANTS
    CR, LF,       \* the line endings
    Data,         \* other bytes
    MaxFrameSize, \* maximumFrameSize
    MaxBytes,     \* bound: bytes of the response
    MaxChunk      \* bound: bytes of a chunk

VARIABLES
    mode,     \* frameDelimiter: "strip" or "pass through"
    framer,   \* the framer's fields
    fed,      \* history: the bytes appended
    frames,   \* history: the frames given out
    state     \* "open", "finished" or "failed"

vars == <<mode, framer, fed, frames, state>>

NewFramer == [wireSize |-> 0, emittedOffset |-> 0, frame |-> <<>>, delimiterStart |-> 0,
              lineHasData |-> FALSE, afterCR |-> FALSE, frameEndedAtCR |-> FALSE, endedSize |-> 0]

Init ==
    /\ mode \in {"strip", "pass through"}
    /\ framer = NewFramer
    /\ fed = <<>> /\ frames = <<>>
    /\ state = "open"

(* A frame's data: in strip mode without its delimiter. *)
FrameData(f, delimiterStart) ==
    IF mode = "strip" THEN SubSeq(f.frame, 1, delimiterStart) ELSE f.frame

(* takeFrame *)
TakeFrame(acc, delimiterStart) ==
    LET data == FrameData(acc.f, delimiterStart)
    IN  [acc EXCEPT
           !.out = Append(@, [offset |-> acc.f.emittedOffset, data |-> data]),
           !.f = [@ EXCEPT !.emittedOffset = @ + Len(data), !.wireSize = 0, !.frame = <<>>,
                           !.delimiterStart = 0]]

(* appendFrameBytes: a byte more fits in the frame. *)
Fits(f) == f.wireSize < MaxFrameSize

AppendByte(f, b) == [f EXCEPT !.frame = Append(@, b), !.wireSize = @ + 1]

AfterCR(f) == [f EXCEPT !.afterCR = FALSE, !.frameEndedAtCR = FALSE, !.endedSize = 0]

Counted(f) == [f EXCEPT !.emittedOffset = @ + 1]

Added(f, out) ==
    IF out # <<>> THEN [out EXCEPT ![Len(out)].data = Append(@, LF)]
    ELSE <<[offset |-> f.emittedOffset, data |-> <<LF>>]>>

(* The LF of a CR LF whose CR ended a frame: in pass-through mode it is     *)
(* added to that frame, or is a frame of its own in a later chunk.          *)
LateLF(acc) ==
    IF acc.f.endedSize >= MaxFrameSize THEN [acc EXCEPT !.err = TRUE]
    ELSE LET g == AfterCR(acc.f)
         IN  IF mode = "strip" THEN [acc EXCEPT !.f = g]
             ELSE [acc EXCEPT !.f = Counted(g), !.out = Added(g, @)]

(* A byte that ends a line: an empty line ends the frame. *)
LineEnds(acc, b) ==
    LET f == acc.f
        g == [f EXCEPT !.delimiterStart = IF f.lineHasData THEN Len(f.frame) - 1 ELSE @,
                       !.lineHasData = FALSE,
                       !.afterCR = (b = CR),
                       !.frameEndedAtCR = (b = CR /\ ~f.lineHasData),
                       !.endedSize = IF b = CR /\ ~f.lineHasData THEN f.wireSize ELSE @]
    IN  IF f.lineHasData THEN [acc EXCEPT !.f = g]
        ELSE TakeFrame([acc EXCEPT !.f = g], g.delimiterStart)

IsLateLF(f, b) == f.afterCR /\ b = LF

Byte(acc, b) ==
    IF acc.err THEN acc
    ELSE IF IsLateLF(acc.f, b) /\ acc.f.frameEndedAtCR THEN LateLF(acc)
    ELSE IF ~Fits(acc.f) THEN [acc EXCEPT !.err = TRUE]
    ELSE IF IsLateLF(acc.f, b) THEN [acc EXCEPT !.f = AppendByte([@ EXCEPT !.afterCR = FALSE], b)]
    ELSE LET f == AppendByte(AfterCR(acc.f), b)
         IN  IF b \in {CR, LF} THEN LineEnds([acc EXCEPT !.f = f], b)
             ELSE [acc EXCEPT !.f = [f EXCEPT !.lineHasData = TRUE]]

(* A chunk of the response is read; the frames it completes are given out,  *)
(* before an error is reported too.                                         *)
AppendChunk ==
    /\ state = "open"
    /\ \E n \in 1..MaxChunk : \E chunk \in [1..n -> Data \cup {CR, LF}] :
          /\ Len(fed) + n <= MaxBytes
          /\ LET acc == FoldLeft(Byte, [f |-> framer, out |-> <<>>, err |-> FALSE], chunk)
             IN  /\ framer' = acc.f
                 /\ frames' = frames \o acc.out
                 /\ state' = IF acc.err THEN "failed" ELSE "open"
          /\ fed' = fed \o chunk
    /\ UNCHANGED mode

(* finish: what is left of a frame is given out in pass-through mode. *)
Finish ==
    /\ state = "open"
    /\ state' = "finished"
    /\ LET f == AfterCR(framer)
       IN  IF f.frame = <<>> \/ mode = "strip"
           THEN /\ framer' = [f EXCEPT !.wireSize = 0, !.frame = <<>>, !.delimiterStart = 0]
                /\ UNCHANGED frames
           ELSE LET acc == TakeFrame([f |-> f, out |-> <<>>, err |-> FALSE], Len(f.frame))
                IN  framer' = acc.f /\ frames' = frames \o acc.out
    /\ UNCHANGED <<mode, fed>>

Next == AppendChunk \/ Finish

Spec == Init /\ [][Next]_vars

-----------------------------------------------------------------------------
(* What the frames of a stream are, told from the whole of it. *)

IsLineEnd(i) == fed[i] = CR \/ (fed[i] = LF /\ (i = 1 \/ fed[i - 1] # CR))

(* Positions at which a frame ends: the ends of empty lines. *)
FrameEnds == {i \in DOMAIN fed : IsLineEnd(i) /\ (i = 1 \/ fed[i - 1] \in {CR, LF})}

(* The first byte of the frame that ends at e. *)
FrameStart(e) ==
    LET before == {i \in FrameEnds : i < e}
        last == Max(before)
    IN  IF before = {} THEN 1
        ELSE IF fed[last] = CR /\ last < Len(fed) /\ fed[last + 1] = LF THEN last + 2 ELSE last + 1

(* Its text: up to the last byte that is not of a line ending. *)
FrameText(e) ==
    SubSeq(fed, FrameStart(e),
           Max({FrameStart(e) - 1} \cup {i \in FrameStart(e)..e : fed[i] \notin {CR, LF}}))

Frames ==
    LET ends == SelectSeq([i \in DOMAIN fed |-> i], LAMBDA i : i \in FrameEnds)
    IN  [k \in DOMAIN ends |-> FrameText(ends[k])]

-----------------------------------------------------------------------------
(* Properties. *)

TypeOK ==
    /\ Len(framer.frame) <= MaxFrameSize /\ framer.wireSize = Len(framer.frame)
    /\ framer.delimiterStart <= Len(framer.frame)
    /\ state \in {"open", "finished", "failed"}

(* Wherever the response was cut into chunks, the stripped frames are the   *)
(* events of the stream: none is lost, split or joined with the next, and   *)
(* CR LF counts as one line ending even when it was cut in two.             *)
StrippedFramesAreEvents ==
    mode = "strip" /\ state # "failed" => [k \in DOMAIN frames |-> frames[k].data] = Frames

Emitted == FlattenSeq([k \in DOMAIN frames |-> frames[k].data])

(* In pass-through mode the frames and what is held back are the stream,    *)
(* byte for byte.                                                           *)
PassedThroughIsWhole ==
    mode = "pass through" /\ state # "failed" => Emitted \o framer.frame = fed

(* A frame's offset is the number of bytes given out before it, and no      *)
(* frame exceeds the maximum, its delimiter included.                       *)
OffsetsAndSizes ==
    \A k \in DOMAIN frames :
        /\ frames[k].offset = Len(FlattenSeq([j \in 1..(k - 1) |-> frames[j].data]))
        /\ Len(frames[k].data) <= MaxFrameSize
=============================================================================

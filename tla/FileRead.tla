------------------------------ MODULE FileRead ------------------------------
(***************************************************************************)
(* Reading a range of a file in chunks (ReadFile in                         *)
(* harness/primitives/file.go) while other processes append to the file,    *)
(* truncate it or rewrite it, the receiver is slow, and the context may be  *)
(* cancelled.  A byte is the version of the file it was written in.         *)
(***************************************************************************)
EXTENDS Naturals, Sequences, SequencesExt, FiniteSets

CONSTANTS
    Offsets, Counts, \* requests: where to start, how many bytes at most
    Kinds,           \* what the path may be: "regular", "other", "missing"
    MaxSize,         \* bound: size of the file
    ChunkSize,       \* IOReadChunkSize
    MaxChanges       \* bound: changes of the file by others

VARIABLES
    request,  \* [offset, count]
    kind,     \* what the path names
    file,     \* the file's bytes
    changes,  \* history: changes of the file so far
    pc,
    ctxDone,
    size,     \* the size found when the file was opened
    offset, remaining,
    chunk,    \* read and not yet delivered
    open,     \* the descriptor is open
    events    \* history: the events received

vars == <<request, kind, file, changes, pc, ctxDone, size, offset, remaining, chunk, open, events>>

Init ==
    /\ request \in [offset : Offsets, count : Counts]
    /\ kind \in Kinds
    /\ \E n \in 0..MaxSize : file = [i \in 1..n |-> 0]
    /\ changes = 0
    /\ pc = "begin"
    /\ ctxDone = FALSE
    /\ size = 0 /\ offset = 0 /\ remaining = 0
    /\ chunk = <<>>
    /\ open = FALSE
    /\ events = <<>>

Cancel ==
    /\ ~ctxDone /\ pc # "done"
    /\ ctxDone' = TRUE
    /\ UNCHANGED <<request, kind, file, changes, pc, size, offset, remaining, chunk, open, events>>

(* Somebody else changes the file. *)
Change ==
    /\ changes < MaxChanges /\ pc # "done"
    /\ changes' = changes + 1
    /\ \E n \in 0..MaxSize :
        file' = [i \in 1..n |-> IF i <= Len(file) THEN file[i] ELSE changes + 1]
    /\ UNCHANGED <<request, kind, pc, ctxDone, size, offset, remaining, chunk, open, events>>

Smaller(a, b) == IF a < b THEN a ELSE b

Closed == FALSE

(* The terminal event; the descriptor is closed before it. *)
Finish(type) ==
    /\ pc' = "done"
    /\ open' = Closed
    /\ events' = Append(events, [type |-> type, offset |-> 0, data |-> <<>>])

(* streamFile and inspectAndStreamFile: open, inspect, bound the range.     *)
Open ==
    /\ pc = "begin"
    /\ IF ctxDone THEN Finish("canceled") /\ UNCHANGED <<size, offset, remaining>>
       ELSE IF kind # "regular" THEN Finish("failed") /\ UNCHANGED <<size, offset, remaining>>
       ELSE /\ pc' = "next" /\ open' = TRUE
            /\ size' = Len(file)
            /\ offset' = request.offset
            /\ remaining' = IF request.offset < Len(file)
                            THEN Smaller(request.count, Len(file) - request.offset) ELSE 0
            /\ UNCHANGED events
    /\ UNCHANGED <<request, kind, file, changes, ctxDone, chunk>>

(* A read must return what was asked for: the range was there at first. *)
Whole(data, want) == Len(data) = want

(* One ReadAt, after which the context is looked at again. *)
Read ==
    /\ pc = "next" /\ remaining > 0
    /\ LET want == Smaller(remaining, ChunkSize)
           data == SubSeq(file, offset + 1, Smaller(offset + want, Len(file)))
       IN  IF ctxDone THEN Finish("canceled") /\ UNCHANGED chunk
           ELSE IF ~Whole(data, want) THEN Finish("failed") /\ UNCHANGED chunk
           ELSE /\ chunk' = data
                /\ pc' = "sending"
                /\ UNCHANGED <<open, events>>
    /\ UNCHANGED <<request, kind, file, changes, ctxDone, size, offset, remaining>>

NextOffset == offset + Len(chunk)

(* The receiver takes the chunk. *)
Deliver ==
    /\ pc = "sending"
    /\ events' = Append(events, [type |-> "output", offset |-> offset, data |-> chunk])
    /\ offset' = NextOffset
    /\ remaining' = remaining - Len(chunk)
    /\ chunk' = <<>>
    /\ pc' = "next"
    /\ UNCHANGED <<request, kind, file, changes, ctxDone, size, open>>

(* finishCanceledRead: the close may fail. *)
GiveUp ==
    /\ pc = "sending" /\ ctxDone
    /\ \E type \in {"canceled", "failed"} : Finish(type)
    /\ UNCHANGED <<request, kind, file, changes, ctxDone, size, offset, remaining, chunk>>

SameSize == Len(file) = size

(* After the last chunk: the size must not have changed. *)
Complete ==
    /\ pc = "next" /\ remaining = 0
    /\ IF ctxDone THEN Finish("canceled")
       ELSE IF ~SameSize THEN Finish("failed")
       ELSE Finish("completed")
    /\ UNCHANGED <<request, kind, file, changes, ctxDone, size, offset, remaining, chunk>>

(* An operation on the descriptor fails: to inspect it, to read, to close.  *)
IOFails ==
    /\ pc \in {"begin", "next"}
    /\ Finish("failed")
    /\ UNCHANGED <<request, kind, file, changes, ctxDone, size, offset, remaining, chunk>>

Next == Cancel \/ Change \/ Open \/ Read \/ Deliver \/ GiveUp \/ Complete \/ IOFails

Spec == Init /\ [][Next]_vars

-----------------------------------------------------------------------------
(* Properties. *)

Outputs == SelectSeq(events, LAMBDA event : event.type = "output")

(* Output is contiguous from the requested offset and never beyond the      *)
(* requested count; and a completed read has delivered the whole range,     *)
(* however the file was cut short or grown meanwhile.                       *)
RangeIsWhole ==
    LET total == FoldLeft(LAMBDA n, event : n + Len(event.data), 0, Outputs)
        at(i) == FoldLeft(LAMBDA n, event : n + Len(event.data), 0, SubSeq(Outputs, 1, i - 1))
    IN  /\ total <= request.count
        /\ \A i \in DOMAIN Outputs :
               Outputs[i].data # <<>> /\ Outputs[i].offset = request.offset + at(i)
        /\ events # <<>> /\ Last(events).type = "completed" =>
               total = IF request.offset < size THEN Smaller(request.count, size - request.offset) ELSE 0

(* A read ends with one terminal event, and leaves no descriptor open.      *)
TypeOK ==
    /\ pc \in {"begin", "next", "sending", "done"}
    /\ pc = "done" => ~open
    /\ pc = "done" <=> \E i \in DOMAIN events : events[i].type # "output"
    /\ Len(chunk) <= ChunkSize
=============================================================================

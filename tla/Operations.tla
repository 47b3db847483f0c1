----------------------------- MODULE Operations -----------------------------
(***************************************************************************)
(* Operation values and the steps their actors take (operation.go),         *)
(* the bounding of output (output.go), and the operations that need few     *)
(* primitives: values, skill uses, images and remote jobs.                  *)
(*                                                                          *)
(* An actor is handed one primitive event at a time, or none when it is     *)
(* started or resumed, and answers with a step: the next checkpoint of the  *)
(* operation, if it has one, and the primitives to start.  `mem' is what    *)
(* the actor keeps in memory only; a restart begins with NoMemory.          *)
(***************************************************************************)
EXTENDS Naturals, Integers, Sequences, FiniteSetsExt

CONSTANTS
    MaxSourceBytes,  \* MaxViewImageSourceBytes, in units of the model
    MaxSourcePixels, \* the configured bound on width * height
    MaxSize,         \* bound on the encoded content
    MaxWidth, MaxHeight

-----------------------------------------------------------------------------
(* harness/operation/output.go: cutting a text down to a number of runes,   *)
(* keeping its beginning and its end.                                       *)
(*                                                                          *)
(* A text is a sequence of bytes.  Bytes are told apart only as far as      *)
(* UTF-8 decoding tells them apart, for the sub-encoding of one- and        *)
(* two-byte runes: Ascii stands for itself, Lead opens a two-byte rune that *)
(* Cont continues, and a Lead or a Cont without its partner is one invalid  *)
(* rune of one byte, as in unicode/utf8.                                    *)

Ascii == "a"
Lead == "l"
Cont == "c"

(* The longest rune of the sub-encoding; utf8.UTFMax is 4 in the full one. *)
UTFMax == 2

(* The width of the rune that starts at byte i of text. *)
RuneSize(text, i) ==
    IF text[i] = Lead /\ i < Len(text) /\ text[i + 1] = Cont THEN 2 ELSE 1

(* The width of the rune that ends at byte i of text. *)
LastRuneSize(text, i) ==
    IF text[i] = Cont /\ i > 1 /\ text[i - 1] = Lead THEN 2 ELSE 1

(* The number of bytes of the first n runes of text, or of all of them. *)
HeadBytes(text, n) ==
    LET end[k \in 0 .. n] ==
          IF k = 0 THEN 0
          ELSE IF end[k - 1] = Len(text) THEN Len(text)
          ELSE end[k - 1] + RuneSize(text, end[k - 1] + 1)
    IN  end[n]

(* The number of bytes of the last n runes of text, or of all of them. *)
TailBytes(text, n) ==
    LET start[k \in 0 .. n] ==
          IF k = 0 THEN Len(text)
          ELSE IF start[k - 1] = 0 THEN 0
          ELSE start[k - 1] - LastRuneSize(text, start[k - 1])
    IN  Len(text) - start[n]

RuneCount(text) ==
    Cardinality({i \in DOMAIN text :
                   ~ (text[i] = Cont /\ i > 1 /\ text[i - 1] = Lead)})

(* What the reader of a bounded text sees: the kept beginning, the kept end *)
(* and the count of bytes the marker between them reports.                  *)
Whole(text) == [head |-> text, tail |-> << >>, skipped |-> 0, truncated |-> FALSE]

(* boundOutput panics on this: a part of the text is missing and no tail    *)
(* was given.                                                               *)
BoundPanics(head, tail, fullSize) == tail = << >> /\ fullSize # Len(head)

BoundParts(head, tail, fullSize, limit) ==
    LET end == IF tail = << >> THEN head ELSE tail
        h == HeadBytes(head, limit \div 2)
        t == TailBytes(end, limit - limit \div 2)
    IN  IF tail = << >> /\ RuneCount(head) <= limit
        THEN Whole(head)
        ELSE [head |-> SubSeq(head, 1, h),
              tail |-> SubSeq(end, Len(end) - t + 1, Len(end)),
              skipped |-> fullSize - (h + t), truncated |-> TRUE]

BoundOutput(text, limit) == BoundParts(text, << >>, Len(text), limit)
-----------------------------------------------------------------------------
(* operation.go: operations and steps. *)

Terminal == {"completed", "failed", "canceled"}
Statuses == {"ready", "awaiting", "canceling"} \cup Terminal

(* localOperationFinished *)
Finished(op) == op.status \in Terminal

NoMemory == [data |-> << >>, processing |-> FALSE]

NoEvent == [type |-> "none"]

(* Faulty variant: a cancellation does not end a primitive. *)
CompletedButCanceled == {"create_completed", "read_completed", "process_exited",
                         "compute_completed", "failed"}

(* The events that end a primitive (localPrimitiveCompleted). *)
CompletedEvents == {"create_completed", "read_completed", "process_exited",
                    "compute_completed", "failed", "canceled"}

Event(type, corr, result) == [type |-> type, corr |-> corr, result |-> result]

NoCorrelation == "no correlation"

(* A checkpoint, with the primitives to start once it has been queued. *)
Step(op, mem, dispatches) ==
    [ok |-> TRUE, save |-> TRUE, op |-> op, mem |-> mem, dispatches |-> dispatches]

Checkpoint(op) == Step(op, NoMemory, << >>)

(* A step that leaves the checkpoint as it is. *)
Silent(op, mem, dispatches) == [Step(op, mem, dispatches) EXCEPT !.save = FALSE]

(* The actor refuses the event. *)
Refuse(op, mem) == [Silent(op, mem, << >>) EXCEPT !.ok = FALSE]

(* What a primitive is asked to do.  count bounds the bytes of a read. *)
Dispatch(type, corr, file, offset, count) ==
    [type |-> type, corr |-> corr, file |-> file, offset |-> offset, count |-> count]

Smaller(a, b) == IF a < b THEN a ELSE b

-----------------------------------------------------------------------------
(* value.go: a value operation is complete as soon as it is started. *)
ValueSpec(id) == [id |-> id, type |-> "value", status |-> "ready", max |-> 0, state |-> << >>]

AdvanceValue(op, event) ==
    IF event # NoEvent \/ op.status \notin {"ready", "canceling"}
    THEN Refuse(op, NoMemory)
    ELSE Checkpoint([op EXCEPT !.status =
                       IF op.status = "ready" THEN "completed" ELSE "canceled"])
-----------------------------------------------------------------------------
(* The skill-use operation (harness/operation/skill_use.go): read one file. *)
(* Every chunk is checkpointed, and a resumed operation reads on from where *)
(* its last checkpoint ends.                                                *)

SkillSpec(id) ==
    [id |-> id, type |-> "skill_use", status |-> "ready", max |-> 0,
     state |-> [content |-> << >>, error |-> FALSE]]

SkillFail(op) == Checkpoint([op EXCEPT !.status = "failed", !.state.error = TRUE])
SkillCancel(op) == Checkpoint([op EXCEPT !.status = "canceled", !.state.error = TRUE])

(* No read is as long as this: the code asks for math.MaxInt64 bytes. *)
Unlimited == 1000

(* dispatchSkillUseRead *)
SkillRead(op) ==
    Step([op EXCEPT !.status = "awaiting"], NoMemory,
         <<Dispatch("read", "skill-use-read", "skill", Len(op.state.content), Unlimited)>>)

SkillAppend(op, data) == [op EXCEPT !.status = "awaiting", !.state.content = @ \o data]

(* advanceAwaitingSkillUse *)
SkillAwaiting(op, event) ==
    CASE event.type = "canceled" -> SkillCancel(op)
      [] event.type = "failed" \/ event.corr # "skill-use-read" -> SkillFail(op)
      [] event.type = "read_output" ->
           IF event.result.offset # Len(op.state.content) THEN SkillFail(op)
           ELSE Checkpoint(SkillAppend(op, event.result.data))
      [] event.type = "read_completed" ->
           IF event.result # Len(op.state.content) THEN SkillFail(op)
           ELSE Checkpoint([op EXCEPT !.status = "completed"])
      [] OTHER -> SkillFail(op)

(* AdvanceSkillUse *)
SkillHandle(op, event) ==
    CASE op.status = "ready" /\ event = NoEvent
            /\ op.state.content = << >> /\ ~op.state.error -> SkillRead(op)
      [] op.status = "awaiting" /\ ~op.state.error ->
           IF event = NoEvent THEN SkillRead(op) ELSE SkillAwaiting(op, event)
      [] op.status = "canceling" /\ event = NoEvent -> SkillCancel(op)
      [] OTHER -> Refuse(op, NoMemory)
-----------------------------------------------------------------------------
(* The view-image operation (harness/operation/image.go): read the source,  *)
(* then decode, scale and encode it in a computation.  Nothing between the  *)
(* start and the end is checkpointed, so a resumed operation starts over.   *)

NoImage == [kind |-> "none"]
ImageError == [kind |-> "error"]

ImageSpec(id) ==
    [id |-> id, type |-> "view_image", status |-> "ready", max |-> 0,
     state |-> [result |-> NoImage]]

(* finish, fail and cancel *)
ImageFinish(op, status, result) ==
    Checkpoint([op EXCEPT !.status = status, !.state.result = result])
ImageFail(op) == ImageFinish(op, "failed", ImageError)
ImageCancel(op) == ImageFinish(op, "canceled", ImageError)

(* read: starting and resuming are the same. *)
ImageRead(op) ==
    Step([op EXCEPT !.status = "awaiting"], NoMemory,
         <<Dispatch("read", "view-image-read", "image", 0, MaxSourceBytes)>>)

(* process: the computation gets the bytes and the reason why they may be   *)
(* incomplete; it reports its failures as values.                           *)
ImageProcess(op, mem, cause) ==
    Silent(op, [data |-> << >>, processing |-> TRUE],
           <<Dispatch("compute", "view-image-process",
                      [data |-> mem.data, cause |-> cause], 0, 0)>>)

ImageProcessed(op, mem, event) ==
    IF event.type # "compute_completed" THEN Refuse(op, mem)
    ELSE IF event.result = ImageError THEN ImageFail(op)
    ELSE ImageFinish(op, "completed", event.result)

ImageHandleRead(op, mem, event) ==
    LET read == Len(mem.data)
    IN  CASE event.type = "read_output" ->
               IF \/ event.result.offset # read
                  \/ Len(event.result.data) > MaxSourceBytes - read
               THEN Refuse(op, mem)
               ELSE Silent(op, [mem EXCEPT !.data = @ \o event.result.data], << >>)
          [] event.type = "read_completed" ->
               IF Smaller(event.result, MaxSourceBytes) # read THEN Refuse(op, mem)
               ELSE ImageProcess(op, mem, event.result > MaxSourceBytes)
          [] OTHER -> Refuse(op, mem)

(* handleEvent: a primitive that could not be dispatched reports a failure  *)
(* without a correlation.  A read that failed after some bytes is processed *)
(* all the same, for what the header tells.                                 *)
ImageHandleEvent(op, mem, event) ==
    LET rejected == event.type = "failed" /\ event.corr = NoCorrelation
        expected == IF mem.processing THEN "view-image-process" ELSE "view-image-read"
    IN  CASE event.corr # expected /\ ~rejected -> Refuse(op, mem)
          [] event.type = "canceled" -> ImageCancel(op)
          [] event.type = "failed" ->
               IF mem.processing \/ rejected \/ mem.data = << >>
               THEN ImageFail(op) ELSE ImageProcess(op, mem, TRUE)
          [] OTHER -> IF mem.processing THEN ImageProcessed(op, mem, event)
                      ELSE ImageHandleRead(op, mem, event)

(* ViewImage.Handle *)
ImageHandle(op, mem, event) ==
    CASE op.status \in {"ready", "awaiting"} /\ op.state.result # NoImage -> Refuse(op, mem)
      [] op.status \in {"ready", "awaiting"} /\ event = NoEvent /\ ~mem.processing -> ImageRead(op)
      [] op.status = "awaiting" /\ event # NoEvent -> ImageHandleEvent(op, mem, event)
      [] op.status = "canceling" /\ event = NoEvent -> ImageCancel(op)
      [] OTHER -> Refuse(op, mem)

-----------------------------------------------------------------------------
(* prepareViewImage, on the facts about the source it depends on: its       *)
(* header (width, height and format, or unreadable), whether its pixels     *)
(* decode, the size of a JPEG's own bytes, and the size an encoder makes of *)
(* the scaled picture.                                                      *)

Formats == {"jpeg", "png", "bmp", "tiff", "webp"}

(* inspectViewImage *)
Inspectable(src) ==
    src.header /\ src.width > 0 /\ src.height > 0 /\ src.format \in Formats

(* The pixel bound, by a division that cannot overflow. *)
TooManyPixels(src) == src.width > MaxSourcePixels \div src.height

(* viewImageDimensions: the scale is the smallest of 1, MaxWidth / width    *)
(* and MaxHeight / height, as a fraction <<numerator, denominator>>.        *)
ScaleRatio(src) ==
    LET byWidth == <<MaxWidth, src.width>>
        byHeight == <<MaxHeight, src.height>>
        Least(a, b) == IF a[1] * b[2] <= b[1] * a[2] THEN a ELSE b
    IN  Least(<<1, 1>>, Least(byWidth, byHeight))

(* math.Round of length * ratio, but never 0. *)
Scaled(length, ratio) ==
    LET rounded == (2 * length * ratio[1] + ratio[2]) \div (2 * ratio[2])
    IN  IF rounded < 1 THEN 1 ELSE rounded

(* The content an image operation shows the model, or ImageError. *)
PrepareViewImage(src, cause) ==
    LET ratio == ScaleRatio(src)
        whole == ratio[1] = ratio[2]
        size == IF src.format = "jpeg" /\ whole THEN src.bytes ELSE src.encoded
    IN  IF cause \/ ~Inspectable(src) \/ TooManyPixels(src) \/ ~src.decodes \/ size > MaxSize
        THEN ImageError
        ELSE [kind |-> "image", width |-> Scaled(src.width, ratio), height |-> Scaled(src.height, ratio),
              mime |-> IF src.format = "jpeg" THEN "jpeg" ELSE "png", size |-> size]
-----------------------------------------------------------------------------
(* Remote-job operations (remote_job.go, remote_job_handler.go): their work *)
(* is done by a handler chosen by the type and version of the job's plan,   *)
(* and the handler's updates are checked before they are believed.          *)

(* NewRemoteJobSpec; a plan stands for its type, version and data. *)
RemoteSpec(id, plan) ==
    [id |-> id, type |-> "remote_job", status |-> "ready", max |-> 1,
     state |-> [plan |-> plan, error |-> FALSE]]

(* DecodeRemoteJobState *)
RemoteDecodes(op) == op.type = "remote_job" /\ op.max > 0

(* FailRemoteJob *)
RemoteFail(op) == [op EXCEPT !.status = "failed", !.state.error = TRUE]

(* The handlers whose plan an operation has; plans maps a handler to the    *)
(* plan it executes.                                                        *)
Matching(plans, op) == {h \in DOMAIN plans : plans[h] = op.state.plan}

(* validRemoteJobStatusTransition *)
ValidTransition(from, to) ==
    \/ from \in {"ready", "awaiting"} /\ to \in Statuses \ {"ready"}
    \/ from = "canceling" /\ to \in {"canceling", "failed", "canceled"}

(* validateRemoteJobUpdate *)
ValidUpdate(op, update) ==
    /\ update.max = op.max
    /\ update.type = op.type
    /\ RemoteDecodes(update)
    /\ update.state.plan = op.state.plan
    /\ ValidTransition(op.status, update.status)
-----------------------------------------------------------------------------
(* harness/operation/shell.go: create the capture directory and files, run  *)
(* the command with its output going to them, read each capture back, the   *)
(* beginning and, of a long one, the end, and bound what was read.  The     *)
(* phase names the primitive that is awaited and is the correlation ID of   *)
(* its events.                                                              *)

NoExit == -1
NoResult == [exit |-> NoExit]

ReadPhases == {"read_out", "read_out_tail", "read_err", "read_err_tail"}
TailPhases == {"read_out_tail", "read_err_tail"}
CreatePhases == {"create_directory", "create_out", "create_err"}

(* The capture a read phase is about. *)
Capture(phase) == IF phase \in {"read_out", "read_out_tail"} THEN "out" ELSE "err"

EmptyCapture == [inline |-> << >>, tail |-> << >>, size |-> 0, path |-> FALSE]

(* NewShellSpec, and the operation the coordinator makes of it. *)
ShellSpec(id, max) ==
    [id |-> id, type |-> "shell", status |-> "ready", max |-> max,
     state |-> [phase |-> "", group |-> FALSE, exit |-> NoExit,
                out |-> EmptyCapture, err |-> EmptyCapture,
                result |-> NoResult, error |-> FALSE]]

(* Faulty variant: the limit on runes taken for one on bytes. *)
ReadLimitInBytes(op) == op.max

(* How many bytes of a capture are read at most, and how many of them at    *)
(* its end when it is longer.                                               *)
ReadLimit(op) == op.max * UTFMax
TailReadLimit(op) == (op.max - op.max \div 2) * UTFMax

(* shellOperationState: what a persisted operation must satisfy to be run. *)
ShellDecodes(op) ==
    \A c \in {"out", "err"} :
        Len(op.state[c].inline) + Len(op.state[c].tail) <= ReadLimit(op)

ShellFail(op) ==
    Checkpoint([op EXCEPT !.status = "failed", !.state.phase = "", !.state.error = TRUE])

(* Faulty variant: waits for an event that has been received already. *)
ShellCancelAwaits(op) == Checkpoint([op EXCEPT !.status = "canceling"])

ShellCancel(op) ==
    Checkpoint([op EXCEPT !.status = "canceled", !.state.phase = "", !.state.error = TRUE])

(* readRequest *)
ShellRead(op) ==
    LET phase == op.state.phase
        size == op.state[Capture(phase)].size
    IN  IF phase \in TailPhases
        THEN Dispatch("read", phase, Capture(phase), size - TailReadLimit(op), TailReadLimit(op))
        ELSE Dispatch("read", phase, Capture(phase), 0, ReadLimit(op))

InvalidTailRead(op) ==
    op.state.phase \in TailPhases /\ op.state[Capture(op.state.phase)].size <= ReadLimit(op)

(* createShellPath, createShellFile *)
ShellCreate(op) == Dispatch("create", op.state.phase, op.state.phase, 0, 0)

(* startShellProcess *)
ShellStart == Dispatch("process", "process", "command", 0, 0)

(* dispatch: every phase is checkpointed when its primitive is asked for.   *)
ShellDispatch(op, request) == Step([op EXCEPT !.status = "awaiting"], NoMemory, <<request>>)

DispatchPhase(op) ==
    CASE op.state.phase \in CreatePhases -> ShellDispatch(op, ShellCreate(op))
      [] op.state.phase = "process" -> ShellDispatch(op, ShellStart)
      [] op.state.phase \in ReadPhases /\ ~InvalidTailRead(op) -> ShellDispatch(op, ShellRead(op))
      [] OTHER -> ShellFail(op)

NextPhase(op, phase) == DispatchPhase([op EXCEPT !.state.phase = phase])

(* resume: a command that may have been started is never started again. *)
ShellResume(op) == IF op.state.phase = "process" THEN ShellFail(op) ELSE DispatchPhase(op)

ShellCreated(op, event) ==
    LET phase == op.state.phase
    IN  IF event.type # "create_completed" THEN ShellFail(op)
        ELSE CASE phase = "create_directory" -> NextPhase(op, "create_out")
               [] phase = "create_out" ->
                    NextPhase([op EXCEPT !.state.out.path = TRUE], "create_err")
               [] phase = "create_err" ->
                    NextPhase([op EXCEPT !.state.err.path = TRUE], "process")

(* A start is recorded in a checkpoint of its own; an exit is recorded with *)
(* the first read.  Output goes to the captures, so any other event of the  *)
(* process is a failure.                                                    *)
ShellProcessEvent(op, event) ==
    CASE event.type = "process_started" ->
           Checkpoint([op EXCEPT !.status = "awaiting", !.state.group = TRUE])
      [] event.type = "process_exited" ->
           NextPhase([op EXCEPT !.state.group = FALSE, !.state.exit = event.result], "read_out")
      [] OTHER -> ShellFail(op)

(* finish *)
ShellFinish(op) ==
    LET s == op.state
        Bound(c) == BoundParts(c.inline, c.tail, c.size, op.max)
    IN  IF s.exit = NoExit THEN ShellFail(op)
        ELSE Checkpoint([op EXCEPT
               !.status = "completed",
               !.state = [s EXCEPT
                   !.phase = "", !.exit = NoExit,
                   !.result = [exit |-> s.exit, out |-> Bound(s.out), err |-> Bound(s.err)],
                   !.out = [EmptyCapture EXCEPT !.size = s.out.size, !.path = TRUE],
                   !.err = [EmptyCapture EXCEPT !.size = s.err.size, !.path = TRUE]]])

(* readCompleted: a long capture keeps only the first part of what was read *)
(* and gets its end from a second read.                                     *)
ShellReadCompleted(op, data, size) ==
    LET phase == op.state.phase
        long == size > ReadLimit(op)
        first == IF long THEN SubSeq(data, 1, ReadLimit(op) - TailReadLimit(op)) ELSE data
        First(c) == [op.state[c] EXCEPT !.inline = first, !.size = size, !.tail = << >>]
    IN  CASE phase = "read_out" ->
               NextPhase([op EXCEPT !.state.out = First("out")],
                         IF long THEN "read_out_tail" ELSE "read_err")
          [] phase = "read_out_tail" ->
               NextPhase([op EXCEPT !.state.out.tail = data], "read_err")
          [] phase = "read_err" ->
               IF long THEN NextPhase([op EXCEPT !.state.err = First("err")], "read_err_tail")
               ELSE ShellFinish([op EXCEPT !.state.err = First("err")])
          [] phase = "read_err_tail" ->
               ShellFinish([op EXCEPT !.state.err.tail = data])

(* readEvent: output accumulates in memory only, and both it and the final  *)
(* size are checked against what was asked for.                             *)
ShellReadEvent(op, mem, event) ==
    LET request == ShellRead(op)
        read == Len(mem.data)
    IN  CASE event.type = "read_output" ->
               IF \/ event.result.offset # request.offset + read
                  \/ Len(event.result.data) > request.count - read
               THEN ShellFail(op)
               ELSE Silent(op, [mem EXCEPT !.data = @ \o event.result.data], << >>)
          [] event.type = "read_completed" ->
               IF \/ event.result < request.offset
                  \/ read # Smaller(request.count, event.result - request.offset)
                  \/ /\ op.state.phase \in TailPhases
                     /\ event.result # request.offset + request.count
               THEN ShellFail(op)
               ELSE ShellReadCompleted(op, mem.data, event.result)
          [] OTHER -> ShellFail(op)

(* handleAwaiting *)
ShellAwaiting(op, mem, event) ==
    LET phase == op.state.phase
    IN  CASE event.type = "canceled" -> ShellCancel(op)
          [] event.type = "failed" \/ event.corr # phase -> ShellFail(op)
          [] phase \in CreatePhases -> ShellCreated(op, event)
          [] phase = "process" -> ShellProcessEvent(op, event)
          [] phase \in ReadPhases ->
               IF InvalidTailRead(op) THEN ShellFail(op) ELSE ShellReadEvent(op, mem, event)
          [] OTHER -> ShellFail(op)

ShellInitial(op) ==
    op.state.phase = "" /\ op.state.result = NoResult /\ ~op.state.error

(* Shell.Handle *)
ShellHandle(op, mem, event) ==
    CASE op.status = "ready" /\ event = NoEvent /\ ShellInitial(op) ->
           NextPhase(op, "create_directory")
      [] op.status = "awaiting" /\ event = NoEvent -> ShellResume(op)
      [] op.status = "awaiting" /\ event # NoEvent -> ShellAwaiting(op, mem, event)
      [] op.status = "canceling" /\ event = NoEvent -> ShellCancel(op)
      [] OTHER -> Refuse(op, mem)
=============================================================================

-------------------------- MODULE ProcessPrimitive --------------------------
(***************************************************************************)
(* One process invocation (harness/primitives/process.go): preparing its    *)
(* pipes and captures, starting it, streaming its output, awaiting its end  *)
(* or its cancellation, terminating its process group, and cleaning up;     *)
(* and the control requests that write to it, close its input or signal it. *)
(*                                                                          *)
(* The goroutines are the main one, the one that waits for the leader, one  *)
(* per output pipe and one per control request. The operating system's part *)
(* (processes, signals, pipes) is modelled from how the code uses it.       *)
(***************************************************************************)
EXTENDS Naturals, Sequences, FiniteSets

CONSTANTS
    Requests,  \* start requests: [stdin, stdout, stderr, valid]
    Controls,  \* control requests, by name
    MaxChunks  \* bound: chunks written to each output pipe

VARIABLES
    request,  \* the start request
    pc,       \* where the main goroutine is
    ctxDone,  \* the invocation's context is cancelled
    ready,    \* process.ready is closed
    startErr, \* the process was not started
    open,     \* files the invocation holds open
    proc,     \* the leader and its descendant: "none", "alive", "killed", "zombie" or "gone"
    waited,   \* command.Wait has returned: waitCompleted holds its result
    canceled, \* awaitProcessCompletion's verdict
    failed,   \* some step of the shutdown failed
    deadline, \* the output pipes' read deadline has passed
    worker,   \* the goroutine of each output pipe
    pipe,     \* what is in each output pipe: chunk numbers
    written,  \* chunks written to each output pipe
    wholeness,\* chunks in it when the leader exited
    offset,   \* each worker's offset
    lost,     \* history: streams whose failure was reported by an event
    output,   \* history: offsets of the output events received
    terminal, \* history: terminal events received
    control   \* what each control request is doing

vars == <<request, pc, ctxDone, ready, startErr, open, proc, waited, canceled, failed, deadline,
          worker, pipe, written, wholeness, offset, lost, output, terminal, control>>

mainVars == <<request, ready, startErr, waited>>
outputVars == <<pipe, written, wholeness, offset, lost, output>>

Streams == {"stdout", "stderr"}
Members == {"leader", "child"}
Pipes == {s \in Streams : request[s] = "pipe"}
Live == {"alive", "killed"}

(* Files in the order prepareProcess opens them. *)
ReadEnd == [stdout |-> "stdoutRead", stderr |-> "stderrRead"]
WriteEnd == [stdout |-> "stdoutWrite", stderr |-> "stderrWrite"]
Capture == [stdout |-> "stdoutCapture", stderr |-> "stderrCapture"]

StreamFiles(s) ==
    CASE request[s] = "pipe" -> {ReadEnd[s], WriteEnd[s]}
      [] request[s] = "capture" -> {Capture[s]}
      [] OTHER -> {}

StdinFiles == IF request.stdin THEN {"stdinRead", "stdinWrite"} ELSE {}

ChildEnds == {"stdinRead", "stdoutWrite", "stderrWrite"}
Captures == {"stdoutCapture", "stderrCapture"}
OutputEnds == {"stdoutRead", "stderrRead"}

Init ==
    /\ request \in Requests
    /\ pc = "begin"
    /\ ctxDone = FALSE /\ ready = FALSE /\ startErr = FALSE
    /\ open = {}
    /\ proc = [p \in Members |-> "none"]
    /\ waited = FALSE /\ canceled = FALSE /\ failed = FALSE /\ deadline = FALSE
    /\ worker = [s \in Streams |-> "none"]
    /\ pipe = [s \in Streams |-> <<>>]
    /\ written = [s \in Streams |-> 0] /\ wholeness = [s \in Streams |-> 0]
    /\ offset = [s \in Streams |-> 0] /\ output = [s \in Streams |-> <<>>]
    /\ lost = {}
    /\ terminal = <<>>
    /\ control = [c \in Controls |-> "none"]

(* The context is cancelled, by its owner. *)
CancelContext ==
    /\ ~ctxDone
    /\ ctxDone' = TRUE
    /\ UNCHANGED <<mainVars, pc, open, proc, canceled, failed, deadline, worker, outputVars,
                   terminal, control>>

-----------------------------------------------------------------------------
(* Starting. *)

(* closeAll, of a process that was not started. *)
ClosedAll(files) == {}

(* It returns. *)
AfterRefusal == "done"

(* process.ready is closed on every path. *)
ReadyAfterRefusal == TRUE

(* The process is not started: the controls learn it, and one terminal      *)
(* event says so.                                                           *)
NotStarted(event) ==
    /\ pc' = AfterRefusal
    /\ ready' = ReadyAfterRefusal /\ startErr' = TRUE
    /\ terminal' = Append(terminal, event)
    /\ UNCHANGED <<request, ctxDone, proc, waited, canceled, failed, deadline, worker, outputVars,
                   control>>

Refuse ==
    /\ pc = "begin"
    /\ \/ ~request.valid /\ NotStarted("failed")
       \/ request.valid /\ ctxDone /\ NotStarted("canceled")
    /\ UNCHANGED open

(* prepareProcess opens the files one after the other; when one of them     *)
(* cannot be opened, is not a regular file or cannot be truncated, those    *)
(* that were opened are closed.                                             *)
PrepareFails ==
    /\ pc = "begin" /\ request.valid /\ ~ctxDone
    /\ \E opened \in SUBSET (StdinFiles \cup StreamFiles("stdout") \cup StreamFiles("stderr")) :
          open' = ClosedAll(opened)
    /\ NotStarted("failed")

Prepare ==
    /\ pc = "begin" /\ request.valid /\ ~ctxDone
    /\ open' = StdinFiles \cup StreamFiles("stdout") \cup StreamFiles("stderr")
    /\ pc' = "prepared"
    /\ UNCHANGED <<mainVars, ctxDone, proc, canceled, failed, deadline, worker, outputVars,
                   terminal, control>>

StartFails ==
    /\ pc = "prepared"
    /\ open' = ClosedAll(open)
    /\ \/ ctxDone /\ NotStarted("canceled")
       \/ ~ctxDone /\ NotStarted("failed")

Start ==
    /\ pc = "prepared" /\ ~ctxDone
    /\ proc' = [proc EXCEPT !["leader"] = "alive"]
    /\ ready' = TRUE
    /\ open' = open \ ChildEnds
    /\ worker' = [s \in Streams |-> IF s \in Pipes THEN "reading" ELSE "none"]
    /\ pc' = "await"
    /\ UNCHANGED <<request, ctxDone, startErr, waited, canceled, failed, deadline, outputVars,
                   terminal, control>>

-----------------------------------------------------------------------------
(* The processes. *)

Fork ==
    /\ proc["leader"] = "alive" /\ proc["child"] = "none"
    /\ proc' = [proc EXCEPT !["child"] = "alive"]
    /\ UNCHANGED <<mainVars, pc, ctxDone, open, canceled, failed, deadline, worker, outputVars,
                   terminal, control>>

(* A process with the write end of a pipe writes to it. *)
WriteOutput(p, s) ==
    /\ proc[p] = "alive" /\ s \in Pipes
    /\ written[s] < MaxChunks
    /\ written' = [written EXCEPT ![s] = @ + 1]
    /\ pipe' = [pipe EXCEPT ![s] = Append(@, written[s])]
    /\ UNCHANGED <<mainVars, pc, ctxDone, open, proc, canceled, failed, deadline, worker,
                   wholeness, offset, lost, output, terminal, control>>

(* A process ends, of its own accord or because it was killed; a descendant *)
(* is reaped by init.                                                       *)
Dies(p) ==
    /\ proc[p] \in Live
    /\ proc' = [proc EXCEPT ![p] = IF p = "leader" THEN "zombie" ELSE "gone"]
    /\ wholeness' = IF p = "leader" THEN written ELSE wholeness
    /\ UNCHANGED <<mainVars, pc, ctxDone, open, canceled, failed, deadline, worker, pipe, written,
                   offset, lost, output, terminal, control>>

(* The goroutine in command.Wait reaps the leader. *)
Reap ==
    /\ proc["leader"] = "zombie"
    /\ proc' = [proc EXCEPT !["leader"] = "gone"]
    /\ waited' = TRUE
    /\ UNCHANGED <<request, ready, startErr, pc, ctxDone, open, canceled, failed, deadline, worker,
                   outputVars, terminal, control>>

GroupExists == \E p \in Members : proc[p] \in Live \cup {"zombie"}

-----------------------------------------------------------------------------
(* The output workers. *)

(* sendProcessOutput: the event is received, or dropped when the context is *)
(* done.                                                                    *)
Chunk(s, at) ==
    /\ worker[s] = at /\ pipe[s] # <<>>
    /\ pipe' = [pipe EXCEPT ![s] = Tail(@)]
    /\ offset' = [offset EXCEPT ![s] = @ + 1]
    /\ \/ /\ ~ctxDone
          /\ output' = [output EXCEPT ![s] = Append(@, offset[s])]
          /\ UNCHANGED worker
       \/ /\ ctxDone
          /\ worker' = [worker EXCEPT ![s] = IF at = "draining" THEN "done" ELSE @]
          /\ UNCHANGED output
    /\ UNCHANGED <<mainVars, pc, ctxDone, open, proc, canceled, failed, deadline, written,
                   wholeness, lost, terminal, control>>

ReadChunk(s) == ReadEnd[s] \in open /\ ~deadline /\ Chunk(s, "reading")

DrainChunk(s) == Chunk(s, "draining")

(* What a worker does when its read times out. *)
AfterTimeout(s) == "draining"

(* A read ends at the end of the pipe, at the deadline, or when the file    *)
(* was closed after a cancellation; draining ends when the pipe is empty.   *)
ReadEnds(s) ==
    /\ worker' = [worker EXCEPT ![s] =
                    IF @ = "reading" /\ ReadEnd[s] \in open /\ deadline
                    THEN AfterTimeout(s) ELSE "done"]
    /\ \/ worker[s] = "reading" /\ ReadEnd[s] \notin open /\ ctxDone
       \/ worker[s] = "reading" /\ ReadEnd[s] \in open /\ deadline
       \/ /\ worker[s] \in {"reading", "draining"} /\ pipe[s] = <<>>
          /\ worker[s] = "draining" \/ \A p \in Members : proc[p] \notin Live
    /\ UNCHANGED <<mainVars, pc, ctxDone, open, proc, canceled, failed, deadline, outputVars,
                   terminal, control>>

(* A read or the switch to draining fails: the worker says so in an event   *)
(* and ends, with output in the pipe.  It is no failure of the process.     *)
ReadFails(s) ==
    /\ worker[s] \in {"reading", "draining"}
    /\ worker' = [worker EXCEPT ![s] = "done"]
    /\ lost' = IF ctxDone THEN lost ELSE lost \cup {s}
    /\ UNCHANGED <<mainVars, pc, ctxDone, open, proc, canceled, failed, deadline, pipe, written,
                   wholeness, offset, output, terminal, control>>

-----------------------------------------------------------------------------
(* Awaiting the end, and shutting down. *)

(* The leader has been waited for when the main goroutine looks, or the     *)
(* context is done first; then the group is told to terminate.              *)
AwaitEnds ==
    /\ pc = "await"
    /\ \/ waited /\ canceled' = FALSE
       \/ ctxDone /\ canceled' = (proc["leader"] # "gone")
    /\ pc' = "terminating"
    /\ failed' \in {FALSE, TRUE}  \* the signal may be refused
    /\ UNCHANGED <<mainVars, ctxDone, open, proc, deadline, worker, outputVars, terminal, control>>

(* Faulty variant: the descendants of a process that has ended are left alone. *)
LeaderGone == proc["leader"] = "gone"

(* waitForProcessInvocation: nobody is left in the group. *)
InvocationEnded == ~GroupExists /\ proc["leader"] = "gone"

(* The pipes that terminateProcess closes: all of them after a              *)
(* cancellation.                                                            *)
AfterTermination == IF canceled THEN open \ ({"stdinWrite"} \cup OutputEnds) ELSE open

(* The group is gone within the grace period; a signal that was not         *)
(* permitted is forgiven.                                                   *)
Terminated ==
    /\ pc = "terminating" /\ InvocationEnded
    /\ failed' \in {FALSE, failed}
    /\ open' = AfterTermination
    /\ pc' = "reaping"
    /\ UNCHANGED <<mainVars, ctxDone, proc, canceled, deadline, worker, outputVars, terminal, control>>

(* The leader alone is signalled. *)
KilledLeader == [proc EXCEPT !["leader"] = IF @ = "alive" THEN "killed" ELSE @]

(* Faulty variant: SIGKILL is not sent. *)
NobodyKilled == proc

(* SIGKILL reaches every member of the group. *)
KilledGroup == [p \in Members |-> IF proc[p] = "alive" THEN "killed" ELSE proc[p]]

(* The grace period is over, or the group cannot be inspected. *)
Kill ==
    /\ pc = "terminating"
    /\ proc' = KilledGroup
    /\ failed' \in {failed, TRUE}
    /\ open' = AfterTermination
    /\ pc' = "reaping"
    /\ UNCHANGED <<mainVars, ctxDone, canceled, deadline, worker, outputVars, terminal, control>>

(* Closing the input is idempotent, and interrupts a write. *)
InputClosed == open \ {"stdinWrite"}

(* The wait result is received; captures are synced and closed, the input   *)
(* is closed, and the readers are woken unless they were closed; a pipe     *)
(* that takes no deadline is closed instead.                                *)
CloseFiles ==
    /\ pc = "reaping" /\ waited
    /\ deadline' = ~canceled
    /\ \E stuck \in SUBSET (IF canceled THEN {} ELSE open \cap OutputEnds) :
         /\ open' = InputClosed \ (Captures \cup stuck)
         /\ failed' \in {failed \/ stuck # {}, TRUE}
    /\ pc' = "workers"
    /\ UNCHANGED <<mainVars, ctxDone, proc, canceled, worker, outputVars, terminal, control>>

Finish ==
    /\ pc = "workers"
    /\ \A s \in Pipes : worker[s] = "done"
    /\ open' = open \ OutputEnds
    /\ terminal' = Append(terminal, IF failed THEN "failed"
                                    ELSE IF canceled THEN "canceled" ELSE "exited")
    /\ pc' = "done"
    /\ UNCHANGED <<mainVars, ctxDone, proc, canceled, failed, deadline, worker, outputVars, control>>

-----------------------------------------------------------------------------
(* Control requests: "write", "close", "signal" and "signal group". *)

Ask(c) ==
    /\ control[c] = "none"
    /\ control' = [control EXCEPT ![c] = "asked"]
    /\ UNCHANGED <<mainVars, pc, ctxDone, open, proc, canceled, failed, deadline, worker,
                   outputVars, terminal>>

Answer(c) == control' = [control EXCEPT ![c] = "answered"]

(* prepareControl: the process was started, and has not been cancelled or   *)
(* waited for; a signal to the group asks for the group instead.            *)
Usable(c) ==
    /\ ready /\ ~startErr /\ ~ctxDone
    /\ IF c = "signal group" THEN GroupExists ELSE proc["leader"] # "gone"

(* A request is refused, at any time if its own context is done. *)
RefuseControl(c) ==
    /\ control[c] = "asked"
    /\ Answer(c)
    /\ UNCHANGED <<mainVars, pc, ctxDone, open, proc, canceled, failed, deadline, worker,
                   outputVars, terminal>>

RefuseUnusable(c) == ready /\ ~Usable(c) /\ RefuseControl(c)

WriteInput ==
    /\ "write" \in Controls /\ control["write"] = "asked" /\ Usable("write")
    /\ IF "stdinWrite" \in open
       THEN control' = [control EXCEPT !["write"] = "writing"] ELSE Answer("write")
    /\ UNCHANGED <<mainVars, pc, ctxDone, open, proc, canceled, failed, deadline, worker,
                   outputVars, terminal>>

CloseInput ==
    /\ "close" \in Controls /\ control["close"] = "asked" /\ Usable("close")
    /\ open' = InputClosed
    /\ Answer("close")
    /\ UNCHANGED <<mainVars, pc, ctxDone, proc, canceled, failed, deadline, worker, outputVars, terminal>>

(* A signal may be one that its receivers ignore. *)
Signal(c) ==
    /\ c \in Controls \cap {"signal", "signal group"}
    /\ control[c] = "asked" /\ Usable(c)
    /\ proc' \in {proc, IF c = "signal" THEN KilledLeader ELSE KilledGroup}
    /\ Answer(c)
    /\ UNCHANGED <<mainVars, pc, ctxDone, open, canceled, failed, deadline, worker, outputVars, terminal>>

(* A write ends when it has been read, and when the pipe is closed at       *)
(* either end.                                                              *)
WriteEnds ==
    /\ "write" \in Controls /\ control["write"] = "writing"
    /\ Answer("write")
    /\ UNCHANGED <<mainVars, pc, ctxDone, open, proc, canceled, failed, deadline, worker,
                   outputVars, terminal>>

WriteInterrupted ==
    WriteEnds /\ ("stdinWrite" \notin open \/ \A p \in Members : proc[p] \notin Live)

MainSteps ==
    \/ Refuse \/ PrepareFails \/ Prepare \/ StartFails \/ Start \/ AwaitEnds
    \/ Terminated \/ Kill \/ CloseFiles \/ Finish

WorkerSteps(s) ==
    \/ ReadChunk(s) \/ DrainChunk(s) \/ ReadEnds(s)
    \/ ReadEnd[s] \notin open /\ ReadFails(s)

Next ==
    \/ MainSteps \/ CancelContext \/ Fork \/ Reap \/ WriteInput \/ WriteEnds \/ CloseInput
    \/ \E s \in Streams : WorkerSteps(s) \/ ReadFails(s) \/ \E p \in Members : WriteOutput(p, s)
    \/ \E p \in Members : Dies(p)
    \/ \E c \in Controls : Ask(c) \/ RefuseControl(c) \/ Signal(c)

(* Goroutines run, the grace period ends, and what was killed dies; a       *)
(* process need not end on its own, and no read need fail on an open file.  *)
Fairness ==
    /\ WF_vars(MainSteps) /\ WF_vars(Reap) /\ WF_vars(WriteInterrupted)
    /\ \A s \in Streams : WF_vars(WorkerSteps(s))
    /\ \A p \in Members : WF_vars(proc[p] = "killed" /\ Dies(p))
    /\ WF_vars(WriteInput \/ CloseInput)
    /\ \A c \in Controls : WF_vars(RefuseUnusable(c) \/ Signal(c))

Spec == Init /\ [][Next]_vars /\ Fairness

-----------------------------------------------------------------------------
(* Properties. *)

TypeOK ==
    /\ Len(terminal) <= 1 /\ (pc = "done" <=> terminal # <<>>)
    /\ proc \in [Members -> {"none", "alive", "killed", "zombie", "gone"}]
    /\ waited <=> proc["leader"] = "gone"
    /\ \A s \in Streams : worker[s] \in {"none", "reading", "draining", "done"}

(* Every way out of runProcess, the failures half-way through opening the   *)
(* files among them, has closed what it opened before it reports the end.   *)
NothingLeftOpen == terminal # <<>> => open = {}

(* The end of an invocation is not reported while a process of its group is *)
(* at large: what has not died has been killed. So a cancelled command, or  *)
(* the descendants of one that ended, do not go on working.                 *)
NoSurvivor == terminal # <<>> => \A p \in Members : proc[p] # "alive"

(* Output events of a stream have contiguous offsets, and when a process is *)
(* reported to have exited, all it wrote has been reported before, though a *)
(* descendant may still hold the pipe open, unless the stream was reported  *)
(* to have failed: output is never lost without a word.                     *)
OutputIsWhole ==
    \A s \in Streams :
        /\ output[s] = [i \in 1..Len(output[s]) |-> i - 1]
        /\ terminal = <<"exited">> /\ ~ctxDone =>
             Len(output[s]) >= wholeness[s] \/ s \in lost

(* A cancelled invocation ends, even if its processes ignore SIGTERM, and   *)
(* one whose leader has ended does, even if a descendant lives on.          *)
Ends == (ctxDone \/ waited) ~> terminal # <<>>

(* Control requests are answered once the invocation has ended: a write     *)
(* that nobody reads does not hang for ever.                                *)
ControlsAnswered ==
    \A c \in Controls : (terminal # <<>> /\ control[c] # "none") ~> (control[c] = "answered")
=============================================================================

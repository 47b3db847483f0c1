---------------------------- MODULE MCPrimitives ----------------------------
(***************************************************************************)
(* The primitives the operations are made of, on small instances: each runs *)
(* in goroutines of its own and they share no state, so a behaviour of all  *)
(* of them is one of each.  Here one of them, `part', moves and the others  *)
(* stay where they start, and the numbers of their states add up instead of *)
(* being multiplied.                                                        *)
(***************************************************************************)
EXTENDS Integers, TLC

CONSTANTS r1, r2, a, b, d

VARIABLE part

(* A process and its descendant.  The requests: input and one piped output, *)
(* both outputs piped, and one that is refused.                             *)
VARIABLES request, pc, ctxDone, ready, startErr, open, proc, waited, canceled, failed, deadline,
          worker, pipe, written, wholeness, offset, lost, output, terminal, control

processVars == <<request, pc, ctxDone, ready, startErr, open, proc, waited, canceled, failed, deadline,
                 worker, pipe, written, wholeness, offset, lost, output, terminal, control>>

Started(in, out, err, ok) == [stdin |-> in, stdout |-> out, stderr |-> err, valid |-> ok]

Process == INSTANCE ProcessPrimitive WITH
             Requests <- {Started(TRUE, "pipe", "capture", TRUE), Started(FALSE, "pipe", "pipe", TRUE),
                          Started(FALSE, "none", "none", FALSE)},
             Controls <- {"write", "close", "signal"}, MaxChunks <- 2

(* A remote request with three attempts.  With a largest duration of 7,     *)
(* twice 5 wraps around.                                                    *)
VARIABLES policy, valid, remotePc, remoteDone, attempt, timer, status, body, bodyOffset, sending, err,
          streamed, events, blamed

remoteVars == <<policy, valid, remotePc, remoteDone, attempt, timer, status, body, bodyOffset, sending,
                err, streamed, events, blamed>>

Remote == INSTANCE RemotePrimitive WITH
            MaxAttempts <- 3, MaxChunks <- 2, Requests <- BOOLEAN,
            Policies <- {[initial |-> 1, max |-> 7], [initial |-> 5, max |-> 7], [initial |-> 3, max |-> 3]},
            Limit <- 8,
            pc <- remotePc, ctxDone <- remoteDone, offset <- bodyOffset

(* A file that is read in chunks of 2 bytes, of at most 4. *)
VARIABLES readRequest, kind, file, changes, readPc, readDone, size, readOffset, remaining, chunk,
          readOpen, readEvents

readVars == <<readRequest, kind, file, changes, readPc, readDone, size, readOffset, remaining, chunk,
              readOpen, readEvents>>

Read == INSTANCE FileRead WITH
          Offsets <- {0, 1, 4}, Counts <- {0, 3, 9}, Kinds <- {"regular", "other", "missing"},
          MaxSize <- 4, ChunkSize <- 2, MaxChanges <- 1,
          request <- readRequest, pc <- readPc, ctxDone <- readDone, offset <- readOffset,
          open <- readOpen, events <- readEvents

(* Two creators of a file and one of a directory, at one path. *)
VARIABLES entry, durable, createPc, retries, createDone, parent, outcome, removes, crashed

createVars == <<entry, durable, createPc, retries, createDone, parent, outcome, removes, crashed>>

Create == INSTANCE PathCreate WITH
            Creators <- {a, b, d}, Kind <- a :> "file" @@ b :> "file" @@ d :> "directory",
            Alien <- {"symlink"}, MaxRetries <- 1, MaxRemoves <- 2,
            pc <- createPc, ctxDone <- createDone

(* A timer whose wall clock is set back, and put forward past and short of  *)
(* its deadline.                                                            *)
VARIABLES due, mono, skew, jumped, timerPc, wakeAt, timerDone, fired, past

timerVars == <<due, mono, skew, jumped, timerPc, wakeAt, timerDone, fired, past>>

Timer == INSTANCE TimerPrimitive WITH
           Deadlines <- {0, 4, 9}, MaximumSleep <- 3, MaxTime <- 14, Jumps <- {-3, 2, 5, 9},
           deadline <- due, pc <- timerPc, ctxDone <- timerDone

(* Two computations. *)
VARIABLES computePc, run, computeDone, ended, offered, computed

computeVars == <<computePc, run, computeDone, ended, offered, computed>>

Compute == INSTANCE ComputePrimitive WITH
             Requests <- {r1, r2}, pc <- computePc, ctxDone <- computeDone, events <- computed

vars == <<part, processVars, remoteVars, readVars, createVars, timerVars, computeVars>>

Init ==
    /\ part \in {"process", "remote", "read", "create", "timer", "compute"}
    /\ Process!Init /\ (part # "process" => ~request.valid)
    /\ Remote!Init /\ (part # "remote" => valid /\ policy.max = 3)
    /\ Read!Init /\ (part # "read" => readRequest = [offset |-> 0, count |-> 0] /\ kind = "regular" /\ file = <<>>)
    /\ Create!Init /\ (part # "create" => entry = "none")
    /\ Timer!Init /\ (part # "timer" => due = 0)
    /\ Compute!Init /\ (part # "compute" => run[r1] /\ run[r2])

Next ==
    \/ part = "process" /\ Process!Next /\ UNCHANGED <<part, remoteVars, readVars, createVars, timerVars, computeVars>>
    \/ part = "remote" /\ Remote!Next /\ UNCHANGED <<part, processVars, readVars, createVars, timerVars, computeVars>>
    \/ part = "read" /\ Read!Next /\ UNCHANGED <<part, processVars, remoteVars, createVars, timerVars, computeVars>>
    \/ part = "create" /\ Create!Next /\ UNCHANGED <<part, processVars, remoteVars, readVars, timerVars, computeVars>>
    \/ part = "timer" /\ Timer!Next /\ UNCHANGED <<part, processVars, remoteVars, readVars, createVars, computeVars>>
    \/ part = "compute" /\ Compute!Next /\ UNCHANGED <<part, processVars, remoteVars, readVars, createVars, timerVars>>

(* The fairness of the specifications, of each for its own part. *)
ProcessFairness ==
    LET Fair(A) == part = "process" /\ A
        v == processVars
    IN  /\ WF_v(Fair(Process!MainSteps)) /\ WF_v(Fair(Process!Reap)) /\ WF_v(Fair(Process!WriteInterrupted))
        /\ \A s \in Process!Streams : WF_v(Fair(Process!WorkerSteps(s)))
        /\ \A p \in Process!Members : WF_v(Fair(proc[p] = "killed" /\ Process!Dies(p)))
        /\ WF_v(Fair(Process!WriteInput \/ Process!CloseInput))
        /\ \A c \in {"write", "close", "signal"} : WF_v(Fair(Process!RefuseUnusable(c) \/ Process!Signal(c)))

RemoteFairness ==
    LET Fair(A) == part = "remote" /\ A
        v == remoteVars
    IN  /\ WF_v(Fair(Remote!GoesOn)) /\ WF_v(Fair(Remote!TimerFires)) /\ WF_v(Fair(Remote!Interrupted))

Spec == Init /\ [][Next]_vars /\ ProcessFairness /\ RemoteFairness

(* Controls are sent to the process with one output pipe, which writes one  *)
(* chunk, as the second pipe of the other does; and a response has a body   *)
(* under the first policy only.                                             *)
InScenario ==
    /\ request.stderr = "pipe" => \A c \in DOMAIN control : control[c] = "none"
    /\ request.stderr # "pipe" => \A s \in DOMAIN written : written[s] <= 1
    /\ written["stderr"] <= 1
    /\ policy.initial # 1 => body = 0

-----------------------------------------------------------------------------
(* What the primitives report (harness/primitives): the end of a process is *)
(* reported when nothing of its group is alive, nothing is left open and    *)
(* all its output was reported, or that the stream has failed; a remote     *)
(* response and a file are reported whole and in order, whatever was        *)
(* retried, cut short or grown; a path that was reported created survives a *)
(* crash; a timer is neither early nor late, whatever the clock does; a     *)
(* computation ends in one true event.                                      *)
ReportedIsTrue ==
    /\ Process!TypeOK /\ Process!NothingLeftOpen /\ Process!NoSurvivor /\ Process!OutputIsWhole
    /\ Remote!TypeOK /\ Remote!WellOrdered /\ Remote!CompletedIsWhole
    /\ Remote!SlowReceiverNotBlamed /\ Remote!BackoffNeverOverflows
    /\ Read!TypeOK /\ Read!RangeIsWhole
    /\ Create!TypeOK /\ Create!CompletedIsDurable
    /\ Timer!NotEarly /\ Timer!NotLate
    /\ Compute!OneTrueEvent

(* A process that was cancelled or whose leader ended is reported to end,   *)
(* and its controls are answered; a remote request ends though the server   *)
(* stays silent (process.go, shutDownProcess; remote.go, the idle timer).   *)
PrimitivesEnd ==
    /\ Process!Ends /\ Process!ControlsAnswered
    /\ part = "remote" => Remote!Ends
=============================================================================

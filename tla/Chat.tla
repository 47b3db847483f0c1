-------------------------------- MODULE Chat --------------------------------
(***************************************************************************)
(* A session of the GUI: the chat that owns it (gui/chat.go), the table of  *)
(* chats and sessions (gui/app.go) and the HTTP handlers that send, stop,   *)
(* retry and delete (gui/server.go).                                        *)
(*                                                                          *)
(* Each handler, and each goroutine that runs a coordinator, interleaves    *)
(* with the others wherever it holds none of app.chatsMu, app.mu and        *)
(* chat.mu. The coordinator is module Coordinator's, reduced to what a chat *)
(* sees of it: it records the inputs of its inbox in order, runs commands   *)
(* and returns.                                                             *)
(***************************************************************************)
EXTENDS Naturals, Sequences, SequencesExt, FiniteSets

CONSTANTS
    Chats,       \* chat objects that may be made for the session
    Handlers,    \* HTTP handlers
    Messages,    \* what the user may send
    MaxFailures, \* bound: runs that cannot be prepared, or fail
    MaxDeletes,  \* bound: requests to delete the session
    MaxStops,    \* bound: requests to stop
    MaxCommands  \* bound: commands the model starts

NoChat == "no chat"
StopWhenIdle == "stop when idle"
StopHard == "stop hard"

(* Chats are objects of their own, and a message is no other input, nor the *)
(* text of a request that has none.                                         *)
ASSUME ChatsAssumption == NoChat \notin Chats
ASSUME MessagesAssumption == Messages \cap {StopWhenIdle, StopHard, "none"} = {}

VARIABLES
    listed,     \* the session is in app.sessions
    file,       \* the session's file exists
    log,        \* the messages recorded in it
    current,    \* app.chats[id], or NoChat
    chat,       \* the chat objects
    run,        \* the run of each chat: its inbox and its coordinator
    commands,   \* chats whose run has a command at work
    orphans,    \* chats with a command of a run whose coordinator has returned
    handler,    \* what each handler is doing
    appDone,    \* app.ctx is cancelled
    closed,     \* how shutdown returned: "no" (it has not), "waited" or "timeout"
    bounds,     \* history: what the bounds count
    accepted,   \* history: messages send returned nil for, in order
    rejected,   \* history: messages send returned an error for
    interrupted,\* history: messages that were pending when a stop was asked for
    late        \* history: messages sent to a run that had been told to stop

commandVars == <<commands, orphans>>

vars == <<listed, file, log, current, chat, run, commands, orphans, handler, appDone, closed, bounds,
          accepted, rejected, interrupted, late>>

sessionVars == <<listed, file>>
history == <<accepted, rejected, interrupted, late>>

Idle == [at |-> "idle", op |-> "none", text |-> "none", chat |-> NoChat]
NoRun == [at |-> "none", inbox |-> <<>>, idle |-> FALSE, hard |-> FALSE,
          ctxDone |-> FALSE, err |-> "nil"]

NewChat == [made |-> TRUE, running |-> FALSE, stopped |-> FALSE, pending |-> <<>>, failed |-> FALSE]

Init ==
    /\ listed = TRUE /\ file = TRUE /\ log = <<>>
    /\ current = NoChat
    /\ chat = [c \in Chats |-> [NewChat EXCEPT !.made = FALSE]]
    /\ run = [c \in Chats |-> NoRun]
    /\ commands = {} /\ orphans = {}
    /\ handler = [h \in Handlers |-> Idle]
    /\ appDone = FALSE /\ closed = "no"
    /\ bounds = [failures |-> 0, deletes |-> 0, stops |-> 0, commands |-> 0]
    /\ accepted = <<>> /\ rejected = {} /\ interrupted = {} /\ late = {}

Count(what) == bounds' = [bounds EXCEPT ![what] = @ + 1]

-----------------------------------------------------------------------------
(* Handlers: sessionFromPath, then app.chat, then the operation. *)

Known == ToSet(accepted) \cup rejected \cup {handler[h].text : h \in Handlers}

Asks(h, op, m) ==
    handler' = [handler EXCEPT ![h] = [at |-> "listed", op |-> op, text |-> m, chat |-> NoChat]]

Request(h) ==
    /\ handler[h] = Idle /\ listed /\ ~appDone
    /\ Asks(h, "retry", "none") \/ \E m \in Messages \ Known : Asks(h, "send", m)
    /\ UNCHANGED <<sessionVars, log, current, chat, run, commandVars, appDone, closed, bounds, history>>

RequestStop(h) ==
    /\ handler[h] = Idle /\ listed /\ ~appDone
    /\ bounds.stops < MaxStops /\ Count("stops")
    /\ Asks(h, "stop", "none")
    /\ UNCHANGED <<sessionVars, log, current, chat, run, commandVars, appDone, closed, history>>

(* The entry of the table of chats. *)
Existing == current

(* app.chat: the chat of the session, made on its first use. *)
GetChat(h) ==
    /\ handler[h].at = "listed" /\ handler[h].op # "delete"
    /\ IF Existing # NoChat
       THEN /\ handler' = [handler EXCEPT ![h] = [@ EXCEPT !.at = "chat", !.chat = Existing]]
            /\ UNCHANGED <<current, chat>>
       ELSE LET c == CHOOSE d \in Chats : ~chat[d].made
            IN  /\ \E d \in Chats : ~chat[d].made
                /\ current' = c
                /\ chat' = [chat EXCEPT ![c] = NewChat]
                /\ handler' = [handler EXCEPT ![h] = [@ EXCEPT !.at = "chat", !.chat = c]]
    /\ UNCHANGED <<sessionVars, log, run, commandVars, appDone, closed, bounds, history>>

-----------------------------------------------------------------------------
(* Running a coordinator. *)

(* The messages of s that are not in a set, in their order. *)
KeepOutside(acc, m) == IF m \in acc.dropped THEN acc ELSE [acc EXCEPT !.kept = Append(@, m)]
Without(s, dropped) == FoldLeft(KeepOutside, [dropped |-> dropped, kept |-> <<>>], s).kept

(* The inbox drops the inputs the session's file already holds. *)
Unrecorded(inputs) == Without(inputs, ToSet(log))

(* prepareRun finds the session, and queues the pending messages before the *)
(* request to stop when idle. It fails if the session is gone, if the       *)
(* app's context is done, or for want of a provider, a model or a file.     *)
Prepared(inputs) ==
    [NoRun EXCEPT !.at = "running", !.inbox = Append(Unrecorded(inputs), StopWhenIdle)]

CanPrepare == listed /\ file /\ ~appDone

StartSucceeds(c, pending) ==
    /\ CanPrepare
    /\ chat' = [chat EXCEPT ![c] = [@ EXCEPT !.running = TRUE, !.stopped = FALSE,
                                             !.failed = FALSE, !.pending = pending]]
    /\ run' = [run EXCEPT ![c] = Prepared(pending)]

StartFails ==
    \/ ~CanPrepare /\ UNCHANGED bounds
    \/ CanPrepare /\ bounds.failures < MaxFailures /\ Count("failures")

(* send takes the message back when no run could be started for it. *)
TakenBack(c, m) == chat[c].pending

Return(h) == handler' = [handler EXCEPT ![h] = Idle]

AtChat(h, op) == handler[h].at = "chat" /\ handler[h].op = op

(* send to an idle chat starts a run with all that is pending. *)
SendStarts(h) ==
    /\ AtChat(h, "send")
    /\ LET c == handler[h].chat  m == handler[h].text
       IN  /\ ~chat[c].running
           /\ \/ /\ StartSucceeds(c, Append(chat[c].pending, m))
                 /\ accepted' = Append(accepted, m)
                 /\ UNCHANGED <<bounds, rejected>>
              \/ /\ StartFails
                 /\ chat' = [chat EXCEPT ![c].pending = TakenBack(c, m), ![c].failed = FALSE]
                 /\ rejected' = rejected \cup {m}
                 /\ UNCHANGED <<run, accepted>>
    /\ Return(h)
    /\ UNCHANGED <<sessionVars, log, current, commandVars, appDone, closed, interrupted, late>>

(* send to a running chat submits the message to the run's inbox, and is    *)
(* content if the run's context is done.                                    *)
SendJoins(h) ==
    /\ AtChat(h, "send")
    /\ LET c == handler[h].chat  m == handler[h].text
       IN  /\ chat[c].running
           /\ chat' = [chat EXCEPT ![c].pending = Append(@, m), ![c].failed = FALSE]
           /\ run' = [run EXCEPT ![c].inbox = IF run[c].ctxDone THEN @ ELSE Append(@, m)]
           /\ accepted' = Append(accepted, m)
           /\ late' = IF chat[c].stopped THEN late \cup {m} ELSE late
    /\ Return(h)
    /\ UNCHANGED <<sessionVars, log, current, commandVars, appDone, closed, bounds, rejected, interrupted>>

Retry(h) ==
    /\ AtChat(h, "retry")
    /\ LET c == handler[h].chat
       IN  \/ chat[c].running /\ UNCHANGED <<chat, run, bounds>>
           \/ ~chat[c].running /\ StartSucceeds(c, chat[c].pending) /\ UNCHANGED bounds
           \/ /\ ~chat[c].running /\ StartFails
              /\ chat' = [chat EXCEPT ![c].failed = FALSE]
              /\ UNCHANGED run
    /\ Return(h)
    /\ UNCHANGED <<sessionVars, log, current, commandVars, appDone, closed, history>>

(* stop: the first request is submitted, a second cancels the run. *)
Interrupt(ch, r) ==
    CASE ~ch.running -> r
      [] ch.running /\ ch.stopped -> [r EXCEPT !.ctxDone = TRUE]
      [] ch.running /\ ~ch.stopped /\ r.ctxDone -> r
      [] OTHER -> [r EXCEPT !.inbox = Append(@, StopHard)]

Stop(h) ==
    /\ AtChat(h, "stop")
    /\ LET c == handler[h].chat
       IN  /\ chat' = [chat EXCEPT ![c].stopped = @ \/ chat[c].running]
           /\ run' = [run EXCEPT ![c] = Interrupt(chat[c], @)]
           /\ interrupted' = IF chat[c].running THEN interrupted \cup ToSet(chat[c].pending)
                             ELSE interrupted
    /\ Return(h)
    /\ UNCHANGED <<sessionVars, log, current, commandVars, appDone, closed, bounds, accepted, rejected,
                   late>>

-----------------------------------------------------------------------------
(* The coordinator's goroutine. *)

(* publish: an input that is recorded is no longer pending. *)
Published(pending, m) == Without(pending, {m})

(* The coordinator takes an input; it records a message, and the store's    *)
(* observer publishes it to the chat the table names.                       *)
ReadInput(c) ==
    /\ run[c].at = "running" /\ run[c].inbox # <<>>
    /\ LET input == Head(run[c].inbox)
       IN  /\ run' = [run EXCEPT ![c].inbox = Tail(@),
                                 ![c].idle = @ \/ input = StopWhenIdle,
                                 ![c].hard = @ \/ input = StopHard]
           /\ IF input \in Messages
              THEN /\ file
                   /\ log' = Append(log, input)
                   /\ chat' = IF current = NoChat THEN chat
                              ELSE [chat EXCEPT ![current].pending = Published(@, input)]
              ELSE UNCHANGED <<log, chat>>
    /\ UNCHANGED <<sessionVars, current, commandVars, handler, appDone, closed, bounds, history>>

CommandStarts(c) ==
    /\ run[c].at = "running" /\ ~run[c].hard /\ ~run[c].ctxDone
    /\ c \notin commands
    /\ bounds.commands < MaxCommands /\ Count("commands")
    /\ commands' = commands \cup {c}
    /\ UNCHANGED <<sessionVars, log, current, chat, run, orphans, handler, appDone, closed, history>>

CommandEnds(c) ==
    /\ \/ c \in commands /\ commands' = commands \ {c} /\ UNCHANGED orphans
       \/ c \in orphans /\ orphans' = orphans \ {c} /\ UNCHANGED commands
    /\ UNCHANGED <<sessionVars, log, current, chat, run, handler, appDone, closed, bounds, history>>

Returns(c, err) == run' = [run EXCEPT ![c] = [@ EXCEPT !.at = "returned", !.err = err, !.ctxDone = TRUE]]

(* Run returns when it is stopped or idle and no command runs; at once when *)
(* its context is done; and with an error when a step fails. Its context is *)
(* then cancelled, and with it a command that nobody waits for any more.    *)
RunReturns(c) ==
    /\ run[c].at = "running"
    /\ \/ /\ (run[c].idle \/ run[c].hard) /\ c \notin commands /\ ~run[c].ctxDone
          /\ Returns(c, "nil")
          /\ UNCHANGED bounds
       \/ /\ run[c].ctxDone
          /\ Returns(c, "canceled")
          /\ UNCHANGED bounds
       \/ /\ ~run[c].ctxDone
          /\ \/ ~file /\ UNCHANGED bounds
             \/ bounds.failures < MaxFailures /\ Count("failures")
          /\ Returns(c, "failed")
    /\ commands' = commands \ {c}
    /\ orphans' = orphans \cup (commands \cap {c})
    /\ UNCHANGED <<sessionVars, log, current, chat, handler, appDone, closed, history>>

(* Faulty variant: a failed run loses what it had not read. *)
Cleared(c) == <<>>

(* What is still pending when a run has finished: nothing after a stop. *)
Leftover(c) == IF chat[c].stopped THEN <<>> ELSE chat[c].pending

(* Faulty variant: what came in too late is left for the user to retry. *)
NeverRestarts(c, left) == FALSE

Restarts(c, left) == run[c].err = "nil" /\ left # <<>>

(* finished: a run that ended well is followed by another one when messages *)
(* came in too late for it.                                                 *)
Finished(c) ==
    /\ run[c].at = "returned"
    /\ LET left == Leftover(c)
           again == Restarts(c, left)
           idle == [chat[c] EXCEPT !.running = FALSE, !.pending = left,
                                   !.failed = @ \/ run[c].err = "failed"]
       IN  \/ again /\ StartSucceeds(c, left) /\ UNCHANGED bounds
           \/ /\ again /\ StartFails
              /\ chat' = [chat EXCEPT ![c] = [idle EXCEPT !.failed = TRUE]]
              /\ run' = [run EXCEPT ![c] = NoRun]
           \/ /\ ~again
              /\ chat' = [chat EXCEPT ![c] = idle]
              /\ run' = [run EXCEPT ![c] = NoRun]
              /\ UNCHANGED bounds
    /\ UNCHANGED <<sessionVars, log, current, commandVars, handler, appDone, closed, history>>

-----------------------------------------------------------------------------
(* Deleting a session, one lock after the other. *)

RequestDelete(h) ==
    /\ handler[h] = Idle /\ listed /\ ~appDone
    /\ bounds.deletes < MaxDeletes /\ Count("deletes")
    /\ Asks(h, "delete", "none")
    /\ UNCHANGED <<sessionVars, log, current, chat, run, commandVars, appDone, closed, history>>

(* Whether deleteSession may drop the chat. *)
Deletable == current # NoChat => ~chat[current].running

DropChat(h) ==
    /\ handler[h].at = "listed" /\ handler[h].op = "delete"
    /\ IF Deletable
       THEN /\ current' = NoChat
            /\ handler' = [handler EXCEPT ![h].at = "dropped"]
       ELSE Return(h) /\ UNCHANGED current
    /\ UNCHANGED <<sessionVars, log, chat, run, commandVars, appDone, closed, bounds, history>>

Unlist(h) ==
    /\ handler[h].at = "dropped"
    /\ listed' = FALSE
    /\ handler' = [handler EXCEPT ![h].at = "unlisted"]
    /\ UNCHANGED <<file, log, current, chat, run, commandVars, appDone, closed, bounds, history>>

RemoveFile(h) ==
    /\ handler[h].at = "unlisted"
    /\ file' = FALSE
    /\ Return(h)
    /\ UNCHANGED <<listed, log, current, chat, run, commandVars, appDone, closed, bounds, history>>

-----------------------------------------------------------------------------
(* Shutting down. *)

Shutdown ==
    /\ ~appDone
    /\ appDone' = TRUE
    /\ run' = [c \in Chats |-> [run[c] EXCEPT !.ctxDone = @ \/ run[c].at = "running"]]
    /\ UNCHANGED <<sessionVars, log, current, chat, commandVars, handler, closed, bounds, history>>

(* shutdown returns once every run's goroutine has ended, or after a while. *)
ShutdownWaited ==
    /\ appDone /\ closed = "no"
    /\ \A c \in Chats : run[c].at = "none"
    /\ closed' = "waited"
    /\ UNCHANGED <<sessionVars, log, current, chat, run, commandVars, handler, appDone, bounds, history>>

ShutdownTimesOut ==
    /\ appDone /\ closed = "no"
    /\ closed' = "timeout"
    /\ UNCHANGED <<sessionVars, log, current, chat, run, commandVars, handler, appDone, bounds, history>>

HandlerSteps(h) ==
    \/ GetChat(h) \/ SendStarts(h) \/ SendJoins(h) \/ Retry(h) \/ Stop(h)
    \/ DropChat(h) \/ Unlist(h) \/ RemoveFile(h)

Next ==
    \/ \E h \in Handlers : Request(h) \/ RequestStop(h) \/ RequestDelete(h) \/ HandlerSteps(h)
    \/ \E c \in Chats :
         ReadInput(c) \/ CommandStarts(c) \/ CommandEnds(c) \/ RunReturns(c) \/ Finished(c)
    \/ Shutdown \/ ShutdownWaited \/ ShutdownTimesOut

(* Handlers and runs go on; a command need not end, nor need the user act.  *)
RunSteps(c) == ReadInput(c) \/ RunReturns(c) \/ Finished(c)

Fairness ==
    /\ \A h \in Handlers : WF_vars(HandlerSteps(h))
    /\ \A c \in Chats : WF_vars(RunSteps(c))

Spec == Init /\ [][Next]_vars /\ Fairness

-----------------------------------------------------------------------------
(* Properties. *)

Held(m) == m \in ToSet(log) \/ \E c \in Chats : m \in ToSet(chat[c].pending)

TypeOK ==
    /\ current \in Chats \cup {NoChat}
    /\ \A c \in Chats :
        /\ chat[c].running <=> run[c].at # "none"
        /\ chat[c].running => chat[c].made
        /\ ToSet(chat[c].pending) \subseteq Messages
    /\ ToSet(log) \subseteq Messages

(* gui/chat.go, send: whatever the interleaving of sending, winding down,   *)
(* failing and retrying, a message the user was told was accepted is        *)
(* recorded or still pending, unless a stop was asked for while it was, or  *)
(* before it was sent.                                                      *)
AcceptedIsKept == \A m \in ToSet(accepted) : Held(m) \/ m \in interrupted \cup late

(* gui/chat.go: "Nothing was persisted; the UI puts the message back in the *)
(* composer". A message the user was told was not sent is never recorded,   *)
(* nor is it left to be recorded by a later run.                            *)
RejectedIsGone == \A m \in rejected : ~Held(m)

(* A message is recorded once, though it is handed to every run until it    *)
(* has been, and though its record may be published to another chat.        *)
RecordedOnce == IsInjective(log)

(* Messages are recorded in the order in which they were accepted, across   *)
(* runs that fail, wind down and restart.                                   *)
RecordedInOrder ==
    \A i, j \in DOMAIN accepted :
        i < j /\ accepted[i] \in ToSet(log) /\ accepted[j] \in ToSet(log)
            => \E a, b \in DOMAIN log : a < b /\ log[a] = accepted[i] /\ log[b] = accepted[j]

(* A session that nobody is deleting has at most one coordinator.           *)
OneCoordinator ==
    (\A h \in Handlers : handler[h].op # "delete") /\ listed
        => Cardinality({c \in Chats : chat[c].running}) <= 1

(* A message is recorded once, also while its session is being deleted; and *)
(* unless it is, the session has one coordinator, what the user was told of *)
(* a message stays true while runs start, fail, wind down, are stopped and  *)
(* restarted, and messages are recorded in their order (gui/chat.go, send,  *)
(* start and finished; gui/app.go, deleteSession).                          *)
MessagesAreKept ==
    /\ TypeOK /\ RecordedOnce /\ OneCoordinator
    /\ bounds.deletes = 0 => AcceptedIsKept /\ RejectedIsGone /\ RecordedInOrder

(* gui/chat.go, finished: an accepted message is recorded, unless the chat  *)
(* is stopped or deleted, a run fails or the program ends.                  *)
AcceptedIsRecorded ==
    \A m \in Messages :
        (m \in ToSet(accepted)) ~>
            (m \in ToSet(log) \/ m \in interrupted \cup late \/ bounds.failures > 0
               \/ bounds.deletes > 0 \/ appDone)
-----------------------------------------------------------------------------
(* For TLC: a session is deleted, or its runs fail, are stopped and start a *)
(* command.                                                                 *)
InScenario == bounds.deletes = 0 \/ bounds.failures + bounds.stops + bounds.commands = 0
=============================================================================

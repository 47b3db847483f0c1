# A TLA+ model of the agent harness and its programs

This directory specifies the harness, the command-line runner and the desktop app in
TLA+, model-checks them with TLC on small instances, and proves with TLAPS, for
every instance, what the inbox, the session store, the coordinator and the approval gate
promise. Paths below are relative to the repository.

## 1. The system

The harness runs one *coordinator* per session. Messages of users and owners
arrive through an *inbox*; the coordinator records them in the *session store*,
asks a *model* through an LLM adapter, has the tool calls in its responses
translated into *operations*, and hands these to the *operation manager*, which
runs them on top of *primitives* (processes, files, timers, remote calls).
Everything the coordinator decides is appended to the session's log before it
acts on it, so that a new process can take over from the log alone. Two programs
are built on it: a runner that answers one request and exits, and a desktop app
that keeps several sessions, with a gate that holds commands until the user has
approved them, and that comes with command-line tools for the web and for documents.

| Component | State | Operations | Interacts through |
| --- | --- | --- | --- |
| Session inbox (`harness/inbox`) | set of seen IDs, queue | `Submit`, output channel, context cancellation | unbuffered channels to submitters and coordinator |
| Coordinator (`harness/coordinator`), context builder (`harness/contextbuilder`) | `loopState`, committed and staged entries, stop request, cancel function of the model call | one event loop: inputs, updates, heartbeat, grace timer, responses | all others |
| Session store (`harness/sessionstore`) | one append-only file per session, cache of head and committed size | `Create`, `Fork`, five appends, `Resume`, `Items` | calls by coordinator, observers |
| LLM adapter and clients (`harness/llm`) | attempt, accumulated items; credentials | `Respond` with retries | one goroutine per turn, shared event channel |
| Tool registry, translators (`harness/tool`) | registered skills | `Translate`, `TranslateResult`, registration | synchronous calls by coordinator |
| Operation manager (`harness/operation`) | running operations, pending updates, active primitives, remote job handlers | `Add`, `Cancel`, `Updates`, shutdown | channels |
| Operations (shell, image, skill, value, remote job) | durable phase, memory of the actor | `Handle` per primitive event | manager |
| Primitives (`harness/primitives`) | processes, files, timers, requests | start, cancel, controls | event channel |
| Agent runner (`cmd/internal/agentrunner`) | environment, opened resources, one session | set up, run, undo | all of the above |
| Chats (`gui/chat.go`, `app.go`) | pending messages, run, table of chats | send, stop, retry, delete, shut down | inbox, coordinator's goroutine |
| Approval gate (`gui/approvals.go`) | held commands | add, cancel, decide, switch | between coordinator and manager |
| Event stream (`gui/chat.go`, `server.go`, `ui/app.js`) | items, subscribers, last item the page was given | publish, subscribe, reconnect | channels, HTTP |
| Settings, model catalog (`gui/config.go`) | configuration, its file, environment, cached lists | update, save, prepare a run, list models | HTTP handlers |
| Session table, uploads, workspace files (`gui/app.go`, `server.go`) | list of sessions, files | create, touch, delete; upload, list, show | HTTP handlers |
| Start and end of the app (`gui/main.go`) | lock, token, skills | start, serve, quit | file system, signals |
| Web and document tools (`gui/tools.go`) | none | search, paginate, convert | standard output, read by the model |

What is hard about it: submissions race with cancellation; an append consists of
four system calls of which each may fail or be the last; the process may die
between any two appends; messages interrupt the model while the old response is
still under way; tool results arrive before, during and after a model call; a
stop has to wait for things that end in any order; a fork shares history with a
parent it must not act for; a command passes through a dozen phases, each of which
may be the last before a crash; processes ignore signals and leave descendants;
idle timers race slow receivers; the handlers of the app interleave wherever they
hold no lock. PROJECT.json lists these hazards with their lines and the properties
that answer them.

What makes the parts correct:

* inbox: nil means recorded or delivered exactly once, in order; no `Submit` hangs;
* store: what was acknowledged is durable and in place, every file decodes, the
  cache never differs from the file, `Resume` is complete, forks own only their own;
* coordinator: a restart restores exactly what was lost; only committed operations
  run; the store never refuses an append; requests are complete and inputs counted
  right; late responses are ignored; messages are answered; stops are final and end;
* operations: primitives are counted exactly, results are the true output within its
  limits, cancellations and recorded starts stand, what is asked to end ends;
* primitives: one terminal event, told when nothing of the work is left; no output lost;
* adapter and runner: a response is that of the last attempt, items go back as they came,
  everything set up is undone, the exit code tells the truth;
* app: messages accepted are kept, nothing runs without approval, the page misses nothing,
  files survive crashes and concurrent requests, one process uses the data directory.

## 2. The modules

| Module | Models |
| --- | --- |
| `DedupFIFO` | abstract specification: what an inbox promises its reader |
| `Inbox` | `inbox/local.go`: the rendezvous of `Submit` with the inbox goroutine |
| `SessionHistory` | `localfile/state.go`, `codec.go`: which record may follow a history, decoding, resume, fork (operators only) |
| `SessionStore` | `localfile/store.go`: files, cache, appends step by step, faults, crashes |
| `LoopState` | `loopState` and `addItemToLocalState` of `coordinator/loop.go` with `contextbuilder/builder.go`, and replaying a log (operators only) |
| `Coordinator` | the event loop of `coordinator/loop.go` with inbox, log, model and manager around it |
| `Operations` | `operation.go`, `output.go` and the steps of the actors of values, skills, images, remote jobs and, phase by phase, shell commands (operators only) |
| `OperationManager` | `local_manager.go`, `remote_job_handler.go` with the operations, the primitives as they are promised, the coordinator that saves, crashes; the result translators of `harness/tool` |
| `ProcessPrimitive`, `RemotePrimitive`, `FileRead`, `PathCreate`, `TimerPrimitive`, `ComputePrimitive` | the primitives of `harness/primitives`, each with the part of the operating system it uses |
| `SSEFramer` | `remote_sse.go`, byte by byte |
| `ResponsesExchange` | `llm/responsesapi`: retry loop, attempt, accumulation of items, classification of errors, delays |
| `ItemReplay` | items from the wire to the log, back, and to the wire again |
| `CodexClient` | credentials of the Codex client |
| `ToolRegistry` | discovery and registration of skills, resolution and translation of calls |
| `AgentRunner` | `cmd/internal/agentrunner` from the request to the exit code |
| `Chat` | `gui/chat.go`, `app.go`: chats, their runs, the handlers |
| `ApprovalGate` | `gui/approvals.go` |
| `EventStream` | publishing, the handler of a connection, the page's reconnection |
| `Settings`, `ModelCatalog` | `gui/config.go` |
| `SessionTable`, `Uploads`, `WorkspaceFiles`, `Startup` | the rest of the app's state |
| `WebSearch`, `Pagination`, `HtmlText`, `OfficeArchive` | the tools of `gui/tools.go` |
| `SessionStoreProofs`, `CoordinatorProofs`, `OperationManagerProofs`, `ChatProofs`, `GuiProofs` | theorems; those about the inbox are at the end of `Inbox` |
| `HistoryProofs` | lemmas about the operators of `SessionHistory` and `LoopState` |
| `FoldInduction` | induction over sequences for one operation, to be instantiated |
| `MC...` | the instances that TLC checks; `Inbox` and `Chat` have theirs at their end |

`Coordinator` composes the others of its package: it EXTENDS `LoopState` (and with it
`SessionHistory`), and represents the inbox by what `DedupFIFO` promises and the store by
the history it keeps. `OperationManager` EXTENDS `Operations`. `Chat` has the
coordinator reduced to what a chat sees of it; `ResponsesExchange` has the remote primitive
reduced to the order of its events, which `RemotePrimitive` checks. Operators whose comment
says "Faulty variant" are not part of the specifications: each is a plausible mistake in
one definition, used to show that a property notices it.

### Inbox

`submit[c]` is the latest `Submit` of goroutine `c`: `BeginSubmit` is the part up
to the select, `TakeSubmission` and `AbandonSubmit` are the two ways out of it.
`HandOut` and `Return` are the other branches of the inbox goroutine's select.
`CancelContext` belongs to the owner. A context of a caller may be done at any
time, so `AbandonSubmit` has no further guard. Refinement to `DedupFIFO`: accepted
is what was handed out followed by what is queued.

### Session history and store

A record is a line of the log; an operation is abstracted to its status, a turn to
an ID. `CanAppend` and `AppendTo` are the checks and the effects of the `append...`
functions of `state.go`, the kinds of an input and the empty call ID (`NoID`) included;
`Decode` is `decodeLog`, with inherited history up to the last fork line. `ToResume` is
`resume`.

In `SessionStore` an append is `BeginAppend` (load the write state, check),
`Truncate`, `Write`, `SyncAndClose`. The head's maps are shared between the cache and
the call, so `BeginAppend` changes the cached head before anything is written
(`Aliased`); the error path is `Fail`, which evicts. File sizes count lines, a
partial line is the flag `torn`, and a line written behind a torn tail is `Garbled`.
`ProcessCrash` keeps the files; `MachineCrash` keeps what was synced and any part of
the rest, and may lose a file whose directory entry was not synced (`linked`). Only `Create` and
`Fork` sync the directory; an append does not, whatever happened to them. Methods of one
session are not called concurrently, as the interface demands; methods of different
sessions interleave.

### Coordinator

One action is a stretch of the event loop between two points at which the goroutine
waits for a channel or has finished a store call, so other goroutines interleave, and
the process can die, after each append. `pc` names the place:

| `pc` | place in `Run` |
| --- | --- |
| `boot_schedule`, `boot_reconcile`, `boot_request` | before the loop: tool calls without a status, calls whose operations ended, the first model call |
| `select` | the select |
| `schedule` | `handleModelResponse` after the response was stored |
| `slurp_inputs`, `slurp_updates` | the two slurps of `processEvents`; the model may end a slurp at any time, because the code does after a quiet millisecond or at a limit |
| `reconcile` | `reconcileToolCalls` and the decision after it |
| `down`, `stopped` | no run; after an error or crash, after a stop |

`image` is what reading `log` back gives: the store's head, the replayed loop state,
operations whose end is missing from the items, recorded input IDs. It is maintained
record by record (`Extend`); `LogReadsBack` checks that it equals reading the whole
log from the start. A failing store call, persisted or not, ends `Run` and drops its
memory, which is `Die` before or after the step. Turn IDs are numbered to keep them
fresh, operations are named after their call.

### Operations and their manager

An actor is a function from an operation, its memory and an event to a step: a checkpoint
and primitives to start. `Handle` chooses the actor by type. One action of `OperationManager`
is one round of the manager's select; `HandleEvent` and `AcceptStep` are the rounds of an
event, `Add`, `Cancel`, `NoticeDone`, `DrainEvent`, `Close` the others. Primitives are
sequences per operation; what they do to the world and the delivery of an event are separate
steps. `TakeUpdate` is the coordinator receiving and saving a checkpoint, `Restart` a crash
after which a new manager resumes from `saved`. A command has its own process group and outlives
a crash, and a descendant that has left the group outlives the command itself: its ID is then among
`strays`, and `StrayWrites` may overwrite, at any time, the captures that this or a second run reads. Texts are sequences of bytes, each ASCII,
leading or continuation, so a read limited in bytes can split a character.

### Primitives

`ProcessPrimitive` has a leader and a descendant in its group, the pipes either of them
may hold open, one goroutine per output, and control requests. The operating system
delivers signals, lets processes ignore SIGTERM and not SIGKILL, and closes a pipe when its
last holder is gone. Reading an output may fail (`ReadFails`): the stream is reported as failed and
ends there, the process goes on. `RemotePrimitive` has the idle timer, which may fire in the moment it is
paused, and a server that answers, fails or goes silent. `PathCreate` separates what a
directory holds from what survives a crash. `TimerPrimitive` has two clocks, of which the
wall clock jumps. Backoff is computed with integers that wrap around.

### Adapter, runner and tools

`ResponsesExchange` shares one channel between all attempts and takes any sequence of the
frames it is given from the server. `AgentRunner` walks the steps of a run in the order of
the code and undoes the opened ones in reverse; a run may fail or die at each, and be
repeated. It waits for the end of its input, which its caller may never close (`EndOfInput`), and an
interrupt does not end that wait; a `.env` that is missing differs from an empty one. In
`CodexClient` the service refuses expired tokens and may refuse any other, revoked before its time.
`ItemReplay` has reasoning as a JSON value with a form, because requests marshal it again. `HtmlText`, `OfficeArchive` and `WebSearch` visit documents node by node; `Pagination`
follows the notes from page to page on integers that wrap around, and has the two ways in which
that ends early: `stuck` before a character wider than the limit, and `panicked`.

### The app

The handlers in `Chat`, `ApprovalGate`, `SessionTable`, `Settings`, `Uploads` and
`WorkspaceFiles` interleave at the points where they hold no lock. The page of `EventStream`
keeps the ID of the last item it was given and connects again with it. Crashes
keep what was renamed into place. A delete is acknowledged when the save failed and the file was
missing already; the part of an upload that failed is left behind if it cannot be removed or the
process dies; a provider without a catalog answers with its recommended models (`AskPicks`); the
text of a document is read by its path, after it was looked up below the root, so that a link put
there in between leads outside (`Away`). `Startup` has two instances on one data directory; one
that ends releases its lock (`Unlock`) before its process and its coordinators are gone (`Exit`).

## 3. The runs

| Run | Instance | Shows |
| --- | --- | --- |
| `inbox` | 2 goroutines, 4 inputs with 3 IDs, one recorded before, one invalid | dedup FIFO, acknowledgement, nobody is stuck |
| `session_store` | 1 session, 6 lines, 2 turns, 2 faults | durability, decoding, cache, resume, history only grows |
| `session_fork` | 2 sessions, 5 lines, 1 turn, 1 fault | forks under concurrent appends |
| `coordinator` | 1 message with heartbeat and both stops; 2 messages and a call with 1 or 2 operations; 2 calls; settings; 2 starts each | recovery, dispatch, accounting, complete requests, late responses, stops |
| `coordinator_forked_session` | a fork of a parent with an open call, 2 starts | what is stored reads back; no continuation of the parent's work |
| `coordinator_live` | 2 messages and 1 call across a crash, or both stops without | messages are answered, stops end |
| `operations` | a command beside a skill use; a command, a skill use, an image or a value across a restart; two remote jobs with two handlers | counts, results, decisions, ends |
| `command_runs_again` | the same | that a command can run twice (section 5) |
| `chat` | 2 messages, 2 requests, 2 chats; a failure, a stop, a retry and a command, or a deletion | messages |
| `gui` | per part: 2 commands and 2 deciding handlers; 3 connections; 2 variables, 2 providers, 2 updates and a crash; 2 overlapping catalog requests; 2 sessions with a failing save and a crash; 2 uploads of 5 files; 2 instances and 3 starts; 2 workspaces | section 2, the app |
| `primitives` | per part: 3 requests for a process with a descendant and 3 controls; 3 attempts of 2 chunks; a file of 4 bytes that changes; 3 creators and 2 removals; deadlines across jumps; 2 computations | one true end, nothing lost |
| `agent` | per part: 13 requests, 4 environments, 5 `.env` files or none, 2 runs; 2 attempts of up to 3 of 16 frames; streams of 8 bytes; histories of 3 items; 2 accounts; skills in 3 places; all short texts; pages of 3 words; archives of 4 members; result pages of 4 blocks | what is told to and by the model |

`MCGui` (which EXTENDS `ApprovalGate` and instantiates the others), `MCPrimitives` and
`MCAgent` hold several specifications that share no state. One
of them, chosen by the initial state, moves: a behaviour of all of them is one of each, and
states add up instead of being multiplied. Their invariants are conjunctions over the parts,
each conjunct a property of the part's own module with its own comment.

Why the bounds suffice for the cases of interest: two messages are the fewest for an
interrupt, an interrupted turn with a late response, and a message during a tool call;
two starts allow one crash at every point; two faults allow a failed append followed by
a crash or a second failure in its retry; two operations distinguish a call that is
partly done. A limit of two characters with texts of up to five bytes has captures that are
shorter, longer, split and overlapping; three attempts reach a backoff that doubles, saturates
and would wrap; two removals exhaust the retries of a creator; three connections allow two
reconnections, one after a cut and one after a full channel. `Overwrites` has captures that a stray
process leaves, longer and shorter than what was read of them. Pages have texts with characters of one to three bytes and limits
below, at and above them, up to the largest integer.

A CONSTRAINT selects scenarios: it leaves out combinations of submissions, additions,
restarts, controls and chunks of output, which come from outside and are never under fairness, so that no
liveness counterexample is hidden by it nor made by it. Deadlock is not checked where the
system may rest: a session with nothing to do waits for its user, and the bounds end a
behaviour. `Die` needs a start to be left, so that every crash is followed by the possibility
of recovery.

### Fairness

* Coordinator: weak fairness of its goroutine (it runs when it can, and Go's select picks
  among ready branches at random, so none is passed over for ever); of a model call, which
  ends because the adapter's attempts are bounded (`AgentEnds`); of the end of an operation
  that was asked to cancel (`EndsWhenAsked`). Operations that were not asked to cancel may run
  for ever, users need not send anything, processes need not restart.
* Inbox: its goroutine, the coordinator reading from it, and the return of a `Submit` whose
  inbox context is done.
* Operation manager: its loop, the coordinator taking updates, and the primitives that were
  cancelled; a command need not end by itself.
* Chat: every handler and every goroutine of a run that can go on.
* Approval gate: coordinator, deciding threads and forwarding goroutine; strong fairness of
  receiving and forwarding an update, as sender and receiver meet in selects that pick at random.
* Event stream: the handler of a connection, the browser reading and reconnecting, which its
  `EventSource` does by itself. Connections are cut finitely often.
* App: the goroutines that end it, whose waits have limits; neither coordinators nor requests
  need to end.
* Process: its goroutines, the kernel reaping and executing SIGKILL; processes need not obey
  SIGTERM nor read or write. Remote request: its goroutine and its timer; the server need
  not answer. Adapter: its loop, and the remote request's terminal event, which the former shows.
* Runner: its own steps once its input has ended, and the return of a coordinator whose context
  was cancelled. Nothing makes the caller close its end of the input, and before that an interrupt
  has no effect; `CanceledExits` is about runs whose input has ended.

## 4. The proofs

TLAPS proves the following for every value of the constants; the proofs are in modules
of their own, except the few about the inbox.

### Inbox (`Inbox`, at its end)

For any callers, inputs and IDs known beforehand: the set of seen IDs is exactly what was
recorded or accepted (`SeenIsExact`); a nil from `Submit` stands for one input, no more and
no less (`NilMeansAcknowledgedOnce`); `Inbox` refines `DedupFIFO` (`InboxImplementsFIFO`).
The inductive invariant `IInv` adds to the properties that accepted IDs are unique, that
whoever waits in `Submit` waits with a valid input, and that an acknowledged ID has been
seen; without these a step of the inbox goroutine could accept an ID twice.

### What a log says (`FoldInduction`, `HistoryProofs`)

`Items`, `Decode`, `UnrecordedOperations`, the replay of a log and the removal of a
placeholder are left folds. The library's induction theorems take a predicate, which the
provers cannot instantiate; `FoldInduction` therefore derives induction for a set of numbers
from the fact that a nonempty set of naturals has a least element, and from it the two
equations of a fold, for a constant operation `Op` that an INSTANCE replaces. With these,
`HistoryProofs` shows what each of the operators gives for one more line, what a fork makes
of any log, and, by induction over logs, that replayed counters are balanced and that turns
come before their responses.

### Session store (`SessionStoreProofs`)

For any sessions, any records the callers may try, any number of faults, crashes and forks.

| Theorem | Property |
|---|---|
| `AppendsAreDurable` | `AcknowledgedIsDurable` |
| `FilesAlwaysDecode` | `AlwaysDecodes` |
| `CacheIsTrue` | `CacheAgrees` |
| `ForksAreSound` | `ForkIsSound` |
| `ResumeCompletes` | `ResumeIsComplete` |
| `HistoryGrows` | `HistoryOnlyGrows` (an action property) |

`SessionInv` (theorem `StoreInvariant`) says of every session by itself how six values
belong together: its file, the number of synced lines, whether its directory entry is synced,
the cache, the append in progress and what was acknowledged. The file decodes, and what it
inherited is synced (`LogOK`); an append that has not written yet was prepared for the file as it is, one that has
written has its line as the last one (`CallOK`); the cache of an idle session is what the file
decodes to (`CacheOK`); acknowledged lines are among the synced ones. The directory entry is on
disk for the sessions whose `Create` or `Fork` returned nil, and not for one that was found after
its directory could not be synced. An action changes one
session, so a lemma per system call is about values, and the sessions it does not touch need
no argument. The cache is the reason for the shape: it is wrong while an append is under way,
because its maps are shared, and only `Fail` and `SyncAndClose` make it right again.

`ResumeCompletes` has a hypothesis about the callers, `CallersFaithful`: they save nothing of
an operation that has ended, and later statuses of a call repeat stored states. Without it the
property is false, and the store does not check it. The records of `MCSessionStore` satisfy
it, and `CoordinatorIsFaithful` proves that every log the coordinator writes does.

### Coordinator (`CoordinatorProofs`)

For any messages, stops, settings, calls, any number of operations per call, any number of
restarts, and any session that is new or a fork.

| Theorem | Property |
|---|---|
| `TypeCorrect` | `TypeOK` |
| `RecoveryExact` | `RecoveryIsExact` |
| `StoreAlwaysAccepts` | `StoreAccepts` |
| `CommittedBeforeDispatch` | `DispatchedIsCommitted` |
| `AlwaysTranslated` | `TranslatedBeforeReconcile` |
| `HardStopFinal` | `HardStopIsFinal` (an action property) |
| `LogAlwaysReadsBack` | `LogReadsBack` |
| `ResponsesAnswerLatest` | `ResponseAnswersLatestTurn` |
| `MessagesRecordedOnce` | `MessageRecordedOnce` |
| `PendingAreUnanswered` | `PendingIsUnanswered` |
| `StopsLeaveNothingRunning` | `StopLeavesNothingRunning` (an action property), given `StartsAccounted` |
| `RequestsAreComplete` | `RequestIsComplete`, given `StartsComplete` |

`TypeOK` has, besides types, the order of the three counters of inputs: delivered, of the turn,
available. The first six follow from one inductive invariant, `Inv`, because they depend on each other.
The store accepts a turn because the loop state is the replayed one; it is the replayed one
only as long as the store accepts what was added to memory first. `Inv` has two halves:

- `ImageInv`, about the log alone: turns are numbered and the head and the items agree on
  the latest (`TurnsOK`); the head and the items know the same operations, and wherever
  the items have missed the latest state Resume supplies it (`OpsOK`); a call is
  translated exactly if it has a status on record, and has no operation before
  (`CallsOK`). One lemma per kind of record (`ImageInput` to `ImageOperation`) says that
  appending it keeps this.
- The rest, about memory: the loop state agrees with the image (`MemoryOK`); the manager
  and the queued updates have operations the loop thinks unfinished, and a terminal update
  is the last of its operation (`ManagerOK`); what is being scheduled is not dispatched
  yet (`UndispatchedOK`); and what holds at which `pc` (`ControlOK`).

`HistoryProofs` says, per kind of item, which fields `AddItem` and `AppendTo` change,
and that two loop states that agree still agree after the same item: this is what makes
replaying and living through an item the same. One lemma per action then shows `Inv`
preserved. Before it was proved, `Inv` was checked with TLC on the scenarios of the runs
`coordinator` and `coordinator_forked_session`.

The others are layers on top of `Inv`. Lemma `StepRecords` reduces a step to "the log stays"
or "this record, which the store accepts, is appended", so that each of the following
invariants is a fact about one more record:

- `LogInv`: the log reads back to the image, its newest turn is the head's, every response
  answers the newest turn before it, and every line is faithful.
- `InboxInv`: what waits in the inbox has been seen and is not on record; what is on record
  has been seen by the inbox of this run, because Resume seeded it.
- `Balanced`: in the loop state that a log replays to, the counters are those of its context;
  by induction over logs, so that it holds of what a fork inherited too.
- `AskInv` (`AskersArePending`): whoever wants the model asked is among the pending inputs.
  An idle session has none, so nothing on record is unanswered when a stop ends the run.
- `ContextInv` and `AskedInv` (`ContextIsKnown`): every recorded message is in the context
  once; an unfinished call that was translated has a placeholder, a finished one exactly one
  final result; while the model is asked, every unfinished call has its placeholder among the
  committed entries.

`StartsAccounted` and `StartsComplete` are hypotheses about the log a session starts from:
an unanswered turn in it has pending inputs, and its calls have results or placeholders. They
hold of every new session (`NewIsAccounted`, `NewIsComplete`). Of a fork they need not: it may
cut off the result of an inherited call (FIXME at `loop.go:552`).

### Operation manager (`OperationManagerProofs`)

For any operations, remote job handlers, files, ways a command may end and number of restarts.

| Theorem | Property |
|---|---|
| `PrimitivesAlwaysAccounted` | `PrimitivesAccounted` |
| `DecisionsAlwaysStand` | `DecisionsStand` (an action property) |
| `OperationsEndOnce` | `EndsOnce`, a part of `ReportsAreTrue` |
| `StoppedHandlersHaveNoJobs` | `NoJobOfStoppedHandler`, a part of `ReportsAreTrue` |

The argument has two layers. The actors are functions from an operation and an event to a step,
and `StepOK` says what the manager needs to know of one: it keeps the identity of its
operation, changes nothing it does not checkpoint, starts at most one primitive and that only
when none is running, completes only on the completion of a primitive, and starts a command
only from a phase before it. `HandleStep` proves this of every actor, phase by phase for the
shell's. On top of it, `IInv` (theorem `ManagerInvariant`) relates the count to the running
primitives (`Counted`; adding or removing one changes the cardinality by one) and says of the
states of an operation, in the order saved, queued, at its actor, that each may be followed by
the next (`Queue` with `Precedes`: nothing follows an end, and a job being cancelled does not
become active again). `Precedes` is transitive, which is why a checkpoint may be queued behind
any number of others and why the property survives the coordinator taking the oldest.
`ActorStarts` and `ProcessStarts` follow the permission to start a command from what the manager
was given over the actor's phase to the primitive. `OperationsEndOnce` is what the model of the
coordinator takes for granted of its manager, and `CoordinatorProofs` uses.

### Chats (`ChatProofs`)

`MessagesStayKept`, for any chats, handlers, messages, failures, stops and deletions, states
`MessagesAreKept`. Its inductive invariant (theorem `ChatInvariant`) has a part per concern. A chat runs while its run exists
(`Lifecycle`); a message that is about to be sent belongs to one handler and was not answered yet
(`Requests`); while the session is listed and nobody has dropped its chat there is only the one
in the table (`Deleting`); every message is recorded, pending with one chat or let go of by a
stop, and a message in an inbox is pending and unrecorded (`Owned`, `Kept`). The order needs more
than the property says: what is pending follows what is recorded, a run that can still be sent to
has all of it in its inbox, and nothing in the inbox overtakes what was accepted before it
(`InOrder`); this is what lets a failed run leave its messages to the next.

### The app around its chats (`GuiProofs`)

The four invariants of the run `gui`, each of its parts' own specifications and, together, of the
one that is model-checked (`GuiAlwaysRight`: a step of the GUI is one, or none, of each part).

* Approval gate. `GateAlwaysTight`, for any commands, handlers and number of permission switches:
  nothing runs without approval, a submitted command is in exactly one place until its end has
  been received once, and the user sees what waits. `GateInv` says who holds commands between the
  steps of a handler and that whoever is about to start them was allowed to (`Allowed`), and states
  the places as a set with one element (`Placed`), so that an action is a move from one place to
  another (lemma `Moved`).
* Event stream. `NothingEverSkipped`, for any capacity, connections, items and cuts. What is on
  its way to the page, on the wire, in the backlog and in the channel, must go on from where the
  page is, although status events lie between the items: `Counts` has a function over the
  positions that counts the items, so that appending, taking the first and joining are lemmas
  without induction. While its channel is registered, a connection carries everything up to the
  last item; one that was dropped as too slow ends earlier, but has no gap (`Feeds`).
* `DataAlwaysKept`, from three invariants. Settings (`SettingsInv`): the file is the configuration until
  the update that holds the lock has renamed its own over it, an update of another field leaves
  the variables alone, and a variable that was exported once and is no longer configured is unset. List of
  sessions (`TableInv`): an ID that is being created is known to nobody else, and the session of a
  request that removes its file is off the list, and off the saved one unless that save failed;
  a request relies only on what the others leave alone (`OthersGoOn`); a deleted session is listed
  again only if its save failed. Uploads (`UploadInv`): a file that is being copied belongs to the one
  upload that copies it, and one that is in parts is being copied, or was left by a failed removal or
  a crash.
* `ServedAlwaysRight`, from three more. Start (`StartInv`): who serves, or may still write to, the data directory holds its
  lock until it lets go of it to end, and unless a token was lost, the cookie and the served token are the one in the file.
  Catalog (`CatalogInv`): a cached list is no older than its fetch may take when it is stored,
  a fetch is no older than the timeout, recommended models are answered only for a provider without
  a catalog. Files (`FilesInv`): a file that was there throughout is
  still to be inspected, in the listing, or hidden, and one that was looked up and stayed is no link
  to the outside; entries have different names. That such
  entries have a sorted listing at all (`CanBeListed`), which the code leaves to its library, is
  proved by induction on their places in the order.

### Assumptions

`NoTurn = 0` and turn numbering, which stand for fresh turn IDs; `OpsPerCall \subseteq Nat`;
the bounds of the store are naturals (`BoundsAssumption`); the names that the approval gate's
model gives to goroutines, places and commands differ (`NamesAssumption`). `IDsAssumption`: messages and
control inputs share no IDs, those of control inputs are fresh, as UUIDs are, and none of them,
nor a call's, is empty.
`InitialLogAssumption`: the session's first log decodes, is inherited as a whole, has
recorded its inputs once and its responses for the newest turn, and owns no turn, call or
operation. TLC evaluates these for the new and the forked session of `MCCoordinator`; a fork
that kept its parent's calls, or replayed inherited history as its own, fails there. That an
operation sends nothing after its end is part of the coordinator's model of the manager;
`OperationsEndOnce` proves it of the manager's own. `SpecsAssumption`: operations are submitted
as their constructors make them; `PlansAssumption` and `ChatsAssumption`: the values that stand
for no handler and no chat are none; `MessagesAssumption`: messages are not stop requests.
Of the GUI: the channel's capacity, the cache's age and the timeout are naturals
(`StreamAssumption`, `CatalogAssumption`); there is a provider, keys are looked up in known
variables, and "-", which deletes a key, is neither the mask nor empty (`SettingsAssumption`);
names are a sequence (`FilesAssumption`); values that stand for nobody are no connection, update
or process (the same, and `StartupAssumption`).

### Only model-checked

Liveness and whatever depends on fairness, which is out of the prover's reach. Of the
operation manager's `ReportsAreTrue`, what a report says: the texts, captures and images of a
result, which recursive functions over bytes cut and bound. `MCPrimitives` and `MCAgent`: most
of their modules convert finite texts, where TLC's enumeration of all small inputs says nearly
everything, or have few steps and bounded data.

## 5. Observations

The run `command_runs_again` shows a disagreement between the code and its tests: the manager
starts the primitive of a step before the step's checkpoint is saved, so that a crash between
the two makes the next manager start the command again (`local_manager.go:274`).

Stating the properties showed other behaviours that a comment or a user might not expect. The
models have them, and the properties are stated so as to allow them:

* A hard stop misses a command that was approved and is not yet in the manager
  (`gui/approvals.go:98`); switching to full auto leaves a command held whose permission was
  read before the switch (`approvals.go:62`).
* A message sent to a run that was told to stop is dropped with it (`gui/chat.go:273`); a
  session deleted while a message starts a run goes on running (`gui/app.go:274`); commands may
  outlive the app when its shutdown gives up waiting (`app.go:94`).
* A form that sends back the mask of a variable which another window has removed meanwhile
  stores it with an empty value (`gui/config.go:480`); removing a configured variable unsets it although the
  process had it from its parent. The list of models is cached under the provider's name, so a
  changed base URL shows the old list for a while (`config.go:243`).
* A page limit smaller than a character gives an empty page whose note does not advance
  (`gui/tools.go:301`; `stuck` in `Pagination`), and a limit near the largest integer overflows
  (`tools.go:299`; the step to `panicked`). White space next to inline tags is not always collapsed to one space
  (`tools.go:864`). What is fetched is cut at 25 MB.
* If the directory cannot be synced when a session is created (`localfile/store.go:410`), a later
  `Resume` finds the file, and appends to it are acknowledged; a machine crash may still lose all
  of it, as appends sync the file only.
* A call with an empty ID passes the adapter (`responsesapi/response.go:131`) and ends the run at
  the store's check.
* Commands outlive a harness that crashes, in their own process group
  (`primitives/process.go:609`), and may write captures that a second run reads. A failed read of
  an output is reported as an event, not in the end of the command, which is `exited`
  (`process.go:897`).
* Deleting a session whose file is missing is acknowledged although the list could not be saved
  (`gui/server.go:248`); an upload that failed may leave its part (`server.go:657`); the text view
  opens a document by its path, outside `os.Root` (`server.go:566`); the lock on the data directory
  is released while coordinators that outlast the shutdown may still run (`main.go:116`).
* The runner ignores an interrupt while it reads its input (`agentrunner/run.go:486`), and without a
  `.env` does not set the proxy variable (`run.go:537`). A revoked token is taken again until it
  expires (`codex/client.go:82`).
* Deleting a session removes its file although the list could not be saved; an unreadable
  token file is treated as missing; a start that fails clears the last error while older
  messages are pending.
* A remote response that was received whole is retried if the idle timer fires before its end
  is seen; a `Retry-After` that is too large is ignored; after the manager has closed its
  updates the gate forwards one zero-valued operation.

## 6. Not modelled

* The generated API types (`internal/openaiapi`), more than half of the repository's lines,
  have no logic of their own; benchmarks and tests neither.
* The window, the folder picker and the GitHub status are calls of other programs.
* `sessionstore/localfile/list.go` is a stateless listing that neither program calls; the
  constructors of the OpenAI, OpenRouter, Fireworks and Ollama clients only fill in options.
* Payloads, prompts, schemas, titles, headers and formatting; JSON beyond what decoding tells
  apart; the browser's rendering and the composition of messages with attachments.
* In the tools: fetching a page, PDF extraction, the detection of file types, paragraphs and
  tables of Word files, the cells of a sheet.
* Compaction turns: no code requests one. Forks with open calls leave these without results
  (FIXME at `loop.go:552`), so completeness of requests is checked on unforked sessions and
  proved of sessions that start complete.

## 7. Plan

Modelled and checked: every component of section 1. Proved: inbox, session store, coordinator,
operation manager, chats and the rest of the app. Theorems worth proving next: `OneTrueEvent` of
computations and what `ProcessPrimitive` says of its end: short inductive invariants over few actions.

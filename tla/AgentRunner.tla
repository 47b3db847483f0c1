---------------------------- MODULE AgentRunner ----------------------------
(***************************************************************************)
(* The command-line runner (cmd/internal/agentrunner): check the request,   *)
(* choose a provider, a model and a key, open what the run needs one thing  *)
(* after the other, hand the messages to the inbox, run the coordinator,    *)
(* and undo everything in reverse, whichever step failed.                   *)
(*                                                                          *)
(* The environment of the process is changed for the run by the workspace's *)
(* .env file and by the egress proxy, and must be put back. A caller may    *)
(* repeat a request whose run failed or died.                               *)
(***************************************************************************)
EXTENDS Naturals, Sequences, SequencesExt, FiniteSets, TLC

CONSTANTS
    Environments, \* the environments the process may start in: name -> value
    DotEnvs,      \* the workspace's .env: <<>> if there is none, or <<name -> value>>
    Requests,     \* requests: [messages, prompt, model, attempts, session, thinking, tools]
    UUIDs,        \* identifiers of messages that are UUIDs
    MaxRuns

Unset == "unset"

Blank == {Unset, ""}

Proxy == "SANDBOX_EGRESS_PROXY"

defaultProvider == "openai"

(* DefaultProviders: the variable of a provider's own key, and its model.   *)
Provider(key, default) == [key |-> key, default |-> default]

Providers ==
    ("ollama"       :> Provider("", "")) @@
    ("openai"       :> Provider("OPENAI_API_KEY", "gpt-6-astra")) @@
    ("openai-codex" :> Provider("", "")) @@
    ("openrouter"   :> Provider("OPENROUTER_API_KEY", "")) @@
    ("fireworks"    :> Provider("FIREWORKS_API_KEY", ""))

ThinkingLevels == {"low", "medium", "high", "xhigh", "max"}

(* The steps before the coordinator runs, in the order of Run. *)
Steps == <<"flags", "request", "validate", "workspace", "environment", "attempts", "provider",
           "model", "key", "client", "store", "session", "log", "context", "tools", "skills",
           "inputs", "builder", "observer">>

VARIABLES
    env,      \* the environment of the process
    env0,     \* history: the environment before the run
    stdin,    \* the input has ended
    dotenv,   \* the .env file
    unread,   \* names of the .env file that are not yet set
    changes,  \* environmentScope.changes
    request,  \* the request
    choice,   \* what was chosen: [attempts, provider, model, key, effort]
    pc,       \* the step that is next, "coordinator", "closing", "exited" or "dead"
    live,     \* deferred functions, the last one first to run
    recorded, \* session -> the identifiers of the messages in its file
    exist,    \* sessions that have a file
    restored, \* the identifiers the inbox knows from the session
    submitted,\* inputs that were submitted
    inputs,   \* inputs the inbox took
    taken,    \* messages of the inbox the coordinator has recorded
    err,      \* runErr: "nil", "help", "failed", "observer" or "coordinator"
    observer, \* the observer's error
    ctxDone,  \* the caller's context: an interrupt
    canceled, \* runContext
    closeErrs,\* history: deferred functions that failed
    code,     \* the exit code, 99 before there is one
    runs      \* runs so far

envVars == <<env, unread, changes>>

given == <<env0, dotenv, request, runs, stdin>>

sessionVars == <<recorded, exist, restored>>

inboxVars == <<submitted, inputs, taken>>

outcome == <<observer, ctxDone, canceled, closeErrs, code>>

vars == <<envVars, given, choice, pc, live, sessionVars, inboxVars, err, outcome>>

NoChoice == [attempts |-> Unset, provider |-> Unset, model |-> Unset, key |-> Unset, effort |-> Unset]

Init ==
    /\ env \in Environments /\ env0 = env
    /\ stdin = FALSE
    /\ dotenv \in DotEnvs
    /\ request \in Requests
    /\ unread = {} /\ changes = <<>>
    /\ choice = NoChoice
    /\ pc = "flags"
    /\ live = <<>>
    /\ recorded = [s \in {"named", "fresh"} |-> <<>>] /\ exist = {} /\ restored = {}
    /\ submitted = 0 /\ inputs = <<>> /\ taken = 0
    /\ err = "nil" /\ observer = FALSE
    /\ ctxDone = FALSE /\ canceled = FALSE
    /\ closeErrs = {}
    /\ code = 99
    /\ runs = 1

After(step) ==
    LET i == CHOOSE i \in DOMAIN Steps : Steps[i] = step
    IN  IF i = Len(Steps) THEN "coordinator" ELSE Steps[i + 1]

Advance == pc' = After(pc) /\ UNCHANGED err

Fail(cause) ==
    /\ err' = cause
    /\ pc' = "closing"

-----------------------------------------------------------------------------
(* The request. *)

(* The flags: a mistake, a request for help, or not. *)
ParseFlags ==
    /\ pc = "flags"
    /\ Fail("failed") \/ Fail("help") \/ Advance
    /\ UNCHANGED <<envVars, given, choice, live, sessionVars, inboxVars, outcome>>

(* The caller closes the input, while it is read at the latest. *)
EndOfInput ==
    /\ pc = "request" /\ ~stdin
    /\ stdin' = TRUE
    /\ UNCHANGED <<envVars, env0, dotenv, request, runs, choice, pc, live, sessionVars, inboxVars, err, outcome>>

(* io.ReadAll waits for the end of the input, whatever becomes of the       *)
(* context. Then the request is decoded: it may be empty, no JSON, or have  *)
(* a field that is not known.                                               *)
DecodeRequest ==
    /\ pc = "request" /\ stdin
    /\ Fail("failed") \/ Advance
    /\ UNCHANGED <<envVars, given, choice, live, sessionVars, inboxVars, outcome>>

(* The messages of the request: the prompt stands for one message if there  *)
(* is no list of them. A list that is there may not be empty.               *)
MessagesOf ==
    IF request.messages # <<>> THEN Head(request.messages) ELSE <<[role |-> "", id |-> Unset]>>

(* The request is valid; a list of messages is <<>> when it is absent and   *)
(* <<list>> when it is there.                                               *)
Valid ==
    /\ request.session # ""
    /\ request.thinking \in ThinkingLevels \cup {""}
    /\ "" \notin request.tools
    /\ request.messages = <<>> => request.prompt
    /\ MessagesOf # <<>>
    /\ \A i \in DOMAIN MessagesOf : MessagesOf[i].role \in {"", "user"} /\ MessagesOf[i].id \in UUIDs \cup {Unset}

ValidateRequest ==
    /\ pc = "validate"
    /\ IF Valid THEN Advance ELSE Fail("failed")
    /\ UNCHANGED <<envVars, given, choice, live, sessionVars, inboxVars, outcome>>

(* The workspace is a directory, or not. *)
InspectWorkspace ==
    /\ pc = "workspace"
    /\ Fail("failed") \/ Advance
    /\ UNCHANGED <<envVars, given, choice, live, sessionVars, inboxVars, outcome>>

-----------------------------------------------------------------------------
(* The environment. *)

(* environmentScope.set notes what the name was before. *)
Remembered(name) == Append(changes, [name |-> name, value |-> env[name]])

Set(name, value) ==
    /\ env' = [env EXCEPT ![name] = value]
    /\ changes' = Remembered(name)

(* The names of the .env file loadDotEnv sets: those the process does not   *)
(* have, and the proxy in any case.                                         *)
Wanted == {name \in DOMAIN Head(dotenv) : env[name] = Unset \/ name = Proxy}

(* environmentScope.Close: in reverse. *)
Restored == FoldRight(LAMBDA change, e : [e EXCEPT ![change.name] = change.value], changes, env)

(* loadDotEnv reads the file; then it sets the names in any order, then the *)
(* proxy. Without a file it sets nothing, not even the proxy.               *)
LoadDotEnv ==
    /\ pc = "environment"
    /\ \/ Fail("failed") /\ UNCHANGED <<unread, live>>
       \/ dotenv # <<>> /\ unread' = Wanted /\ pc' = "loading" /\ UNCHANGED <<err, live>>
       \/ dotenv = <<>> /\ live' = <<pc>> \o live /\ Advance /\ UNCHANGED unread
    /\ UNCHANGED <<env, changes, given, choice, sessionVars, inboxVars, outcome>>

SetName ==
    /\ pc = "loading"
    /\ \E name \in unread :
        /\ Set(name, Head(dotenv)[name])
        /\ unread' = unread \ {name}
    /\ UNCHANGED <<given, choice, pc, live, sessionVars, inboxVars, err, outcome>>

(* A name cannot be set: what was set is undone at once. *)
SetFails ==
    /\ pc = "loading"
    /\ unread # {} \/ env[Proxy] \notin Blank
    /\ env' = Restored /\ changes' = <<>>
    /\ Fail("failed")
    /\ UNCHANGED <<unread, given, choice, live, sessionVars, inboxVars, outcome>>

Loaded ==
    /\ pc = "loading" /\ unread = {}
    /\ IF env[Proxy] \notin Blank
       THEN Set("HTTPS_PROXY", env[Proxy])
       ELSE UNCHANGED <<env, changes>>
    /\ live' = <<"environment">> \o live
    /\ pc' = After("environment")
    /\ UNCHANGED <<unread, given, choice, sessionVars, inboxVars, err, outcome>>

-----------------------------------------------------------------------------
(* The choices. *)

(* The first of these that is not blank. *)
FirstSet(values) ==
    LET there == {i \in DOMAIN values : values[i] \notin Blank}
    IN  IF there = {} THEN Unset ELSE values[CHOOSE i \in there : \A j \in there : i <= j]

(* A choice is made, or there is nothing to choose. *)
Choose(field, value, acceptable) ==
    /\ IF acceptable THEN Advance ELSE Fail("failed")
    /\ choice' = IF acceptable THEN [choice EXCEPT ![field] = value] ELSE choice
    /\ UNCHANGED <<envVars, given, live, sessionVars, inboxVars, outcome>>

(* resolveMaxAttempts: what the request says counts also when it is wrong.  *)
Attempts == FirstSet(<<request.attempts, env["ATTEMPTS"], "5">>)

ResolveMaxAttempts ==
    /\ pc = "attempts"
    /\ Choose("attempts", Attempts, Attempts \notin {"0", "x"})

SelectProvider ==
    /\ pc = "provider"
    /\ LET name == FirstSet(<<env["PROVIDER"], defaultProvider>>)
       IN  Choose("provider", name, name \in DOMAIN Providers)

Model == FirstSet(<<request.model, env["MODEL"], Providers[choice.provider].default>>)

SelectModel ==
    /\ pc = "model"
    /\ Choose("model", Model, Model # Unset)

(* A provider with a variable for its key needs a key: the harness's own    *)
(* variable comes first.                                                    *)
Key ==
    LET own == Providers[choice.provider].key
    IN  IF own = "" THEN Unset ELSE FirstSet(<<env["KEY"], env[own]>>)

SelectKey ==
    /\ pc = "key"
    /\ Choose("key", Key, Providers[choice.provider].key # "" => Key # Unset)

-----------------------------------------------------------------------------
(* Opening. *)

(* A resource with a deferred function is opened, or not. *)
Open(failing) ==
    /\ \/ failing /\ Fail("failed") /\ UNCHANGED live
       \/ live' = <<pc>> \o live /\ Advance
    /\ UNCHANGED <<envVars, given, choice, sessionVars, inboxVars, outcome>>

OpenClient == pc = "client" /\ Open(TRUE)

(* resolveSessionDirectory, localfile.New: no home directory, a relative    *)
(* one, or a directory that cannot be made.                                 *)
OpenStore ==
    /\ pc = "store"
    /\ Fail("failed") \/ Advance
    /\ UNCHANGED <<envVars, given, choice, live, sessionVars, inboxVars, outcome>>

Session == IF request.session = Unset THEN "fresh" ELSE "named"

(* ResumeState.ExternalInputIDs. *)
ExternalInputIDs == ToSet(recorded[Session])

(* openSession resumes the session if it has a file and creates it if not.  *)
OpenSession ==
    /\ pc = "session"
    /\ \/ Fail("failed") /\ UNCHANGED <<exist, restored>>
       \/ /\ exist' = exist \cup {Session}
          /\ restored' = ExternalInputIDs
          /\ Advance
    /\ UNCHANGED <<envVars, given, choice, live, recorded, inboxVars, outcome>>

(* The log file, when a directory is configured. *)
OpenLog ==
    /\ pc = "log"
    /\ Open(TRUE) \/ (Advance /\ UNCHANGED <<live, envVars, given, choice, sessionVars, inboxVars, outcome>>)

(* The run's context, then the directory of its operations. *)
OpenContext ==
    /\ pc = "context"
    /\ live' = <<pc>> \o live
    /\ Fail("failed") \/ Advance
    /\ UNCHANGED <<envVars, given, choice, sessionVars, inboxVars, outcome>>

OpenTools == pc = "tools" /\ Open(TRUE)

(* Skills are registered, and the errors of the others written. *)
RegisterSkills ==
    /\ pc = "skills"
    /\ Fail("failed") \/ Advance
    /\ UNCHANGED <<envVars, given, choice, live, sessionVars, inboxVars, outcome>>

(* reasoningEffort *)
Effort == IF request.thinking = "" THEN "high" ELSE request.thinking

(* The builder is given the model, the system prompt and the tools. *)
SetUpBuilder ==
    /\ pc = "builder"
    /\ choice' = [choice EXCEPT !.effort = Effort]
    /\ Advance
    /\ UNCHANGED <<envVars, given, live, sessionVars, inboxVars, outcome>>

AddObserver == pc = "observer" /\ Open(FALSE)

-----------------------------------------------------------------------------
(* The messages. *)

Control(mode) == [kind |-> mode, name |-> "", run |-> 0, nr |-> 0]

(* A message without an identifier is given a new one. *)
External(i) ==
    LET id == MessagesOf[i].id
    IN  IF id = Unset THEN [kind |-> "message", name |-> "new", run |-> runs, nr |-> i]
        ELSE [kind |-> "message", name |-> id, run |-> 0, nr |-> 0]

AllMessages == [i \in DOMAIN MessagesOf |-> External(i)]

(* What is submitted, in order. *)
Submitted == <<Control("settings")>> \o AllMessages \o <<Control("stop")>>

(* The inbox drops a message it has seen, in this run or in the session.    *)
Fresh(input) == input.kind = "message" => input \notin restored \cup ToSet(inputs)

(* One input is submitted, or refused, by the inbox. *)
SubmitInput ==
    /\ pc = "inputs"
    /\ \/ LET input == Submitted[submitted + 1]
          IN  /\ submitted' = submitted + 1
              /\ inputs' = IF Fresh(input) THEN Append(inputs, input) ELSE inputs
              /\ pc' = IF submitted' = Len(Submitted) THEN After("inputs") ELSE pc
              /\ UNCHANGED err
       \/ Fail("failed") /\ UNCHANGED <<submitted, inputs>>
    /\ UNCHANGED <<envVars, given, choice, live, sessionVars, taken, outcome>>

-----------------------------------------------------------------------------
(* The run. *)

(* Messages of the inbox the coordinator has not recorded. *)
Waiting ==
    LET messages == SelectSeq(inputs, LAMBDA input : input.kind = "message")
    IN  SubSeq(messages, taken + 1, Len(messages))

(* The coordinator records a message in the session. *)
RecordMessage ==
    /\ pc = "coordinator" /\ Waiting # <<>>
    /\ recorded' = [recorded EXCEPT ![Session] = Append(@, Head(Waiting))]
    /\ taken' = taken + 1
    /\ UNCHANGED <<envVars, given, choice, pc, live, exist, restored, submitted, inputs, err, outcome>>

(* Faulty variant: the failure is noted and the run goes on. *)
NotCanceled == canceled

(* sessionObserver.fail cancels the run when an item cannot be written.  *)
CanceledByObserver == TRUE

(* A session item cannot be written. *)
ObserverFails ==
    /\ pc = "coordinator" /\ ~observer
    /\ observer' = TRUE /\ canceled' = CanceledByObserver
    /\ UNCHANGED <<envVars, given, choice, pc, live, sessionVars, inboxVars, err, ctxDone, closeErrs, code>>

(* The user interrupts. *)
Interrupt ==
    /\ ~ctxDone /\ pc \notin {"exited", "dead"}
    /\ ctxDone' = TRUE /\ canceled' = TRUE
    /\ UNCHANGED <<envVars, given, choice, pc, live, sessionVars, inboxVars, err, observer, closeErrs, code>>

(* The observer's error is the cause of a cancelled run. *)
Verdict(failed) == IF observer THEN "observer" ELSE IF failed THEN "coordinator" ELSE "nil"

(* The coordinator returns; when its context is done it may have ended well *)
(* just before. It stops by itself only when every message is recorded.     *)
CoordinatorReturns ==
    /\ pc = "coordinator"
    /\ \E failed \in BOOLEAN :
        /\ failed \/ Waiting = <<>>
        /\ err' = Verdict(failed)
    /\ pc' = "closing"
    /\ UNCHANGED <<envVars, given, choice, live, sessionVars, inboxVars, outcome>>

(* A failing Close joins the error of the run. *)
Joined(failed) == IF failed /\ err = "nil" THEN "failed" ELSE err

(* One deferred function: the tools' also cancels the run's context.        *)
CloseNext ==
    /\ pc = "closing" /\ live # <<>>
    /\ live' = Tail(live)
    /\ canceled' = (canceled \/ Head(live) \in {"tools", "context"})
    /\ IF Head(live) = "environment"
       THEN env' = Restored /\ changes' = <<>>
       ELSE UNCHANGED <<env, changes>>
    /\ \E failed \in (IF Head(live) \in {"context", "observer", "environment"} THEN {FALSE} ELSE BOOLEAN) :
        /\ err' = Joined(failed)
        /\ closeErrs' = IF failed THEN closeErrs \cup {Head(live)} ELSE closeErrs
    /\ UNCHANGED <<unread, given, choice, pc, sessionVars, inboxVars, observer, ctxDone, code>>

(* RunMain: the exit code. *)
ExitCode == IF err \in {"nil", "help"} THEN 0 ELSE IF ctxDone THEN 130 ELSE 1

Exit ==
    /\ pc = "closing" /\ live = <<>>
    /\ pc' = "exited"
    /\ code' = ExitCode
    /\ UNCHANGED <<envVars, given, choice, live, sessionVars, inboxVars, err, observer, ctxDone, canceled,
                   closeErrs>>

(* The process dies while the coordinator runs. *)
Die ==
    /\ pc = "coordinator"
    /\ pc' = "dead"
    /\ UNCHANGED <<envVars, given, choice, live, sessionVars, inboxVars, err, outcome>>

(* The caller runs the same request again, in a new process. *)
Repeat ==
    /\ pc \in {"exited", "dead"} /\ runs < MaxRuns
    /\ runs' = runs + 1
    /\ env' = env0 /\ unread' = {} /\ changes' = <<>>
    /\ choice' = NoChoice
    /\ pc' = "flags" /\ live' = <<>>
    /\ recorded' = [recorded EXCEPT !["fresh"] = <<>>] /\ exist' = exist \ {"fresh"} /\ restored' = {}
    /\ submitted' = 0 /\ inputs' = <<>> /\ taken' = 0
    /\ err' = "nil" /\ observer' = FALSE /\ ctxDone' = FALSE /\ canceled' = FALSE
    /\ closeErrs' = {} /\ code' = 99
    /\ stdin' = FALSE
    /\ UNCHANGED <<env0, dotenv, request>>

Setup ==
    \/ ParseFlags \/ DecodeRequest \/ ValidateRequest \/ InspectWorkspace \/ LoadDotEnv \/ SetName \/ Loaded
    \/ ResolveMaxAttempts \/ SelectProvider \/ SelectModel \/ SelectKey
    \/ OpenClient \/ OpenStore \/ OpenSession \/ OpenLog \/ OpenContext \/ OpenTools \/ RegisterSkills
    \/ SubmitInput \/ SetUpBuilder \/ AddObserver

Next ==
    \/ Setup \/ EndOfInput \/ SetFails \/ RecordMessage \/ ObserverFails \/ Interrupt \/ CoordinatorReturns
    \/ CloseNext \/ Exit \/ Die \/ Repeat

(* The run goes on, and waits for the input as long as it is open: nothing  *)
(* makes the caller close it. The coordinator returns once its context is   *)
(* done.                                                                    *)
Fairness ==
    /\ WF_vars(Setup \/ CloseNext \/ Exit)
    /\ WF_vars(canceled /\ CoordinatorReturns)

Spec == Init /\ [][Next]_vars /\ Fairness

-----------------------------------------------------------------------------
(* Properties. *)

(* When the run has returned, whichever step failed, the environment of the *)
(* process is what it was, also a name that was changed twice, and nothing  *)
(* is left open.                                                            *)
EverythingUndone == pc = "exited" => env = env0 /\ live = <<>> /\ changes = <<>>

(* The request to stop when idle is behind every message: the run never     *)
(* ends before a message was delivered.                                     *)
StopComesLast ==
    \A i \in DOMAIN inputs : inputs[i].kind = "stop" =>
        i = Len(inputs) /\ ToSet(AllMessages) \subseteq restored \cup ToSet(inputs)

(* The exit code is 0 only if the coordinator ended well with every message *)
(* of the request in the session, every session item was written and        *)
(* everything was closed without an error; 130 only after an interrupt.     *)
ExitCodeTellsTruth ==
    /\ code = 0 => /\ ~observer /\ closeErrs = {}
                   /\ err = "help" \/ ToSet(AllMessages) \subseteq ToSet(recorded[Session])
    /\ code = 130 => ctxDone

(* A request that is repeated, because its run failed or died, delivers     *)
(* each message that has an identifier once to its session.                 *)
DeliveredOnce ==
    \A i, j \in DOMAIN recorded["named"] : recorded["named"][i] = recorded["named"][j] => i = j

(* What the process was started with, or else what its .env file says. *)
Configured(name) ==
    IF env0[name] # Unset THEN env0[name] ELSE IF dotenv # <<>> /\ name \in DOMAIN Head(dotenv) THEN Head(dotenv)[name] ELSE Unset

(* The model a run uses is the request's, else that of the environment the  *)
(* process was started with, else that of the .env file, else the           *)
(* provider's; and the client has a key if its provider needs one.          *)
ChosenInOrder ==
    "client" \in ToSet(live) =>
        /\ choice.model = IF request.model \notin Blank THEN request.model
                          ELSE IF Configured("MODEL") \notin Blank THEN Configured("MODEL")
                          ELSE Providers[choice.provider].default
        /\ choice.model \notin Blank
        /\ Providers[choice.provider].key # "" => choice.key \notin Blank

(* An interrupted run exits once its input has ended, and so does one whose *)
(* output cannot be written. Before that an interrupt has no effect: main   *)
(* takes the signal and DecodeRequest does not look at the context.         *)
CanceledExits == (stdin /\ (canceled \/ observer)) ~> (pc \in {"exited", "dead"})
=============================================================================

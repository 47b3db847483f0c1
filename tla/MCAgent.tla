------------------------------ MODULE MCAgent ------------------------------
(***************************************************************************)
(* What is around the coordinator on the agent's side, on small instances:  *)
(* the runner, the exchange with the model, and the tools with what they    *)
(* read for the model.  They share no state, so a behaviour of all of them  *)
(* is one of each; here one of them, `part', moves and the others stay      *)
(* where they start, and the numbers of their states add up instead of      *)
(* being multiplied.                                                        *)
(***************************************************************************)
EXTENDS Integers, Sequences, SequencesExt, TLC

CONSTANTS CR, LF, x, alice, bob, none

VARIABLE part

-----------------------------------------------------------------------------
(* The runner. *)
VARIABLES env, env0, stdin, dotenv, unread, changes, request, choice, pc, live, recorded, exist, restored,
          submitted, inputs, taken, err, observer, ctxDone, canceled, closeErrs, code, runs

runnerVars == <<env, env0, stdin, dotenv, unread, changes, request, choice, pc, live, recorded, exist, restored,
                submitted, inputs, taken, err, observer, ctxDone, canceled, closeErrs, code, runs>>

Unset == "unset"

Proxy == "SANDBOX_EGRESS_PROXY"

Unconfigured ==
    [n \in {Proxy, "HTTPS_PROXY", "PROVIDER", "MODEL", "ATTEMPTS", "KEY", "OPENAI_API_KEY",
            "OPENROUTER_API_KEY", "FIREWORKS_API_KEY"} |-> Unset]

WithModel == ("MODEL" :> "e" @@ "KEY" :> "k" @@ "PROVIDER" :> "fireworks") @@ Unconfigured

(* A request for one message, and ones that are changed in one respect. *)
Plain == [messages |-> <<>>, prompt |-> TRUE, model |-> "", attempts |-> Unset, session |-> "s",
          thinking |-> "", tools |-> {"Bash"}]

Said(role, id) == [role |-> role, id |-> id]

Runner == INSTANCE AgentRunner WITH
    Environments <- {Unconfigured, WithModel,
                     (Proxy :> "e" @@ "HTTPS_PROXY" :> "e" @@ "OPENAI_API_KEY" :> "k") @@ Unconfigured,
                     ("MODEL" :> "" @@ "PROVIDER" :> "ollama") @@ Unconfigured},
    DotEnvs <- {<<>>, << <<>> >>, <<Proxy :> "d" @@ "HTTPS_PROXY" :> "d" @@ "KEY" :> "k">>,
                <<"MODEL" :> "d" @@ "ATTEMPTS" :> "3">>, <<"PROVIDER" :> "other">>, <<"ATTEMPTS" :> "x">>},
    UUIDs <- {"u1", "u2"},
    Requests <- {Plain, [Plain EXCEPT !.prompt = FALSE], [Plain EXCEPT !.model = "r"],
                 [Plain EXCEPT !.attempts = "0"], [Plain EXCEPT !.session = Unset],
                 [Plain EXCEPT !.session = ""], [Plain EXCEPT !.tools = {"Bash", ""}],
                 [Plain EXCEPT !.messages = << <<Said("", "word")>> >>],
                 [Plain EXCEPT !.messages = << <<>> >>],
                 [Plain EXCEPT !.messages = << <<Said("user", "u1"), Said("", "u1")>> >>],
                 [Plain EXCEPT !.messages = << <<Said("user", "u1"), Said("", "u2")>> >>, !.thinking = "max"],
                 [Plain EXCEPT !.messages = << <<Said("assistant", Unset)>> >>],
                 [Plain EXCEPT !.thinking = "none"]},
    MaxRuns <- 2

-----------------------------------------------------------------------------
(* The exchange with a provider: two attempts, of at most two frames. *)
VARIABLES exchangePc, exchangeDone, attempt, remote, status, header, httpBody, state, result, delay,
          streamed, outcome

exchangeVars == <<exchangePc, exchangeDone, attempt, remote, status, header, httpBody, state, result,
                  delay, streamed, outcome>>

Problem(st, problem, type, hint) == [status |-> st, code |-> problem, type |-> type, hint |-> hint]

NoProblem == Problem(0, "", "", 0)

Item(kind) == [kind |-> kind, from |-> 0]

Done(index, kind) ==
    [type |-> "response.output_item.done", index |-> index, item |-> Item(kind)]

Final(type, st, output, problem) ==
    [type |-> type, error |-> problem,
     response |-> [status |-> st, object |-> TRUE, output |-> output]]

(* Items out of order and twice, and everything that may end a stream. *)
StreamFrames ==
    {Done(1, "function_call"), Done(0, "message"), Done(0, "partial_call"), Done(-1, "message"),
     [type |-> "other"], [type |-> "garbage"],
     Final("response.completed", "completed", <<>>, NoProblem),
     Final("response.completed", "completed", <<Item("reasoning"), Item("web_search_call")>>, NoProblem),
     Final("response.completed", "completed", <<Item("unknown")>>, NoProblem),
     Final("response.completed", "queued", <<>>, NoProblem),
     Final("response.incomplete", "max_output_tokens", <<>>, NoProblem),
     Final("response.failed", "failed", <<>>, Problem(200, "server_is_overloaded", "error", 0)),
     Final("response.failed", "failed", <<>>, Problem(200, "invalid_prompt", "", 0)),
     [type |-> "response.completed", error |-> NoProblem,
      response |-> [status |-> "", object |-> FALSE, output |-> <<>>]],
     [type |-> "error", error |-> Problem(200, "", "insufficient_quota", 0)],
     [type |-> "error", error |-> Problem(200, "rate_limit_exceeded", "error", 70)]}

Exchange == INSTANCE ResponsesExchange WITH
    MaxAttempts <- 2, MaxFrames <- 3, Frames <- StreamFrames,
    HTTPErrors <- {Problem(429, "slow_down", "", 0), Problem(503, "", "", 0),
                   Problem(401, "invalid_api_key", "", 0), Problem(400, "", "", 0)},
    RetryAfters <- {0, 5, 100, 401, 802}, Second <- 10, Limit <- 4000,
    Policy <- [initial |-> 20, max |-> 300],
    pc <- exchangePc, ctxDone <- exchangeDone, sent <- streamed

(* Server-sent events: frames of at most 5 bytes, cut into chunks. *)
VARIABLES mode, framer, fed, frames, framerState

framerVars == <<mode, framer, fed, frames, framerState>>

Framer == INSTANCE SSEFramer WITH
    Data <- {x}, MaxFrameSize <- 5, MaxBytes <- 8, MaxChunk <- 3, state <- framerState

(* Items of a provider and of the harness, sent back to the provider. *)
VARIABLES wire, log, history, failed, sentBack, bodyErr

replayVars == <<wire, log, history, failed, sentBack, bodyErr>>

ACall(id, object) ==
    [type |-> "function_call", id |-> id, call |-> "c1", name |-> "Bash",
     arguments |-> [object |-> object, text |-> "args"]]

AMessage(id, contents, phase) ==
    [type |-> "message", id |-> id, parts |-> contents, text |-> "t", phase |-> phase]

Thought(form) == [type |-> "reasoning", id |-> "i5", raw |-> [value |-> "v", form |-> form]]

Replay == INSTANCE ItemReplay WITH
    WireItems <- {ACall("i1", TRUE), ACall("i2", FALSE), ACall("", FALSE),
                  AMessage("i3", {"output_text", "refusal"}, "final"), AMessage("", {"output_text"}, ""),
                  AMessage("i4", {"audio"}, ""),
                  Thought("canonical"), Thought("as sent"),
                  [type |-> "image_generation_call", id |-> "i6"]},
    OwnItems <- {[provider |-> "", type |-> "message", data |-> [role |-> "user", text |-> "u", phase |-> ""]],
                 [provider |-> "", type |-> "tool_result", data |-> [call |-> "c1", output |-> {"text", "image"}]]},
    MaxItems <- 3, sent <- sentBack

(* The credentials of the Codex client: two accounts. *)
VARIABLES codexEnv, authFile, client, sentWith, unauthorized, now, renewals

codexVars == <<codexEnv, authFile, client, sentWith, unauthorized, now, renewals>>

Token1 == [name |-> "1", kind |-> "claims", account |-> alice, expires |-> 3]
Token2 == [name |-> "2", kind |-> "claims", account |-> bob, expires |-> 0]
Opaque == [name |-> "3", kind |-> "opaque", account |-> none, expires |-> 0]
Key == [name |-> "4", kind |-> "api key", account |-> none, expires |-> 0]

Codex == INSTANCE CodexClient WITH
    Tokens <- {Token1, Token2, Opaque, Key},
    Environments <- [token : {none, Token1, Opaque, Key}, account : {none, bob}, file : BOOLEAN],
    Files <- [ok : {TRUE}, token : {Token1, Token2, Opaque}, account : {none, alice, bob}]
               \cup [ok : BOOLEAN, token : {none}, account : {none}],
    MaxTime <- 4, MaxRenewals <- 2,
    env <- codexEnv, file <- authFile, sent <- sentWith, refused <- unauthorized, None <- none

-----------------------------------------------------------------------------
(* The tools: skills of a workspace and of the app, and calls. *)
VARIABLES workspace, found, skills, idByPath, order, used, refused, call

toolVars == <<workspace, found, skills, idByPath, order, used, refused, call>>

SkillFile(read, closed, name, description) ==
    [read |-> read, closed |-> closed, name |-> name, description |-> description]

Tools == INSTANCE ToolRegistry WITH
    Static <- {"Bash", "ViewImage", "SkillUse"}, Enabled <- {"Bash", "SkillUse"},
    Configured <- {"Bash", "ViewImage"},
    Files <- {SkillFile(TRUE, TRUE, "a", "d"), SkillFile(TRUE, TRUE, "b", "d"), SkillFile(TRUE, TRUE, "a", ""),
              SkillFile(TRUE, FALSE, "a", "d"), SkillFile(FALSE, FALSE, "", "")},
    Paths <- {"p1", "p2", "p3"},
    Builtin <- <<[name |-> "b", path |-> "q1"], [name |-> "c", path |-> "q2"]>>,
    Calls <- [tool : {"Bash", "SkillUse"}, arguments : {"malformed", "", "a", "b", "c", "NUL"}]
               \cup [tool : {"ViewImage", "Unknown"}, arguments : {"a"}],
    MaxIDs <- 4

(* Pages of valid texts, of characters of at most three bytes: every byte   *)
(* is at most two behind the start of its character.                        *)
VARIABLES text, limit, offset, pages, pagesAt

pageVars == <<text, limit, offset, pages, pagesAt>>

ValidTexts ==
    {t \in UNION {[1 .. n -> BOOLEAN] : n \in 0 .. 6} :
        \A i \in DOMAIN t : \E j \in i - 2 .. i : j \in DOMAIN t /\ t[j]}

Pages == INSTANCE Pagination WITH
    Texts <- ValidTexts, Offsets <- -1 .. 7, Limits <- {0, 1, 2, 3, 5, 15}, MaxInt <- 15, at <- pagesAt

(* Pages of a web site as text. *)
VARIABLES writer, pre, stack, words, tags, visible, gaps, since, verbatim, raw

htmlVars == <<writer, pre, stack, words, tags, visible, gaps, since, verbatim, raw>>

W == 1
SP == 0
NL == -1

Html == INSTANCE HtmlText WITH
    MaxWords <- 3, MaxTags <- 2, MaxDepth <- 2,
    Tags <- {"p", "div", "h", "li", "tr", "td", "pre", "a", "b"}, Voids <- {"br", "hr", "img"},
    Shapes <- {<<W>>, <<W, SP>>, <<SP, NL, W>>, <<W, SP, W>>}

(* Archives of presentations and workbooks. *)
VARIABLES kind, archive, queue, shared, names, cut, out, archiveAt

archiveVars == <<kind, archive, queue, shared, names, cut, out, archiveAt>>

Part(digits) == [dir |-> "parts", digits |-> digits]

Archive == INSTANCE OfficeArchive WITH
    Archives <- UNION {SetToSeqs(S) : S \in SUBSET {Part(<<2>>), Part(<<9>>), Part(<<1, 0>>),
                                                    [dir |-> "parts/_rels", digits |-> <<1>>]}},
    Parts <- (2 :> << <<>>, << <<"a">> >> >>) @@ (9 :> << << <<"b", "c">>, <<>>, <<"d">> >> >>) @@ (10 :> <<>>),
    Strings <- << << <<"a">> >>, << <<"b">>, <<"c", "d">> >>, <<>>, << <<"e">> >> >>,
    Sheets <- <<"One", "Two">>, at <- archiveAt

(* A search, on pages of at most four blocks. *)
VARIABLES searchAt, args, page, listed, results, searchErr

searchVars == <<searchAt, args, page, listed, results, searchErr>>

Search == INSTANCE WebSearch WITH
    MaxBlocks <- 4, Counts <- {0, 1, 3}, Nothing <- none, at <- searchAt, err <- searchErr

-----------------------------------------------------------------------------
readVars == <<pageVars, htmlVars, archiveVars, searchVars>>

modelVars == <<exchangeVars, framerVars, replayVars, codexVars>>

vars == <<part, runnerVars, modelVars, toolVars, readVars>>

(* The request is varied in one environment, the environment for the plain  *)
(* request.                                                                 *)
Init ==
    /\ part \in {"runner", "exchange", "framer", "replay", "codex", "tools", "pages", "html", "archive", "search"}
    /\ Runner!Init /\ (request # Plain => env = WithModel /\ dotenv = <<"MODEL" :> "d" @@ "ATTEMPTS" :> "3">>)
    /\ part # "runner" => request = Plain /\ env = WithModel /\ dotenv = <<>>
    /\ Exchange!Init
    /\ Framer!Init /\ (part # "framer" => mode = "strip")
    /\ Replay!Init
    /\ Codex!Init
    /\ part # "codex" => codexEnv = [token |-> Key, account |-> none, file |-> TRUE] /\ authFile.token = none /\ authFile.ok
    /\ Tools!Init /\ (part # "tools" => \A p \in DOMAIN workspace : ~workspace[p].read)
    /\ Pages!Init /\ (part # "pages" => text = <<>> /\ limit = 0 /\ offset = 0)
    /\ Html!Init
    /\ Archive!Init /\ (part # "archive" => kind = "odf" /\ archive = <<>>)
    /\ Search!Init /\ (part # "search" => args = [query |-> TRUE, n |-> 1, key |-> TRUE])

Next ==
    \/ part = "runner" /\ Runner!Next /\ UNCHANGED <<part, modelVars, toolVars, readVars>>
    \/ /\ part = "exchange" /\ Exchange!Next
       /\ UNCHANGED <<part, runnerVars, framerVars, replayVars, codexVars, toolVars, readVars>>
    \/ /\ part = "framer" /\ Framer!Next
       /\ UNCHANGED <<part, runnerVars, exchangeVars, replayVars, codexVars, toolVars, readVars>>
    \/ /\ part = "replay" /\ Replay!Next
       /\ UNCHANGED <<part, runnerVars, exchangeVars, framerVars, codexVars, toolVars, readVars>>
    \/ /\ part = "codex" /\ Codex!Next
       /\ UNCHANGED <<part, runnerVars, exchangeVars, framerVars, replayVars, toolVars, readVars>>
    \/ part = "tools" /\ Tools!Next /\ UNCHANGED <<part, runnerVars, modelVars, readVars>>
    \/ /\ part = "pages" /\ Pages!Next
       /\ UNCHANGED <<part, runnerVars, modelVars, toolVars, htmlVars, archiveVars, searchVars>>
    \/ /\ part = "html" /\ Html!Next
       /\ UNCHANGED <<part, runnerVars, modelVars, toolVars, pageVars, archiveVars, searchVars>>
    \/ /\ part = "archive" /\ Archive!Next
       /\ UNCHANGED <<part, runnerVars, modelVars, toolVars, pageVars, htmlVars, searchVars>>
    \/ /\ part = "search" /\ Search!Next
       /\ UNCHANGED <<part, runnerVars, modelVars, toolVars, pageVars, htmlVars, archiveVars>>

(* The fairness of the specifications, of each for its own part. *)
RunnerFairness ==
    LET Fair(A) == part = "runner" /\ A
        v == runnerVars
    IN  /\ WF_v(Fair(Runner!Setup \/ Runner!CloseNext \/ Runner!Exit))
        /\ WF_v(Fair(canceled /\ Runner!CoordinatorReturns))

ExchangeFairness ==
    LET Fair(A) == part = "exchange" /\ A
        v == exchangeVars
    IN  /\ WF_v(Fair(Exchange!Begin \/ Exchange!AfterAttempt \/ Exchange!TimerFires))
        /\ \A a \in 1 .. 2 : WF_v(Fair(Exchange!Terminal(a)))

Spec == Init /\ [][Next]_vars /\ RunnerFairness /\ ExchangeFairness

(* A first attempt streams up to three frames if it begins with two items,  *)
(* and a second one then none; else two, and the second one.  Retry-After   *)
(* comes with streams of at most one frame.                                 *)
InScenario ==
    /\ Len(streamed[1]) = 3 => \A i \in 1 .. 2 : streamed[1][i].type = "response.output_item.done"
    /\ Len(streamed[1]) + Len(streamed[2]) <= 3 /\ Len(streamed[2]) <= 1
    /\ header # 0 => Len(streamed[1]) + Len(streamed[2]) <= 1

-----------------------------------------------------------------------------
(* To and from the model (agentrunner/run.go, harness/llm): the runner      *)
(* undoes what it set up, and its exit code tells whether every message was *)
(* delivered, once.  A response is that of the last stream, is not asked    *)
(* for again and waits for no other attempt; frames are the events of the   *)
(* stream however it was cut; the provider gets back what it sent, with the *)
(* token of its account.                                                    *)
TrueToTheModel ==
    /\ Runner!EverythingUndone /\ Runner!StopComesLast /\ Runner!ExitCodeTellsTruth
    /\ Runner!DeliveredOnce /\ Runner!ChosenInOrder
    /\ Exchange!TypeOK /\ Exchange!OneSender /\ Exchange!ResponseIsLastStream
    /\ Exchange!NeverAskedAgain /\ Exchange!DelayIsSane
    /\ Framer!TypeOK /\ Framer!StrippedFramesAreEvents /\ Framer!PassedThroughIsWhole /\ Framer!OffsetsAndSizes
    /\ Replay!NeverPoisoned /\ Replay!ReplayedAsSent
    /\ Codex!TokenOfAccount /\ Codex!RefusedIsNotRemade

(* The tools (harness/tool, gui/tools.go): calls run only selected tools   *)
(* and skills that can be read, and pages, sites, archives and searches are *)
(* told to the model as they are, nothing twice, lost or out of order.      *)
ToolsTellTruth ==
    /\ Tools!IndexesAgree /\ Tools!DiscoveredCanBeRegistered /\ Tools!OnlySelected
    /\ Pages!PagesJoin /\ Pages!NotesAdvance
    /\ Html!WordsAsSeen /\ Html!Layout /\ Html!PreIsVerbatim
    /\ Archive!PartsInOrder /\ Archive!SharedByIndex /\ Archive!SlideIsLines
    /\ Search!ResultsAsServed /\ Search!EmptyIsEmpty

(* A request to the model returns, after as many attempts as it takes, and  *)
(* a runner that is interrupted or cannot write its output exits            *)
(* (stream.go, exchange; run.go, the observer's cancellation).              *)
AgentEnds == Runner!CanceledExits /\ (part = "exchange" => Exchange!Returns)
=============================================================================

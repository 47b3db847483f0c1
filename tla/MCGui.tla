------------------------------- MODULE MCGui -------------------------------
(***************************************************************************)
(* The parts of the GUI around its chats, on small instances.  They share   *)
(* no state, so a behaviour of all of them is one of each; here one of      *)
(* them, `part', moves and the others stay where they start, and the        *)
(* numbers of their states add up instead of being multiplied.  The         *)
(* approval gate is extended, the others are instantiated.                  *)
(***************************************************************************)
EXTENDS ApprovalGate, Sequences, TLC

CONSTANTS
    (* the event stream *)
    Conns, Capacity, MaxItems, MaxStatuses, MaxCuts,
    (* the settings *)
    Variables, Values, Windows, Providers, KeyEnv, Started,
    NoVariable, Unset, Empty, Mask, Nobody, MaxUpdates, MaxCrashes,
    (* the catalog of models *)
    Requests, URLs, Listed, Recommended, Picks, TTL, Timeout, MaxTime, MaxChanges, nothing,
    (* the list of sessions *)
    IDs, Servers, Titles, NoTitle, idle, MaxFailures, MaxTouches,
    (* uploads *)
    Uploads, Parts, Candidate(_, _), Attempts, Existing, NoName, NoFile, MaxFailedUploads,
    (* the start and the end *)
    Instances, MaxStarts, MaxTokens,
    (* the files of workspaces *)
    Sessions, Workspaces, FileNames, Hidden, MaxFileChanges,
    (* members of these sets, for the values below *)
    K, X, v1, v2, keyed, local, first, second, u1, u2, d1, d2

VARIABLE part

gateVars == vars

(* The event stream to the browser, which reconnects twice. *)
VARIABLES items, status, subs, conn, closes, page, lastId, pageShown, shownStatus, cuts

streamVars == <<items, status, subs, conn, closes, page, lastId, pageShown, shownStatus, cuts>>

Stream == INSTANCE EventStream WITH shown <- pageShown

(* The capacity is a number, and the page can tell no connection from one. *)
ASSUME StreamAssumption == Capacity \in Nat /\ Stream!NoConn \notin Conns

(* The settings. *)
VARIABLES cfg, file, temp, process, envSet, up, writing, run, used, form, acked, exported, bounds

settingsVars == <<cfg, file, temp, process, envSet, up, writing, run, used, form, acked,
                  exported, bounds>>

Settings == INSTANCE Settings WITH Names <- Variables

(* There is a provider, the keys are looked up in variables the process may *)
(* have been started with, what deletes a key is not what keeps it, and no  *)
(* update can be told from one.                                             *)
ASSUME SettingsAssumption ==
    /\ Providers \in Seq(DOMAIN KeyEnv) /\ Providers # <<>>
    /\ \A p \in DOMAIN KeyEnv : KeyEnv[p] # NoVariable => KeyEnv[p] \in Variables
    /\ Started \in [Variables -> Values \cup {Empty, Unset}]
    /\ Unset \notin {Empty, Mask} /\ Nobody \notin Settings!Pending

(* The models that base URLs list. *)
VARIABLES url, cache, request, answer, now, changedURLs

catalogVars == <<url, cache, request, answer, now, changedURLs>>

Catalog == INSTANCE ModelCatalog WITH bounds <- changedURLs, Nothing <- nothing

ASSUME CatalogAssumption == TTL \in Nat /\ Timeout \in Nat

(* The list of sessions. *)
VARIABLES sessions, saved, files, thread, tableUp, ids, created, deleted, removed, unsaved, tableBounds

tableVars == <<sessions, saved, files, thread, tableUp, ids, created, deleted, removed, unsaved, tableBounds>>

Table == INSTANCE SessionTable WITH
           Threads <- Servers, Idle <- idle,
           up <- tableUp, used <- ids, acked <- created, bounds <- tableBounds

(* Uploads. *)
VARIABLES dir, upload, orphans, failures

uploadVars == <<dir, upload, orphans, failures>>

Upload == INSTANCE Uploads WITH MaxFailures <- MaxFailedUploads

(* Processes of the app that are started on one data directory. *)
VARIABLES phase, lock, tokenFile, token, minted, skills, cookie, busy, quit, refused, lost, starts

startVars == <<phase, lock, tokenFile, token, minted, skills, cookie, busy, quit, refused, lost, starts>>

Startup == INSTANCE Startup WITH file <- tokenFile

(* The lock can be told from one that a process holds. *)
ASSUME StartupAssumption == Nobody \notin Instances

(* The workspaces. *)
VARIABLES disk, present, workspace, meta, own, req, listing, changes

filesVars == <<disk, present, workspace, meta, own, req, listing, changes>>

Files == INSTANCE WorkspaceFiles WITH
           Names <- FileNames, MaxChanges <- MaxFileChanges,
           cfg <- workspace, answer <- listing, Nothing <- nothing

ASSUME FilesAssumption == FileNames \in Seq(STRING)

guiVars == <<part, gateVars, streamVars, settingsVars, catalogVars, tableVars, uploadVars, startVars, filesVars>>

GuiInit ==
    /\ part \in {"gate", "stream", "settings", "catalog", "table", "upload", "start", "files"}
    /\ Init /\ (part # "gate" => permission = "ask")
    /\ Stream!Init /\ Settings!Init
    /\ Catalog!Init /\ url = first
    /\ Table!Init
    /\ Upload!Init /\ (part # "upload" => dir = <<>>)
    /\ Startup!Init
    /\ Files!Init /\ workspace = d1

GuiNext ==
    \/ /\ part = "gate" /\ Next
       /\ UNCHANGED <<part, streamVars, settingsVars, catalogVars, tableVars, uploadVars, startVars, filesVars>>
    \/ /\ part = "stream" /\ Stream!Next
       /\ UNCHANGED <<part, gateVars, settingsVars, catalogVars, tableVars, uploadVars, startVars, filesVars>>
    \/ /\ part = "settings" /\ Settings!Next
       /\ UNCHANGED <<part, gateVars, streamVars, catalogVars, tableVars, uploadVars, startVars, filesVars>>
    \/ /\ part = "catalog" /\ Catalog!Next
       /\ UNCHANGED <<part, gateVars, streamVars, settingsVars, tableVars, uploadVars, startVars, filesVars>>
    \/ /\ part = "table" /\ Table!Next
       /\ UNCHANGED <<part, gateVars, streamVars, settingsVars, catalogVars, uploadVars, startVars, filesVars>>
    \/ /\ part = "upload" /\ Upload!Next
       /\ UNCHANGED <<part, gateVars, streamVars, settingsVars, catalogVars, tableVars, startVars, filesVars>>
    \/ /\ part = "start" /\ Startup!Next
       /\ UNCHANGED <<part, gateVars, streamVars, settingsVars, catalogVars, tableVars, uploadVars, filesVars>>
    \/ /\ part = "files" /\ Files!Next
       /\ UNCHANGED <<part, gateVars, streamVars, settingsVars, catalogVars, tableVars, uploadVars, startVars>>

(* The fairness of the specifications, of each for its own part. *)
GateFairness ==
    LET Fair(A) == part = "gate" /\ A
        v == gateVars
    IN  /\ WF_v(Fair(CoordinatorGoesOn)) /\ WF_v(Fair(ApproveAll))
        /\ \A o \in Commands :
             WF_v(Fair(CancelTake(o))) /\ SF_v(Fair(Receive(o))) /\ SF_v(Fair(Forward(o)))
        /\ \A t \in Threads : WF_v(Fair(ThreadSteps(t)))

StreamFairness ==
    LET Fair(A) == part = "stream" /\ A
        v == streamVars
    IN  \A k \in Conns :
          /\ WF_v(Fair(Stream!Connect(k))) /\ WF_v(Fair(Stream!WriteBacklog(k)))
          /\ WF_v(Fair(Stream!WriteEvent(k))) /\ WF_v(Fair(Stream!HandlerReturns(k)))
          /\ WF_v(Fair(Stream!Read(k))) /\ WF_v(Fair(Stream!StreamEnds(k)))

StartFairness ==
    LET Fair(A) == part = "start" /\ A
        v == startVars
    IN  \A i \in Instances : WF_v(Fair(Startup!Ending(i)))

GuiSpec == GuiInit /\ [][GuiNext]_guiVars /\ GateFairness /\ StreamFairness /\ StartFairness

-----------------------------------------------------------------------------
(* The instance that is model-checked. *)

(* Two variables, of which one holds the key of a provider. *)
TwoProviders == <<keyed, local>>
OneKey == (keyed :> K) @@ (local :> NoVariable)
OneSet == (X :> v1) @@ (K :> Unset)

(* The models two base URLs list. *)
Lists ==
    [u \in {first, second} |->
        IF u = first
        THEN {[id |-> "a", batch |-> FALSE, tools |-> "yes"], [id |-> "b", batch |-> FALSE, tools |-> "no"],
              [id |-> "c", batch |-> TRUE, tools |-> "unknown"]}
        ELSE {[id |-> "a", batch |-> FALSE, tools |-> "unknown"], [id |-> "d", batch |-> FALSE, tools |-> "yes"]}]

(* Two uploads; the second name that is tried for "a" is one that the other *)
(* asks for.                                                                *)
TwoUploads == (u1 :> <<"a", NoName, "a">>) @@ (u2 :> <<"a-1", "a">>)

CandidateNames(name, attempt) ==
    CASE attempt = 0 -> name
      [] name = "a"   -> IF attempt = 1 THEN "a-1" ELSE "a-2"
      [] OTHER        -> IF attempt = 1 THEN "a-1-1" ELSE "a-1-2"

TwoNames == <<".a", "b">>

(* The agent's commands make files in the first workspace only. *)
InScenario == \A n \in DOMAIN disk[d2] : disk[d2][n] = "none"

-----------------------------------------------------------------------------
(* The event stream (gui/chat.go, gui/server.go): whatever is cut, stalled  *)
(* or written twice, the page has shown the items so far, each once.        *)
NothingIsSkipped == Stream!TypeOK /\ Stream!NoItemSkipped

(* What the app keeps (gui/config.go, gui/app.go, gui/server.go): across    *)
(* crashes, failed saves and concurrent requests, the saved configuration   *)
(* is the acknowledged one, the process has its variables and no provider   *)
(* is used without its key; a listed session has its file, a created one    *)
(* stays listed and a deleted one is gone, once a list without it is saved; *)
(* and an upload that is reported is whole and its own, and one that is not *)
(* leaves a part only if it could not be removed or the app died.           *)
DataIsKept ==
    /\ Settings!TypeOK /\ Settings!CrashKeepsConfig /\ Settings!ExportedIsConfigured /\ Settings!UsedWithKey
    /\ Table!ListedHasFile /\ Table!AcknowledgedIsListed /\ Table!DeletedIsGone
    /\ Upload!ReportedIsWhole /\ Upload!NoPartialLeft

(* What the app serves (gui/main.go, gui/config.go, gui/server.go): one     *)
(* process uses the data directory, but for coordinators that outlast its   *)
(* shutdown, with whole skills and a token that stays valid, however starts *)
(* fail and processes die; the models of a catalog are fresh and can call   *)
(* tools, and picks are offered only where there is none; and the files     *)
(* shown are those of the chat's own workspace, none missing and in order,  *)
(* but for a text whose file is replaced by a link while it is read.        *)
ServedIsRight ==
    /\ Startup!OneUser /\ Startup!CookieStaysValid /\ Startup!SkillsAreWhole
    /\ Catalog!AnswerIsFresh /\ Catalog!OffersOnlyToolModels
    /\ Files!OwnWorkspace /\ Files!SteadyIsListed /\ Files!InOrder

(* A declined command is reported to the model, the page catches up with    *)
(* the chat, and an app that was closed ends (approvals.go, finish; the     *)
(* browser's reconnection; main.go).                                        *)
GuiGoesOn == DeclineIsReported /\ Stream!CatchesUp /\ Startup!QuitEnds
=============================================================================

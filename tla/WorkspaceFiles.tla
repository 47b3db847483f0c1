--------------------------- MODULE WorkspaceFiles ---------------------------
(***************************************************************************)
(* The files of a workspace in the browser (gui/server.go): a directory is  *)
(* listed, a file is shown, converted to text or opened, while the agent's  *)
(* commands create, remove and replace files, and the user changes the      *)
(* workspace of new chats.                                                  *)
(***************************************************************************)
EXTENDS Naturals, Sequences, FiniteSets

CONSTANTS
    Sessions, Workspaces,
    Names,      \* names in a workspace, in the order of their lower-case form
    Hidden,     \* those that begin with a dot
    MaxChanges, Nothing

NameSet == {Names[i] : i \in DOMAIN Names}

(* What a name may be: a symbolic link leads to a file, to a directory,     *)
(* nowhere, or to a file out of the workspace.                              *)
Kinds == {"none", "file", "dir", "toFile", "toDir", "nowhere", "outside"}

Links == {"toFile", "toDir", "nowhere", "outside"}

VARIABLES
    disk,     \* workspace -> name -> kind
    present,  \* workspaces whose directory exists
    cfg,      \* the workspace of new chats
    meta,     \* session -> its workspace, or Nothing
    own,      \* history: session -> the workspace that was configured when it was created
    req,      \* the request that is being handled
    answer,   \* the answer, until the browser has it
    changes

vars == <<disk, present, cfg, meta, own, req, answer, changes>>

Idle == [at |-> "idle", kind |-> Nothing, session |-> Nothing, root |-> Nothing, hidden |-> FALSE,
         name |-> Nothing, types |-> <<>>, pending |-> {}, views |-> {}, steady |-> {}]

NoAnswer == [status |-> 0, kind |-> Nothing, session |-> Nothing, root |-> Nothing, hidden |-> FALSE,
             entries |-> <<>>, away |-> {}, steady |-> {}]

Init ==
    /\ disk = [w \in Workspaces |-> [n \in NameSet |-> "none"]]
    /\ present = {}
    /\ cfg \in Workspaces
    /\ meta = [s \in Sessions |-> Nothing] /\ own = meta
    /\ req = Idle /\ answer = NoAnswer
    /\ changes = 0

(* The names whose contents an answer has from out of the workspace. *)
Away(entries) ==
    IF req.kind = "files" THEN {}
    ELSE {n \in NameSet : disk[req.root][n] = "outside" /\ \E i \in DOMAIN entries : entries[i].name = n}

Reply(status, entries) ==
    /\ answer' = [status |-> status, kind |-> req.kind, session |-> req.session, root |-> req.root,
                  hidden |-> req.hidden, entries |-> entries, away |-> Away(entries), steady |-> req.steady]
    /\ req' = Idle

-----------------------------------------------------------------------------
(* Around the requests. *)

(* A command of the agent changes a file. *)
Change(w, n) ==
    /\ answer = NoAnswer /\ changes < MaxChanges /\ w \in present
    /\ changes' = changes + 1
    /\ \E k \in Kinds \ {disk[w][n]} : disk' = [disk EXCEPT ![w][n] = k]
    /\ req' = IF req.root = w THEN [req EXCEPT !.steady = @ \ {n}] ELSE req
    /\ UNCHANGED <<present, cfg, meta, own, answer>>

(* The user removes a workspace that is empty. *)
RemoveWorkspace(w) ==
    /\ answer = NoAnswer /\ changes < MaxChanges /\ w \in present
    /\ \A n \in NameSet : disk[w][n] = "none"
    /\ changes' = changes + 1
    /\ present' = present \ {w}
    /\ UNCHANGED <<disk, cfg, meta, own, req, answer>>

(* The workspace of new chats is changed; it must be a directory. *)
Configure(w) ==
    /\ answer = NoAnswer /\ changes < MaxChanges /\ w # cfg
    /\ changes' = changes + 1
    /\ present' = present \cup {w}
    /\ cfg' = w
    /\ UNCHANGED <<disk, meta, own, req, answer>>

(* createSession *)
CreateSession(s) ==
    /\ answer = NoAnswer /\ meta[s] = Nothing
    /\ meta' = [meta EXCEPT ![s] = cfg] /\ own' = [own EXCEPT ![s] = cfg]
    /\ present' = present \cup {cfg}
    /\ UNCHANGED <<disk, cfg, req, answer, changes>>

-----------------------------------------------------------------------------
(* Requests. *)

(* App.workspace: that of the session, or the configured one. *)
WorkspaceOf(s) == IF s = Nothing THEN cfg ELSE meta[s]

(* The configured workspace is made if it is not there, that of a session   *)
(* is not; os.OpenRoot needs it.                                            *)
Ask(kind, s, n, hidden) ==
    /\ req = Idle /\ answer = NoAnswer
    /\ s # Nothing => meta[s] # Nothing
    /\ LET w == WorkspaceOf(s)
       IN  /\ present' = IF s = Nothing THEN present \cup {w} ELSE present
           /\ IF w \in present'
              THEN /\ req' = [Idle EXCEPT !.at = "open", !.kind = kind, !.session = s, !.root = w,
                                          !.hidden = hidden, !.name = n,
                                          !.steady = {m \in NameSet : disk[w][m] # "none"}]
                   /\ UNCHANGED answer
              ELSE answer' = [NoAnswer EXCEPT !.status = 400, !.kind = kind] /\ UNCHANGED req
    /\ UNCHANGED <<disk, cfg, meta, own, changes>>

(* A session nobody knows. *)
AskUnknown(s) ==
    /\ req = Idle /\ answer = NoAnswer /\ meta[s] = Nothing
    /\ answer' = [NoAnswer EXCEPT !.status = 400]
    /\ UNCHANGED <<disk, present, cfg, meta, own, req, changes>>

(* What os.Root finds: it follows no link out of the workspace. *)
Found(n) == disk[req.root][n] \notin {"none", "nowhere", "outside"}

IsDir(kind) == kind \in {"dir", "toDir"}

(* handleFiles: the names and their types as they are now ... *)
ReadDir ==
    /\ req.kind = "files" /\ req.at = "open"
    /\ req' = [req EXCEPT !.at = "inspect", !.types = disk[req.root],
                          !.pending = {n \in NameSet : disk[req.root][n] # "none"}]
    /\ UNCHANGED <<disk, present, cfg, meta, own, answer, changes>>

(* The entries that are left after one was inspected. *)
Remaining(n) == req.pending \ {n}

(* ... then each entry: hidden ones and those that have gone are left out,  *)
(* and a link is a directory if it leads to one.                            *)
Inspect(n) ==
    /\ req.kind = "files" /\ req.at = "inspect" /\ n \in req.pending
    /\ LET gone == disk[req.root][n] = "none"
           dir  == IF req.types[n] \in Links THEN Found(n) /\ IsDir(disk[req.root][n]) ELSE IsDir(req.types[n])
           skip == gone \/ (n \in Hidden /\ ~req.hidden)
       IN  req' = [req EXCEPT !.views = IF skip THEN @ ELSE @ \cup {[name |-> n, dir |-> dir]},
                              !.pending = IF gone THEN Remaining(n) ELSE @ \ {n}]
    /\ UNCHANGED <<disk, present, cfg, meta, own, answer, changes>>

Rank(n) == CHOOSE i \in DOMAIN Names : Names[i] = n

(* Directories come first. *)
Before(a, b) == IF a.dir # b.dir THEN a.dir ELSE Rank(a.name) < Rank(b.name)

(* All the entries, in that order. *)
InListing(s, views) ==
    /\ \A v \in views : \E i \in DOMAIN s : s[i] = v
    /\ \A i, j \in DOMAIN s : i < j => Before(s[i], s[j])

Sorted == CHOOSE s \in [1 .. Cardinality(req.views) -> req.views] : InListing(s, req.views)

AnswerFiles ==
    /\ req.kind = "files" /\ req.at = "inspect" /\ req.pending = {}
    /\ Reply(200, Sorted)
    /\ UNCHANGED <<disk, present, cfg, meta, own, changes>>

(* handleRaw opens the file, which may be a directory, and serves it. *)
Raw ==
    /\ req.kind = "raw"
    /\ LET kind == disk[req.root][req.name]
       IN  Reply(IF ~Found(req.name) THEN 404 ELSE IF IsDir(kind) THEN 400 ELSE 200,
                 IF Found(req.name) /\ ~IsDir(kind) THEN <<[name |-> req.name, dir |-> FALSE]>> ELSE <<>>)
    /\ UNCHANGED <<disk, present, cfg, meta, own, changes>>

(* handleText and handleOpen look first ... *)
Look ==
    /\ req.kind \in {"text", "open"} /\ req.at = "open"
    /\ IF Found(req.name)
       THEN req' = [req EXCEPT !.at = "found"] /\ UNCHANGED answer
       ELSE Reply(404, <<>>)
    /\ UNCHANGED <<disk, present, cfg, meta, own, changes>>

(* ... then documentText reads the file by its path, without the os.Root:   *)
(* it may be gone, be a directory or have no text, and a link is followed   *)
(* wherever it leads ...                                                    *)
AnswerText ==
    /\ req.kind = "text" /\ req.at = "found"
    /\ \/ Reply(422, <<>>)
       \/ /\ disk[req.root][req.name] \in {"file", "toFile", "outside"}
          /\ Reply(200, <<[name |-> req.name, dir |-> FALSE]>>)
    /\ UNCHANGED <<disk, present, cfg, meta, own, changes>>

(* ... or a program is started that opens it. *)
StartProgram ==
    /\ req.kind = "open" /\ req.at = "found"
    /\ Reply(200, <<>>) \/ Reply(500, <<>>)
    /\ UNCHANGED <<disk, present, cfg, meta, own, changes>>

(* The browser has the answer. *)
Take ==
    /\ answer # NoAnswer
    /\ answer' = NoAnswer
    /\ UNCHANGED <<disk, present, cfg, meta, own, req, changes>>

Next ==
    \/ \E w \in Workspaces : Configure(w) \/ RemoveWorkspace(w) \/ \E n \in NameSet : Change(w, n)
    \/ \E s \in Sessions : CreateSession(s) \/ AskUnknown(s)
    \/ \E s \in Sessions \cup {Nothing} :
        \/ \E hidden \in BOOLEAN : Ask("files", s, Nothing, hidden)
        \/ \E kind \in {"raw", "text", "open"}, n \in NameSet : Ask(kind, s, n, FALSE)
    \/ ReadDir \/ (\E n \in NameSet : Inspect(n)) \/ AnswerFiles
    \/ Raw \/ Look \/ AnswerText \/ StartProgram \/ Take

Spec == Init /\ [][Next]_vars

-----------------------------------------------------------------------------
(* Properties. *)

(* The files that are shown for a chat are those of the workspace its       *)
(* commands run in, whatever workspace is configured meanwhile. What is     *)
(* shown lies in the workspace, except as text when the file is replaced by *)
(* a link between the look and the reading (server.go:562-566).             *)
OwnWorkspace ==
    /\ answer.session # Nothing => answer.root = own[answer.session]
    /\ answer.away \cap answer.steady = {}
    /\ answer.kind # "text" => answer.away = {}

(* A file that was there all the time is in the listing, whatever appears   *)
(* and disappears next to it; hidden ones if they are asked for.            *)
SteadyIsListed ==
    answer.kind = "files" /\ answer.status = 200 =>
        \A n \in answer.steady \ (IF answer.hidden THEN {} ELSE Hidden) :
            \E i \in DOMAIN answer.entries : answer.entries[i].name = n

(* A listing has the directories first, links to directories among them,    *)
(* and is in the order of the names otherwise; no name is twice in it.      *)
InOrder ==
    \A i, j \in DOMAIN answer.entries : i < j =>
        LET a == answer.entries[i]
            b == answer.entries[j]
        IN  (a.dir = b.dir /\ Rank(a.name) < Rank(b.name)) \/ (a.dir /\ ~b.dir)
=============================================================================

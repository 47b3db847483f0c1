------------------------------ MODULE Startup ------------------------------
(***************************************************************************)
(* The desktop app from its start to its end (gui/main.go, gui/app.go): it  *)
(* locks its data directory, loads or makes what is kept there, serves the  *)
(* local API until the window is closed or a signal comes, and lets go.     *)
(* The user may start it twice, and it may die at any moment.               *)
(*                                                                          *)
(* The token that lets a browser in is kept in the data directory; so are   *)
(* the built-in skills, which are written anew by every start.              *)
(***************************************************************************)
EXTENDS Naturals, FiniteSets

CONSTANTS
    Instances, \* processes
    MaxStarts, MaxTokens, Nobody

(* The steps of run and newApp, in order. *)
NextPhase ==
    [lock |-> "load", load |-> "token", token |-> "skills", skills |-> "installing",
     installing |-> "store", store |-> "listen", listen |-> "serving", serving |-> "draining",
     draining |-> "closing", closing |-> "unlock", unlock |-> "exiting"]

VARIABLES
    phase,  \* instance -> "off", a step, or "serving"
    lock,   \* who holds the lock on the data directory
    file,   \* the token in the data directory, 0 if there is none
    token,  \* instance -> app.token
    minted, \* tokens that were made
    skills, \* the files of the built-in skills: "none", "part" or "whole"
    cookie, \* the browser's cookie, 0 if it has none
    busy,   \* instance -> coordinators run
    quit,   \* instance -> the user has closed it
    refused,\* history: a browser with a cookie was sent away
    lost,   \* history: a token that was kept could not be read
    starts

vars == <<phase, lock, file, token, minted, skills, cookie, busy, quit, refused, lost, starts>>

kept == <<file, minted, skills, cookie, refused, lost, starts>>

Init ==
    /\ phase = [i \in Instances |-> "off"]
    /\ lock = Nobody
    /\ file = 0 /\ token = [i \in Instances |-> 0] /\ minted = 0
    /\ skills = "none"
    /\ cookie = 0
    /\ busy = [i \in Instances |-> FALSE] /\ quit = [i \in Instances |-> FALSE]
    /\ refused = FALSE /\ lost = FALSE
    /\ starts = 0

Goto(i, p) == phase' = [phase EXCEPT ![i] = p]

Advance(i) == Goto(i, NextPhase[phase[i]])

(* The process is gone, and with it what it held. *)
Gone(i) ==
    /\ Goto(i, "off")
    /\ lock' = IF lock = i THEN Nobody ELSE lock
    /\ token' = [token EXCEPT ![i] = 0]
    /\ busy' = [busy EXCEPT ![i] = FALSE] /\ quit' = [quit EXCEPT ![i] = FALSE]

-----------------------------------------------------------------------------
(* Starting. *)

(* main, and run up to the lock: the address must be one of this host, and  *)
(* the data directory is made.                                              *)
Start(i) ==
    /\ phase[i] = "off" /\ starts < MaxStarts
    /\ starts' = starts + 1
    /\ Goto(i, "lock") \/ UNCHANGED phase
    /\ UNCHANGED <<lock, file, token, minted, skills, cookie, busy, quit, refused, lost>>

(* flock succeeds. *)
LockFree == lock = Nobody

(* lockDataDir: a second instance gives up. *)
LockDataDir(i) ==
    /\ phase[i] = "lock"
    /\ IF LockFree
       THEN lock' = i /\ Advance(i) /\ UNCHANGED <<token, busy, quit>>
       ELSE Gone(i)
    /\ UNCHANGED kept

(* A step of the start fails: run returns, and its deferred functions let   *)
(* go of everything.                                                        *)
StepFails(i) ==
    /\ phase[i] \in {"load", "token", "skills", "installing", "store", "listen"}
    /\ Gone(i)
    /\ UNCHANGED kept

(* The configuration and the list of sessions (see Settings, SessionTable); *)
(* the environment, the session store and its observer; the listener, on    *)
(* any free port if the usual one is taken.                                 *)
StepDone(i) ==
    /\ phase[i] \in {"load", "store", "listen"}
    /\ Advance(i)
    /\ UNCHANGED <<lock, file, token, minted, skills, cookie, busy, quit, refused, lost, starts>>

(* The file holds a token and can be read. *)
TokenKept(readable) == file # 0 /\ readable

(* loadToken: the token that is kept, or a new one that is written before   *)
(* it is used (see Settings for how a file is replaced). A file that cannot *)
(* be read counts as none.                                                  *)
LoadToken(i) ==
    /\ phase[i] = "token"
    /\ \E readable \in BOOLEAN :
        /\ lost' = (lost \/ (file # 0 /\ ~readable))
        /\ IF TokenKept(readable)
           THEN /\ token' = [token EXCEPT ![i] = file]
                /\ UNCHANGED <<file, minted>>
           ELSE /\ minted < MaxTokens
                /\ minted' = minted + 1
                /\ file' = minted'
                /\ token' = [token EXCEPT ![i] = minted']
    /\ Advance(i)
    /\ UNCHANGED <<lock, skills, cookie, busy, quit, refused, starts>>

(* Faulty variant: skills that are there are not written again. *)
InstallMissing(i) ==
    /\ phase[i] = "skills"
    /\ IF skills = "none"
       THEN skills' = "part" /\ Advance(i)
       ELSE Goto(i, "store") /\ UNCHANGED skills
    /\ UNCHANGED <<lock, file, token, minted, cookie, busy, quit, refused, lost, starts>>

(* installSkills truncates and writes every file, whatever is there; the    *)
(* process may die in between.                                              *)
InstallBegins(i) ==
    /\ phase[i] = "skills"
    /\ skills' = "part"
    /\ Advance(i)
    /\ UNCHANGED <<lock, file, token, minted, cookie, busy, quit, refused, lost, starts>>

InstallEnds(i) ==
    /\ phase[i] = "installing"
    /\ skills' = "whole"
    /\ Advance(i)
    /\ UNCHANGED <<lock, file, token, minted, cookie, busy, quit, refused, lost, starts>>

-----------------------------------------------------------------------------
(* Serving. *)

(* The link with the token sets the cookie. *)
OpenLink(i) ==
    /\ phase[i] = "serving"
    /\ cookie' = token[i]
    /\ UNCHANGED <<phase, lock, file, token, minted, skills, busy, quit, refused, lost, starts>>

(* guard: a page of the app asks from this host and sends the header that a *)
(* change of state needs; what is left is the cookie.                       *)
Admitted(i) == cookie = token[i]

(* A request of the page. One that is admitted may start a coordinator, and *)
(* coordinators end by themselves.                                          *)
Request(i) ==
    /\ phase[i] = "serving"
    /\ IF Admitted(i)
       THEN busy' = [busy EXCEPT ![i] = ~@] /\ UNCHANGED refused
       ELSE refused' = (refused \/ cookie # 0) /\ UNCHANGED busy
    /\ UNCHANGED <<phase, lock, file, token, minted, skills, cookie, quit, lost, starts>>

(* The window is closed, or a signal comes. *)
Quit(i) ==
    /\ phase[i] = "serving"
    /\ quit' = [quit EXCEPT ![i] = TRUE]
    /\ Advance(i)
    /\ UNCHANGED <<lock, kept, token, busy>>

(* Faulty variant: the wait has no limit. *)
WaitForAll(i) ==
    /\ phase[i] = "draining"
    /\ ~busy[i]
    /\ Advance(i)
    /\ UNCHANGED <<lock, kept, token, busy, quit>>

(* App.shutdown waits for the coordinators, but not for ever. *)
Drained(i) ==
    /\ phase[i] = "draining"
    /\ busy' = [busy EXCEPT ![i] = FALSE] \/ UNCHANGED busy
    /\ Advance(i)
    /\ UNCHANGED <<lock, kept, token, quit>>

(* server.Shutdown waits for the requests, but not for ever. *)
ServerClosed(i) ==
    /\ phase[i] = "closing"
    /\ Advance(i)
    /\ UNCHANGED <<lock, kept, token, busy, quit>>

(* The lock is released, whether coordinators that outlasted the shutdown   *)
(* still run or not ...                                                     *)
Unlock(i) ==
    /\ phase[i] = "unlock"
    /\ lock' = Nobody
    /\ Advance(i)
    /\ UNCHANGED <<kept, token, busy, quit>>

(* ... and the process ends. *)
Exit(i) ==
    /\ phase[i] = "exiting"
    /\ Gone(i)
    /\ UNCHANGED kept

(* The process dies; the system drops its lock. *)
Die(i) ==
    /\ phase[i] # "off"
    /\ Gone(i)
    /\ UNCHANGED kept

Ending(i) == Drained(i) \/ ServerClosed(i) \/ Unlock(i) \/ Exit(i)

Next ==
    \E i \in Instances :
        \/ Start(i) \/ LockDataDir(i) \/ StepFails(i) \/ StepDone(i) \/ LoadToken(i)
        \/ InstallBegins(i) \/ InstallEnds(i)
        \/ OpenLink(i) \/ Request(i) \/ Quit(i) \/ Ending(i) \/ Die(i)

(* Both waits have a limit. *)
Fairness == \A i \in Instances : WF_vars(Ending(i))

Spec == Init /\ [][Next]_vars /\ Fairness

-----------------------------------------------------------------------------
(* Properties. *)

UsesData(i) == phase[i] \notin {"off", "lock", "exiting"}

(* The coordinators of a process that has let go of the lock still run. *)
Outlasts(i) == phase[i] = "exiting" /\ busy[i]

(* "lockDataDir keeps a second instance from sharing the session store":    *)
(* at most one process has anything of the data directory open, but for     *)
(* coordinators that outlasted the shutdown of another that is about to end *)
(* (main.go:116: the lock is released before the process ends).             *)
OneUser ==
    \A i, j \in Instances :
        (UsesData(i) \/ Outlasts(i)) /\ (UsesData(j) \/ Outlasts(j)) =>
            i = j \/ Outlasts(i) \/ Outlasts(j)

(* A browser that was let in once is let in by every later start of the     *)
(* app, also after it died while the token was made; a new link is only     *)
(* needed when the file of the token could not be read.                     *)
CookieStaysValid == refused => lost

(* While the app serves, the skills its runs read are whole, also when an   *)
(* earlier start died while it wrote them or a second one is tried.         *)
SkillsAreWhole == \A i \in Instances : phase[i] = "serving" => skills = "whole"

(* An app that is closed ends and lets go of its data directory, whatever   *)
(* its coordinators and requests do.                                        *)
QuitEnds == \A i \in Instances : quit[i] ~> (lock # i /\ phase[i] = "off")
=============================================================================

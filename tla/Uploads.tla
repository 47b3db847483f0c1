------------------------------ MODULE Uploads ------------------------------
(***************************************************************************)
(* Uploads to the workspace (gui/server.go, handleUpload and createUnique): *)
(* requests with several files each, which may bear the same name or a name *)
(* another file was given, are stored at the same time; a copy may fail     *)
(* half way, and the app may die.                                           *)
(***************************************************************************)
EXTENDS Naturals, Sequences, FiniteSets

CONSTANTS
    Uploads,         \* requests
    Parts,           \* upload -> its parts: the names they ask for, or NoName
    Candidate(_, _), \* name, attempt -> the name that is tried
    Attempts,        \* how many names are tried
    Existing,        \* sets of files that may be there before
    NoName, NoFile,
    MaxFailures

VARIABLES
    dir,      \* name -> [owner, part, state] of the uploads directory
    upload,   \* upload -> [at, part, attempt, file, saved]
    orphans,  \* history: files nobody could remove: the removal failed, or the app died
    failures

vars == <<dir, upload, orphans, failures>>

Others == [owner |-> NoName, part |-> 0, state |-> "whole"]

Init ==
    /\ dir \in {[n \in S |-> Others] : S \in Existing}
    /\ upload = [u \in Uploads |-> [at |-> "next", part |-> 0, attempt |-> 0, file |-> NoFile, saved |-> <<>>]]
    /\ orphans = {} /\ failures = 0

With(name, entry) == [n \in DOMAIN dir \cup {name} |-> IF n = name THEN entry ELSE dir[n]]

Without(name) == [n \in DOMAIN dir \ {name} |-> dir[n]]

Failure == failures < MaxFailures /\ failures' = failures + 1

(* The next part of the request; a part without a file name is passed over, *)
(* and after the last one the saved files are reported.                     *)
NextPart(u) ==
    /\ upload[u].at = "next"
    /\ \/ /\ upload[u].part < Len(Parts[u])
          /\ upload' = [upload EXCEPT ![u].part = @ + 1, ![u].attempt = 0,
                            ![u].at = IF Parts[u][upload[u].part + 1] = NoName THEN "next" ELSE "create"]
          /\ UNCHANGED failures
       \/ /\ upload[u].part = Len(Parts[u])
          /\ upload' = [upload EXCEPT ![u].at = "answered"]
          /\ UNCHANGED failures
       \/ /\ Failure \* the body ends early or is too large
          /\ upload' = [upload EXCEPT ![u].at = "refused"]
    /\ UNCHANGED <<dir, orphans>>

(* The file is opened only if it does not exist. *)
Taken(name) == name \in DOMAIN dir

Tried(u) == Candidate(Parts[u][upload[u].part], upload[u].attempt)

(* createUnique: one name after the other. *)
TryName(u) ==
    /\ upload[u].at = "create"
    /\ upload[u].attempt < Attempts
    /\ IF Taken(Tried(u))
       THEN upload' = [upload EXCEPT ![u].attempt = @ + 1] /\ UNCHANGED dir
       ELSE /\ dir' = With(Tried(u), [owner |-> u, part |-> upload[u].part, state |-> "partial"])
            /\ upload' = [upload EXCEPT ![u].at = "copy", ![u].file = Tried(u)]
    /\ UNCHANGED <<orphans, failures>>

(* No name is left, or the file cannot be created: the request ends.        *)
CreateFails(u) ==
    /\ upload[u].at = "create"
    /\ \/ upload[u].attempt = Attempts /\ UNCHANGED failures
       \/ upload[u].attempt < Attempts /\ Failure
    /\ upload' = [upload EXCEPT ![u].at = "refused"]
    /\ UNCHANGED <<dir, orphans>>

(* The part is copied and the file closed ... *)
Copy(u) ==
    /\ upload[u].at = "copy"
    /\ dir' = [dir EXCEPT ![upload[u].file].state = "whole"]
    /\ upload' = [upload EXCEPT ![u].at = "next", ![u].file = NoFile,
                      ![u].saved = Append(@, [name |-> upload[u].file, part |-> upload[u].part])]
    /\ UNCHANGED <<orphans, failures>>

(* The file of a failed copy is removed. *)
Removed(name) == Without(name)

(* ... or that fails, and the request ends; nobody looks whether the file   *)
(* could be removed.                                                        *)
CopyFails(u) ==
    /\ upload[u].at = "copy"
    /\ Failure
    /\ \/ dir' = Removed(upload[u].file) /\ UNCHANGED orphans
       \/ orphans' = orphans \cup {upload[u].file} /\ UNCHANGED dir
    /\ upload' = [upload EXCEPT ![u].at = "refused", ![u].file = NoFile]

(* The app dies: no request that is under way is answered. *)
Crash ==
    /\ Failure
    /\ orphans' = orphans \cup {upload[u].file : u \in {u \in Uploads : upload[u].at = "copy"}}
    /\ upload' = [u \in Uploads |->
         IF upload[u].at = "answered" THEN upload[u]
         ELSE [upload[u] EXCEPT !.at = "refused", !.file = NoFile]]
    /\ UNCHANGED dir

Next ==
    \/ \E u \in Uploads : NextPart(u) \/ TryName(u) \/ CreateFails(u) \/ Copy(u) \/ CopyFails(u)
    \/ Crash

Spec == Init /\ [][Next]_vars

-----------------------------------------------------------------------------
(* Properties. *)

(* Every file a request reports is its own, whole, and was stored under a   *)
(* name of its own, also when requests with the same names run together.    *)
ReportedIsWhole ==
    \A u \in Uploads : \A i \in DOMAIN upload[u].saved :
        LET s == upload[u].saved[i]
        IN  s.name \in DOMAIN dir /\ dir[s.name] = [owner |-> u, part |-> s.part, state |-> "whole"]

(* A file that is not whole is being copied, or belongs to a request that   *)
(* was not answered, and its removal failed or the app died (server.go:657  *)
(* ignores the error, and no start looks for such files). So it stays under *)
(* a name that no one is told of.                                           *)
NoPartialLeft ==
    \A n \in DOMAIN dir : dir[n].state = "partial" =>
        LET u == dir[n].owner
        IN  \/ upload[u].at = "copy" /\ upload[u].file = n
            \/ upload[u].at = "refused" /\ n \in orphans
=============================================================================

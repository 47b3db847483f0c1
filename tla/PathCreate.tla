----------------------------- MODULE PathCreate -----------------------------
(***************************************************************************)
(* Creating a file or directory, or using the one that exists               *)
(* (harness/primitives/file.go, Create, and file_create_unix.go): several   *)
(* creators of the same path, somebody who removes it, and a crash of the   *)
(* machine, after which a directory holds what was last synced.             *)
(***************************************************************************)
EXTENDS Naturals, FiniteSets

CONSTANTS
    Creators,   \* concurrent Create requests for one path
    Kind,       \* creator -> "file" or "directory"
    Alien,      \* what the path may already be
    MaxRetries, \* maxCreateContentionRetries
    MaxRemoves  \* bound: removals by others

VARIABLES
    entry,    \* what the path names: "none", "file", "directory" or another kind
    durable,  \* what it names after a crash
    pc, retries,
    ctxDone,
    parent,   \* the creator holds the parent directory open
    outcome,  \* "none", "completed", "failed" or "canceled"
    removes,  \* history
    crashed

vars == <<entry, durable, pc, retries, ctxDone, parent, outcome, removes, crashed>>

Init ==
    /\ entry \in Alien \cup {"none"}
    /\ durable = entry
    /\ pc = [c \in Creators |-> "begin"]
    /\ retries = [c \in Creators |-> 0]
    /\ ctxDone = [c \in Creators |-> FALSE]
    /\ parent = [c \in Creators |-> FALSE]
    /\ outcome = [c \in Creators |-> "none"]
    /\ removes = 0
    /\ crashed = FALSE

Cancel(c) ==
    /\ ~ctxDone[c] /\ pc[c] # "done"
    /\ ctxDone' = [ctxDone EXCEPT ![c] = TRUE]
    /\ UNCHANGED <<entry, durable, pc, retries, parent, outcome, removes, crashed>>

(* Somebody removes the path, and sees to it that it stays removed. *)
Remove ==
    /\ removes < MaxRemoves /\ entry # "none" /\ ~crashed
    /\ entry' = "none" /\ durable' = "none"
    /\ removes' = removes + 1
    /\ UNCHANGED <<pc, retries, ctxDone, parent, outcome, crashed>>

End(c, result) ==
    /\ pc' = [pc EXCEPT ![c] = "done"]
    /\ parent' = [parent EXCEPT ![c] = FALSE]
    /\ outcome' = [outcome EXCEPT ![c] = result]

Goto(c, place) ==
    /\ pc' = [pc EXCEPT ![c] = place]
    /\ UNCHANGED <<parent, outcome>>

(* createPath and createNewPath: open the parent directory. *)
Begin(c) ==
    /\ pc[c] = "begin" /\ ~crashed
    /\ \/ ctxDone[c] /\ End(c, "canceled")
       \/ ~ctxDone[c] /\ End(c, "failed")
       \/ /\ ~ctxDone[c]
          /\ pc' = [pc EXCEPT ![c] = "create"]
          /\ parent' = [parent EXCEPT ![c] = TRUE]
          /\ UNCHANGED outcome
    /\ UNCHANGED <<entry, durable, retries, ctxDone, removes, crashed>>

(* openNewFileAt (O_EXCL) or makeNewDirectoryAt: new, there already, or an  *)
(* error.                                                                   *)
Create(c) ==
    /\ pc[c] = "create" /\ ~crashed
    /\ IF ctxDone[c] THEN End(c, "canceled") /\ UNCHANGED entry
       ELSE \/ entry = "none" /\ entry' = Kind[c] /\ Goto(c, "persist")
            \/ entry # "none" /\ Goto(c, "inspect") /\ UNCHANGED entry
            \/ End(c, "failed") /\ UNCHANGED entry
    /\ UNCHANGED <<durable, retries, ctxDone, removes, crashed>>

(* The entry exists: of the requested kind, it is persisted all the same.   *)
Use(c) == IF entry = Kind[c] THEN Goto(c, "persist") ELSE End(c, "failed")

MayRetry(c) == retries[c] < MaxRetries

(* useExistingPath: if the entry is gone again, start over. *)
Inspect(c) ==
    /\ pc[c] = "inspect" /\ ~crashed
    /\ \/ /\ entry = "none" /\ MayRetry(c)
          /\ retries' = [retries EXCEPT ![c] = @ + 1]
          /\ Goto(c, "create")
       \/ /\ entry = "none" /\ ~MayRetry(c)
          /\ End(c, "failed")
          /\ UNCHANGED retries
       \/ entry # "none" /\ Use(c) /\ UNCHANGED retries
    /\ UNCHANGED <<entry, durable, ctxDone, removes, crashed>>

(* persistCreatedFile and persistCreatedEntry: sync the parent directory.   *)
Persist(c) ==
    /\ pc[c] = "persist" /\ ~crashed
    /\ \/ durable' = entry /\ End(c, "completed")
       \/ UNCHANGED durable /\ End(c, "failed")
    /\ UNCHANGED <<entry, retries, ctxDone, removes, crashed>>

Crash ==
    /\ ~crashed
    /\ crashed' = TRUE
    /\ entry' = durable
    /\ UNCHANGED <<durable, pc, retries, ctxDone, parent, outcome, removes>>

Next ==
    \/ Remove \/ Crash
    \/ \E c \in Creators : Cancel(c) \/ Begin(c) \/ Create(c) \/ Inspect(c) \/ Persist(c)

Spec == Init /\ [][Next]_vars

-----------------------------------------------------------------------------
(* Properties. *)

TypeOK ==
    /\ retries \in [Creators -> 0..MaxRetries]
    /\ \A c \in Creators : (pc[c] = "done" <=> outcome[c] # "none")
                           /\ (pc[c] = "done" => ~parent[c])

(* A creator that reports completion has a path of its kind that survives a *)
(* crash, unless somebody removed it: also when another creator made it and *)
(* has not yet synced it itself.                                            *)
CompletedIsDurable ==
    \A c \in Creators :
        outcome[c] = "completed" /\ removes = 0 => durable = Kind[c] /\ entry = Kind[c]
=============================================================================

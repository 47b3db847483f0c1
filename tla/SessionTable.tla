---------------------------- MODULE SessionTable ----------------------------
(***************************************************************************)
(* The GUI's list of sessions (gui/app.go): a table in memory that is saved *)
(* whole to sessions.json, beside the files of the session store. Requests  *)
(* create, touch and delete sessions at the same time, a save may fail, and *)
(* the app may die between any two steps.                                   *)
(***************************************************************************)
EXTENDS Naturals, FiniteSets

CONSTANTS
    IDs,      \* session ids; each is created at most once
    Threads,  \* requests that are being served
    Titles,   \* texts of messages, which become titles
    NoTitle, Idle,
    MaxFailures, MaxCrashes, MaxTouches

VARIABLES
    sessions, \* app.sessions: id -> title
    saved,    \* sessions.json
    files,    \* session files of the store
    thread,   \* thread -> Idle, or [op, id, at, errors]
    up,
    used,     \* history: ids that were taken
    acked,    \* history: sessions whose creation was acknowledged
    deleted,  \* history: sessions whose deletion was acknowledged
    removed,  \* history: sessions that were taken off the list
    unsaved,  \* history: deleted sessions, while no list without them was saved
    bounds

vars == <<sessions, saved, files, thread, up, used, acked, deleted, removed, unsaved, bounds>>

history == <<used, acked, deleted, removed, unsaved>>

Init ==
    /\ sessions = <<>> /\ saved = <<>> /\ files = {}
    /\ thread = [t \in Threads |-> Idle]
    /\ up = TRUE
    /\ used = {} /\ acked = {} /\ deleted = {} /\ removed = {} /\ unsaved = {}
    /\ bounds = [failures |-> 0, crashes |-> 0, touches |-> 0]

At(t, op, where) == up /\ thread[t] # Idle /\ thread[t].op = op /\ thread[t].at = where

Goto(t, where, errors) == thread' = [thread EXCEPT ![t].at = where, ![t].errors = errors]

Begin(t, op, id, where) ==
    /\ up /\ thread[t] = Idle
    /\ thread' = [thread EXCEPT ![t] = [op |-> op, id |-> id, at |-> where, errors |-> {}]]

Return(t) == thread' = [thread EXCEPT ![t] = Idle]

(* A system call fails. *)
Fails ==
    /\ bounds.failures < MaxFailures
    /\ bounds' = [bounds EXCEPT !.failures = @ + 1]

(* saveSessionsLocked: the whole table replaces the file, or nothing does.  *)
Save(table) ==
    /\ saved' = table
    /\ unsaved' = unsaved \cap DOMAIN table
    /\ UNCHANGED bounds

SaveFails == Fails /\ UNCHANGED <<saved, unsaved>>

With(table, id, title) == [i \in DOMAIN table \cup {id} |-> IF i = id THEN title ELSE table[i]]

Without(table, id) == [i \in DOMAIN table \ {id} |-> table[i]]

-----------------------------------------------------------------------------
(* createSession. *)

BeginCreate(t) ==
    /\ \E id \in IDs \ used : Begin(t, "create", id, "file") /\ used' = used \cup {id}
    /\ UNCHANGED <<sessions, saved, files, up, acked, deleted, removed, unsaved, bounds>>

(* The store's file first ... *)
CreateFile(t) ==
    /\ At(t, "create", "file")
    /\ \/ /\ files' = files \cup {thread[t].id}
          /\ Goto(t, "list", {}) /\ UNCHANGED bounds
       \/ /\ Fails \* the workspace or the file
          /\ Return(t) /\ UNCHANGED files
    /\ UNCHANGED <<sessions, saved, up, history>>

(* The creation is acknowledged if the table was saved. *)
AckedIf(id, ok) == IF ok THEN acked \cup {id} ELSE acked

(* ... then the table. A failing save is reported, the session is listed.   *)
CreateEntry(t) ==
    /\ At(t, "create", "list")
    /\ sessions' = With(sessions, thread[t].id, NoTitle)
    /\ \/ Save(sessions') /\ acked' = AckedIf(thread[t].id, TRUE)
       \/ SaveFails /\ acked' = AckedIf(thread[t].id, FALSE)
    /\ Return(t)
    /\ UNCHANGED <<files, up, used, deleted, removed>>

-----------------------------------------------------------------------------
(* touchSession: handleMessage found the session, and touches it later. *)

BeginTouch(t) ==
    /\ \E id \in DOMAIN sessions : Begin(t, "touch", id, "touch")
    /\ bounds.touches < MaxTouches /\ bounds' = [bounds EXCEPT !.touches = @ + 1]
    /\ UNCHANGED <<sessions, saved, files, up, history>>

(* Faulty variant: the entry that was found before is put back. *)
PutBack(id, text) == With(sessions, id, text)

(* Only a session that is still listed is touched; its first message        *)
(* becomes its title.                                                       *)
Touched(id, text) ==
    IF id \notin DOMAIN sessions THEN sessions
    ELSE [sessions EXCEPT ![id] = IF @ = NoTitle THEN text ELSE @]

(* If there is nothing to touch, nothing is saved. *)
Touch(t) ==
    /\ At(t, "touch", "touch")
    /\ \E text \in Titles : sessions' = Touched(thread[t].id, text)
    /\ \/ thread[t].id \in DOMAIN sessions' /\ (Save(sessions') \/ SaveFails)
       \/ thread[t].id \notin DOMAIN sessions' /\ UNCHANGED <<saved, unsaved, bounds>>
    /\ Return(t)
    /\ UNCHANGED <<files, up, used, acked, deleted, removed>>

-----------------------------------------------------------------------------
(* deleteSession, of an idle chat. *)

(* The file is left alone until the entry is gone. *)
FilesWhileListed(id) == files

BeginDelete(t) ==
    /\ \E id \in DOMAIN sessions : Begin(t, "delete", id, "entry") /\ files' = FilesWhileListed(id)
    /\ UNCHANGED <<sessions, saved, up, history, bounds>>

(* What a call that fails may report; that something does not exist is      *)
(* among it.                                                                *)
Errors == {"not exist", "other"}

(* The table is saved without the session; the file is removed even if that *)
(* failed.                                                                  *)
DeleteEntry(t) ==
    /\ At(t, "delete", "entry")
    /\ sessions' = Without(sessions, thread[t].id)
    /\ \/ Save(sessions') /\ Goto(t, "remove", {})
       \/ /\ Fails /\ UNCHANGED saved
          /\ unsaved' = unsaved \cup {thread[t].id}
          /\ \E e \in Errors : Goto(t, "remove", {e})
    /\ removed' = removed \cup {thread[t].id}
    /\ UNCHANGED <<files, up, used, acked, deleted>>

(* handleDelete: the deletion is acknowledged if nothing failed, and also   *)
(* if, of all that did, something did not exist.                            *)
DeletedIf(id, errors) ==
    IF errors = {} \/ "not exist" \in errors THEN deleted \cup {id} ELSE deleted

(* The file, which another deletion may have removed, and the captures of   *)
(* its operations.                                                          *)
DeleteFile(t) ==
    LET id == thread[t].id
        errors == thread[t].errors
    IN  /\ At(t, "delete", "remove")
        /\ \/ /\ id \in files /\ files' = files \ {id}
              /\ deleted' = DeletedIf(id, errors) /\ UNCHANGED bounds
           \/ /\ id \notin files /\ UNCHANGED <<files, bounds>>
              /\ deleted' = DeletedIf(id, errors \cup {"not exist"})
           \/ /\ Fails /\ files' \in {files, files \ {id}}
              /\ deleted' = DeletedIf(id, errors \cup {"other"})
        /\ Return(t)
        /\ UNCHANGED <<sessions, saved, up, used, acked, removed, unsaved>>

-----------------------------------------------------------------------------
Crash ==
    /\ up /\ bounds.crashes < MaxCrashes
    /\ bounds' = [bounds EXCEPT !.crashes = @ + 1]
    /\ up' = FALSE
    /\ thread' = [t \in Threads |-> Idle]
    /\ UNCHANGED <<sessions, saved, files, history>>

(* newApp: loadSessions. *)
Start ==
    /\ ~up
    /\ up' = TRUE
    /\ sessions' = saved
    /\ UNCHANGED <<saved, files, thread, history, bounds>>

Next ==
    \/ \E t \in Threads : BeginCreate(t) \/ CreateFile(t) \/ CreateEntry(t) \/ BeginTouch(t) \/ Touch(t)
                            \/ BeginDelete(t) \/ DeleteEntry(t) \/ DeleteFile(t)
    \/ Crash \/ Start

Spec == Init /\ [][Next]_vars

-----------------------------------------------------------------------------
(* Properties. *)

(* A listed session can be opened: its file exists, in memory and, whenever *)
(* the app dies, for the list on the disk. The one exception is a session   *)
(* whose deletion could not be saved: its file is removed all the same, and *)
(* it is listed until a list without it is saved.                           *)
ListedHasFile == (DOMAIN saved \cup DOMAIN sessions) \ unsaved \subseteq files

(* An acknowledged session is still listed after any crash, whatever other  *)
(* requests saved, unless someone deleted it.                               *)
AcknowledgedIsListed == acked \ removed \subseteq DOMAIN saved

(* A session whose deletion was acknowledged never comes back, not through  *)
(* the save of another request nor through a message that was on its way,   *)
(* once a list without it has been saved. A deletion that could not be      *)
(* saved is acknowledged all the same when the file was gone (server.go:    *)
(* 248), and until the next save a restart lists the session again.         *)
DeletedIsGone == (deleted \ unsaved) \cap (DOMAIN sessions \cup DOMAIN saved) = {}
=============================================================================

----------------------------- MODULE SessionStore -----------------------------
(***************************************************************************)
(* The local-file session store (harness/sessionstore/localfile/store.go): *)
(* one append-only file per session, and in memory a cache of the head and *)
(* the committed size of each file, so that an append need not read it.    *)
(*                                                                         *)
(* An append loads the write state, checks the record, truncates the file  *)
(* to the committed size, writes one line, syncs and closes.  Each of      *)
(* these may fail, the process may die between any two of them, and the    *)
(* machine may lose whatever was not synced.  Sizes count lines; a line    *)
(* that was written in part is the file's torn tail.                       *)
(*                                                                         *)
(* Methods for one session are called one at a time ("Store does not       *)
(* serialize methods for the same session ID", sessionstore.go:84); calls  *)
(* for different sessions interleave.                                      *)
(***************************************************************************)
EXTENDS SessionHistory

CONSTANTS
    Sessions,
    Records(_, _),  \* what a caller may try to append to a session with this head
    MaxLines,       \* bound: lines in one session's file
    MaxFaults       \* bound: failed system calls and crashes

ASSUME BoundsAssumption == MaxLines \in Nat /\ MaxFaults \in Nat

VARIABLES
    file,       \* per session: [exists, lines, torn], what a read returns
    synced,     \* per session: lines that survive a machine crash
    linked,     \* per session: the directory entry survives a machine crash
    cache,      \* per session: writeStateCache entry [valid, head, size]
    call,       \* per session: the append in progress [pc, record, head, size]
    created,    \* history: per session, a Create or Fork has returned nil
    acked,      \* history: per session, <<line number, record>> of successful appends
    faults,     \* history: faults so far
    boots       \* history: machine crashes so far

vars == <<file, synced, linked, cache, call, created, acked, faults, boots>>

NoFile == [exists |-> FALSE, lines |-> << >>, torn |-> FALSE]

NotCached == [valid |-> FALSE, head |-> NewHead, size |-> 0]

Cached(head, size) == [valid |-> TRUE, head |-> head, size |-> size]

NoRecord == [type |-> "none"]

NoCall == [pc |-> "idle", record |-> NoRecord, head |-> NewHead, size |-> 0]

Garbled == [seq |-> 0, record |-> [type |-> "garbled"]]

Idle(s) == call[s].pc = "idle"

(* Every failing system call and every crash costs one fault. *)
Fault == faults < MaxFaults /\ faults' = faults + 1

Init ==
    /\ file = [s \in Sessions |-> NoFile]
    /\ synced = [s \in Sessions |-> 0]
    /\ linked = [s \in Sessions |-> FALSE]
    /\ cache = [s \in Sessions |-> NotCached]
    /\ call = [s \in Sessions |-> NoCall]
    /\ created = [s \in Sessions |-> FALSE]
    /\ acked = [s \in Sessions |-> {}]
    /\ faults = 0
    /\ boots = 0

-----------------------------------------------------------------------------
(* Creating files *)

(* publishInitialState and publishFile: the temporary file is written and  *)
(* synced, renamed over the target, and the directory is synced.  Failing  *)
(* before the rename leaves no file; failing after it leaves the file, but *)
(* the caller gets an error and the cache entry is dropped.  Syncing the   *)
(* directory keeps the entries of all files in it.                         *)
Publish(s, lines, head) ==
    \/ /\ file' = [file EXCEPT ![s] = [exists |-> TRUE, lines |-> lines, torn |-> FALSE]]
       /\ synced' = [synced EXCEPT ![s] = Len(lines)]
       /\ \/ /\ linked' = [t \in Sessions |-> t = s \/ file[t].exists]
             /\ cache' = [cache EXCEPT ![s] = Cached(head, Len(lines))]
             /\ created' = [created EXCEPT ![s] = TRUE]
             /\ UNCHANGED faults
          \/ /\ Fault
             /\ cache' = [cache EXCEPT ![s] = NotCached]
             /\ UNCHANGED <<linked, created>>
    \/ /\ Fault
       /\ cache' = [cache EXCEPT ![s] = NotCached]
       /\ UNCHANGED <<file, synced, linked, created>>

(* Create is called with a fresh ID, or after Resume found no file. *)
Create(s) ==
    /\ ~file[s].exists
    /\ Publish(s, << >>, NewHead)
    /\ UNCHANGED <<call, acked, boots>>

(* readState: the file is there and decodes, up to its last newline. *)
Readable(s) == file[s].exists /\ Decode(file[s].lines).ok

(* Fork reads the parent's file, which may be in the middle of an append. *)
Fork(s, parent, previous) ==
    /\ s # parent
    /\ ~file[s].exists
    /\ Readable(parent)
    /\ ForkBoundary(Items(file[parent].lines), previous) # 0
    /\ LET lines == ForkLines(file[parent].lines, parent, previous)
       IN Publish(s, lines, ForkHead(lines))
    /\ UNCHANGED <<call, acked, boots>>

-----------------------------------------------------------------------------
(* Appending *)

(* loadWriteState: the cached write state, or the decoded file. *)
WriteState(s) ==
    IF cache[s].valid
      THEN cache[s]
      ELSE Cached(Decode(file[s].lines).head, Len(file[s].lines))

(* The head is copied by value, its maps are not: once the checks pass,    *)
(* the cached head already shows the record, before it is written.         *)
Aliased(old, new) ==
    [new EXCEPT !.sequence = old.sequence, !.latest = old.latest]

(* AppendInput, AppendTurn, AppendModelResponse, AppendToolCallStatus and  *)
(* SaveOperation up to the first system call.  A refused record leaves     *)
(* only the cache filled.                                                  *)
BeginAppend(s, record) ==
    /\ Idle(s)
    /\ cache[s].valid \/ Readable(s)
    /\ Len(file[s].lines) < MaxLines
    /\ LET state == WriteState(s)
           head == AppendTo(state.head, record)
       IN IF CanAppend(state.head, record)
            THEN /\ cache' = [cache EXCEPT ![s] =
                       Cached(Aliased(state.head, head), state.size)]
                 /\ call' = [call EXCEPT ![s] =
                       [pc |-> "truncate", record |-> Line(state.head, record),
                        head |-> head, size |-> state.size]]
            ELSE /\ cache' = [cache EXCEPT ![s] = state]
                 /\ UNCHANGED call
    /\ UNCHANGED <<file, synced, linked, created, acked, faults, boots>>

(* Faulty variant: the cached write state survives a failed append. *)
FailKeepsCache(s) ==
    /\ Fault
    /\ call' = [call EXCEPT ![s] = NoCall]
    /\ UNCHANGED cache

(* The error path of append: the cached write state is evicted. *)
Fail(s) ==
    /\ Fault
    /\ call' = [call EXCEPT ![s] = NoCall]
    /\ cache' = [cache EXCEPT ![s] = NotCached]

(* Faulty variant: the torn tail is left in place. *)
TruncateNothing(s) ==
    /\ call[s].pc = "truncate"
    /\ call' = [call EXCEPT ![s].pc = "write"]
    /\ UNCHANGED <<file, synced, cache, linked, created, acked, faults, boots>>

(* Truncate discards the torn tail of an earlier append. *)
Truncate(s) ==
    /\ call[s].pc = "truncate"
    /\ \/ /\ file' = [file EXCEPT ![s].lines = SubSeq(@, 1, call[s].size), ![s].torn = FALSE]
          /\ synced' = [synced EXCEPT ![s] = IF @ < call[s].size THEN @ ELSE call[s].size]
          /\ call' = [call EXCEPT ![s].pc = "write"]
          /\ UNCHANGED <<cache, faults>>
       \/ Fail(s) /\ UNCHANGED <<file, synced>>
    /\ UNCHANGED <<linked, created, acked, boots>>

(* Write appends the line, or only a part of it.  A line behind a torn     *)
(* tail would be one with it, and no longer a record.                      *)
Write(s) ==
    /\ call[s].pc = "write"
    /\ \/ /\ file' = [file EXCEPT ![s].torn = FALSE, ![s].lines =
               Append(@, IF file[s].torn THEN Garbled ELSE call[s].record)]
          /\ call' = [call EXCEPT ![s].pc = "sync"]
          /\ UNCHANGED <<cache, faults>>
       \/ \E torn \in {file[s].torn, TRUE} :
            /\ file' = [file EXCEPT ![s].torn = torn]
            /\ Fail(s)
    /\ UNCHANGED <<synced, linked, created, acked, boots>>

(* Faulty variant: the append is acknowledged without Sync. *)
CloseUnsynced(s) ==
    /\ call[s].pc = "sync"
    /\ call' = [call EXCEPT ![s] = NoCall]
    /\ cache' = [cache EXCEPT ![s] = Cached(call[s].head, call[s].size + 1)]
    /\ acked' = [acked EXCEPT ![s] = @ \cup {<<Len(file[s].lines), call[s].record>>}]
    /\ UNCHANGED <<faults, synced, linked, created, file, boots>>

(* Sync and Close, then the cache takes the new head and size.  A failed   *)
(* Sync leaves the line in the file, a failed Close even on disk, but the  *)
(* caller gets an error.  Success is reported to the observers.  The       *)
(* directory is not synced again.                                          *)
SyncAndClose(s) ==
    /\ call[s].pc = "sync"
    /\ \/ /\ synced' = [synced EXCEPT ![s] = Len(file[s].lines)]
          /\ \/ /\ call' = [call EXCEPT ![s] = NoCall]
                /\ cache' = [cache EXCEPT ![s] = Cached(call[s].head, call[s].size + 1)]
                /\ acked' = [acked EXCEPT ![s] =
                     @ \cup {<<Len(file[s].lines), call[s].record>>}]
                /\ UNCHANGED faults
             \/ Fail(s) /\ UNCHANGED acked
       \/ Fail(s) /\ UNCHANGED <<synced, acked>>
    /\ UNCHANGED <<file, linked, created, boots>>

-----------------------------------------------------------------------------
(* Crashes *)

(* The process dies: appends stop where they are, a write possibly in the  *)
(* middle of its line; the cache is gone, the files stay as they are.      *)
ProcessCrash ==
    /\ Fault
    /\ \E torn \in [Sessions -> BOOLEAN] :
         /\ \A s \in Sessions : /\ file[s].torn => torn[s]
                               /\ torn[s] => file[s].torn \/ call[s].pc = "write"
         /\ file' = [s \in Sessions |-> [file[s] EXCEPT !.torn = torn[s]]]
    /\ call' = [s \in Sessions |-> NoCall]
    /\ cache' = [s \in Sessions |-> NotCached]
    /\ UNCHANGED <<synced, linked, created, acked, boots>>

(* The machine dies: of each file any number of lines that were not synced *)
(* is lost too, the first of them possibly in part, and so is a file whose *)
(* directory entry was never synced, with all that was appended to it.     *)
MachineCrash ==
    /\ Fault
    /\ boots' = boots + 1
    /\ \E kept \in [Sessions -> 0..MaxLines], torn \in [Sessions -> BOOLEAN],
          lost \in SUBSET {s \in Sessions : file[s].exists /\ ~linked[s]} :
         /\ \A s \in Sessions : kept[s] \in synced[s]..Len(file[s].lines)
         /\ \A s \in Sessions :
              torn[s] => \/ file[s].torn
                         \/ call[s].pc = "write"
                         \/ kept[s] < Len(file[s].lines)
         /\ file' = [s \in Sessions |->
              IF s \in lost THEN NoFile
              ELSE [file[s] EXCEPT !.lines = SubSeq(@, 1, kept[s]), !.torn = torn[s]]]
         /\ synced' = [s \in Sessions |-> IF s \in lost THEN 0 ELSE kept[s]]
         /\ linked' = [s \in Sessions |-> s \notin lost /\ file[s].exists]
         /\ acked' = [s \in Sessions |-> IF s \in lost THEN {} ELSE acked[s]]
    /\ call' = [s \in Sessions |-> NoCall]
    /\ cache' = [s \in Sessions |-> NotCached]
    /\ UNCHANGED created

Next ==
    \/ \E s \in Sessions :
         \/ Create(s)
         \/ \E parent \in Sessions : \E previous \in Decode(file[parent].lines).head.turns :
              Fork(s, parent, previous)
         \/ \E record \in Records(s, WriteState(s).head) : BeginAppend(s, record)
         \/ Truncate(s)
         \/ Write(s)
         \/ SyncAndClose(s)
    \/ ProcessCrash
    \/ MachineCrash

Spec == Init /\ [][Next]_vars
-----------------------------------------------------------------------------
(* Properties *)

(* What is synced is part of the file, and a call is at one of its steps   *)
(* (store.go:336-433).                                                     *)
TypeOK ==
    /\ \A s \in Sessions : /\ file[s].exists \in BOOLEAN
                           /\ synced[s] \in 0..Len(file[s].lines)
                           /\ call[s].pc \in {"idle", "truncate", "write", "sync"}
    /\ faults \in 0..MaxFaults

(***************************************************************************)
(* A session whose Create or Fork returned nil is never lost, and an       *)
(* append that returned nil keeps its place in the log: no later append,   *)
(* failed write, retry, process or machine crash removes, moves or         *)
(* rewrites it (store.go:336-433).  An append syncs its file and not the   *)
(* directory: a session that Resume found after its Create or Fork had     *)
(* failed at the directory's sync (store.go:410) may still go, as a whole, *)
(* in a machine crash, acknowledged appends included.                      *)
(***************************************************************************)
AcknowledgedIsDurable ==
    \A s \in Sessions :
      /\ created[s] => linked[s] /\ file[s].exists
      /\ \A entry \in acked[s] :
           entry[1] <= synced[s] /\ file[s].lines[entry[1]] = entry[2]

(***************************************************************************)
(* Every file decodes, in every state, whatever was torn off or left       *)
(* behind: sequence numbers contiguous, turns chained, responses and       *)
(* statuses to owned turns (codec.go:87-206).  A log that does not decode  *)
(* is a session nobody can open again.                                     *)
(***************************************************************************)
AlwaysDecodes ==
    \A s \in Sessions : file[s].exists => Decode(file[s].lines).ok

(***************************************************************************)
(* Between calls the cached write state, if any, is what reading the file  *)
(* would give (store.go:24-27, 302-321): a stale head would let a broken   *)
(* chain in, a stale size would truncate committed lines.                  *)
(***************************************************************************)
CacheAgrees ==
    \A s \in Sessions :
      cache[s].valid /\ Idle(s) =>
        cache[s] = Cached(Decode(file[s].lines).head, Len(file[s].lines))

Overlay(ops, line) ==
    IF line.record.type = "status" THEN Override(line.record.ops, ops) ELSE ops

SnapshotOperations(lines) == FoldLeft(Overlay, << >>, lines)

(***************************************************************************)
(* What a coordinator rebuilds is complete: the operation snapshots of the *)
(* items, overlaid with what Resume returns, are the latest stored state   *)
(* of every operation (state.go:286-318; sessionstore.go:79 "Unfinished    *)
(* operations and terminal states missing from tool-call history").        *)
(***************************************************************************)
ResumeIsComplete ==
    \A s \in Sessions :
      LET lines == file[s].lines IN
      Override(ResumeOperations(lines), SnapshotOperations(lines)) = Decode(lines).head.ops

(***************************************************************************)
(* A forked session starts at the turn it was forked from, owns nothing it *)
(* inherited, and none of its parent's operations can be dispatched from   *)
(* it (state.go:320-364, 388-420): its operations all belong to turns that *)
(* were recorded after the fork.                                           *)
(***************************************************************************)
ForkOwnsOnlyItsOwn ==
    \A s \in Sessions :
      LET lines == file[s].lines
          fork == Inherited(lines)
          head == Decode(lines).head
          own == {lines[k].record.turn :
                    k \in {l \in (fork + 1)..Len(lines) : lines[l].record.type = "turn"}}
      IN fork # 0 =>
           /\ head.owned = own
           /\ \A key \in head.statuses : key[1] \in own
           /\ \A op \in DOMAIN head.ops :
                \E k \in (fork + 1)..Len(lines) :
                  /\ lines[k].record.type = "status"
                  /\ lines[k].record.turn \in own
                  /\ op \in DOMAIN lines[k].record.ops
           /\ \A k \in (fork + 1)..Len(lines) :
                (/\ lines[k].record.type = "turn"
                 /\ \A j \in (fork + 1)..(k - 1) : lines[j].record.type # "turn")
                  => lines[k].record.prev = lines[fork].record.prev

(***************************************************************************)
(* What is cached of a forked session is what its file says, and of the    *)
(* parent's turns, statuses and operations neither has any (store.go:239-  *)
(* 264, state.go:320-420).                                                 *)
(***************************************************************************)
ForkIsSound == TypeOK /\ CacheAgrees /\ ForkOwnsOnlyItsOwn

(***************************************************************************)
(* Without a machine crash a reader never sees history shrink or change,   *)
(* even while an append retries after a failed one (store.go:94-120, 413). *)
(***************************************************************************)
HistoryOnlyGrows ==
    [][boots' = boots =>
         \A s \in Sessions : IsPrefix(file[s].lines, file'[s].lines)]_vars
=============================================================================

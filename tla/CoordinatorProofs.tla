-------------------------- MODULE CoordinatorProofs --------------------------
(***************************************************************************)
(* Proofs about the coordinator for any messages, stops, settings, tool    *)
(* calls and operations, any number of restarts, and any new or forked     *)
(* session to start from: the store accepts every append, a restart finds  *)
(* the state that was lost, operations are committed before they are       *)
(* dispatched, calls are translated before they are reconciled, and a hard *)
(* stop is final; what the log holds reads back, is recorded once and      *)
(* answers the latest turn, and keeps what the session store asks of its   *)
(* callers; what was not delivered is pending, a stop leaves nothing       *)
(* running, and every request has one result for each of its calls.        *)
(***************************************************************************)
EXTENDS Coordinator, HistoryProofs, SequenceTheorems

Kinds == {"external", "hard", "when_idle", "settings", "heartbeat"}

InputIDs == External \cup HardStops \cup IdleStops \cup Settings \cup HeartbeatIDs

Queued == [type : {"input"}, id : InputIDs, kind : Kinds]

Updates == [op : Calls \X Nat, status : OperationStatuses]

(***************************************************************************)
(* What the session log says, whoever reads it, `ids` being given out.     *)
(***************************************************************************)

(* Turns are numbered, and the head and the replayed items agree on the    *)
(* latest one.                                                             *)
TurnsOK(im) ==
    /\ im.head.latest \in Nat
    /\ im.replayed.turn = im.head.latest
    /\ \A turn \in im.head.turns : turn \in Nat /\ turn <= im.head.latest
    /\ im.head.responded \subseteq im.head.turns /\ im.head.owned \subseteq im.head.turns

(* Operations: the head and the replayed items know the same ones, and     *)
(* where the items have missed the latest state Resume will supply it.     *)
OpsOK(im) ==
    /\ IsMap(im.head.ops)
    /\ DOMAIN im.replayed.operations = DOMAIN im.head.ops
    /\ \A op \in DOMAIN im.head.ops :
         /\ im.head.ops[op] \notin TerminalStatuses => op \in im.unrecorded
         /\ op \notin im.unrecorded => im.replayed.operations[op] = im.head.ops[op]

(* Unfinished calls: one per call ID given out, of a turn this session     *)
(* owns.  A call is translated exactly if it has a status on record; until *)
(* then it has no operation.                                               *)
CallsOK(im, ids) ==
    /\ DOMAIN im.replayed.toolCalls \subseteq im.head.owned \X (Calls \cap ids)
    /\ \A key \in DOMAIN im.replayed.toolCalls :
         LET call == im.replayed.toolCalls[key]
         IN \/ call.translated = TRUE /\ key \in im.head.statuses
            \/ /\ call.translated = FALSE /\ key \notin im.head.statuses
               /\ call.waits = {}
               /\ \A op \in DOMAIN im.head.ops : op[1] # key[2]
    /\ \A key1, key2 \in DOMAIN im.replayed.toolCalls : key1[2] = key2[2] => key1 = key2
    /\ DOMAIN im.head.ops \subseteq (Calls \cap ids) \X Nat
    /\ \A key \in im.head.statuses : key[2] \in ids

ImageInv(im, ids) ==
    /\ HeadShape(im.head)
    /\ IsLoopState(im.replayed)
    /\ TurnsOK(im)
    /\ OpsOK(im)
    /\ CallsOK(im, ids)

(***************************************************************************)
(* What the coordinator and those around it have in memory.                *)
(***************************************************************************)

Modes ==
    /\ pc \in PCs
    /\ modelActive \in BOOLEAN /\ cancelled \in BOOLEAN /\ rejected = FALSE
    /\ stop \in {"none", "when_idle", "hard"}
    /\ heartbeat \in {"off", "armed", "fired"}
    /\ queue \in Seq(Queued) /\ updates \in Seq(Updates)

(* The loop state is what the log says. *)
MemoryOK ==
    /\ IsLoopState(ls)
    /\ Up => Agree(ls, image.replayed) /\ ls.operations = head.ops

(* The manager and its updates: operations not yet ended in the loop's     *)
(* eyes, and the end of one is the last that is heard of it.               *)
ManagerOK ==
    /\ \A op \in DOMAIN manager : op \in DOMAIN ls.operations /\ ~IsTerminal(ls, op)
    /\ \A k \in DOMAIN updates :
         /\ updates[k].op \in DOMAIN ls.operations /\ ~IsTerminal(ls, updates[k].op)
         /\ updates[k].status \in TerminalStatuses =>
              /\ updates[k].op \notin DOMAIN manager
              /\ \A l \in DOMAIN updates : l > k => updates[l].op # updates[k].op

(* The operations of the calls being scheduled are not dispatched yet. *)
UndispatchedOK ==
    \A status \in statuses :
      status[1] \in DOMAIN ls.toolCalls =>
        \A op \in ls.toolCalls[status[1]].waits :
          /\ op \notin DOMAIN manager
          /\ \A k \in DOMAIN updates : updates[k].op # op

(* What holds at certain points of the loop only. *)
ControlOK ==
    /\ pc \in {"down", "stopped"} => ~modelActive
    /\ pc \in {"down", "stopped", "boot_schedule", "boot_reconcile"} =>
         DOMAIN manager = {} /\ updates = << >>
    /\ pc \notin {"boot_schedule", "boot_reconcile", "schedule"} => statuses = {}
    /\ pc \in {"boot_reconcile", "boot_request", "select", "slurp_inputs",
               "slurp_updates", "reconcile"} => Scheduled
    /\ modelActive => ls.turn \in head.owned \ head.responded
    /\ cancelled => /\ stop = "hard" /\ ~modelActive
                    /\ pc \in {"select", "slurp_inputs", "slurp_updates", "reconcile"}

(***************************************************************************)
(* The inductive invariant.  None of the properties is inductive alone:    *)
(* that recovery is exact needs what the items may miss, that the store    *)
(* accepts an append needs what is on record about turns and calls, and    *)
(* both need that the loop state is the replayed one.                      *)
(***************************************************************************)
Inv ==
    /\ Modes
    /\ ImageInv(image, issued)
    /\ MemoryOK
    /\ ManagerOK
    /\ UndispatchedOK
    /\ ControlOK

-----------------------------------------------------------------------------
(* What one more record does to the image of the log *)

LEMMA ExtendFields ==
    ASSUME NEW im, NEW r
    PROVE  LET ex == Extend(im, r)
           IN /\ ex.head = AppendTo(im.head, r)
              /\ ex.unrecorded = StillUnrecorded(im.unrecorded, r)
              /\ r.type # "operation" => ex.replayed = AddItem(im.replayed, r)
              /\ r.type = "operation" => ex.replayed = im.replayed
  BY DEF Extend, IsItem

(* An input (state.go:56-66). *)
LEMMA ImageInput ==
    ASSUME NEW im, NEW ids, ImageInv(im, ids), NEW r, r.type = "input"
    PROVE  ImageInv(Extend(im, r), ids) /\ Unchanged(Extend(im, r).head, im.head)
  <1> DEFINE ex == Extend(im, r)
  <1>1. /\ ex.head = AppendTo(im.head, r) /\ ex.unrecorded = im.unrecorded
        /\ ex.replayed = AddItem(im.replayed, r)
    BY ExtendFields DEF StillUnrecorded
  <1> HIDE DEF ex
  <1>2. HeadShape(ex.head) /\ Unchanged(ex.head, im.head)
    BY <1>1, AppendCountedFacts DEF ImageInv
  <1>3. /\ IsLoopState(ex.replayed) /\ ex.replayed.turn = im.replayed.turn
        /\ ex.replayed.toolCalls = im.replayed.toolCalls
        /\ ex.replayed.operations = im.replayed.operations
    BY <1>1, AddInputFacts DEF ImageInv
  <1>4. TurnsOK(ex)
    BY <1>2, <1>3 DEF ImageInv, TurnsOK, Unchanged
  <1>5. OpsOK(ex)
    BY <1>1, <1>2, <1>3 DEF ImageInv, OpsOK, Unchanged
  <1>6. CallsOK(ex, ids)
    BY <1>2, <1>3 DEF ImageInv, CallsOK, Unchanged
  <1>7. ImageInv(ex, ids)
    BY <1>2, <1>3, <1>4, <1>5, <1>6 DEF ImageInv
  <1> QED BY <1>2, <1>7 DEF ex

(* A turn that follows the latest one (state.go:68-93). *)
LEMMA ImageTurn ==
    ASSUME NEW im, NEW ids, ImageInv(im, ids),
           NEW r, r.type = "turn", r.turn = im.head.latest + 1
    PROVE  LET ex == Extend(im, r)
           IN /\ ImageInv(ex, ids)
              /\ ex.head.ops = im.head.ops
              /\ r.turn \in ex.head.owned \ ex.head.responded
  <1> DEFINE ex == Extend(im, r)
  <1>1. /\ ex.head = AppendTo(im.head, r) /\ ex.unrecorded = im.unrecorded
        /\ ex.replayed = AddItem(im.replayed, r)
    BY ExtendFields DEF StillUnrecorded
  <1> HIDE DEF ex
  <1>2. /\ HeadShape(ex.head)
        /\ ex.head.latest = r.turn /\ ex.head.turns = im.head.turns \cup {r.turn}
        /\ ex.head.owned = im.head.owned \cup {r.turn}
        /\ ex.head.responded = im.head.responded
        /\ ex.head.statuses = im.head.statuses /\ ex.head.ops = im.head.ops
    BY <1>1, AppendTurnFacts DEF ImageInv
  <1>3. /\ IsLoopState(ex.replayed) /\ ex.replayed.turn = r.turn
        /\ ex.replayed.toolCalls = im.replayed.toolCalls
        /\ ex.replayed.operations = im.replayed.operations
    BY <1>1, AddTurnFacts DEF ImageInv
  <1>4. TurnsOK(ex) /\ r.turn \notin im.head.responded
    BY <1>2, <1>3 DEF ImageInv, TurnsOK
  <1>5. OpsOK(ex)
    BY <1>1, <1>2, <1>3 DEF ImageInv, OpsOK
  <1>6. CallsOK(ex, ids)
    BY <1>2, <1>3 DEF ImageInv, CallsOK
  <1>7. ImageInv(ex, ids)
    BY <1>2, <1>3, <1>4, <1>5, <1>6 DEF ImageInv
  <1> QED BY <1>2, <1>4, <1>7 DEF ex

(* A response with calls that are new (state.go:95-116). *)
LEMMA ImageResponse ==
    ASSUME NEW im, NEW ids, ImageInv(im, ids),
           NEW r, r.type = "response", r.turn \in im.head.owned,
           r.calls \subseteq Calls \ ids
    PROVE  LET ex == Extend(im, r)
           IN /\ ImageInv(ex, ids \cup r.calls)
              /\ ex.head.ops = im.head.ops
  <1> DEFINE ex == Extend(im, r)
             more == ids \cup r.calls
             fresh == FreshCalls(r)
             old == im.replayed.toolCalls
             new == ex.replayed.toolCalls
  <1>1. /\ ex.head = AppendTo(im.head, r) /\ ex.unrecorded = im.unrecorded
        /\ ex.replayed = AddItem(im.replayed, r)
    BY ExtendFields DEF StillUnrecorded
  <1> HIDE DEF ex
  <1>2. /\ HeadShape(ex.head)
        /\ ex.head.latest = im.head.latest /\ ex.head.turns = im.head.turns
        /\ ex.head.owned = im.head.owned
        /\ ex.head.responded = im.head.responded \cup {r.turn}
        /\ ex.head.statuses = im.head.statuses /\ ex.head.ops = im.head.ops
    BY <1>1, AppendResponseFacts DEF ImageInv
  <1>3. /\ IsLoopState(ex.replayed) /\ ex.replayed.turn = im.replayed.turn
        /\ new = Override(fresh, old)
        /\ ex.replayed.operations = im.replayed.operations
    BY <1>1, AddResponseFacts DEF ImageInv
  <1>4. TurnsOK(ex)
    BY <1>2, <1>3 DEF ImageInv, TurnsOK
  <1>5. OpsOK(ex)
    BY <1>1, <1>2, <1>3 DEF ImageInv, OpsOK
  <1>6. CallsOK(ex, more)
    <2>1. /\ DOMAIN fresh = {<<r.turn, call>> : call \in r.calls}
          /\ \A key \in DOMAIN fresh :
               fresh[key].translated = FALSE /\ fresh[key].waits = {}
      BY DEF FreshCalls
    <2>2. /\ DOMAIN old \subseteq im.head.owned \X (Calls \cap ids)
          /\ \A key1, key2 \in DOMAIN old : key1[2] = key2[2] => key1 = key2
          /\ DOMAIN im.head.ops \subseteq (Calls \cap ids) \X Nat
          /\ \A key \in im.head.statuses : key[2] \in ids
      BY DEF ImageInv, CallsOK
    <2>3. \A key \in DOMAIN fresh :
            /\ key \in im.head.owned \X (Calls \cap more)
            /\ key[2] \notin ids /\ key = <<r.turn, key[2]>>
      BY <2>1
    <2> HIDE DEF fresh, old, new
    <2>4. /\ DOMAIN new = DOMAIN fresh \cup DOMAIN old
          /\ \A key \in DOMAIN fresh : new[key] = fresh[key]
          /\ \A key \in DOMAIN old \ DOMAIN fresh : new[key] = old[key]
      BY <1>3 DEF Override
    <2>5. \A key \in DOMAIN old :
            key[2] \in ids /\ key \notin DOMAIN fresh
      BY <2>2, <2>3
    <2>6. DOMAIN new \subseteq im.head.owned \X (Calls \cap more)
      BY <2>2, <2>3, <2>4
    <2>7. ASSUME NEW key \in DOMAIN new
          PROVE  \/ new[key].translated = TRUE /\ key \in im.head.statuses
                 \/ /\ new[key].translated = FALSE /\ key \notin im.head.statuses
                    /\ new[key].waits = {}
                    /\ \A op \in DOMAIN im.head.ops : op[1] # key[2]
      <3>1. CASE key \in DOMAIN fresh
        <4>1. key \notin im.head.statuses
          BY <2>2, <2>3, <3>1
        <4>2. \A op \in DOMAIN im.head.ops : op[1] # key[2]
          BY <2>2, <2>3, <3>1
        <4> QED BY <2>1, <2>4, <3>1, <4>1, <4>2 DEF fresh
      <3>2. CASE key \in DOMAIN old
        <4>1. new[key] = old[key]
          BY <2>4, <2>5, <3>2
        <4> QED BY <3>2, <4>1 DEF ImageInv, CallsOK, old
      <3> QED BY <2>4, <2>7, <3>1, <3>2
    <2>8. \A key1, key2 \in DOMAIN new : key1[2] = key2[2] => key1 = key2
      BY <2>2, <2>3, <2>4, <2>5
    <2>9. /\ DOMAIN im.head.ops \subseteq (Calls \cap more) \X Nat
          /\ \A key \in im.head.statuses : key[2] \in more
      BY <2>2
    <2> QED BY <1>2, <2>6, <2>7, <2>8, <2>9 DEF CallsOK, new
  <1>7. ImageInv(ex, more)
    BY <1>2, <1>3, <1>4, <1>5, <1>6 DEF ImageInv
  <1> QED BY <1>2, <1>7 DEF ex

(* The first status of a call, with new operations (state.go:118-177). *)
IsFirstStatus(im, r) ==
    /\ r.type = "status"
    /\ StatusKey(r) \in DOMAIN im.replayed.toolCalls
    /\ im.replayed.toolCalls[StatusKey(r)].translated = FALSE
    /\ r.waits \subseteq {StatusKey(r)[2]} \X Nat
    /\ DOMAIN r.ops = r.waits
    /\ \A op \in r.waits : r.ops[op] = "ready"

(* The log is sound after it, and the operations are new to the head. *)
LEMMA ImageFirstStatus ==
    ASSUME NEW im, NEW ids, ImageInv(im, ids), NEW r, IsFirstStatus(im, r)
    PROVE  LET ex == Extend(im, r)
           IN /\ ImageInv(ex, ids)
              /\ ex.head.ops = Override(im.head.ops, r.ops)
              /\ ex.head.owned = im.head.owned /\ ex.head.responded = im.head.responded
              /\ StatusKey(r) \notin im.head.statuses
              /\ r.waits \cap DOMAIN im.head.ops = {}
  <1> DEFINE key == StatusKey(r)
             ops == r.waits
  <1>a. /\ r.type = "status" /\ key \in DOMAIN im.replayed.toolCalls
        /\ im.replayed.toolCalls[key].translated = FALSE
        /\ ops \subseteq {key[2]} \X Nat
        /\ DOMAIN r.ops = ops /\ \A op \in ops : r.ops[op] = "ready"
    BY DEF IsFirstStatus
  <1>b. StatusKey(r) = key /\ r.waits = ops
    OBVIOUS
  <1> HIDE DEF key, ops
  <1> DEFINE ex == Extend(im, r)
             old == im.replayed.toolCalls
             new == ex.replayed.toolCalls
             H == im.head.ops
             G == ex.head.ops
             R == im.replayed.operations
             S == ex.replayed.operations
  <1>1. /\ ex.head = AppendTo(im.head, r)
        /\ ex.unrecorded = StillUnrecorded(im.unrecorded, r)
        /\ ex.replayed = AddItem(im.replayed, r)
    BY <1>a, ExtendFields
  <1> HIDE DEF ex
  <1>2. /\ DOMAIN old \subseteq im.head.owned \X (Calls \cap ids)
        /\ \A key1, key2 \in DOMAIN old : key1[2] = key2[2] => key1 = key2
        /\ DOMAIN H \subseteq (Calls \cap ids) \X Nat
        /\ \A k \in im.head.statuses : k[2] \in ids
    BY DEF ImageInv, CallsOK
  <1>3. /\ key \notin im.head.statuses /\ old[key].waits = {}
        /\ \A op \in DOMAIN H : op[1] # key[2]
    BY <1>a DEF ImageInv, CallsOK
  <1>4. \A op \in ops : op[1] = key[2] /\ op \in (Calls \cap ids) \X Nat
    BY <1>a, <1>2
  <1>5. ops \cap DOMAIN H = {}
    BY <1>3, <1>4
  <1>6. /\ HeadShape(ex.head)
        /\ ex.head.latest = im.head.latest /\ ex.head.turns = im.head.turns
        /\ ex.head.owned = im.head.owned /\ ex.head.responded = im.head.responded
        /\ ex.head.statuses = im.head.statuses \cup {key}
        /\ G = Override(H, r.ops)
    BY <1>a, <1>b, <1>1, <1>3, AppendFirstStatusFacts DEF ImageInv
  <1>7. DOMAIN r.ops = ops /\ \A op \in ops : r.ops[op] = "ready"
    BY <1>a
  <1>8. r.waits \subseteq DOMAIN Known(im.replayed, r)
    BY <1>b, <1>7 DEF Known, Override
  <1>9. /\ IsLoopState(ex.replayed) /\ ex.replayed.turn = im.replayed.turn
        /\ S = Override(r.ops, R)
    BY <1>a, <1>b, <1>1, <1>8, AddStatusFacts DEF ImageInv, Known
  <1>10. /\ DOMAIN new \subseteq DOMAIN old
         /\ \A k \in DOMAIN new : k # key => new[k] = old[k]
         /\ key \in DOMAIN new => new[key].translated = TRUE
    <2>1. /\ r.type = "status"
          /\ IsLoopState(im.replayed) /\ StatusKey(r) \in DOMAIN im.replayed.toolCalls
      BY <1>a, <1>b DEF ImageInv
    <2>2. LET t == AddItem(im.replayed, r).toolCalls
              k0 == StatusKey(r)
          IN /\ DOMAIN t \subseteq DOMAIN im.replayed.toolCalls
             /\ \A k \in DOMAIN t : k # k0 => t[k] = im.replayed.toolCalls[k]
             /\ k0 \in DOMAIN t =>
                  /\ ~AllEnded(im.replayed, r)
                  /\ t[k0].translated = TRUE
                  /\ t[k0].waits = im.replayed.toolCalls[k0].waits \cup r.waits
      BY <1>8, <2>1, AddStatusCalls, Zenon
    <2> QED BY <1>b, <1>1, <2>2
  <1>11. TurnsOK(ex)
    BY <1>6, <1>9 DEF ImageInv, TurnsOK
  <1> HIDE DEF H, G, R, S, old, new
  <1>12. /\ DOMAIN G = DOMAIN H \cup ops /\ IsMap(G)
         /\ \A op \in DOMAIN H : G[op] = H[op]
         /\ \A op \in ops : G[op] = "ready"
    BY <1>5, <1>6, <1>7 DEF Override, IsMap
  <1>13. /\ DOMAIN S = DOMAIN R \cup ops
         /\ \A op \in DOMAIN R \ ops : S[op] = R[op]
    BY <1>7, <1>9 DEF Override
  <1>14. ex.unrecorded = im.unrecorded \cup ops
    BY <1>a, <1>1, <1>7 DEF StillUnrecorded, TerminalStatuses
  <1>15. OpsOK(ex)
    <2>1. /\ DOMAIN R = DOMAIN H
          /\ \A op \in DOMAIN H :
               /\ H[op] \notin TerminalStatuses => op \in im.unrecorded
               /\ op \notin im.unrecorded => R[op] = H[op]
      BY DEF ImageInv, OpsOK, R, H
    <2>2. DOMAIN S = DOMAIN G
      BY <1>12, <1>13, <2>1
    <2>3. \A op \in DOMAIN G :
            /\ G[op] \notin TerminalStatuses => op \in ex.unrecorded
            /\ op \notin ex.unrecorded => S[op] = G[op]
      BY <1>12, <1>13, <1>14, <2>1
    <2> QED BY <1>12, <2>2, <2>3 DEF OpsOK, G, S
  <1>16. CallsOK(ex, ids)
    <2>1. ASSUME NEW k \in DOMAIN new
          PROVE  \/ new[k].translated = TRUE /\ k \in ex.head.statuses
                 \/ /\ new[k].translated = FALSE /\ k \notin ex.head.statuses
                    /\ new[k].waits = {}
                    /\ \A op \in DOMAIN G : op[1] # k[2]
      <3>1. CASE k = key
        BY <1>6, <1>10, <2>1, <3>1
      <3>2. CASE k # key
        <4>1. k \in DOMAIN old /\ new[k] = old[k] /\ k[2] # key[2]
          BY <1>a, <1>2, <1>10, <2>1, <3>2 DEF old
        <4>2. \/ old[k].translated = TRUE /\ k \in im.head.statuses
              \/ /\ old[k].translated = FALSE /\ k \notin im.head.statuses
                 /\ old[k].waits = {}
                 /\ \A op \in DOMAIN H : op[1] # k[2]
          BY <4>1 DEF ImageInv, CallsOK, old, H
        <4> QED BY <1>4, <1>6, <1>12, <3>2, <4>1, <4>2
      <3> QED BY <3>1, <3>2
    <2>2. DOMAIN new \subseteq ex.head.owned \X (Calls \cap ids)
      BY <1>2, <1>6, <1>10
    <2>3. \A key1, key2 \in DOMAIN new : key1[2] = key2[2] => key1 = key2
      BY <1>2, <1>10
    <2>4. DOMAIN G \subseteq (Calls \cap ids) \X Nat
      BY <1>2, <1>4, <1>12
    <2>5. \A k \in ex.head.statuses : k[2] \in ids
      <3>1. key[2] \in ids
        BY <1>a, <1>2 DEF old
      <3> QED BY <1>2, <1>6, <3>1
    <2> QED BY <2>1, <2>2, <2>3, <2>4, <2>5 DEF CallsOK, new, G
  <1>17. ImageInv(ex, ids)
    BY <1>6, <1>9, <1>11, <1>15, <1>16 DEF ImageInv
  <1> QED BY <1>b, <1>3, <1>5, <1>6, <1>17 DEF ex, G, H

(* A later status, with the final states of the operations of the call. *)
LEMMA ImageLastStatus ==
    ASSUME NEW im, NEW ids, ImageInv(im, ids),
           NEW key \in DOMAIN im.replayed.toolCalls, key \in im.head.statuses,
           NEW r, r.type = "status", StatusKey(r) = key,
           r.waits = im.replayed.toolCalls[key].waits, DOMAIN r.ops = r.waits,
           r.waits \subseteq DOMAIN im.head.ops,
           \A op \in r.waits : /\ r.ops[op] = im.head.ops[op]
                               /\ r.ops[op] \in TerminalStatuses
    PROVE  ImageInv(Extend(im, r), ids) /\ Unchanged(Extend(im, r).head, im.head)
  <1> DEFINE ex == Extend(im, r)
             old == im.replayed.toolCalls
             new == ex.replayed.toolCalls
             H == im.head.ops
             R == im.replayed.operations
             S == ex.replayed.operations
  <1>1. /\ ex.head = AppendTo(im.head, r)
        /\ ex.unrecorded = StillUnrecorded(im.unrecorded, r)
        /\ ex.replayed = AddItem(im.replayed, r)
    BY ExtendFields
  <1> HIDE DEF ex
  <1>2. HeadShape(ex.head) /\ Unchanged(ex.head, im.head)
    BY <1>1, AppendCountedFacts DEF ImageInv
  <1>3. r.waits \subseteq DOMAIN Known(im.replayed, r)
    BY DEF Known, Override
  <1>4. /\ IsLoopState(ex.replayed) /\ ex.replayed.turn = im.replayed.turn
        /\ S = Override(r.ops, R)
    BY <1>1, <1>3, AddStatusFacts DEF ImageInv, Known
  <1>5. /\ DOMAIN new \subseteq DOMAIN old
        /\ \A k \in DOMAIN new : k # key => new[k] = old[k]
        /\ key \in DOMAIN new => ~AllEnded(im.replayed, r)
    <2>1. IsLoopState(im.replayed) /\ StatusKey(r) \in DOMAIN im.replayed.toolCalls
      BY DEF ImageInv
    <2>2. LET t == AddItem(im.replayed, r).toolCalls
              k0 == StatusKey(r)
          IN /\ DOMAIN t \subseteq DOMAIN im.replayed.toolCalls
             /\ \A k \in DOMAIN t : k # k0 => t[k] = im.replayed.toolCalls[k]
             /\ k0 \in DOMAIN t =>
                  /\ ~AllEnded(im.replayed, r)
                  /\ t[k0].translated = TRUE
                  /\ t[k0].waits = im.replayed.toolCalls[k0].waits \cup r.waits
      BY <1>3, <2>1, AddStatusCalls, Zenon
    <2> QED BY <1>1, <2>2
  <1>6. AllEnded(im.replayed, r)
    BY DEF AllEnded, Known, Override
  <1>7. TurnsOK(ex)
    BY <1>2, <1>4 DEF ImageInv, TurnsOK, Unchanged
  <1>8. ex.unrecorded = im.unrecorded \ r.waits
    BY <1>1 DEF StillUnrecorded
  <1>9. OpsOK(ex)
    <2>1. /\ DOMAIN R = DOMAIN H /\ IsMap(H)
          /\ \A op \in DOMAIN H :
               /\ H[op] \notin TerminalStatuses => op \in im.unrecorded
               /\ op \notin im.unrecorded => R[op] = H[op]
      BY DEF ImageInv, OpsOK
    <2> HIDE DEF H, R, S
    <2>2. DOMAIN S = DOMAIN H /\ \A op \in DOMAIN H : S[op] = IF op \in r.waits THEN r.ops[op] ELSE R[op]
      BY <1>4, <2>1 DEF Override, H
    <2>3. \A op \in DOMAIN H :
            /\ H[op] \notin TerminalStatuses => op \in ex.unrecorded
            /\ op \notin ex.unrecorded => S[op] = H[op]
      BY <1>8, <2>1, <2>2 DEF H
    <2>4. ex.head.ops = H
      BY <1>2 DEF Unchanged, H
    <2> QED BY <2>1, <2>2, <2>3, <2>4 DEF OpsOK, S
  <1>10. CallsOK(ex, ids)
    <2>1. \A k \in DOMAIN new : k \in DOMAIN old /\ new[k] = old[k]
      BY <1>5, <1>6
    <2> HIDE DEF new
    <2> QED BY <1>2, <2>1 DEF ImageInv, CallsOK, Unchanged, new
  <1>11. ImageInv(ex, ids)
    BY <1>2, <1>4, <1>7, <1>9, <1>10 DEF ImageInv
  <1> QED BY <1>2, <1>11 DEF ex

(* A new state of an operation that had not ended (state.go:265-284). *)
LEMMA ImageOperation ==
    ASSUME NEW im, NEW ids, ImageInv(im, ids),
           NEW r, r.type = "operation", r.op \in DOMAIN im.head.ops,
           im.head.ops[r.op] \notin TerminalStatuses
    PROVE  LET ex == Extend(im, r)
           IN /\ ImageInv(ex, ids)
              /\ ex.replayed = im.replayed
              /\ ex.head.owned = im.head.owned /\ ex.head.responded = im.head.responded
              /\ ex.head.turns = im.head.turns
              /\ DOMAIN ex.head.ops = DOMAIN im.head.ops
              /\ ex.head.ops[r.op] = r.status
              /\ \A op \in DOMAIN im.head.ops : op # r.op => ex.head.ops[op] = im.head.ops[op]
  <1> DEFINE ex == Extend(im, r)
  <1>1. /\ ex.head = AppendTo(im.head, r) /\ ex.unrecorded = im.unrecorded
        /\ ex.replayed = im.replayed
    BY ExtendFields DEF StillUnrecorded
  <1> HIDE DEF ex
  <1>2. IsMap(im.head.ops) /\ HeadShape(im.head)
    BY DEF ImageInv, OpsOK
  <1>3. /\ HeadShape(ex.head)
        /\ ex.head.latest = im.head.latest /\ ex.head.turns = im.head.turns
        /\ ex.head.owned = im.head.owned /\ ex.head.responded = im.head.responded
        /\ ex.head.statuses = im.head.statuses
        /\ IsMap(ex.head.ops) /\ DOMAIN ex.head.ops = DOMAIN im.head.ops
        /\ ex.head.ops[r.op] = r.status
        /\ \A op \in DOMAIN im.head.ops : op # r.op => ex.head.ops[op] = im.head.ops[op]
    BY <1>1, <1>2, AppendOperationFacts
  <1>4. TurnsOK(ex)
    BY <1>1, <1>3 DEF ImageInv, TurnsOK
  <1>5. OpsOK(ex)
    BY <1>1, <1>3 DEF ImageInv, OpsOK
  <1>6. CallsOK(ex, ids)
    BY <1>1, <1>3 DEF ImageInv, CallsOK
  <1>7. ImageInv(ex, ids)
    BY <1>1, <1>3, <1>4, <1>5, <1>6 DEF ImageInv
  <1> QED BY <1>1, <1>3, <1>7 DEF ex

(* Giving out more IDs disturbs nothing. *)
LEMMA ImageMonotone ==
    ASSUME NEW im, NEW ids, NEW more, ids \subseteq more, ImageInv(im, ids)
    PROVE  ImageInv(im, more)
  <1>1. CallsOK(im, more)
    BY DEF ImageInv, CallsOK
  <1> QED BY <1>1 DEF ImageInv

(* A session to start from has a sound log. *)
LEMMA ImageInitial ==
    ASSUME NEW start, OwnsNothing(start), NEW ids
    PROVE  ImageInv(start, ids)
  <1>1. /\ HeadShape(start.head)
        /\ start.head.owned = {} /\ start.head.responded = {} /\ start.head.statuses = {}
        /\ start.head.ops = << >>
    BY DEF OwnsNothing, NewHead, HeadShape
  <1>2. /\ LoopShape(start.replayed)
        /\ start.replayed.turn = start.head.latest
        /\ start.replayed.toolCalls = << >> /\ start.replayed.operations = << >>
        /\ start.replayed.callModel = FALSE /\ start.replayed.grace = FALSE
    BY DEF OwnsNothing, NewLoopState, LoopShape
  <1>3. IsMap(<< >>) /\ DOMAIN << >> = {}
    BY DEF IsMap
  <1>4. IsLoopState(start.replayed)
    BY <1>2, <1>3 DEF OwnsNothing, IsLoopState
  <1>5. TurnsOK(start)
    BY <1>1, <1>2 DEF OwnsNothing, TurnsOK
  <1>6. OpsOK(start)
    BY <1>1, <1>2, <1>3 DEF OpsOK
  <1>7. CallsOK(start, ids)
    BY <1>1, <1>2, <1>3 DEF CallsOK
  <1> QED BY <1>1, <1>4, <1>5, <1>6, <1>7 DEF ImageInv

(* The state of a coordinator that has restored nothing (loop.go:78-84). *)
LEMMA NewLoopStateFacts ==
    /\ IsLoopState(NewLoopState)
    /\ DOMAIN NewLoopState.operations = {} /\ DOMAIN NewLoopState.toolCalls = {}
  <1>1. IsMap(<< >>) /\ DOMAIN << >> = {}
    BY DEF IsMap
  <1>2. LoopShape(NewLoopState)
    BY DEF NewLoopState, LoopShape
  <1>3. NewLoopState.toolCalls = << >> /\ NewLoopState.operations = << >>
    BY DEF NewLoopState
  <1>4. /\ IsMap(NewLoopState.toolCalls) /\ IsMap(NewLoopState.operations)
        /\ DOMAIN NewLoopState.operations = {} /\ DOMAIN NewLoopState.toolCalls = {}
    BY <1>1, <1>3, Zenon
  <1>5. /\ NewLoopState.available \in Nat /\ NewLoopState.delivered \in Nat
        /\ NewLoopState.turnInputs \in Nat
        /\ NewLoopState.callModel \in BOOLEAN /\ NewLoopState.grace \in BOOLEAN
    BY DEF NewLoopState
  <1> QED BY <1>2, <1>4, <1>5 DEF IsLoopState

(* Restore gives the replayed state with the operations of the head        *)
(* (state.go:286-318, loop.go:486-521).                                    *)
LEMMA RestoreFacts ==
    ASSUME NEW im, NEW ids, ImageInv(im, ids)
    PROVE  /\ IsLoopState(Restore(im))
           /\ Agree(Restore(im), im.replayed)
           /\ Restore(im).operations = im.head.ops
           /\ Restore(im).callModel = im.replayed.callModel
  <1> DEFINE more == ToResume(im.head.ops, im.unrecorded)
             H == im.head.ops
             R == im.replayed.operations
  <1>1. /\ IsLoopState(Restore(im)) /\ Agree(Restore(im), im.replayed)
        /\ Restore(im).operations = Override(more, R)
        /\ Restore(im).callModel = im.replayed.callModel
    BY AddOperationsFacts DEF ImageInv, Restore
  <1>2. /\ IsMap(H) /\ DOMAIN R = DOMAIN H
        /\ \A op \in DOMAIN H : op \notin im.unrecorded => R[op] = H[op]
    BY DEF ImageInv, OpsOK
  <1>3. /\ DOMAIN more \subseteq DOMAIN H
        /\ \A op \in DOMAIN more : more[op] = H[op]
        /\ \A op \in DOMAIN H \ DOMAIN more : op \notin im.unrecorded
    BY DEF ToResume
  <1> HIDE DEF more, H, R
  <1>4. IsMap(Override(more, R)) /\ DOMAIN Override(more, R) = DOMAIN H
    <2>1. IsMap(Override(more, R))
      BY OverrideFacts
    <2>2. DOMAIN Override(more, R) = DOMAIN H
      BY <1>2, <1>3 DEF Override
    <2> QED BY <2>1, <2>2
  <1>5. \A op \in DOMAIN H : Override(more, R)[op] = H[op]
    BY <1>2, <1>3 DEF Override
  <1>6. Override(more, R) = H
    BY <1>2, <1>4, <1>5, MapEqual
  <1> QED BY <1>1, <1>6 DEF H

-----------------------------------------------------------------------------
(* What the invariant says of the properties *)

(* What Restore gives and what is in memory agree with the same image. *)
LEMMA InvRecovery == Inv => RecoveryIsExact
  <1> SUFFICES ASSUME Inv, Up PROVE Durable(Restore(image)) = Durable(ls)
    BY DEF RecoveryIsExact
  <1>1. Agree(Restore(image), image.replayed) /\ Restore(image).operations = head.ops
    BY RestoreFacts DEF Inv, head
  <1>2. Agree(ls, image.replayed) /\ ls.operations = head.ops
    BY DEF Inv, MemoryOK
  <1> QED BY <1>1, <1>2 DEF Agree, Durable

(* The manager's operations are the loop's, and the loop's the head's. *)
LEMMA InvDispatched == Inv => DispatchedIsCommitted
  <1> SUFFICES ASSUME Inv, NEW op \in DOMAIN manager
               PROVE  op \in DOMAIN head.ops /\ head.ops[op] \notin TerminalStatuses
    BY DEF DispatchedIsCommitted
  <1>1. Up
    BY DEF Inv, ControlOK, Up
  <1> QED BY <1>1 DEF Inv, MemoryOK, ManagerOK, IsTerminal

(* No append has been refused. *)
LEMMA InvStoreAccepts == Inv => StoreAccepts
  BY DEF Inv, Modes, StoreAccepts

(* Calls are translated at all points outside of scheduling. *)
LEMMA InvTranslated == Inv => TranslatedBeforeReconcile
  BY DEF Inv, ControlOK, TranslatedBeforeReconcile

-----------------------------------------------------------------------------
(* The invariant holds at first *)

LEMMA InitInv == Init => Inv
  <1> SUFFICES ASSUME Init PROVE Inv
    OBVIOUS
  <1>1. Modes
    <2>1. << >> \in Seq(Queued) /\ << >> \in Seq(Updates)
      BY EmptySeq
    <2> QED BY <2>1, Zenon DEF Init, Modes, PCs
  <1>2. ImageInv(image, issued)
    BY InitialLogAssumption, ImageInitial DEF Init
  <1>3. MemoryOK
    BY NewLoopStateFacts DEF Init, MemoryOK, Up
  <1>4. ManagerOK /\ UndispatchedOK /\ ControlOK
    BY DEF Init, ManagerOK, UndispatchedOK, ControlOK
  <1> QED BY <1>1, <1>2, <1>3, <1>4 DEF Inv

-----------------------------------------------------------------------------
(* Steps that record nothing *)

(* What holds after a step that keeps, of the loop state, what is on       *)
(* record.                                                                 *)
LEMMA SameLoop ==
    ASSUME Inv, Up, UNCHANGED storeVars, issued \subseteq issued',
           IsLoopState(ls'), Agree(ls', ls), ls'.operations = ls.operations
    PROVE  /\ ImageInv(image, issued)'
           /\ MemoryOK'
           /\ UNCHANGED <<manager, updates>> =>
                ManagerOK' /\ (statuses' \subseteq statuses => UndispatchedOK')
           /\ Scheduled => Scheduled'
           /\ ls'.turn = ls.turn /\ head' = head
  <1>1. image' = image
    BY DEF storeVars
  <1>2. ImageInv(image', issued')
    BY <1>1, ImageMonotone DEF Inv
  <1>3. MemoryOK'
    BY <1>1 DEF Inv, MemoryOK, Agree, head
  <1>4. ASSUME UNCHANGED <<manager, updates>>
        PROVE  ManagerOK' /\ (statuses' \subseteq statuses => UndispatchedOK')
    BY <1>4 DEF Inv, ManagerOK, UndispatchedOK, IsTerminal, Agree
  <1>5. Scheduled => Scheduled'
    BY DEF Scheduled, Agree
  <1>6. ls'.turn = ls.turn /\ head' = head
    BY <1>1 DEF Agree, head
  <1> QED BY <1>2, <1>3, <1>4, <1>5, <1>6

(* The loop goes back to its select. *)
LEMMA AtTop ==
    ASSUME Inv, NEW state, NEW active, NEW mode, TopOfLoop(state, active, mode)
    PROVE  pc' = "select" /\ heartbeat' \in {"off", "armed", "fired"}
  BY DEF Inv, Modes, TopOfLoop

(* Run returns, or the process dies: only the log is left. *)
LEMMA ExitInv ==
    ASSUME Inv, NEW to \in {"down", "stopped"}, Exit(to),
           UNCHANGED storeVars, UNCHANGED issued
    PROVE  Inv'
  <1>1. Modes'
    <2>1. << >> \in Seq(Queued) /\ << >> \in Seq(Updates)
      BY EmptySeq
    <2>2. rejected' = FALSE
      BY DEF Inv, Modes, storeVars
    <2>3. queue' \in Seq(Queued) /\ updates' \in Seq(Updates)
      BY <2>1, Zenon DEF Exit
    <2>4. /\ pc' \in PCs /\ modelActive' \in BOOLEAN /\ cancelled' \in BOOLEAN
          /\ stop' \in {"none", "when_idle", "hard"}
          /\ heartbeat' \in {"off", "armed", "fired"}
      BY DEF Exit, PCs
    <2> QED BY <2>2, <2>3, <2>4 DEF Modes
  <1>2. ImageInv(image, issued)'
    BY DEF Inv, storeVars
  <1>3. MemoryOK'
    BY NewLoopStateFacts DEF Exit, MemoryOK, Up
  <1>4. ManagerOK'
    BY DEF Exit, ManagerOK
  <1>5. UndispatchedOK'
    BY DEF Exit, UndispatchedOK
  <1>6. ControlOK'
    BY DEF Exit, ControlOK
  <1> QED BY <1>1, <1>2, <1>3, <1>4, <1>5, <1>6 DEF Inv

(* Resume and restore (loop.go:86-100, 486-521). *)
LEMMA StartInv == Inv /\ Start => Inv'
  <1> SUFFICES ASSUME Inv, Start PROVE Inv'
    OBVIOUS
  <1>1. image' = image /\ issued' = issued /\ ls' = Restore(image)
    BY DEF Start, storeVars
  <1>2. /\ IsLoopState(ls') /\ Agree(ls', image.replayed)
        /\ ls'.operations = image.head.ops
    BY <1>1, RestoreFacts DEF Inv
  <1>3. Modes'
    BY DEF Inv, Modes, Start, storeVars, PCs
  <1>4. ImageInv(image, issued)'
    BY <1>1 DEF Inv
  <1>5. MemoryOK'
    BY <1>1, <1>2 DEF MemoryOK, head
  <1>6. pc' = "boot_schedule" /\ DOMAIN manager' = {} /\ updates' = << >> /\ statuses' = {}
        /\ modelActive' = FALSE /\ cancelled' = FALSE
    BY DEF Inv, Modes, ControlOK, Start, Up
  <1>7. DOMAIN updates' = {}
    BY <1>6
  <1>8. ManagerOK' /\ UndispatchedOK'
    BY <1>6, <1>7 DEF ManagerOK, UndispatchedOK
  <1>9. ControlOK'
    BY <1>6, Zenon DEF ControlOK
  <1> QED BY <1>3, <1>4, <1>5, <1>8, <1>9 DEF Inv

(* scheduleToolCalls is done at the start of Run. *)
LEMMA BootScheduledInv == Inv /\ BootScheduled => Inv'
  <1> SUFFICES ASSUME Inv, BootScheduled PROVE Inv'
    OBVIOUS
  <1> USE DEF BootScheduled, envVars
  <1>1. Modes'
    BY DEF Inv, Modes, storeVars, PCs
  <1>2. ImageInv(image, issued)' /\ MemoryOK' /\ ManagerOK' /\ UndispatchedOK' /\ Scheduled'
    BY DEF Inv, storeVars, MemoryOK, ManagerOK, UndispatchedOK, IsTerminal, Scheduled, Up, head
  <1>3. ControlOK'
    BY <1>2 DEF Inv, ControlOK, storeVars, head
  <1> QED BY <1>1, <1>2, <1>3 DEF Inv

(* processEvents goes on to the next channel (loop.go:190-210). *)
LEMMA SlurpEndsInv == Inv /\ SlurpEnds => Inv'
  <1> SUFFICES ASSUME Inv, SlurpEnds PROVE Inv'
    OBVIOUS
  <1> USE DEF SlurpEnds, envVars
  <1>1. Modes'
    BY DEF Inv, Modes, storeVars, PCs
  <1>2. ImageInv(image, issued)' /\ MemoryOK' /\ ManagerOK' /\ UndispatchedOK'
    BY DEF Inv, storeVars, MemoryOK, ManagerOK, UndispatchedOK, IsTerminal, Up, head
  <1>3. ControlOK'
    BY DEF Inv, ControlOK, storeVars, head, Scheduled
  <1> QED BY <1>1, <1>2, <1>3 DEF Inv

(* The manager gets all unfinished operations (loop.go:943-950). *)
LEMMA BootDispatchInv == Inv /\ BootDispatch => Inv'
  <1> SUFFICES ASSUME Inv, BootDispatch PROVE Inv'
    OBVIOUS
  <1>1. /\ pc' \in {"boot_request", "select"} /\ heartbeat' \in {"off", "armed", "fired"}
    BY AtTop DEF BootDispatch, Inv, Modes
  <1>2. Up /\ UNCHANGED storeVars /\ issued' = issued /\ ls' = ls /\ DOMAIN manager = {}
        /\ updates' = << >> /\ statuses' = {} /\ Scheduled
    BY DEF BootDispatch, Up, Inv, ControlOK
  <1>3. /\ ImageInv(image, issued)' /\ MemoryOK' /\ Scheduled'
        /\ head' = head
    BY <1>2, SameLoop DEF Inv, MemoryOK, Agree
  <1>4. Modes'
    BY <1>1 DEF Inv, Modes, BootDispatch, storeVars, PCs
  <1>5. DOMAIN manager' = {o \in DOMAIN ls.operations : ~IsTerminal(ls, o)}
    BY <1>2 DEF BootDispatch, Dispatched, Override
  <1>6. ManagerOK' /\ UndispatchedOK'
    <2>1. DOMAIN updates' = {}
      BY <1>2
    <2> QED BY <1>2, <1>5, <2>1 DEF ManagerOK, UndispatchedOK, IsTerminal
  <1>7. ControlOK'
    BY <1>1, <1>2, <1>3 DEF Inv, ControlOK, BootDispatch
  <1> QED BY <1>3, <1>4, <1>6, <1>7 DEF Inv

(* postHeartbeat (loop.go:282-304). *)
LEMMA PostHeartbeatInv == Inv /\ PostHeartbeat => Inv'
  <1> SUFFICES ASSUME Inv, PostHeartbeat PROVE Inv'
    OBVIOUS
  <1> PICK n \in 1..MaxHeartbeats :
             /\ issued' = issued \cup {HeartbeatID(n)}
             /\ queue' = Append(queue, Input(HeartbeatID(n), "heartbeat"))
    BY DEF PostHeartbeat
  <1>1. /\ Up /\ UNCHANGED storeVars /\ issued \subseteq issued' /\ ls' = ls
        /\ UNCHANGED <<manager, updates>> /\ statuses' = statuses
        /\ pc = "select" /\ pc' = "slurp_inputs" /\ heartbeat' = "fired"
        /\ UNCHANGED <<modelActive, stop, cancelled>>
    BY DEF PostHeartbeat, Up
  <1>2. /\ ImageInv(image, issued)' /\ MemoryOK' /\ ManagerOK' /\ UndispatchedOK'
        /\ Scheduled => Scheduled'
        /\ head' = head
    BY <1>1, SameLoop DEF Inv, MemoryOK, Agree
  <1>3. Modes'
    <2>1. Input(HeartbeatID(n), "heartbeat") \in Queued
      BY DEF Input, Queued, InputIDs, HeartbeatIDs, Kinds
    <2>2. queue' \in Seq(Queued)
      BY <2>1, AppendProperties DEF Inv, Modes
    <2> QED BY <1>1, <2>2 DEF Inv, Modes, storeVars, PCs
  <1>4. ControlOK'
    BY <1>1, <1>2 DEF Inv, ControlOK
  <1> QED BY <1>2, <1>3, <1>4 DEF Inv

(* The grace period of the tools ends. *)
LEMMA GraceExpiresInv == Inv /\ GraceExpires => Inv'
  <1> SUFFICES ASSUME Inv, GraceExpires PROVE Inv'
    OBVIOUS
  <1>1. /\ Up /\ UNCHANGED storeVars /\ issued' = issued
        /\ UNCHANGED <<manager, updates>> /\ statuses' = statuses
        /\ pc = "select" /\ pc' = "slurp_inputs"
        /\ UNCHANGED <<modelActive, stop, cancelled, heartbeat, queue>>
    BY DEF GraceExpires, Up, envVars
  <1>2. IsLoopState(ls') /\ Agree(ls', ls) /\ ls'.operations = ls.operations
    BY ClearToolGraceFacts DEF GraceExpires, Inv, MemoryOK
  <1>3. /\ ImageInv(image, issued)' /\ MemoryOK' /\ ManagerOK' /\ UndispatchedOK'
        /\ Scheduled => Scheduled'
        /\ ls'.turn = ls.turn /\ head' = head
    BY <1>1, <1>2, SameLoop
  <1>4. Modes'
    BY <1>1 DEF Inv, Modes, storeVars, PCs
  <1>5. ControlOK'
    BY <1>1, <1>3 DEF Inv, ControlOK
  <1> QED BY <1>3, <1>4, <1>5 DEF Inv

(* The answer to an interrupted turn is dropped. *)
LEMMA DropResponseInv ==
    ASSUME NEW turn, Inv, DropResponse(turn)
    PROVE  Inv'
  <1>1. /\ Up /\ UNCHANGED storeVars /\ issued' = issued /\ ls' = ls
        /\ UNCHANGED <<manager, updates>> /\ statuses' = statuses
        /\ pc = "select" /\ UNCHANGED <<modelActive, stop, cancelled, queue>>
    BY DEF DropResponse, Up
  <1>2. pc' = "select" /\ heartbeat' \in {"off", "armed", "fired"}
    BY AtTop DEF DropResponse
  <1>3. /\ ImageInv(image, issued)' /\ MemoryOK' /\ ManagerOK' /\ UndispatchedOK'
        /\ Scheduled => Scheduled'
        /\ head' = head
    BY <1>1, SameLoop DEF Inv, MemoryOK, Agree
  <1>4. Modes'
    BY <1>1, <1>2 DEF Inv, Modes, storeVars, PCs
  <1>5. ControlOK'
    BY <1>1, <1>2, <1>3 DEF Inv, ControlOK
  <1> QED BY <1>3, <1>4, <1>5 DEF Inv

(* The manager gets the operations of the new calls (loop.go:225-254). *)
LEMMA ResponseScheduledInv == Inv /\ ResponseScheduled => Inv'
  <1> SUFFICES ASSUME Inv, ResponseScheduled PROVE Inv'
    OBVIOUS
  <1>1. /\ Up /\ UNCHANGED storeVars /\ issued' = issued
        /\ updates' = updates /\ statuses' = {} /\ Scheduled
        /\ pc = "schedule" /\ pc' = "slurp_inputs"
        /\ UNCHANGED <<modelActive, stop, cancelled, heartbeat, queue>>
    BY DEF ResponseScheduled, Up
  <1>2. IsLoopState(ls') /\ Agree(ls', ls) /\ ls'.operations = ls.operations
    <2>1. IsLoopState(ls)
      BY DEF Inv, MemoryOK
    <2>2. CASE ~RequireModelResponse /\ statuses # {}
      BY <2>1, <2>2, SetToolGraceFacts DEF ResponseScheduled
    <2>3. CASE ~(~RequireModelResponse /\ statuses # {})
      <3>1. RequireModelResponse \in BOOLEAN
        BY DEF RequireModelResponse
      <3> QED BY <2>1, <2>3, <3>1, SetCallModelFacts DEF ResponseScheduled
    <2> QED BY <2>2, <2>3
  <1>3. /\ ImageInv(image, issued)' /\ MemoryOK' /\ Scheduled'
        /\ ls'.turn = ls.turn /\ head' = head
    BY <1>1, <1>2, SameLoop
  <1>4. Modes'
    BY <1>1 DEF Inv, Modes, storeVars, PCs
  <1>5. ManagerOK'
    <2> DEFINE new == {op \in DOMAIN ls.operations :
                         \E key \in {status[1] : status \in statuses} \cap DOMAIN ls.toolCalls :
                           op \in ls.toolCalls[key].waits}
    <2>1. DOMAIN manager' = {op \in new : ~IsTerminal(ls, op)} \cup DOMAIN manager
      BY DEF ResponseScheduled, Dispatched, Override
    <2>2. \A op \in new : \A k \in DOMAIN updates : updates[k].op # op
      BY DEF Inv, UndispatchedOK
    <2>3. \A op \in new : op \in DOMAIN ls.operations
      OBVIOUS
    <2> HIDE DEF new
    <2> QED BY <1>1, <1>2, <2>1, <2>2, <2>3 DEF Inv, ManagerOK, IsTerminal
  <1>6. UndispatchedOK'
    BY <1>1 DEF UndispatchedOK
  <1>7. ControlOK'
    BY <1>1, <1>3 DEF Inv, ControlOK
  <1> QED BY <1>3, <1>4, <1>5, <1>6, <1>7 DEF Inv

(* handleStop for a hard stop (loop.go:261-270). *)
LEMMA HardStopInv == Inv /\ HardStop => Inv'
  <1> SUFFICES ASSUME Inv, HardStop PROVE Inv'
    OBVIOUS
  <1>1. CASE ~HasPendingOperations(ls)
    BY <1>1, ExitInv DEF HardStop
  <1>2. CASE HasPendingOperations(ls)
    <2>1. /\ Up /\ UNCHANGED storeVars /\ issued' = issued /\ ls' = ls
          /\ updates' = updates /\ statuses' = statuses
          /\ pc = "reconcile" /\ stop = "hard"
          /\ UNCHANGED <<stop, queue>> /\ cancelled' = TRUE
      BY <1>2 DEF HardStop, Up
    <2>2. pc' = "select" /\ heartbeat' \in {"off", "armed", "fired"}
      BY <1>2, AtTop DEF HardStop
    <2>3. modelActive' = FALSE
      BY <1>2 DEF HardStop, Inv, ControlOK, Modes
    <2>4. DOMAIN manager' = DOMAIN manager
      BY <1>2 DEF HardStop
    <2>5. /\ ImageInv(image, issued)' /\ MemoryOK'
          /\ Scheduled => Scheduled'
          /\ head' = head
      BY <2>1, SameLoop DEF Inv, MemoryOK, Agree
    <2>6. ManagerOK' /\ UndispatchedOK'
      BY <2>1, <2>4 DEF Inv, ManagerOK, UndispatchedOK, IsTerminal
    <2>7. Modes'
      BY <2>1, <2>2, <2>3 DEF Inv, Modes, storeVars, PCs
    <2>8. ControlOK'
      BY <2>1, <2>2, <2>3, <2>5 DEF Inv, ControlOK
    <2> QED BY <2>5, <2>6, <2>7, <2>8 DEF Inv
  <1> QED BY <1>1, <1>2

(* The loop waits, or leaves when idle. *)
LEMMA WaitOrStopInv == Inv /\ WaitOrStop => Inv'
  <1> SUFFICES ASSUME Inv, WaitOrStop PROVE Inv'
    OBVIOUS
  <1>1. CASE stop = "when_idle" /\ IsIdle(ls, modelActive)
    BY <1>1, ExitInv DEF WaitOrStop
  <1>2. CASE ~(stop = "when_idle" /\ IsIdle(ls, modelActive))
    <2>1. /\ Up /\ UNCHANGED storeVars /\ issued' = issued /\ ls' = ls
          /\ UNCHANGED <<manager, updates>> /\ statuses' = statuses
          /\ pc = "reconcile" /\ UNCHANGED <<modelActive, stop, cancelled, queue>>
      BY <1>2 DEF WaitOrStop, Up
    <2>2. pc' = "select" /\ heartbeat' \in {"off", "armed", "fired"}
      BY <1>2, AtTop DEF WaitOrStop
    <2>3. /\ ImageInv(image, issued)' /\ MemoryOK' /\ ManagerOK' /\ UndispatchedOK'
          /\ Scheduled => Scheduled'
          /\ head' = head
      BY <2>1, SameLoop DEF Inv, MemoryOK, Agree
    <2>4. Modes'
      BY <2>1, <2>2 DEF Inv, Modes, storeVars, PCs
    <2>5. ControlOK'
      BY <2>1, <2>2, <2>3 DEF Inv, ControlOK
    <2> QED BY <2>3, <2>4, <2>5 DEF Inv
  <1> QED BY <1>1, <1>2

(* An input is queued in the inbox. *)
LEMMA SubmitInv ==
    ASSUME NEW id \in InputIDs, NEW kind \in Kinds, Inv, Submit(id, kind)
    PROVE  Inv'
  <1>1. /\ Up /\ UNCHANGED storeVars /\ issued \subseteq issued' /\ ls' = ls
        /\ UNCHANGED <<manager, updates>> /\ statuses' = statuses
        /\ UNCHANGED <<pc, modelActive, stop, cancelled, heartbeat>>
    BY DEF Submit, loopVars
  <1>2. /\ ImageInv(image, issued)' /\ MemoryOK' /\ ManagerOK' /\ UndispatchedOK'
        /\ Scheduled => Scheduled'
        /\ head' = head
    BY <1>1, SameLoop DEF Inv, MemoryOK, Agree
  <1>3. Modes'
    <2>1. Input(id, kind) \in Queued
      BY DEF Input, Queued
    <2>2. queue' \in Seq(Queued)
      BY <2>1, AppendProperties DEF Inv, Modes, Submit
    <2> QED BY <1>1, <2>2 DEF Inv, Modes, storeVars
  <1>4. ControlOK'
    BY <1>1, <1>2 DEF Inv, ControlOK
  <1> QED BY <1>2, <1>3, <1>4 DEF Inv

(* An update at the end of the queue. *)
LEMMA AppendedUpdate ==
    ASSUME NEW old \in Seq(Updates), NEW update \in Updates
    PROVE  LET new == Append(old, update)
           IN /\ new \in Seq(Updates)
              /\ DOMAIN old = 1..Len(old) /\ DOMAIN new = 1..(Len(old) + 1) /\ Len(old) \in Nat
              /\ \A k \in DOMAIN old : new[k] = old[k]
              /\ new[Len(old) + 1] = update
  BY AppendProperties, LenProperties

(* What the manager may report, an operation it has. *)
LEMMA ReportInv ==
    ASSUME Inv, NEW op \in DOMAIN manager, NEW status \in OperationStatuses,
           updates' = Append(updates, [op |-> op, status |-> status]),
           DOMAIN manager' = IF status \in TerminalStatuses THEN DOMAIN manager \ {op}
                             ELSE DOMAIN manager,
           UNCHANGED <<loopVars, storeVars, queue, issued>>
    PROVE  Inv'
  <1> DEFINE update == [op |-> op, status |-> status]
             last == Len(updates) + 1
  <1>1. /\ UNCHANGED storeVars /\ issued' = issued /\ ls' = ls /\ statuses' = statuses
        /\ UNCHANGED <<pc, modelActive, stop, cancelled, heartbeat, queue>>
    BY DEF loopVars
  <1>2. /\ pc \notin {"down", "stopped", "boot_schedule", "boot_reconcile"} /\ Up
    BY DEF Inv, ControlOK, Up
  <1>3. /\ ImageInv(image, issued)' /\ MemoryOK'
        /\ Scheduled => Scheduled'
        /\ head' = head
    BY <1>1, <1>2, SameLoop DEF Inv, MemoryOK, Agree
  <1>4. op \in DOMAIN ls.operations /\ ~IsTerminal(ls, op)
    BY DEF Inv, ManagerOK
  <1>5. op \in Calls \X Nat
    BY <1>2, <1>4 DEF Inv, MemoryOK, ImageInv, CallsOK, head
  <1>6. update \in Updates /\ update.op = op /\ update.status = status
    BY <1>5 DEF Updates
  <1>7. updates \in Seq(Updates) /\ updates' = Append(updates, update)
    BY DEF Inv, Modes
  <1> HIDE DEF update
  <1>8. /\ updates' \in Seq(Updates)
        /\ DOMAIN updates = 1..(last - 1) /\ DOMAIN updates' = 1..last /\ last \in Nat \ {0}
        /\ \A k \in DOMAIN updates : updates'[k] = updates[k]
        /\ updates'[last] = update
    BY <1>6, <1>7, AppendedUpdate
  <1> HIDE DEF last
  <1>9. Modes'
    BY <1>1, <1>8 DEF Inv, Modes, storeVars
  <1>10. ManagerOK'
    <2>1. \A o \in DOMAIN manager' : o \in DOMAIN ls'.operations /\ ~IsTerminal(ls', o)
      BY <1>1 DEF Inv, ManagerOK
    <2>2. ASSUME NEW k \in DOMAIN updates'
          PROVE  /\ updates'[k].op \in DOMAIN ls'.operations /\ ~IsTerminal(ls', updates'[k].op)
                 /\ updates'[k].status \in TerminalStatuses =>
                      /\ updates'[k].op \notin DOMAIN manager'
                      /\ \A l \in DOMAIN updates' : l > k => updates'[l].op # updates'[k].op
      <3>1. CASE k = last
        <4>1. updates'[k].op = op /\ updates'[k].status = status
          BY <1>6, <1>8, <3>1
        <4> QED BY <1>1, <1>4, <1>8, <3>1, <4>1
      <3>2. CASE k # last
        <4>1. k \in DOMAIN updates /\ updates'[k] = updates[k]
          BY <1>8, <2>2, <3>2
        <4>2. /\ updates[k].op \in DOMAIN ls.operations /\ ~IsTerminal(ls, updates[k].op)
              /\ updates[k].status \in TerminalStatuses =>
                   /\ updates[k].op \notin DOMAIN manager
                   /\ \A l \in DOMAIN updates : l > k => updates[l].op # updates[k].op
          BY <4>1 DEF Inv, ManagerOK
        <4>3. ASSUME updates[k].status \in TerminalStatuses, NEW l \in DOMAIN updates', l > k
              PROVE  updates'[l].op # updates'[k].op
          <5>1. CASE l = last
            BY <1>6, <1>8, <4>1, <4>2, <4>3, <5>1
          <5>2. CASE l # last
            BY <1>8, <4>1, <4>2, <4>3, <5>2
          <5> QED BY <5>1, <5>2
        <4> QED BY <1>1, <4>1, <4>2, <4>3
      <3> QED BY <3>1, <3>2
    <2> QED BY <2>1, <2>2 DEF ManagerOK
  <1>11. UndispatchedOK'
    <2> SUFFICES ASSUME NEW st \in statuses, st[1] \in DOMAIN ls.toolCalls,
                        NEW o \in ls.toolCalls[st[1]].waits
                 PROVE  o \notin DOMAIN manager' /\ \A k \in DOMAIN updates' : updates'[k].op # o
      BY <1>1 DEF UndispatchedOK
    <2>1. o \notin DOMAIN manager /\ \A k \in DOMAIN updates : updates[k].op # o
      BY DEF Inv, UndispatchedOK
    <2>2. o # op /\ o \notin DOMAIN manager'
      BY <2>1
    <2>3. ASSUME NEW k \in DOMAIN updates'
          PROVE  updates'[k].op # o
      <3>1. CASE k = last
        BY <1>6, <1>8, <2>2, <3>1
      <3>2. CASE k # last
        BY <1>8, <2>1, <3>2
      <3> QED BY <3>1, <3>2
    <2> QED BY <2>2, <2>3
  <1>12. ControlOK'
    BY <1>1, <1>2, <1>3 DEF Inv, ControlOK
  <1> QED BY <1>3, <1>9, <1>10, <1>11, <1>12 DEF Inv

(* The two ways the manager reports on an operation. *)
LEMMA OperationInv ==
    ASSUME NEW op, Inv, OperationProgresses(op) \/ OperationEnds(op)
    PROVE  Inv'
  <1>1. CASE OperationProgresses(op)
    <2>1. /\ op \in DOMAIN manager /\ "awaiting" \in OperationStatuses
          /\ "awaiting" \notin TerminalStatuses
          /\ DOMAIN manager' = DOMAIN manager
          /\ updates' = Append(updates, [op |-> op, status |-> "awaiting"])
          /\ UNCHANGED <<loopVars, storeVars, queue, issued>>
      BY <1>1 DEF OperationProgresses, OperationStatuses, TerminalStatuses
    <2> QED BY <2>1, ReportInv
  <1>2. CASE OperationEnds(op)
    <2> PICK status \in TerminalStatuses :
               updates' = Append(updates, [op |-> op, status |-> status])
      BY <1>2 DEF OperationEnds
    <2>1. /\ op \in DOMAIN manager /\ status \in OperationStatuses
          /\ DOMAIN manager' = DOMAIN manager \ {op}
          /\ UNCHANGED <<loopVars, storeVars, queue, issued>>
      BY <1>2 DEF OperationEnds, OperationStatuses, Without
    <2> QED BY <2>1, ReportInv
  <1> QED BY <1>1, <1>2

-----------------------------------------------------------------------------
(* Steps that record something *)

(* An append that passes the checks of the store. *)
LEMMA Persisted ==
    ASSUME Inv, NEW r, Persist(r), CanAppend(head, r)
    PROVE  image' = Extend(image, r) /\ rejected' = FALSE /\ head' = Extend(image, r).head
  BY DEF Persist, Inv, Modes, head

(* Agreement is an equivalence. *)
LEMMA AgreeTransitive ==
    ASSUME NEW s, NEW t, NEW u, Agree(s, t), Agree(t, u)
    PROVE  Agree(s, u)
  BY DEF Agree

(* handleInboxInput (loop.go:390-415). *)
LEMMA TakeInputInv == Inv /\ TakeInput => Inv' /\ Unchanged(head', head)
  <1> SUFFICES ASSUME Inv, TakeInput PROVE Inv' /\ Unchanged(head', head)
    OBVIOUS
  <1> DEFINE r == Head(queue)
             added == AddItem(ls, r)
             asked == IF r.kind = "external" THEN [added EXCEPT !.callModel = TRUE] ELSE added
  <1>1. /\ Up /\ pc \in {"select", "slurp_inputs"} /\ pc' = "slurp_inputs"
        /\ UNCHANGED <<manager, updates, statuses, modelActive, cancelled, heartbeat, issued>>
        /\ queue # << >> /\ queue' = Tail(queue) /\ Persist(r)
    BY DEF TakeInput, HandleInput, Up
  <1>2. r \in Queued /\ queue' \in Seq(Queued)
    BY <1>1, HeadTailProperties DEF Inv, Modes
  <1>3. r.type = "input" /\ r.kind \in Kinds /\ r.id \in InputIDs
    BY <1>2 DEF Queued
  <1>4. /\ stop' \in {"none", "when_idle", "hard"}
        /\ stop = "hard" => stop' = "hard"
    BY <1>3 DEF TakeInput, HandleInput, Inv, Modes, Kinds
  <1>5. ls' = IF r.kind = "settings" THEN asked ELSE ClearToolGrace(asked)
    BY DEF TakeInput, HandleInput
  <1>6. CanAppend(head, r)
    BY <1>3, IDsAssumption DEF CanAppend, InputIDs, ControlIDs, Kinds, InputKinds
  <1>7. image' = Extend(image, r) /\ rejected' = FALSE
    BY <1>1, <1>6, Persisted
  <1> HIDE DEF r
  <1>8. ImageInv(image, issued)' /\ Unchanged(head', head)
    BY <1>1, <1>3, <1>7, ImageInput DEF Inv, head
  <1>9. /\ IsLoopState(ls) /\ IsLoopState(image.replayed)
        /\ Agree(ls, image.replayed) /\ ls.operations = head.ops
    BY <1>1 DEF Inv, MemoryOK, ImageInv
  <1>10. /\ IsLoopState(added) /\ added.turn = ls.turn /\ added.toolCalls = ls.toolCalls
         /\ added.operations = ls.operations
         /\ Agree(added, image'.replayed)
    <2>1. image'.replayed = AddItem(image.replayed, r)
      BY <1>3, <1>7, ExtendFields
    <2> QED BY <1>3, <1>9, <2>1, AddInputFacts
  <1> HIDE DEF added
  <1>11. /\ IsLoopState(asked) /\ Agree(asked, added) /\ asked.operations = added.operations
    <2>1. CASE r.kind = "external"
      BY <1>10, <2>1, SetCallModelFacts
    <2>2. CASE r.kind # "external"
      BY <1>10, <2>2 DEF Agree
    <2> QED BY <2>1, <2>2
  <1> HIDE DEF asked
  <1>12. /\ IsLoopState(ls') /\ Agree(ls', asked) /\ ls'.operations = asked.operations
    <2>1. CASE r.kind = "settings"
      BY <1>5, <1>11, <2>1 DEF Agree
    <2>2. CASE r.kind # "settings"
      BY <1>5, <1>11, <2>2, ClearToolGraceFacts
    <2> QED BY <2>1, <2>2
  <1>13. MemoryOK'
    BY <1>8, <1>9, <1>10, <1>11, <1>12 DEF MemoryOK, Agree, Unchanged
  <1>14. /\ ls'.operations = ls.operations /\ ls'.toolCalls = ls.toolCalls /\ ls'.turn = ls.turn
    BY <1>10, <1>11, <1>12 DEF Agree
  <1>15. Modes'
    BY <1>1, <1>2, <1>4, <1>7 DEF Inv, Modes, PCs
  <1>16. ManagerOK' /\ UndispatchedOK'
    BY <1>1, <1>14 DEF Inv, ManagerOK, UndispatchedOK, IsTerminal
  <1>17. ControlOK'
    BY <1>1, <1>4, <1>8, <1>14 DEF Inv, ControlOK, Unchanged, Scheduled
  <1> QED BY <1>8, <1>13, <1>15, <1>16, <1>17 DEF Inv

(* requestModelResponse (loop.go:346-388). *)
LEMMA RequestModelInv == Inv /\ RequestModel => Inv'
  <1> SUFFICES ASSUME Inv, RequestModel PROVE Inv'
    OBVIOUS
  <1> DEFINE r == [type |-> "turn", turn |-> FreshTurn, prev |-> ls.turn]
             item == AddItem(ls, r)
             added == [item EXCEPT !.callModel = FALSE]
             next == IF pc = "reconcile" THEN ClearToolGrace(added) ELSE added
  <1>1. /\ pc \in {"boot_request", "reconcile"} /\ Up
        /\ pc = "boot_request" \/ stop # "hard"
        /\ UNCHANGED <<manager, updates, statuses, stop, cancelled, queue, issued>>
        /\ modelActive' = TRUE
    BY DEF RequestModel, Up
  <1>2. ls' = next /\ Persist(r) /\ TopOfLoop(next, TRUE, stop)
    BY DEF RequestModel
  <1>3. pc' = "select" /\ heartbeat' \in {"off", "armed", "fired"}
    BY <1>2, AtTop
  <1>4. r.type = "turn" /\ r.turn = head.latest + 1 /\ r.prev = ls.turn
    BY DEF FreshTurn
  <1>5. /\ IsLoopState(ls) /\ IsLoopState(image.replayed)
        /\ Agree(ls, image.replayed) /\ ls.operations = head.ops
    BY <1>1 DEF Inv, MemoryOK, ImageInv
  <1> HIDE DEF r
  <1>6. CanAppend(head, r)
    <2>1. /\ image.head.latest \in Nat /\ image.replayed.turn = image.head.latest
          /\ \A turn \in image.head.turns : turn \in Nat /\ turn <= image.head.latest
      BY DEF Inv, ImageInv, TurnsOK
    <2>2. r.prev = head.latest
      BY <1>4, <1>5, <2>1 DEF Agree, head
    <2>3. r.turn \notin head.turns
      BY <1>4, <2>1 DEF head
    <2>4. r.turn # NoTurn
      BY <1>4, <2>1, TurnAssumption DEF head
    <2> QED BY <1>4, <2>2, <2>3, <2>4 DEF CanAppend
  <1>7. image' = Extend(image, r) /\ rejected' = FALSE
    BY <1>2, <1>6, Persisted
  <1>8. /\ ImageInv(image, issued)' /\ head'.ops = head.ops
        /\ r.turn \in head'.owned \ head'.responded
    BY <1>1, <1>4, <1>7, ImageTurn DEF Inv, head
  <1>9. /\ IsLoopState(item) /\ item.turn = r.turn /\ item.toolCalls = ls.toolCalls
        /\ item.operations = ls.operations
        /\ Agree(item, image'.replayed)
    <2>1. image'.replayed = AddItem(image.replayed, r)
      BY <1>4, <1>7, ExtendFields
    <2> QED BY <1>4, <1>5, <2>1, AddTurnFacts
  <1> HIDE DEF item
  <1>10. IsLoopState(added) /\ Agree(added, item) /\ added.operations = item.operations
    BY <1>9, SetCallModelFacts
  <1> HIDE DEF added
  <1>11. IsLoopState(next) /\ Agree(next, added) /\ next.operations = added.operations
    <2>1. CASE pc = "reconcile"
      BY <1>10, <2>1, ClearToolGraceFacts
    <2>2. CASE pc # "reconcile"
      BY <1>10, <2>2 DEF Agree
    <2> QED BY <2>1, <2>2
  <1> HIDE DEF next
  <1>12. MemoryOK'
    BY <1>2, <1>5, <1>8, <1>9, <1>10, <1>11 DEF MemoryOK, Agree
  <1>13. /\ ls'.operations = ls.operations /\ ls'.toolCalls = ls.toolCalls /\ ls'.turn = r.turn
    BY <1>2, <1>9, <1>10, <1>11 DEF Agree
  <1>14. Modes'
    BY <1>1, <1>3, <1>7 DEF Inv, Modes, PCs
  <1>15. ManagerOK' /\ UndispatchedOK'
    BY <1>1, <1>13 DEF Inv, ManagerOK, UndispatchedOK, IsTerminal
  <1>16. ControlOK'
    BY <1>1, <1>3, <1>8, <1>13 DEF Inv, ControlOK, Scheduled
  <1> QED BY <1>8, <1>12, <1>14, <1>15, <1>16 DEF Inv

(* processModelResponse up to the store call (loop.go:453-476). *)
LEMMA TakeResponseInv ==
    ASSUME NEW turn, NEW calls \in SUBSET (Calls \ issued), Inv, TakeResponse(turn, calls)
    PROVE  Inv'
  <1> DEFINE r == [type |-> "response", turn |-> turn, calls |-> calls]
  <1>1. /\ pc = "select" /\ Up /\ pc' = "schedule" /\ modelActive /\ turn = ls.turn
        /\ UNCHANGED <<manager, updates, statuses, stop, cancelled, heartbeat, queue>>
        /\ modelActive' = FALSE /\ issued' = issued \cup calls
        /\ ls' = AddItem(ls, r) /\ Persist(r)
    BY DEF TakeResponse, Awaited, Up
  <1>2. r.type = "response" /\ r.turn = turn /\ r.calls = calls
    OBVIOUS
  <1> HIDE DEF r
  <1>3. turn \in head.owned \ head.responded /\ ~cancelled /\ statuses = {}
    BY <1>1 DEF Inv, ControlOK
  <1>4. CanAppend(head, r)
    BY <1>2, <1>3 DEF CanAppend
  <1>5. image' = Extend(image, r) /\ rejected' = FALSE
    BY <1>1, <1>4, Persisted
  <1>6. ImageInv(image, issued)' /\ head'.ops = head.ops
    BY <1>1, <1>2, <1>3, <1>5, ImageResponse DEF Inv, head
  <1>7. /\ IsLoopState(ls) /\ IsLoopState(image.replayed)
        /\ Agree(ls, image.replayed) /\ ls.operations = head.ops
    BY <1>1 DEF Inv, MemoryOK, ImageInv
  <1>8. /\ IsLoopState(ls') /\ ls'.operations = ls.operations /\ Agree(ls', image'.replayed)
    <2>1. image'.replayed = AddItem(image.replayed, r)
      BY <1>2, <1>5, ExtendFields
    <2> QED BY <1>1, <1>2, <1>7, <2>1, AddResponseFacts
  <1>9. MemoryOK'
    BY <1>6, <1>7, <1>8 DEF MemoryOK
  <1>10. Modes'
    BY <1>1, <1>5 DEF Inv, Modes, PCs
  <1>11. ManagerOK' /\ UndispatchedOK'
    BY <1>1, <1>3, <1>8 DEF Inv, ManagerOK, UndispatchedOK, IsTerminal
  <1>12. ControlOK'
    BY <1>1, <1>3 DEF Inv, ControlOK
  <1> QED BY <1>6, <1>9, <1>10, <1>11, <1>12 DEF Inv

(* The first update in the queue. *)
LEMMA TakenUpdate ==
    ASSUME NEW old \in Seq(Updates), old # << >>
    PROVE  /\ Head(old) = old[1] /\ Head(old) \in Updates /\ 1 \in DOMAIN old
           /\ Tail(old) \in Seq(Updates)
           /\ \A k \in DOMAIN Tail(old) :
                k \in Nat /\ k >= 1 /\ k + 1 \in DOMAIN old /\ Tail(old)[k] = old[k + 1]
  <1>1. /\ Head(old) = old[1] /\ Head(old) \in Updates
        /\ Tail(old) \in Seq(Updates) /\ Len(Tail(old)) = Len(old) - 1
        /\ \A k \in 1..Len(Tail(old)) : Tail(old)[k] = old[k + 1]
    BY HeadTailProperties
  <1>2. /\ Len(old) \in Nat \ {0} /\ DOMAIN old = 1..Len(old)
        /\ DOMAIN Tail(old) = 1..Len(Tail(old))
    BY <1>1, LenProperties, EmptySeq
  <1> QED BY <1>1, <1>2

(* handleOperationUpdate (loop.go:478-484). *)
LEMMA TakeUpdateInv ==
    Inv /\ TakeUpdate =>
      /\ Inv'
      /\ head'.turns = head.turns /\ head'.responded = head.responded
      /\ \E op \in DOMAIN head.ops :
           /\ head.ops[op] \notin TerminalStatuses
           /\ DOMAIN head'.ops = DOMAIN head.ops
           /\ \A o \in DOMAIN head.ops : o # op => head'.ops[o] = head.ops[o]
  <1> SUFFICES ASSUME Inv, TakeUpdate
               PROVE  /\ Inv'
                      /\ head'.turns = head.turns /\ head'.responded = head.responded
                      /\ \E op \in DOMAIN head.ops :
                           /\ head.ops[op] \notin TerminalStatuses
                           /\ DOMAIN head'.ops = DOMAIN head.ops
                           /\ \A o \in DOMAIN head.ops : o # op => head'.ops[o] = head.ops[o]
    OBVIOUS
  <1> DEFINE u == Head(updates)
             r == [type |-> "operation", op |-> u.op, sameType |-> TRUE, status |-> u.status]
             m == [op \in {u.op} |-> u.status]
  <1>1. /\ Up /\ pc \in {"select", "slurp_updates"} /\ pc' \in {"slurp_inputs", "slurp_updates"}
        /\ UNCHANGED <<manager, statuses, modelActive, stop, cancelled, heartbeat, queue, issued>>
        /\ updates # << >> /\ updates' = Tail(updates)
        /\ Persist(r) /\ ls' = AddOperations(ls, m)
    BY DEF TakeUpdate, Up
  <1>2. r.type = "operation" /\ r.op = u.op /\ r.status = u.status /\ r.sameType
    OBVIOUS
  <1>3. DOMAIN m = {u.op} /\ m[u.op] = u.status
    OBVIOUS
  <1>4. /\ u = updates[1] /\ 1 \in DOMAIN updates /\ updates' \in Seq(Updates)
        /\ \A k \in DOMAIN updates' :
             k \in Nat /\ k >= 1 /\ k + 1 \in DOMAIN updates /\ updates'[k] = updates[k + 1]
    BY <1>1, TakenUpdate DEF Inv, Modes
  <1> HIDE DEF r, m, u
  <1>5. /\ u.op \in DOMAIN ls.operations /\ ~IsTerminal(ls, u.op)
        /\ u.status \in TerminalStatuses =>
             /\ u.op \notin DOMAIN manager
             /\ \A l \in DOMAIN updates : l > 1 => updates[l].op # u.op
    BY <1>4 DEF Inv, ManagerOK
  <1>6. /\ IsLoopState(ls) /\ Agree(ls, image.replayed) /\ ls.operations = head.ops
    BY <1>1 DEF Inv, MemoryOK
  <1>7. u.op \in DOMAIN head.ops /\ head.ops[u.op] \notin TerminalStatuses
    BY <1>5, <1>6 DEF IsTerminal
  <1>8. image' = Extend(image, r) /\ rejected' = FALSE
    <2>1. u \in Updates
      <3>1. updates \in Seq(Updates)
        BY DEF Inv, Modes
      <3>2. QED  BY <1>4, <3>1
    <2>3. u.status \in OperationStatuses
      BY <2>1 DEF Updates
    <2>2. CanAppend(head, r)
      BY <1>2, <1>7, <2>3 DEF CanAppend
    <2> QED BY <1>1, <2>2, Persisted
  <1>9. /\ ImageInv(image, issued)' /\ image'.replayed = image.replayed
        /\ head'.owned = head.owned /\ head'.responded = head.responded
        /\ head'.turns = head.turns
        /\ DOMAIN head'.ops = DOMAIN head.ops /\ head'.ops[u.op] = u.status
        /\ \A op \in DOMAIN head.ops : op # u.op => head'.ops[op] = head.ops[op]
    BY <1>1, <1>2, <1>7, <1>8, ImageOperation DEF Inv, head
  <1>10. /\ IsLoopState(ls') /\ Agree(ls', ls)
         /\ ls'.operations = Override(m, ls.operations)
    BY <1>1, <1>6, AddOperationsFacts
  <1>11. /\ DOMAIN ls'.operations = DOMAIN ls.operations
         /\ ls'.operations[u.op] = u.status
         /\ \A op \in DOMAIN ls.operations : op # u.op => ls'.operations[op] = ls.operations[op]
    BY <1>3, <1>5, <1>10 DEF Override
  <1>12. ls'.operations = head'.ops
    <2>1. IsMap(ls'.operations) /\ IsMap(head'.ops)
      BY <1>9, <1>10 DEF IsLoopState, ImageInv, OpsOK, head
    <2>2. \A op \in DOMAIN ls'.operations : ls'.operations[op] = head'.ops[op]
      BY <1>6, <1>9, <1>11
    <2> QED BY <1>6, <1>9, <1>11, <2>1, <2>2, MapEqual
  <1>13. MemoryOK'
    BY <1>6, <1>9, <1>10, <1>12 DEF MemoryOK, Agree
  <1>14. Modes'
    BY <1>1, <1>4, <1>8 DEF Inv, Modes, PCs
  <1>15. ManagerOK'
    <2>1. ASSUME NEW op, op \in DOMAIN ls.operations /\ ~IsTerminal(ls, op),
                 op # u.op \/ u.status \notin TerminalStatuses
          PROVE  op \in DOMAIN ls'.operations /\ ~IsTerminal(ls', op)
      BY <1>11, <2>1 DEF IsTerminal
    <2>2. ASSUME NEW op \in DOMAIN manager'
          PROVE  op \in DOMAIN ls'.operations /\ ~IsTerminal(ls', op)
      BY <1>1, <1>5, <2>1, <2>2 DEF Inv, ManagerOK
    <2>3. ASSUME NEW k \in DOMAIN updates'
          PROVE  /\ updates'[k].op \in DOMAIN ls'.operations /\ ~IsTerminal(ls', updates'[k].op)
                 /\ updates'[k].status \in TerminalStatuses =>
                      /\ updates'[k].op \notin DOMAIN manager'
                      /\ \A l \in DOMAIN updates' : l > k => updates'[l].op # updates'[k].op
      <3>1. k \in Nat /\ k + 1 > 1 /\ k + 1 \in DOMAIN updates /\ updates'[k] = updates[k + 1]
        BY <1>4, <2>3
      <3>2. /\ updates[k + 1].op \in DOMAIN ls.operations
            /\ ~IsTerminal(ls, updates[k + 1].op)
            /\ updates[k + 1].status \in TerminalStatuses =>
                 /\ updates[k + 1].op \notin DOMAIN manager
                 /\ \A l \in DOMAIN updates : l > k + 1 => updates[l].op # updates[k + 1].op
        BY <3>1 DEF Inv, ManagerOK
      <3>3. updates[k + 1].op # u.op \/ u.status \notin TerminalStatuses
        BY <1>5, <3>1
      <3>4. updates'[k].op \in DOMAIN ls'.operations /\ ~IsTerminal(ls', updates'[k].op)
        BY <2>1, <3>1, <3>2, <3>3
      <3>5. ASSUME updates[k + 1].status \in TerminalStatuses, NEW l \in DOMAIN updates', l > k
            PROVE  updates'[l].op # updates'[k].op
        <4>1. l \in Nat /\ l + 1 > k + 1 /\ l + 1 \in DOMAIN updates /\ updates'[l] = updates[l + 1]
          BY <1>4, <3>1, <3>5
        <4> QED BY <3>1, <3>2, <3>5, <4>1
      <3> QED BY <1>1, <3>1, <3>2, <3>4, <3>5
    <2> QED BY <2>2, <2>3 DEF ManagerOK
  <1>16. statuses' = {} /\ UndispatchedOK'
    BY <1>1 DEF Inv, ControlOK, UndispatchedOK
  <1>17. ControlOK'
    <2>1. ls'.toolCalls = ls.toolCalls /\ ls'.turn = ls.turn
      BY <1>10 DEF Agree
    <2> QED BY <1>1, <1>9, <1>16, <2>1 DEF Inv, ControlOK, Scheduled
  <1>18. Inv'
    BY <1>9, <1>13, <1>14, <1>15, <1>16, <1>17 DEF Inv
  <1> QED BY <1>7, <1>9, <1>18

(* A translator names its operations after the call. *)
LEMMA TranslatedOps ==
    ASSUME NEW call, NEW ops \in OpsOf(call) \cup {{}}
    PROVE  ops \in SUBSET ({call} \X Nat)
  BY OpsAssumption DEF OpsOf

(* An unfinished call has the ID that the service gave it. *)
LEMMA CallIsNamed ==
    ASSUME Inv, NEW key \in DOMAIN image.replayed.toolCalls
    PROVE  key[2] # NoID
  BY IDsAssumption DEF Inv, ImageInv, CallsOK

(* The keys of the unfinished calls, as the log has them. *)
LEMMA CallKey ==
    ASSUME Inv, Up, NEW key \in DOMAIN ls.toolCalls
    PROVE  /\ key \in DOMAIN image.replayed.toolCalls
           /\ ls.toolCalls = image.replayed.toolCalls
           /\ key = <<key[1], key[2]>> /\ key[1] \in head.owned
           /\ \/ ls.toolCalls[key].translated = TRUE /\ key \in head.statuses
              \/ ls.toolCalls[key].translated = FALSE /\ ls.toolCalls[key].waits = {}
  <1>1. ls.toolCalls = image.replayed.toolCalls
    BY DEF Inv, MemoryOK, Agree
  <1>2. DOMAIN image.replayed.toolCalls \subseteq head.owned \X (Calls \cap issued)
    BY DEF Inv, ImageInv, CallsOK, head
  <1>3. \/ ls.toolCalls[key].translated = TRUE /\ key \in head.statuses
        \/ ls.toolCalls[key].translated = FALSE /\ ls.toolCalls[key].waits = {}
    BY <1>1 DEF Inv, ImageInv, CallsOK, head
  <1>4. key = <<key[1], key[2]>> /\ key[1] \in head.owned
    BY <1>1, <1>2
  <1> QED BY <1>1, <1>3, <1>4

(* scheduleToolCall (loop.go:780-814). *)
LEMMA ScheduleToolCallInv ==
    ASSUME Inv, NEW key \in DOMAIN ls.toolCalls, NEW ops \in OpsOf(key[2]) \cup {{}},
           ScheduleToolCall(key, ops)
    PROVE  Inv'
  <1> DEFINE r == [type |-> "status", turn |-> key[1], call |-> key[2], error |-> ops = {},
                   waits |-> ops, ops |-> [op \in ops |-> "ready"]]
             a == AddOperations(ls, r.ops)
             calls == ls.toolCalls
             R == image.replayed
  <1>1. /\ pc \in {"boot_schedule", "schedule"} /\ Up
        /\ UNCHANGED <<pc, manager, updates, modelActive, stop, cancelled, heartbeat, queue, issued>>
        /\ ~calls[key].translated
        /\ ls' = AddItem(a, r) /\ Persist(r)
        /\ statuses' = statuses \cup {<<key, r.error>>}
    BY DEF ScheduleToolCall, envVars, Up
  <1>2. /\ r.type = "status" /\ StatusKey(r) = <<key[1], key[2]>> /\ r.waits = ops
        /\ r.ops = [op \in ops |-> "ready"] /\ r.turn = key[1]
    BY DEF StatusKey
  <1>3. DOMAIN r.ops = ops /\ \A op \in ops : r.ops[op] = "ready"
    OBVIOUS
  <1>4. ReferencesValid(r)
    <2>1. r.error = (ops = {})
      OBVIOUS
    <2> HIDE DEF r
    <2>2. CASE ops = {}
      BY <1>2, <1>3, <2>1, <2>2 DEF ReferencesValid
    <2>3. CASE ops # {}
      BY <1>2, <1>3, <2>1, <2>3 DEF ReferencesValid
    <2> QED BY <2>2, <2>3
  <1> HIDE DEF r
  <1>5. /\ key \in DOMAIN R.toolCalls /\ calls = R.toolCalls
        /\ StatusKey(r) = key /\ key[1] \in head.owned
        /\ calls[key].translated = FALSE /\ calls[key].waits = {}
    BY <1>1, <1>2, CallKey
  <1>6. ops \in SUBSET ({key[2]} \X Nat)
    BY TranslatedOps
  <1>7. /\ ImageInv(Extend(image, r), issued)
        /\ Extend(image, r).head.ops = Override(head.ops, r.ops)
        /\ Extend(image, r).head.owned = head.owned
        /\ Extend(image, r).head.responded = head.responded
        /\ ops \cap DOMAIN head.ops = {}
    <2>1. IsFirstStatus(image, r)
      BY <1>2, <1>3, <1>5, <1>6 DEF IsFirstStatus
    <2>2. ImageInv(image, issued)
      BY DEF Inv
    <2> QED BY <1>2, <2>1, <2>2, ImageFirstStatus DEF head
  <1>8. CanAppend(head, r)
    <2>1. r.call # NoID
      BY <1>2, <1>5, CallIsNamed DEF StatusKey
    <2>2. StatusesValid(r)
      BY <1>3 DEF StatusesValid, OperationStatuses
    <2> QED BY <1>2, <1>3, <1>4, <1>5, <1>7, <2>1, <2>2 DEF CanAppend
  <1>9. image' = Extend(image, r) /\ rejected' = FALSE
    BY <1>1, <1>8, Persisted
  <1>10. /\ ImageInv(image, issued)' /\ head'.ops = Override(head.ops, r.ops)
         /\ head'.owned = head.owned /\ head'.responded = head.responded
    BY <1>1, <1>7, <1>9 DEF head
  <1>11. /\ IsLoopState(ls) /\ IsLoopState(R)
         /\ Agree(ls, R) /\ ls.operations = head.ops
    BY <1>1 DEF Inv, MemoryOK, ImageInv
  <1>12. /\ IsLoopState(a) /\ Agree(a, ls) /\ a.operations = Override(r.ops, ls.operations)
    BY <1>11, AddOperationsFacts
  <1> HIDE DEF a
  <1>13. /\ StatusKey(r) \in DOMAIN a.toolCalls /\ a.toolCalls = calls /\ Agree(a, R)
         /\ r.waits \subseteq DOMAIN r.ops /\ a.toolCalls[StatusKey(r)].waits \subseteq DOMAIN r.ops
         /\ a.turn = ls.turn
    BY <1>2, <1>3, <1>5, <1>11, <1>12 DEF Agree
  <1>14. r.waits \subseteq DOMAIN Known(a, r)
    BY <1>13 DEF Known, Override
  <1>15. image'.replayed = AddItem(R, r)
    BY <1>2, <1>9, ExtendFields
  <1>16. Agree(ls', image'.replayed)
    BY <1>1, <1>2, <1>11, <1>12, <1>13, <1>15, AddStatusAgree
  <1>17. IsLoopState(ls') /\ ls'.turn = ls.turn /\ ls'.operations = Known(a, r)
    BY <1>1, <1>2, <1>12, <1>13, <1>14, AddStatusFacts
  <1>18. ls'.operations = head'.ops
    <2>1. Known(a, r) = Override(r.ops, Override(r.ops, head.ops))
      BY <1>11, <1>12 DEF Known
    <2>2. Override(r.ops, Override(r.ops, head.ops)) = Override(head.ops, r.ops)
      BY <1>3, <1>7 DEF Override
    <2> QED BY <1>10, <1>17, <2>1, <2>2
  <1>19. MemoryOK'
    BY <1>16, <1>17, <1>18 DEF MemoryOK
  <1>20. Modes'
    BY <1>1, <1>9 DEF Inv, Modes
  <1>21. \A op \in DOMAIN ls.operations :
           op \in DOMAIN ls'.operations /\ ls'.operations[op] = ls.operations[op]
    BY <1>10, <1>11, <1>18 DEF Override
  <1>22. ManagerOK'
    BY <1>1, <1>21 DEF Inv, ManagerOK, IsTerminal
  <1>23. UndispatchedOK'
    <2> DEFINE new == ls'.toolCalls
    <2>1. /\ DOMAIN new \subseteq DOMAIN calls
          /\ \A k \in DOMAIN new : k # key => new[k] = calls[k]
          /\ key \in DOMAIN new => new[key].waits = ops
      <3>1. /\ DOMAIN AddItem(a, r).toolCalls \subseteq DOMAIN a.toolCalls
            /\ \A k \in DOMAIN AddItem(a, r).toolCalls :
                 k # StatusKey(r) => AddItem(a, r).toolCalls[k] = a.toolCalls[k]
            /\ StatusKey(r) \in DOMAIN AddItem(a, r).toolCalls =>
                 AddItem(a, r).toolCalls[StatusKey(r)].waits =
                   a.toolCalls[StatusKey(r)].waits \cup r.waits
        <4>1. r.type = "status"
          BY <1>2
        <4>2. LET t == AddItem(a, r).toolCalls
                  k0 == StatusKey(r)
              IN /\ DOMAIN t \subseteq DOMAIN a.toolCalls
                 /\ \A k \in DOMAIN t : k # k0 => t[k] = a.toolCalls[k]
                 /\ k0 \in DOMAIN t =>
                      /\ ~AllEnded(a, r)
                      /\ t[k0].translated = TRUE
                      /\ t[k0].waits = a.toolCalls[k0].waits \cup r.waits
          BY <1>12, <1>13, <1>14, <4>1, AddStatusCalls, Zenon
        <4> QED BY <4>2
      <3> QED BY <1>1, <1>2, <1>5, <1>13, <3>1
    <2> HIDE DEF new
    <2> SUFFICES ASSUME NEW st \in statuses', st[1] \in DOMAIN new, NEW op \in new[st[1]].waits
                 PROVE  op \notin DOMAIN manager /\ \A k \in DOMAIN updates : updates[k].op # op
      BY <1>1 DEF UndispatchedOK, new
    <2>2. CASE st[1] = key
      <3>1. op \in ops
        BY <2>1, <2>2
      <3>2. op \notin DOMAIN ls.operations
        BY <1>7, <1>11, <3>1
      <3> QED BY <3>2 DEF Inv, ManagerOK
    <2>3. CASE st[1] # key
      <3>1. st \in statuses
        BY <1>1, <2>3
      <3> QED BY <2>1, <2>3, <3>1 DEF Inv, UndispatchedOK
    <2> QED BY <2>2, <2>3
  <1>24. ControlOK'
    BY <1>1, <1>10, <1>17 DEF Inv, ControlOK
  <1> QED BY <1>10, <1>19, <1>20, <1>22, <1>23, <1>24 DEF Inv

(* One iteration of reconcileToolCalls (loop.go:830-867). *)
LEMMA ReconcileToolCallInv ==
    ASSUME Inv, NEW key \in DOMAIN ls.toolCalls, ReconcileToolCall(key)
    PROVE  Inv' /\ Unchanged(head', head)
  <1> DEFINE waits == ls.toolCalls[key].waits
             r == [type |-> "status", turn |-> key[1], call |-> key[2], error |-> FALSE,
                   waits |-> waits, ops |-> [op \in waits |-> ls.operations[op]]]
             R == image.replayed
  <1>1. /\ pc \in {"boot_reconcile", "reconcile"} /\ Up
        /\ UNCHANGED <<pc, manager, updates, modelActive, stop, cancelled, statuses,
                       heartbeat, queue, issued>>
        /\ CallIsTerminal(ls, key)
        /\ ls' = AddItem(ls, r) /\ Persist(r)
    BY DEF ReconcileToolCall, envVars, Up
  <1>2. Scheduled
    BY <1>1 DEF Inv, ControlOK
  <1>3. /\ key \in DOMAIN R.toolCalls /\ ls.toolCalls = R.toolCalls
        /\ key = <<key[1], key[2]>> /\ key[1] \in head.owned
        /\ key \in head.statuses
    BY <1>1, <1>2, CallKey DEF Scheduled
  <1>4. /\ r.type = "status" /\ StatusKey(r) = key /\ r.waits = waits /\ r.turn = key[1]
        /\ DOMAIN r.ops = waits /\ \A op \in waits : r.ops[op] = ls.operations[op]
    BY <1>3 DEF StatusKey
  <1> HIDE DEF r
  <1>5. \A op \in waits : op \in DOMAIN ls.operations /\ ls.operations[op] \in TerminalStatuses
    BY <1>1 DEF CallIsTerminal, IsTerminal
  <1> HIDE DEF waits
  <1>6. /\ IsLoopState(ls) /\ IsLoopState(R)
        /\ Agree(ls, R) /\ ls.operations = head.ops
    BY <1>1 DEF Inv, MemoryOK, ImageInv
  <1>7. /\ r.waits = image.replayed.toolCalls[key].waits
        /\ r.waits \subseteq DOMAIN image.head.ops
        /\ \A op \in r.waits : /\ r.ops[op] = image.head.ops[op]
                               /\ r.ops[op] \in TerminalStatuses
    BY <1>3, <1>4, <1>5, <1>6 DEF waits, head
  <1>8. image' = Extend(image, r) /\ rejected' = FALSE
    <2>1. r.call # NoID
      BY <1>3, <1>4, CallIsNamed DEF StatusKey
    <2>2. CanAppend(head, r)
      BY <1>3, <1>4, <2>1 DEF CanAppend
    <2> QED BY <1>1, <2>2, Persisted
  <1>9. ImageInv(image, issued)' /\ Unchanged(head', head)
    BY <1>1, <1>3, <1>4, <1>7, <1>8, ImageLastStatus DEF Inv, head
  <1>10. /\ StatusKey(r) \in DOMAIN ls.toolCalls /\ r.waits \subseteq DOMAIN r.ops
         /\ ls.toolCalls[StatusKey(r)].waits \subseteq DOMAIN r.ops
    BY <1>4 DEF waits
  <1>11. /\ Agree(ls', image'.replayed) /\ AllEnded(ls, r)
    <2>1. image'.replayed = AddItem(R, r)
      BY <1>4, <1>8, ExtendFields
    <2>2. \A op \in ls.toolCalls[StatusKey(r)].waits \cup r.waits :
            r.ops[op] \in TerminalStatuses
      BY <1>4, <1>7 DEF waits
    <2> QED BY <1>1, <1>4, <1>6, <1>10, <2>1, <2>2, AddStatusAgree
  <1>12. r.waits \subseteq DOMAIN Known(ls, r)
    BY <1>10 DEF Known, Override
  <1>13. IsLoopState(ls') /\ ls'.turn = ls.turn /\ ls'.operations = Known(ls, r)
    BY <1>1, <1>4, <1>6, <1>10, <1>12, AddStatusFacts
  <1>14. ls'.operations = ls.operations
    <2>1. IsMap(ls.operations) /\ IsMap(Known(ls, r))
      BY <1>6, OverrideFacts DEF IsLoopState, Known
    <2>2. /\ DOMAIN Known(ls, r) = DOMAIN ls.operations
          /\ \A op \in DOMAIN ls.operations : Known(ls, r)[op] = ls.operations[op]
      BY <1>4, <1>5 DEF Known, Override
    <2> QED BY <1>13, <2>1, <2>2, MapEqual
  <1>15. /\ DOMAIN ls'.toolCalls \subseteq DOMAIN ls.toolCalls
         /\ \A k \in DOMAIN ls'.toolCalls : ls'.toolCalls[k] = ls.toolCalls[k]
    <2>1. /\ DOMAIN AddItem(ls, r).toolCalls \subseteq DOMAIN ls.toolCalls
          /\ \A k \in DOMAIN AddItem(ls, r).toolCalls :
               k # StatusKey(r) => AddItem(ls, r).toolCalls[k] = ls.toolCalls[k]
          /\ StatusKey(r) \in DOMAIN AddItem(ls, r).toolCalls => ~AllEnded(ls, r)
      BY <1>4, <1>6, <1>10, <1>12, AddStatusCalls
    <2> QED BY <1>1, <1>11, <2>1
  <1>16. MemoryOK'
    BY <1>6, <1>9, <1>11, <1>13, <1>14 DEF MemoryOK, Unchanged
  <1>17. Modes'
    BY <1>1, <1>8 DEF Inv, Modes
  <1>18. ManagerOK'
    BY <1>1, <1>14 DEF Inv, ManagerOK, IsTerminal
  <1>19. UndispatchedOK'
    BY <1>1, <1>15 DEF Inv, UndispatchedOK
  <1>20. ControlOK'
    <2>1. Scheduled'
      BY <1>2, <1>15 DEF Scheduled
    <2> QED BY <1>1, <1>9, <1>13, <2>1 DEF Inv, ControlOK, Unchanged
  <1> QED BY <1>9, <1>16, <1>17, <1>18, <1>19, <1>20 DEF Inv

-----------------------------------------------------------------------------
(* The theorems *)

(* Every step of the coordinator, of a user, of the model, of the manager, *)
(* and every crash and restart keeps the invariant.                        *)
LEMMA NextInv == Inv /\ [Next]_vars => Inv'
  <1> SUFFICES ASSUME Inv, [Next]_vars PROVE Inv'
    OBVIOUS
  <1>1. ASSUME NEW key \in DOMAIN ls.toolCalls, NEW ops \in OpsOf(key[2]) \cup {{}},
               ScheduleToolCall(key, ops)
        PROVE  Inv'
    BY <1>1, ScheduleToolCallInv
  <1>2. ASSUME NEW key \in DOMAIN ls.toolCalls, ReconcileToolCall(key)
        PROVE  Inv'
    BY <1>2, ReconcileToolCallInv
  <1>3. ASSUME NEW turn \in inflight, NEW calls \in SUBSET (Calls \ issued),
               TakeResponse(turn, calls)
        PROVE  Inv'
    BY <1>3, TakeResponseInv
  <1>4. ASSUME NEW turn \in inflight, DropResponse(turn)
        PROVE  Inv'
    BY <1>4, DropResponseInv
  <1>5. ASSUME NEW turn \in inflight, ModelFails(turn)
        PROVE  Inv'
    BY <1>5, ExitInv DEF ModelFails
  <1>6. ASSUME NEW id, NEW kind,
               \/ id \in External /\ kind = "external"
               \/ id \in HardStops /\ kind = "hard"
               \/ id \in IdleStops /\ kind = "when_idle"
               \/ id \in Settings /\ kind = "settings",
               Submit(id, kind)
        PROVE  Inv'
    <2>1. id \in InputIDs /\ kind \in Kinds
      BY <1>6 DEF InputIDs, Kinds
    <2> QED BY <1>6, <2>1, SubmitInv
  <1>7. ASSUME NEW op \in DOMAIN manager, OperationProgresses(op) \/ OperationEnds(op)
        PROVE  Inv'
    BY <1>7, OperationInv
  <1>8. CASE Die
    BY <1>8, ExitInv DEF Die
  <1>9. CASE UNCHANGED vars
    BY <1>9 DEF vars, loopVars, storeVars, envVars, Inv, Modes, MemoryOK, ManagerOK,
                UndispatchedOK, ControlOK, Scheduled, IsTerminal, Up, head
  <1>10. CASE \/ Start \/ BootScheduled \/ BootDispatch \/ TakeInput \/ TakeUpdate
              \/ PostHeartbeat \/ GraceExpires \/ ResponseScheduled \/ SlurpEnds
              \/ HardStop \/ RequestModel \/ WaitOrStop
    BY <1>10, StartInv, BootScheduledInv, BootDispatchInv, TakeInputInv, TakeUpdateInv,
       PostHeartbeatInv, GraceExpiresInv, ResponseScheduledInv, SlurpEndsInv, HardStopInv,
       RequestModelInv, WaitOrStopInv
  <1> QED BY <1>1, <1>2, <1>3, <1>4, <1>5, <1>6, <1>7, <1>8, <1>9, <1>10 DEF Next

(* The invariant holds in every reachable state, whatever the constants. *)
THEOREM InvHolds == Spec => []Inv
  BY InitInv, NextInv, PTL DEF Spec

(* At every point where the process may die, restoring the session from    *)
(* its log gives the state that was in memory (loop.go:486-521, 541-641).  *)
THEOREM RecoveryExact == Spec => []RecoveryIsExact
  BY InvHolds, InvRecovery, PTL

(* The store refuses no append of the coordinator's (state.go:56-284,      *)
(* loop.go:878-941).                                                       *)
THEOREM StoreAlwaysAccepts == Spec => []StoreAccepts
  BY InvHolds, InvStoreAccepts, PTL

(* An operation is given to the manager only once it is on record, and     *)
(* never after its end is (loop.go:943-962, 780-814).                      *)
THEOREM CommittedBeforeDispatch == Spec => []DispatchedIsCommitted
  BY InvHolds, InvDispatched, PTL

(* reconcileToolCalls never meets an untranslated call (loop.go:839-841).  *)
THEOREM AlwaysTranslated == Spec => []TranslatedBeforeReconcile
  BY InvHolds, InvTranslated, PTL

(* While a hard stop is being carried out, the head changes in that        *)
(* pending operations end, and in nothing else that matters.               *)
HeadWinds ==
    /\ head'.turns = head.turns /\ head'.responded = head.responded
    /\ \A op \in DOMAIN head'.ops :
         head'.ops[op] \notin TerminalStatuses =>
           op \in DOMAIN head.ops /\ head.ops[op] \notin TerminalStatuses

(* Every step while a hard stop is being carried out is of that kind. *)
LEMMA StoppingWinds ==
    ASSUME Inv, [Next]_vars, cancelled, cancelled'
    PROVE  HeadWinds
  <1>1. /\ pc \in {"select", "slurp_inputs", "slurp_updates", "reconcile"}
        /\ stop = "hard" /\ ~modelActive /\ Up
    BY DEF Inv, ControlOK, Up
  <1>2. ASSUME image' = image
        PROVE  HeadWinds
    BY <1>2 DEF HeadWinds, head
  <1>3. ASSUME Unchanged(head', head)
        PROVE  HeadWinds
    BY <1>3 DEF HeadWinds, Unchanged
  <1>4. ASSUME NEW key \in DOMAIN ls.toolCalls, NEW ops, ScheduleToolCall(key, ops)
        PROVE  HeadWinds
    BY <1>1, <1>4 DEF ScheduleToolCall
  <1>5. ASSUME NEW key \in DOMAIN ls.toolCalls, ReconcileToolCall(key)
        PROVE  HeadWinds
    BY <1>3, <1>5, ReconcileToolCallInv
  <1>6. CASE TakeInput
    BY <1>3, <1>6, TakeInputInv
  <1>7. CASE TakeUpdate
    <2>1. head'.turns = head.turns /\ head'.responded = head.responded
      BY <1>7, TakeUpdateInv
    <2>2. PICK op \in DOMAIN head.ops :
            /\ head.ops[op] \notin TerminalStatuses
            /\ DOMAIN head'.ops = DOMAIN head.ops
            /\ \A o \in DOMAIN head.ops : o # op => head'.ops[o] = head.ops[o]
      BY <1>7, TakeUpdateInv
    <2> QED BY <2>1, <2>2 DEF HeadWinds
  <1>8. ASSUME NEW turn, NEW calls, TakeResponse(turn, calls)
        PROVE  HeadWinds
    BY <1>1, <1>8 DEF TakeResponse, Awaited
  <1>9. CASE RequestModel
    BY <1>1, <1>9 DEF RequestModel
  <1>10. ASSUME NEW turn, DropResponse(turn) \/ ModelFails(turn)
         PROVE  HeadWinds
    BY <1>2, <1>10 DEF DropResponse, ModelFails, storeVars
  <1>11. ASSUME NEW id, NEW kind, Submit(id, kind)
         PROVE  HeadWinds
    BY <1>2, <1>11 DEF Submit, storeVars
  <1>12. ASSUME NEW op, OperationProgresses(op) \/ OperationEnds(op)
         PROVE  HeadWinds
    BY <1>2, <1>12 DEF OperationProgresses, OperationEnds, storeVars
  <1>13. CASE \/ Start \/ BootScheduled \/ BootDispatch \/ PostHeartbeat \/ GraceExpires
              \/ ResponseScheduled \/ SlurpEnds \/ HardStop \/ WaitOrStop \/ Die
              \/ UNCHANGED vars
    <2>1. image' = image
      BY <1>13 DEF Start, BootScheduled, BootDispatch, PostHeartbeat, GraceExpires,
                   ResponseScheduled, SlurpEnds, HardStop, WaitOrStop, Die, vars, storeVars
    <2> QED BY <1>2, <2>1
  <1> QED BY <1>4, <1>5, <1>6, <1>7, <1>8, <1>9, <1>10, <1>11, <1>12, <1>13 DEF Next

(* Once a hard stop has asked for cancellation, no model is awaited and no *)
(* operation, turn or response enters the session (loop.go:39, 170-179).   *)
THEOREM HardStopFinal == Spec => HardStopIsFinal
  <1>1. ASSUME Inv, Inv', [Next]_vars, cancelled, cancelled'
        PROVE  /\ ~modelActive'
               /\ PendingOperations(ls') \subseteq PendingOperations(ls)
               /\ head'.turns = head.turns /\ head'.responded = head.responded
    <2>1. HeadWinds
      BY <1>1, StoppingWinds
    <2>2. ~modelActive' /\ Up /\ Up'
      BY <1>1 DEF Inv, ControlOK, Up
    <2>3. ls.operations = head.ops /\ ls'.operations = head'.ops
      BY <1>1, <2>2 DEF Inv, MemoryOK
    <2>4. PendingOperations(ls') \subseteq PendingOperations(ls)
      BY <2>1, <2>3 DEF HeadWinds, PendingOperations, IsTerminal
    <2> QED BY <2>1, <2>2, <2>4 DEF HeadWinds
  <1>2. Inv /\ Inv' /\ [Next]_vars =>
          [cancelled /\ cancelled' =>
             /\ ~modelActive'
             /\ PendingOperations(ls') \subseteq PendingOperations(ls)
             /\ head'.turns = head.turns /\ head'.responded = head.responded]_vars
    BY <1>1
  <1> QED BY <1>2, InvHolds, PTL DEF Spec, HardStopIsFinal

-----------------------------------------------------------------------------
(* What the log says, line by line *)

(* One record appended: the log, and with it its image, have it. *)
Appends(r) ==
    /\ CanAppend(head, r)
    /\ log' = Append(log, Line(head, r))
    /\ image' = Extend(image, r)

LEMMA PersistAppends ==
    ASSUME Inv', NEW r, Persist(r)
    PROVE  Appends(r)
  <1>1. rejected' = FALSE
    BY DEF Inv, Modes
  <1> QED BY <1>1 DEF Persist, Appends

(* Every step appends one record or none.  An input is the one that was    *)
(* first in the queue, a response is to the turn that is awaited, and the  *)
(* states of operations are faithful to the store.                         *)
Records(r) ==
    /\ Appends(r)
    /\ Faithful(head, r)
    /\ r.type = "input" => TakeInput /\ queue # << >> /\ r = Head(queue)
    /\ r.type = "response" => Up /\ modelActive /\ ~modelActive' /\ r.turn = ls.turn
    /\ r.type = "turn" => RequestModel /\ r.turn = FreshTurn
    /\ r.type = "status" => Up /\ StatusKey(r) \in DOMAIN ls.toolCalls /\ r.waits = DOMAIN r.ops

LEMMA StepRecords ==
    ASSUME Inv, Inv', [Next]_vars
    PROVE  UNCHANGED <<log, image>> \/ \E r : Records(r)
  <1>1. ASSUME NEW key \in DOMAIN ls.toolCalls, NEW ops \in OpsOf(key[2]) \cup {{}},
               ScheduleToolCall(key, ops)
        PROVE  \E r : Records(r)
    <2> DEFINE r == [type |-> "status", turn |-> key[1], call |-> key[2],
                     error |-> ops = {}, waits |-> ops, ops |-> [op \in ops |-> "ready"]]
    <2>1. Persist(r) /\ Up /\ ls.toolCalls[key].translated # TRUE
      BY <1>1 DEF ScheduleToolCall, Up
    <2>2. /\ key \in DOMAIN image.replayed.toolCalls /\ ls.toolCalls = image.replayed.toolCalls
          /\ key = <<key[1], key[2]>>
      BY <2>1, CallKey
    <2>3. key \notin head.statuses
      BY <2>1, <2>2 DEF Inv, ImageInv, CallsOK, head
    <2>4. r.type = "status" /\ StatusKey(r) = key /\ r.waits = DOMAIN r.ops
      BY <2>2 DEF StatusKey
    <2> HIDE DEF r
    <2>5. Faithful(head, r)
      BY <2>3, <2>4 DEF Faithful
    <2> QED BY <2>1, <2>4, <2>5, PersistAppends DEF Records
  <1>2. ASSUME NEW key \in DOMAIN ls.toolCalls, ReconcileToolCall(key)
        PROVE  \E r : Records(r)
    <2> DEFINE waits == ls.toolCalls[key].waits
               r == [type |-> "status", turn |-> key[1], call |-> key[2], error |-> FALSE,
                     waits |-> waits, ops |-> [op \in waits |-> ls.operations[op]]]
    <2>1. Persist(r) /\ Up /\ CallIsTerminal(ls, key)
      BY <1>2 DEF ReconcileToolCall, Up
    <2>2. ls.operations = head.ops
      BY <2>1 DEF Inv, MemoryOK
    <2>3. /\ r.type = "status" /\ r.waits = waits /\ DOMAIN r.ops = waits /\ StatusKey(r) = key
          /\ \A op \in waits : r.ops[op] = ls.operations[op]
      BY <2>1, CallKey DEF StatusKey
    <2>4. \A op \in waits : op \in DOMAIN ls.operations
      BY <2>1 DEF CallIsTerminal, IsTerminal
    <2> HIDE DEF r, waits
    <2>5. Faithful(head, r)
      BY <2>2, <2>3, <2>4 DEF Faithful
    <2> QED BY <2>1, <2>3, <2>5, PersistAppends DEF Records
  <1>3. ASSUME NEW turn \in inflight, NEW calls \in SUBSET (Calls \ issued),
               TakeResponse(turn, calls)
        PROVE  \E r : Records(r)
    <2> DEFINE r == [type |-> "response", turn |-> turn, calls |-> calls]
    <2>1. Persist(r) /\ Up /\ modelActive /\ ~modelActive' /\ turn = ls.turn
      BY <1>3 DEF TakeResponse, Up, Awaited
    <2>2. r.type = "response" /\ r.turn = turn
      OBVIOUS
    <2> HIDE DEF r
    <2>3. Faithful(head, r)
      BY <2>2 DEF Faithful
    <2> QED BY <2>1, <2>2, <2>3, PersistAppends DEF Records
  <1>4. CASE TakeInput
    <2> DEFINE r == Head(queue)
    <2>1. Persist(r) /\ queue # << >>
      BY <1>4 DEF TakeInput, HandleInput
    <2>2. r \in Queued
      BY <2>1 DEF Inv, Modes
    <2>3. r.type = "input"
      BY <2>2 DEF Queued
    <2> HIDE DEF r
    <2>4. Faithful(head, r)
      BY <2>3 DEF Faithful
    <2>5. Appends(r)
      BY <2>1, PersistAppends
    <2> QED BY <1>4, <2>1, <2>3, <2>4, <2>5 DEF Records, r
  <1>5. CASE TakeUpdate
    <2> DEFINE u == Head(updates)
               r == [type |-> "operation", op |-> u.op, sameType |-> TRUE, status |-> u.status]
    <2>1. Persist(r) /\ Up /\ updates # << >>
      BY <1>5 DEF TakeUpdate, Up
    <2>2. u = updates[1] /\ 1 \in DOMAIN updates
      BY <2>1, TakenUpdate DEF Inv, Modes
    <2>3. u.op \in DOMAIN ls.operations /\ ~IsTerminal(ls, u.op)
      BY <2>2 DEF Inv, ManagerOK
    <2>4. ls.operations = head.ops
      BY <2>1 DEF Inv, MemoryOK
    <2>5. r.type = "operation" /\ r.op = u.op
      OBVIOUS
    <2> HIDE DEF r, u
    <2>6. Faithful(head, r)
      BY <2>3, <2>4, <2>5 DEF Faithful, IsTerminal
    <2> QED BY <2>1, <2>5, <2>6, PersistAppends DEF Records
  <1>6. CASE RequestModel
    <2> DEFINE r == [type |-> "turn", turn |-> FreshTurn, prev |-> ls.turn]
    <2>1. Persist(r)
      BY <1>6 DEF RequestModel
    <2>2. r.type = "turn" /\ r.turn = FreshTurn
      OBVIOUS
    <2> HIDE DEF r
    <2>3. Faithful(head, r)
      BY <2>2 DEF Faithful
    <2> QED BY <1>6, <2>1, <2>2, <2>3, PersistAppends DEF Records
  <1>7. ASSUME NEW turn, DropResponse(turn) \/ ModelFails(turn)
        PROVE  UNCHANGED <<log, image>>
    BY <1>7 DEF DropResponse, ModelFails, storeVars
  <1>8. ASSUME NEW id, NEW kind, Submit(id, kind)
        PROVE  UNCHANGED <<log, image>>
    BY <1>8 DEF Submit, storeVars
  <1>9. ASSUME NEW op, OperationProgresses(op) \/ OperationEnds(op)
        PROVE  UNCHANGED <<log, image>>
    BY <1>9 DEF OperationProgresses, OperationEnds, storeVars
  <1>10. CASE \/ Start \/ BootScheduled \/ BootDispatch \/ PostHeartbeat \/ GraceExpires
              \/ ResponseScheduled \/ SlurpEnds \/ HardStop \/ WaitOrStop \/ Die
              \/ UNCHANGED vars
    <2>1. UNCHANGED storeVars
      BY <1>10 DEF Start, BootScheduled, BootDispatch, PostHeartbeat, GraceExpires,
                   ResponseScheduled, SlurpEnds, HardStop, WaitOrStop, Die, vars
    <2> QED BY <2>1 DEF storeVars
  <1> QED BY <1>1, <1>2, <1>3, <1>4, <1>5, <1>6, <1>7, <1>8, <1>9, <1>10 DEF Next

(* Reading one more line back. *)
LEMMA InputIDsAppend ==
    ASSUME NEW l, IsSequence(l), NEW x
    PROVE  ResumeInputIDs(Append(l, x)) =
             IF x.record.type = "input" /\ x.record.kind = "external"
               THEN ResumeInputIDs(l) \cup {x.record.id} ELSE ResumeInputIDs(l)
  <1> DEFINE m == Append(l, x)
             n == Len(l)
             Ext(y) == y.record.type = "input" /\ y.record.kind = "external"
  <1>1. n \in Nat /\ Len(m) = n + 1 /\ m[n + 1] = x /\ \A i \in 1..n : m[i] = l[i]
    BY AppendFacts
  <1>2. DOMAIN l = 1..n /\ DOMAIN m = 1..(n + 1)
    BY <1>1, AppendFacts DEF IsSequence
  <1> HIDE DEF m, n
  <1>3. \A id : id \in ResumeInputIDs(m) <=> \E k \in 1..(n + 1) : Ext(m[k]) /\ m[k].record.id = id
    BY <1>2 DEF ResumeInputIDs
  <1>4. \A id : id \in ResumeInputIDs(l) <=> \E k \in 1..n : Ext(l[k]) /\ l[k].record.id = id
    BY <1>2 DEF ResumeInputIDs
  <1>5. \A k : k \in 1..(n + 1) <=> k \in 1..n \/ k = n + 1
    BY <1>1
  <1> HIDE DEF Ext
  <1>6. \A id : id \in ResumeInputIDs(m) <=>
                  id \in ResumeInputIDs(l) \/ (Ext(x) /\ x.record.id = id)
    BY <1>1, <1>3, <1>4, <1>5
  <1> QED BY <1>6 DEF Ext, m

LEMMA ImageAppend ==
    ASSUME NEW l, IsSequence(l), Decode(l).ok, NEW r, CanAppend(Decode(l).head, r), NEW x,
           x = Line(Decode(l).head, r)
    PROVE  /\ IsSequence(Append(l, x)) /\ Decode(Append(l, x)).ok /\ ~IsFork(x) /\ x.record = r
           /\ Image(Append(l, x)) = Extend(Image(l), r)
  <1> DEFINE m == Append(l, x)
             h == Decode(l).head
  <1>1. x.record = r /\ (IsItem(r) => x.seq = h.sequence + 1)
    BY DEF Line
  <1>2. ~IsFork(x)
    BY <1>1 DEF CanAppend, IsFork
  <1>3. Decode(m) = ReplayOwned(Decode(l), x)
    BY <1>2, DecodeAppend
  <1>4. Decode(m).ok /\ Decode(m).head = AppendTo(h, r)
    BY <1>1, <1>3 DEF ReplayOwned
  <1>5. IsSequence(Items(l))
    BY ItemsFacts DEF ItemsWell
  <1>6. Replayed(Items(m)) = IF IsItem(r) THEN AddItem(Replayed(Items(l)), r) ELSE Replayed(Items(l))
    <2>1. CASE IsItem(r)
      <3>1. Items(m) = Append(Items(l), x)
        BY <1>1, <2>1, ItemsAppend
      <3>2. Replayed(Append(Items(l), x)) = Replay(Replayed(Items(l)), x)
        BY <1>5, ReplaysFold
      <3> QED BY <1>1, <2>1, <3>1, <3>2 DEF Replay
    <2>2. CASE ~IsItem(r)
      <3>1. Items(m) = Items(l)
        BY <1>1, <2>2, ItemsAppend
      <3> QED BY <2>2, <3>1
    <2> QED BY <2>1, <2>2
  <1>7. UnrecordedOperations(m) = StillUnrecorded(UnrecordedOperations(l), r)
    BY <1>1, ScanFold DEF ScanUnrecorded
  <1>8. ResumeInputIDs(m) = IF r.type = "input" /\ r.kind = "external"
                              THEN ResumeInputIDs(l) \cup {r.id} ELSE ResumeInputIDs(l)
    <2>1. ResumeInputIDs(m) = IF x.record.type = "input" /\ x.record.kind = "external"
                              THEN ResumeInputIDs(l) \cup {x.record.id} ELSE ResumeInputIDs(l)
      BY InputIDsAppend, Zenon
    <2> QED BY <1>1, <2>1, Zenon
  <1>9. \A s : Image(s) = [head |-> Decode(s).head, replayed |-> Replayed(Items(s)),
                           unrecorded |-> UnrecordedOperations(s), inputIDs |-> ResumeInputIDs(s)]
    BY Zenon DEF Image, Replayed
  <1>10. IsSequence(m)
    BY AppendFacts
  <1> HIDE DEF m, h
  <1>11. Image(m) = Extend(Image(l), r)
    BY <1>4, <1>6, <1>7, <1>8, <1>9 DEF Extend, h
  <1> QED BY <1>1, <1>2, <1>4, <1>10, <1>11 DEF m

(* The newest turn on record, if any, is the head's latest. *)
NewestIs(l, latest) ==
    \A k \in 1..Len(l) :
      (/\ l[k].record.type = "turn"
       /\ \A j \in (k + 1)..Len(l) : l[j].record.type # "turn") => l[k].record.turn = latest

LogInv ==
    /\ IsSequence(log)
    /\ LogReadsBack
    /\ FaithfulLog(log)
    /\ NewestIs(log, head.latest)
    /\ AnswersLatest(log)

LEMMA InitLogInv == Init => LogInv
  <1> SUFFICES ASSUME Init PROVE LogInv
    OBVIOUS
  <1> DEFINE l == InitialLog
  <1>1. log = l /\ image = Image(l) /\ head.latest = Decode(l).head.latest
    BY DEF Init, head, Image
  <1>2. IsSequence(l)
    BY InitialLogAssumption, SequenceIn
  <1>3. Decode(l).ok /\ AnswersLatest(l) /\ Inherited(l) = Len(l) /\ Len(l) \in Nat
    BY <1>2, InitialLogAssumption DEF IsSequence
  <1> HIDE DEF l
  <1>4. FaithfulLog(l)
    BY <1>3 DEF FaithfulLog
  <1>5. NewestIs(l, Decode(l).head.latest)
    <2> SUFFICES ASSUME NEW k \in 1..Len(l), l[k].record.type = "turn",
                        \A j \in (k + 1)..Len(l) : l[j].record.type # "turn"
                 PROVE  l[k].record.turn = Decode(l).head.latest
      BY DEF NewestIs
    <2> DEFINE n == Len(l) - 1
               p == SubSeq(l, 1, n)
               x == l[n + 1]
    <2>1. n \in Nat /\ Len(l) = n + 1
      BY <1>3
    <2> HIDE DEF n
    <2>2. IsSequence(p) /\ Len(p) = n /\ l = Append(p, x)
      BY <1>2, <2>1, FrontAndLast
    <2>3. IsFork(x)
      BY <1>2, <1>3, <2>1, InheritedFacts
    <2>4. \A i \in 1..n : p[i] = l[i]
      BY <1>2, <2>1, PrefixFacts
    <2>5. k \in 1..n
      BY <2>1, <2>3 DEF IsFork
    <2>6. \A j \in (k + 1)..n : p[j].record.type # "turn"
      BY <1>3, <2>1, <2>4, <2>5
    <2> HIDE DEF p, x
    <2>7. InheritHeads(p).latest = p[k].record.turn
      BY <2>2, <2>4, <2>5, <2>6, LatestOfHeads
    <2>8. Decode(l) = ReplayInherited(InheritAll(p), x)
      BY <2>2, <2>3, DecodeFork
    <2>9. InheritAll(p).ok
      BY <1>3, <2>8 DEF ReplayInherited
    <2>10. InheritAll(p).head = InheritHeads(p) /\ HeadShape(InheritAll(p).head)
      BY <2>2, <2>9, InheritAllFacts DEF InheritsWell, IsHead
    <2>11. Decode(l).head = InheritTo(InheritHeads(p), x)
      BY <2>8, <2>10 DEF ReplayInherited
    <2>12. Decode(l).head.latest = InheritHeads(p).latest
      <3> DEFINE h == InheritHeads(p)
      <3> HIDE DEF h
      <3>1. InheritTo(h, x).latest = h.latest
        BY <2>3, <2>10, InheritFields DEF h, IsFork
      <3> QED BY <2>11, <3>1 DEF h
    <2> QED BY <2>4, <2>5, <2>7, <2>12
  <1> QED BY <1>1, <1>2, <1>3, <1>4, <1>5 DEF LogInv, LogReadsBack

(* A response to the newest turn, or anything else. *)
LEMMA AnswersAppend ==
    ASSUME NEW l, IsSequence(l), AnswersLatest(l), NEW x,
           x.record.type = "response" =>
             \E k \in 1..Len(l) : /\ l[k].record.type = "turn" /\ l[k].record.turn = x.record.turn
                                  /\ \A j \in (k + 1)..Len(l) : l[j].record.type # "turn"
    PROVE  AnswersLatest(Append(l, x))
  <1> DEFINE m == Append(l, x)
             n == Len(l)
  <1>1. n \in Nat /\ Len(m) = n + 1 /\ m[n + 1] = x /\ \A i \in 1..n : m[i] = l[i]
    BY AppendFacts
  <1>2. DOMAIN l = 1..n /\ DOMAIN m = 1..(n + 1)
    BY <1>1, AppendFacts DEF IsSequence
  <1> HIDE DEF m, n
  <1>3. ASSUME NEW k \in 1..(n + 1), m[k].record.type = "response"
        PROVE  \E i \in 1..(k - 1) :
                 /\ m[i].record.type = "turn" /\ m[i].record.turn = m[k].record.turn
                 /\ \A j \in 1..(k - 1) : m[j].record.type = "turn" => j <= i
    <2>1. CASE k = n + 1
      <3>1. PICK i \in 1..n : /\ l[i].record.type = "turn" /\ l[i].record.turn = x.record.turn
                              /\ \A j \in (i + 1)..n : l[j].record.type # "turn"
        BY <1>1, <1>3, <2>1 DEF n
      <3>2. k - 1 = n /\ m[i] = l[i] /\ m[k] = x
        BY <1>1, <2>1
      <3>3. \A j \in 1..n : m[j].record.type = "turn" => j <= i
        BY <1>1, <3>1
      <3> QED BY <3>1, <3>2, <3>3
    <2>2. CASE k # n + 1
      <3>1. k \in 1..n /\ m[k] = l[k]
        BY <1>1, <2>2
      <3>2. PICK i \in {i \in 1..(k - 1) : l[i].record.type = "turn"} :
                 /\ \A j \in {j \in 1..(k - 1) : l[j].record.type = "turn"} : j <= i
                 /\ l[i].record.turn = l[k].record.turn
        BY <1>2, <1>3, <3>1 DEF AnswersLatest
      <3>3. \A j \in 1..(k - 1) : j \in 1..n /\ m[j] = l[j]
        BY <1>1, <3>1
      <3> QED BY <3>1, <3>2, <3>3
    <2> QED BY <2>1, <2>2
  <1>4. AnswersLatest(m)
    <2> SUFFICES ASSUME NEW k \in 1..(n + 1), m[k].record.type = "response"
                 PROVE  \E i \in {i \in 1..(k - 1) : m[i].record.type = "turn"} :
                          /\ \A j \in {j \in 1..(k - 1) : m[j].record.type = "turn"} : j <= i
                          /\ m[i].record.turn = m[k].record.turn
      BY <1>2 DEF AnswersLatest
    <2> QED BY <1>3
  <1> QED BY <1>4 DEF m

LEMMA NewestAppend ==
    ASSUME NEW l, IsSequence(l), NEW latest, NewestIs(l, latest), NEW x, NEW after,
           after = IF x.record.type = "turn" THEN x.record.turn ELSE latest
    PROVE  NewestIs(Append(l, x), after)
  <1> DEFINE m == Append(l, x)
             n == Len(l)
  <1>1. n \in Nat /\ Len(m) = n + 1 /\ m[n + 1] = x /\ \A i \in 1..n : m[i] = l[i]
    BY AppendFacts
  <1> HIDE DEF m, n
  <1>2. NewestIs(m, after)
    <2> SUFFICES ASSUME NEW k \in 1..(n + 1), m[k].record.type = "turn",
                        \A j \in (k + 1)..(n + 1) : m[j].record.type # "turn"
                 PROVE  m[k].record.turn = after
      BY <1>1 DEF NewestIs
    <2>1. CASE k = n + 1
      BY <1>1, <2>1
    <2>2. CASE k # n + 1
      <3>1. k \in 1..n /\ m[k] = l[k] /\ n + 1 \in (k + 1)..(n + 1)
        BY <1>1, <2>2
      <3>2. x.record.type # "turn"
        BY <1>1, <3>1
      <3>3. \A j \in (k + 1)..n : l[j].record.type # "turn"
        BY <1>1, <3>1
      <3> QED BY <3>1, <3>2, <3>3 DEF NewestIs, n
    <2> QED BY <2>1, <2>2
  <1> QED BY <1>2 DEF m

(* A turn of the session is on record, and a newest one with it. *)
LEMMA NewestExists ==
    ASSUME NEW l, IsSequence(l), NEW k \in 1..Len(l), l[k].record.type = "turn"
    PROVE  \E i \in 1..Len(l) : /\ l[i].record.type = "turn"
                                /\ \A j \in (i + 1)..Len(l) : l[j].record.type # "turn"
  <1> DEFINE T == {i \in 1..Len(l) : l[i].record.type = "turn"}
             i == KeepItems!Max(T)
  <1>1. Len(l) \in Nat
    BY DEF IsSequence
  <1>2. T \in SUBSET (1..Len(l)) /\ T # {}
    OBVIOUS
  <1>3. i \in T /\ \A j \in T : i >= j
    <2> HIDE DEF T
    <2> QED BY <1>1, <1>2, KeepItems!MaxFacts
  <1> HIDE DEF i
  <1>4. \A j \in (i + 1)..Len(l) : l[j].record.type # "turn"
    BY <1>1, <1>3
  <1> QED BY <1>3, <1>4

LEMMA NextLogInv ==
    ASSUME Inv, Inv', LogInv, [Next]_vars
    PROVE  LogInv'
  <1>1. CASE UNCHANGED <<log, image>>
    BY <1>1 DEF LogInv, LogReadsBack, head
  <1>2. ASSUME NEW r, Records(r)
        PROVE  LogInv'
    <2> DEFINE h == Decode(log).head
               x == Line(h, r)
    <2>1. /\ IsSequence(log) /\ Decode(log).ok /\ image = Image(log) /\ FaithfulLog(log)
          /\ NewestIs(log, head.latest) /\ AnswersLatest(log)
      BY DEF LogInv, LogReadsBack
    <2>2. head = h
      BY <2>1 DEF head, Image
    <2>3. CanAppend(h, r) /\ log' = Append(log, x) /\ image' = Extend(image, r) /\ Faithful(h, r)
      BY <1>2, <2>2 DEF Records, Appends
    <2> HIDE DEF h
    <2>4. /\ IsSequence(Append(log, x)) /\ Decode(Append(log, x)).ok /\ ~IsFork(x) /\ x.record = r
          /\ Image(Append(log, x)) = Extend(Image(log), r)
      BY <2>1, <2>3, ImageAppend DEF h
    <2> HIDE DEF x
    <2>5. FaithfulLog(Append(log, x))
      BY <2>1, <2>3, <2>4, FaithfulAppend DEF h
    <2>6. head'.latest = IF r.type = "turn" THEN r.turn ELSE head.latest
      <3>1. head' = AppendTo(h, r)
        BY <2>2, <2>3 DEF head, Extend
      <3>2. IsHead(h)
        BY <2>1, DecodeFacts DEF DecodesWell, h
      <3>3. CASE r.type = "turn"
        <4>1. HeadShape(h)
          BY <3>2 DEF IsHead
        <4>2. AppendTo(h, r).latest = r.turn
          BY <3>3, <4>1, AppendTurnFacts
        <4> QED BY <3>1, <3>3, <4>2
      <3>4. CASE r.type # "turn"
        <4>1. AppendTo(h, r).latest = h.latest
          BY <2>3, <3>2, <3>4, AppendLatest
        <4> QED BY <2>2, <3>1, <3>4, <4>1
      <3> QED BY <3>3, <3>4
    <2>7. NewestIs(Append(log, x), head'.latest)
      BY <2>1, <2>4, <2>6, NewestAppend
    <2>8. AnswersLatest(Append(log, x))
      <3>1. ASSUME r.type = "response"
            PROVE  \E k \in 1..Len(log) :
                     /\ log[k].record.type = "turn" /\ log[k].record.turn = r.turn
                     /\ \A j \in (k + 1)..Len(log) : log[j].record.type # "turn"
        <4>1. Up /\ modelActive /\ r.turn = ls.turn
          BY <1>2, <3>1 DEF Records
        <4>2. ls.turn \in head.owned /\ ls.turn = head.latest
          BY <4>1 DEF Inv, ControlOK, MemoryOK, Agree, ImageInv, TurnsOK, head
        <4>3. head.owned = OwnTurns(log)
          BY <2>1, <2>2, OwnFacts DEF OwnsOwn, h
        <4>4. PICK k \in (Inherited(log) + 1)..Len(log) : log[k].record.type = "turn"
          BY <4>2, <4>3 DEF OwnTurns
        <4>5. k \in 1..Len(log)
          BY <2>1, InheritedFacts DEF IsSequence
        <4>6. PICK i \in 1..Len(log) :
                /\ log[i].record.type = "turn"
                /\ \A j \in (i + 1)..Len(log) : log[j].record.type # "turn"
          BY <2>1, <4>4, <4>5, NewestExists
        <4>7. log[i].record.turn = head.latest
          BY <2>1, <4>6 DEF NewestIs
        <4> QED BY <4>1, <4>2, <4>6, <4>7
      <3> QED BY <2>1, <2>4, <3>1, AnswersAppend
    <2>9. Image(log') = image'
      BY <2>1, <2>3, <2>4
    <2> QED BY <2>3, <2>4, <2>5, <2>7, <2>8, <2>9 DEF LogInv, LogReadsBack
  <1> QED BY <1>1, <1>2, StepRecords

(* What the log says holds in every reachable state (state.go:56-284,      *)
(* codec.go:87-206, loop.go:878-941).                                      *)
THEOREM LogInvariant == Spec => []LogInv
  <1>1. Init => LogInv
    BY InitLogInv
  <1>2. Inv /\ Inv' /\ LogInv /\ [Next]_vars => LogInv'
    BY NextLogInv
  <1> QED BY <1>1, <1>2, InvHolds, PTL DEF Spec

(* Reading the log back from its first line gives what appending to it     *)
(* record by record has built up, from whatever fork the session started,  *)
(* and finds no fault in it (codec.go:87-206, loop.go:496-521).            *)
THEOREM LogAlwaysReadsBack == Spec => []LogReadsBack
  <1>1. LogInv => LogReadsBack
    BY DEF LogInv
  <1> QED BY <1>1, LogInvariant, PTL

(* A late response to an interrupted turn is never recorded as an answer:  *)
(* every response on record is to the newest turn before it                *)
(* (loop.go:153-156).                                                      *)
THEOREM ResponsesAnswerLatest == Spec => []ResponseAnswersLatestTurn
  <1>1. LogInv => ResponseAnswersLatestTurn
    BY DEF LogInv, ResponseAnswersLatestTurn
  <1> QED BY <1>1, LogInvariant, PTL

(* The coordinator keeps to what Resume needs: it saves nothing of an      *)
(* operation that has ended, and the final status of a call carries the    *)
(* stored states of its operations (loop.go:829-869, 929-941).             *)
THEOREM CoordinatorIsFaithful == Spec => []FaithfulLog(log)
  <1>1. LogInv => FaithfulLog(log)
    BY DEF LogInv
  <1> QED BY <1>1, LogInvariant, PTL

-----------------------------------------------------------------------------
(* The inbox and the log *)

IsInput(k) == log[k].record.type = "input"

(* What waits in the inbox has been seen, is there once and is not on      *)
(* record.  A recorded message has been seen by the inbox of this run, and *)
(* a recorded control input has used up its ID.                            *)
InboxInv ==
    /\ ~Up => queue = << >>
    /\ \A id \in seen : id \in ControlIDs => id \in issued
    /\ \A i \in DOMAIN queue :
         /\ queue[i].id \in seen
         /\ IF queue[i].kind = "external" THEN queue[i].id \in External
                                          ELSE queue[i].id \in ControlIDs \cap issued
         /\ \A j \in DOMAIN queue : queue[j].id = queue[i].id => i = j
         /\ \A k \in DOMAIN log : IsInput(k) => log[k].record.id # queue[i].id
    /\ \A k \in DOMAIN log :
         IsInput(k) =>
           /\ log[k].record.id \in ControlIDs => log[k].record.id \in issued
           /\ IF log[k].record.kind = "external" THEN Up => log[k].record.id \in seen
                                                 ELSE log[k].record.id \notin External
    /\ RecordedOnce(log)

LEMMA InitInboxInv == Init => InboxInv
  <1> SUFFICES ASSUME Init PROVE InboxInv
    OBVIOUS
  <1>1. log = InitialLog /\ queue = << >> /\ ~Up
    BY DEF Init, Up
  <1>0. seen = {}
    BY DEF Init
  <1>2. \A k \in DOMAIN log : IsInput(k) =>
           /\ log[k].record.id \notin ControlIDs
           /\ log[k].record.kind # "external" => log[k].record.id \notin External
    BY <1>1, IDsAssumption DEF IsInput
  <1>3. RecordedOnce(log)
    BY <1>1, InitialLogAssumption
  <1> QED BY <1>0, <1>1, <1>2, <1>3 DEF InboxInv

LEMMA QueueAppend ==
    ASSUME NEW q \in Seq(Queued), NEW x \in Queued
    PROVE  /\ DOMAIN q = 1..Len(q) /\ DOMAIN Append(q, x) = 1..(Len(q) + 1) /\ Len(q) \in Nat
           /\ \A k \in DOMAIN q : Append(q, x)[k] = q[k]
           /\ Append(q, x)[Len(q) + 1] = x
  BY AppendProperties, LenProperties

LEMMA QueueTail ==
    ASSUME NEW q \in Seq(Queued), q # << >>
    PROVE  /\ Head(q) = q[1] /\ Head(q) \in Queued /\ 1 \in DOMAIN q
           /\ \A k \in DOMAIN Tail(q) :
                k \in Nat /\ k >= 1 /\ k + 1 \in DOMAIN q /\ Tail(q)[k] = q[k + 1]
  <1>1. /\ Head(q) = q[1] /\ Head(q) \in Queued
        /\ Tail(q) \in Seq(Queued) /\ Len(Tail(q)) = Len(q) - 1
        /\ \A k \in 1..Len(Tail(q)) : Tail(q)[k] = q[k + 1]
    BY HeadTailProperties
  <1>2. /\ Len(q) \in Nat \ {0} /\ DOMAIN q = 1..Len(q)
        /\ DOMAIN Tail(q) = 1..Len(Tail(q))
    BY <1>1, LenProperties, EmptySeq
  <1> QED BY <1>1, <1>2

(* What a step does to the inbox.  Admits: an input is submitted whose ID  *)
(* was not seen and, if it is a control input's, never used.               *)
Admits(id, kind) ==
    /\ Up /\ Up'
    /\ id \notin seen /\ id \notin issued
    /\ seen' = seen \cup {id}
    /\ queue' = Append(queue, Input(id, kind))
    /\ IF kind = "external" THEN id \in External /\ issued' = issued
                            ELSE id \in ControlIDs /\ issued' = issued \cup {id}
    /\ UNCHANGED <<log, image>>

Leaves == UNCHANGED <<queue, seen>> /\ issued \subseteq issued' /\ Up' = Up

Ends ==
    /\ ~Up' /\ queue' = << >> /\ seen' = {}
    /\ issued' = issued /\ UNCHANGED <<log, image>>

LEMMA StepInbox ==
    ASSUME InboxInv, [Next]_vars
    PROVE  \/ Start \/ TakeInput \/ Leaves \/ Ends
           \/ \E id, kind : Admits(id, kind)
  <1>1. ASSUME NEW key, NEW ops, ScheduleToolCall(key, ops) \/ ReconcileToolCall(key)
        PROVE  Leaves
    BY <1>1 DEF ScheduleToolCall, ReconcileToolCall, envVars, Leaves, Up
  <1>2. ASSUME NEW turn \in inflight, NEW calls, TakeResponse(turn, calls) \/ DropResponse(turn)
        PROVE  Leaves
    BY <1>2 DEF TakeResponse, DropResponse, TopOfLoop, Leaves, Up
  <1>3. ASSUME NEW to \in {"down", "stopped"}, Exit(to), UNCHANGED <<storeVars, issued>>
        PROVE  Ends
    BY <1>3 DEF Exit, Ends, Up, storeVars
  <1>4. ASSUME NEW turn \in inflight, ModelFails(turn)
        PROVE  Ends
    BY <1>3, <1>4 DEF ModelFails
  <1>5. ASSUME NEW id, NEW kind, Submit(id, kind),
               IF kind = "external" THEN id \in External ELSE id \in ControlIDs
        PROVE  Admits(id, kind)
    BY <1>5 DEF Submit, Admits, loopVars, storeVars, Up
  <1>6. ASSUME NEW id, NEW kind, Submit(id, kind),
               \/ id \in External /\ kind = "external"
               \/ id \in HardStops /\ kind = "hard"
               \/ id \in IdleStops /\ kind = "when_idle"
               \/ id \in Settings /\ kind = "settings"
        PROVE  Admits(id, kind)
    BY <1>5, <1>6 DEF ControlIDs
  <1>7. ASSUME NEW op, OperationProgresses(op) \/ OperationEnds(op)
        PROVE  Leaves
    BY <1>7 DEF OperationProgresses, OperationEnds, loopVars, Leaves, Up
  <1>8. CASE PostHeartbeat
    <2>1. PICK n \in 1..MaxHeartbeats :
                 /\ HeartbeatID(n) \notin issued
                 /\ issued' = issued \cup {HeartbeatID(n)}
                 /\ seen' = seen \cup {HeartbeatID(n)}
                 /\ queue' = Append(queue, Input(HeartbeatID(n), "heartbeat"))
      BY <1>8 DEF PostHeartbeat
    <2>2. HeartbeatID(n) \in ControlIDs
      BY DEF ControlIDs, HeartbeatIDs
    <2>3. HeartbeatID(n) \notin seen
      BY <2>1, <2>2 DEF InboxInv
    <2>4. Up /\ Up' /\ UNCHANGED <<log, image>>
      BY <1>8 DEF PostHeartbeat, Up, storeVars
    <2>5. Admits(HeartbeatID(n), "heartbeat")
      BY <2>1, <2>2, <2>3, <2>4 DEF Admits
    <2> QED BY <2>5
  <1>9. CASE BootScheduled \/ BootDispatch \/ TakeUpdate \/ GraceExpires \/ ResponseScheduled
             \/ SlurpEnds \/ RequestModel
    <2>1. UNCHANGED <<queue, seen, issued>>
      BY <1>9 DEF BootScheduled, BootDispatch, TakeUpdate, GraceExpires, ResponseScheduled,
                  SlurpEnds, RequestModel, envVars
    <2>2. Up /\ Up'
      BY <1>9 DEF BootScheduled, BootDispatch, TakeUpdate, GraceExpires, ResponseScheduled,
                  SlurpEnds, RequestModel, TopOfLoop, Up
    <2> QED BY <2>1, <2>2 DEF Leaves
  <1>10. CASE HardStop
    <2>1. CASE Exit("stopped")
      BY <1>3, <1>10, <2>1 DEF HardStop
    <2>2. CASE ~Exit("stopped")
      BY <1>10, <2>2 DEF HardStop, TopOfLoop, Leaves, Up
    <2> QED BY <2>1, <2>2
  <1>11. CASE WaitOrStop
    <2>1. CASE Exit("stopped")
      BY <1>3, <1>11, <2>1 DEF WaitOrStop
    <2>2. CASE ~Exit("stopped")
      BY <1>11, <2>2 DEF WaitOrStop, TopOfLoop, Leaves, Up
    <2> QED BY <2>1, <2>2
  <1>12. CASE Die
    BY <1>3, <1>12 DEF Die
  <1>13. CASE UNCHANGED vars
    BY <1>13 DEF vars, loopVars, envVars, Leaves, Up
  <1>14. CASE \/ \E id \in External : Submit(id, "external")
              \/ \E id \in HardStops : Submit(id, "hard")
              \/ \E id \in IdleStops : Submit(id, "when_idle")
              \/ \E id \in Settings : Submit(id, "settings")
    <2>1. PICK id, kind : /\ Submit(id, kind)
                          /\ \/ id \in External /\ kind = "external"
                             \/ id \in HardStops /\ kind = "hard"
                             \/ id \in IdleStops /\ kind = "when_idle"
                             \/ id \in Settings /\ kind = "settings"
      BY <1>14
    <2> QED BY <1>6, <2>1
  <1>15. CASE \E key \in DOMAIN ls.toolCalls :
                \/ \E ops \in OpsOf(key[2]) \cup {{}} : ScheduleToolCall(key, ops)
                \/ ReconcileToolCall(key)
    BY <1>1, <1>15
  <1>16. CASE \E turn \in inflight :
                \/ \E calls \in SUBSET (Calls \ issued) : TakeResponse(turn, calls)
                \/ DropResponse(turn)
                \/ ModelFails(turn)
    BY <1>2, <1>4, <1>16
  <1>17. CASE \E op \in DOMAIN manager : OperationProgresses(op) \/ OperationEnds(op)
    BY <1>7, <1>17
  <1> QED BY <1>8, <1>9, <1>10, <1>11, <1>12, <1>13, <1>14, <1>15, <1>16, <1>17 DEF Next

LEMMA SameLogInbox ==
    ASSUME InboxInv, UNCHANGED <<log, image>>, queue' = << >>, issued' = issued,
           \A id \in seen' : id \in ControlIDs => id \in issued,
           Up' => \A k \in DOMAIN log : IsInput(k) /\ log[k].record.kind = "external" =>
                    log[k].record.id \in seen'
    PROVE  InboxInv'
  BY DEF InboxInv, IsInput

(* Another record than an input, or none. *)
LEMMA LeavesInbox ==
    ASSUME InboxInv, Leaves, IsSequence(log),
           UNCHANGED log \/ \E x : log' = Append(log, x) /\ x.record.type # "input"
    PROVE  InboxInv'
  <1>1. \A k \in DOMAIN log' : IsInput(k)' => k \in DOMAIN log /\ log'[k] = log[k] /\ IsInput(k)
    <2>1. CASE UNCHANGED log
      BY <2>1 DEF IsInput
    <2>2. ASSUME NEW x, log' = Append(log, x), x.record.type # "input"
          PROVE  \A k \in DOMAIN log' : IsInput(k)' => k \in DOMAIN log /\ log'[k] = log[k] /\ IsInput(k)
      <3>1. /\ Len(log) \in Nat /\ DOMAIN log = 1..Len(log) /\ DOMAIN log' = 1..(Len(log) + 1)
            /\ log'[Len(log) + 1] = x /\ \A k \in 1..Len(log) : log'[k] = log[k]
        BY <2>2, AppendFacts DEF IsSequence
      <3>2. log'[Len(log) + 1].record.type # "input"
        BY <2>2, <3>1
      <3>3. \A k \in DOMAIN log' : k \in DOMAIN log \/ k = Len(log) + 1
        BY <3>1
      <3> QED BY <3>1, <3>2, <3>3 DEF IsInput
    <2> QED BY <2>1, <2>2
  <1>2. RecordedOnce(log')
    <2>1. RecordedOnce(log)
      BY DEF InboxInv
    <2> QED BY <1>1, <2>1 DEF RecordedOnce, IsInput
  <1> QED BY <1>1, <1>2 DEF InboxInv, Leaves

LEMMA AdmitsInbox ==
    ASSUME Inv, Inv', InboxInv, NEW id, NEW kind, Admits(id, kind)
    PROVE  InboxInv'
  <1> DEFINE x == Input(id, kind)
             n == Len(queue)
  <1>1. x.id = id /\ x.kind = kind /\ queue' = Append(queue, x) /\ queue \in Seq(Queued)
    BY DEF Input, Admits, Inv, Modes
  <1>2. x \in Queued
    <2>1. queue' \in Seq(Queued)
      BY DEF Inv, Modes
    <2>2. IsSequence(queue)
      BY <1>1, SequenceIn
    <2> HIDE DEF x
    <2>3. queue'[n + 1] = x /\ n + 1 \in 1..Len(queue')
      BY <1>1, <2>2, AppendFacts
    <2> QED BY <2>1, <2>3, ElementOfSeq
  <1> HIDE DEF x
  <1>3. /\ DOMAIN queue = 1..n /\ DOMAIN queue' = 1..(n + 1) /\ n \in Nat
        /\ \A k \in DOMAIN queue : queue'[k] = queue[k]
        /\ queue'[n + 1] = x
    BY <1>1, <1>2, QueueAppend
  <1> HIDE DEF n
  <1>4. \A k \in DOMAIN log : IsInput(k) => log[k].record.id # id
    <2> SUFFICES ASSUME NEW k \in DOMAIN log, IsInput(k), log[k].record.id = id PROVE FALSE
      OBVIOUS
    <2>1. log[k].record.kind # "external"
      BY DEF InboxInv, Admits
    <2>2. id \in ControlIDs
      BY <2>1 DEF InboxInv, Admits
    <2> QED BY <2>2 DEF InboxInv, Admits
  <1>5. /\ issued \subseteq issued' /\ id \in seen' /\ seen \subseteq seen'
        /\ IF kind = "external" THEN id \in External ELSE id \in ControlIDs \cap issued'
        /\ log' = log /\ Up /\ Up' /\ id \notin seen
    BY DEF Admits
  <1>6. \A k : IsInput(k)' = IsInput(k)
    BY <1>5 DEF IsInput
  <1>7. ASSUME NEW i \in DOMAIN queue'
        PROVE  /\ queue'[i].id \in seen'
               /\ IF queue'[i].kind = "external" THEN queue'[i].id \in External
                                          ELSE queue'[i].id \in ControlIDs \cap issued'
               /\ \A j \in DOMAIN queue' : queue'[j].id = queue'[i].id => i = j
               /\ \A k \in DOMAIN log : IsInput(k) => log[k].record.id # queue'[i].id
    <2>1. CASE i = n + 1
      <3>1. \A j \in DOMAIN queue : queue'[j].id \in seen
        BY <1>3 DEF InboxInv
      <3>2. \A j \in DOMAIN queue' : j # n + 1 => j \in DOMAIN queue
        BY <1>3
      <3> QED BY <1>1, <1>3, <1>4, <1>5, <2>1, <3>1, <3>2
    <2>2. CASE i # n + 1
      <3>1. i \in DOMAIN queue /\ queue'[i] = queue[i]
        BY <1>3, <2>2
      <3>2. queue[i].id \in seen
        BY <3>1 DEF InboxInv
      <3>3. \A j \in DOMAIN queue' : queue'[j].id = queue'[i].id => j \in DOMAIN queue /\ queue'[j] = queue[j]
        BY <1>1, <1>3, <1>5, <3>1, <3>2
      <3> QED BY <1>5, <3>1, <3>2, <3>3 DEF InboxInv
    <2> QED BY <2>1, <2>2
  <1>8. \A i \in seen' : i \in ControlIDs => i \in issued'
    BY IDsAssumption DEF InboxInv, Admits
  <1> QED BY <1>5, <1>6, <1>7, <1>8 DEF InboxInv

LEMMA TakesInbox ==
    ASSUME Inv, InboxInv, IsSequence(log), TakeInput, NEW x,
           log' = Append(log, x), x.record = Head(queue)
    PROVE  InboxInv'
  <1> DEFINE n == Len(log)
             r == Head(queue)
  <1>1. /\ queue # << >> /\ queue' = Tail(queue) /\ seen' = seen /\ issued' = issued
        /\ Up /\ Up'
    BY DEF TakeInput, Up
  <1>2. /\ r = queue[1] /\ r \in Queued /\ 1 \in DOMAIN queue
        /\ \A i \in DOMAIN queue' :
             i \in Nat /\ i >= 1 /\ i + 1 \in DOMAIN queue /\ queue'[i] = queue[i + 1]
    BY <1>1, QueueTail DEF Inv, Modes
  <1>3. /\ n \in Nat /\ DOMAIN log = 1..n /\ DOMAIN log' = 1..(n + 1)
        /\ log'[n + 1] = x /\ \A k \in 1..n : log'[k] = log[k]
    BY AppendFacts DEF IsSequence
  <1> HIDE DEF n, r
  <1>4. x.record = r
    BY DEF r
  <1>5. /\ r.id \in seen
        /\ IF r.kind = "external" THEN r.id \in External ELSE r.id \in ControlIDs \cap issued
        /\ \A k \in DOMAIN log : IsInput(k) => log[k].record.id # r.id
    BY <1>2 DEF InboxInv
  <1>6. \A k \in DOMAIN log' : k = n + 1 \/ (k \in DOMAIN log /\ log'[k] = log[k] /\ IsInput(k)' = IsInput(k))
    BY <1>3 DEF IsInput
  <1>7. \A i \in DOMAIN queue' : queue'[i].id # r.id
    <2> SUFFICES ASSUME NEW i \in DOMAIN queue', queue'[i].id = r.id PROVE FALSE
      OBVIOUS
    <2>1. i + 1 \in DOMAIN queue /\ queue[i + 1].id = queue[1].id /\ i \in Nat /\ i >= 1
      BY <1>2
    <2>2. i + 1 = 1
      BY <1>2, <2>1 DEF InboxInv
    <2> QED BY <2>1, <2>2
  <1>8. ASSUME NEW i \in DOMAIN queue'
        PROVE  /\ queue'[i].id \in seen'
               /\ IF queue'[i].kind = "external" THEN queue'[i].id \in External
                                          ELSE queue'[i].id \in ControlIDs \cap issued'
               /\ \A j \in DOMAIN queue' : queue'[j].id = queue'[i].id => i = j
               /\ \A k \in DOMAIN log' : IsInput(k)' => log'[k].record.id # queue'[i].id
    <2>1. i + 1 \in DOMAIN queue /\ queue'[i] = queue[i + 1] /\ i \in Nat
      BY <1>2
    <2>2. /\ queue'[i].id \in seen'
          /\ IF queue'[i].kind = "external" THEN queue'[i].id \in External
                                     ELSE queue'[i].id \in ControlIDs \cap issued'
          /\ \A k \in DOMAIN log : IsInput(k) => log[k].record.id # queue'[i].id
      BY <1>1, <2>1 DEF InboxInv
    <2>3. \A j \in DOMAIN queue' : queue'[j].id = queue'[i].id => i = j
      <3> SUFFICES ASSUME NEW j \in DOMAIN queue', queue'[j].id = queue'[i].id PROVE i = j
        OBVIOUS
      <3>1. j + 1 \in DOMAIN queue /\ queue'[j] = queue[j + 1] /\ j \in Nat
        BY <1>2
      <3>2. i + 1 = j + 1
        BY <2>1, <3>1 DEF InboxInv
      <3> QED BY <2>1, <3>1, <3>2
    <2>4. \A k \in DOMAIN log' : IsInput(k)' => log'[k].record.id # queue'[i].id
      BY <1>3, <1>4, <1>6, <1>7, <2>2
    <2> QED BY <2>2, <2>3, <2>4
  <1>9. ASSUME NEW k \in DOMAIN log', IsInput(k)'
        PROVE  /\ log'[k].record.id \in ControlIDs => log'[k].record.id \in issued'
               /\ IF log'[k].record.kind = "external" THEN log'[k].record.id \in seen'
                                                      ELSE log'[k].record.id \notin External
    <2>1. CASE k = n + 1
      BY <1>1, <1>3, <1>4, <1>5, <2>1, IDsAssumption
    <2>2. CASE k # n + 1
      BY <1>1, <1>6, <1>9, <2>2 DEF InboxInv
    <2> QED BY <2>1, <2>2
  <1>10. RecordedOnce(log')
    <2> SUFFICES ASSUME NEW j \in DOMAIN log', NEW k \in DOMAIN log',
                        IsInput(j)', IsInput(k)', log'[j].record.id = log'[k].record.id
                 PROVE  j = k
      BY DEF RecordedOnce, IsInput
    <2>1. CASE j = n + 1 \/ k = n + 1
      BY <1>3, <1>4, <1>5, <1>6, <2>1
    <2>2. CASE j # n + 1 /\ k # n + 1
      <3>1. j \in DOMAIN log /\ k \in DOMAIN log /\ log'[j] = log[j] /\ log'[k] = log[k] /\ IsInput(j) /\ IsInput(k)
        BY <1>6, <2>2
      <3>2. RecordedOnce(log)
        BY DEF InboxInv
      <3> QED BY <3>1, <3>2 DEF RecordedOnce, IsInput
    <2> QED BY <2>1, <2>2
  <1>11. \A id \in seen' : id \in ControlIDs => id \in issued'
    BY <1>1 DEF InboxInv
  <1> QED BY <1>1, <1>8, <1>9, <1>10, <1>11 DEF InboxInv

LEMMA NextInboxInv ==
    ASSUME Inv, Inv', LogInv, InboxInv, [Next]_vars
    PROVE  InboxInv'
  <1>0. IsSequence(log)
    BY DEF LogInv
  <1>1. CASE Start
    <2>1. /\ seen' = image.inputIDs /\ queue' = queue /\ queue = << >> /\ issued' = issued
          /\ UNCHANGED <<log, image>>
      BY <1>1 DEF Start, storeVars, InboxInv
    <2>2. image.inputIDs = ResumeInputIDs(log)
      BY DEF LogInv, LogReadsBack, Image
    <2>3. \A id : id \in ResumeInputIDs(log) <=>
            \E k \in DOMAIN log : IsInput(k) /\ log[k].record.kind = "external" /\ log[k].record.id = id
      BY DEF ResumeInputIDs, IsInput
    <2>4. \A id \in seen' : id \in ControlIDs => id \in issued
      BY <2>1, <2>2, <2>3 DEF InboxInv
    <2> QED BY <2>1, <2>2, <2>3, <2>4, SameLogInbox
  <1>2. CASE TakeInput
    <2>1. Persist(Head(queue)) /\ queue # << >>
      BY <1>2 DEF TakeInput, HandleInput
    <2>2. log' = Append(log, Line(head, Head(queue)))
      BY <2>1, PersistAppends DEF Appends
    <2>3. Line(head, Head(queue)).record = Head(queue)
      BY DEF Line
    <2> QED BY <1>0, <1>2, <2>2, <2>3, TakesInbox
  <1>3. CASE Leaves
    <2>1. CASE TakeInput
      BY <1>2, <2>1
    <2>2. CASE ~TakeInput
      <3>1. UNCHANGED log \/ \E r : log' = Append(log, Line(head, r)) /\ r.type # "input"
        BY <2>2, StepRecords DEF Records, Appends
      <3>2. \A r : Line(head, r).record = r
        BY DEF Line
      <3>3. UNCHANGED log \/ \E x : log' = Append(log, x) /\ x.record.type # "input"
        BY <3>1, <3>2
      <3> QED BY <1>0, <1>3, <3>3, LeavesInbox
    <2> QED BY <2>1, <2>2
  <1>4. CASE Ends
    BY <1>4 DEF Ends, InboxInv, IsInput
  <1>5. ASSUME NEW id, NEW kind, Admits(id, kind)
        PROVE  InboxInv'
    BY <1>5, AdmitsInbox
  <1> QED BY <1>1, <1>2, <1>3, <1>4, <1>5, StepInbox

(* What the inbox and the log say of the same inputs holds in every        *)
(* reachable state, across restarts too (state.go:286-318, local.go:16-77). *)
THEOREM InboxInvariant == Spec => []InboxInv
  <1>1. Init => InboxInv
    BY InitInboxInv
  <1>2. Inv /\ Inv' /\ LogInv /\ InboxInv /\ [Next]_vars => InboxInv'
    BY NextInboxInv
  <1> QED BY <1>1, <1>2, InvHolds, LogInvariant, PTL DEF Spec

(* A message is recorded at most once, however often users submit it and   *)
(* however often the session is restarted, and no two control inputs share *)
(* an ID on record (state.go:286-318, local.go:16-23, 73-77).              *)
THEOREM MessagesRecordedOnce == Spec => []MessageRecordedOnce
  <1>1. InboxInv => MessageRecordedOnce
    BY DEF InboxInv, MessageRecordedOnce
  <1> QED BY <1>1, InboxInvariant, PTL

-----------------------------------------------------------------------------
(* The counters of inputs *)

LEMMA LatestInSeq ==
    ASSUME NEW c, IsSequence(c)
    PROVE  LET last == SelectLastInSeq(c, LAMBDA entry : entry.kind = "response")
           IN {k \in (last + 1)..Len(c) : ~c[k].running} = Owed(c)
  <1> DEFINE I == {i \in 1..Len(c) : c[i].kind = "response"}
             last == SelectLastInSeq(c, LAMBDA entry : entry.kind = "response")
  <1>1. Len(c) \in Nat
    BY DEF IsSequence
  <1>2. last = IF I # {} THEN Max(I) ELSE 0
    BY Zenon DEF SelectLastInSeq
  <1>3. I # {} => Max(I) \in I /\ \A y \in I : Max(I) >= y
    <2>1. I \in SUBSET (1..Len(c))
      OBVIOUS
    <2> HIDE DEF I
    <2>2. \A x : Max(x) = KeepItems!Max(x)
      BY Zenon DEF Max, KeepItems!Max
    <2> QED BY <1>1, <2>1, <2>2, KeepItems!MaxFacts
  <1> HIDE DEF last
  <1>4. last \in 0..Len(c) /\ (\A y \in I : last >= y) /\ (last # 0 => last \in I)
    BY <1>1, <1>2, <1>3
  <1>5. ASSUME NEW k \in 1..Len(c)
        PROVE  k > last <=> \A j \in k..Len(c) : c[j].kind # "response"
    BY <1>1, <1>4
  <1>6. \A k : k \in (last + 1)..Len(c) <=> k \in 1..Len(c) /\ k > last
    BY <1>1, <1>4
  <1> QED BY <1>5, <1>6 DEF Owed, last

(* A log whose responses answer the newest turn is one without its last    *)
(* line, and what that line may be.                                        *)
LEMMA AnswersFront ==
    ASSUME NEW l, IsSequence(l), NEW x, AnswersLatest(Append(l, x))
    PROVE  /\ AnswersLatest(l)
           /\ x.record.type = "response" =>
                \E k \in 1..Len(l) : /\ l[k].record.type = "turn" /\ l[k].record.turn = x.record.turn
                                     /\ \A j \in (k + 1)..Len(l) : l[j].record.type # "turn"
  <1> DEFINE m == Append(l, x)
             n == Len(l)
  <1>1. n \in Nat /\ Len(m) = n + 1 /\ m[n + 1] = x /\ \A i \in 1..n : m[i] = l[i]
    BY AppendFacts
  <1>2. DOMAIN l = 1..n /\ DOMAIN m = 1..(n + 1)
    BY <1>1, AppendFacts DEF IsSequence
  <1>3. AnswersLatest(m)
    OBVIOUS
  <1> HIDE DEF m, n
  <1>4. ASSUME NEW k \in 1..(n + 1), m[k].record.type = "response"
        PROVE  \E i \in 1..(k - 1) :
                 /\ m[i].record.type = "turn" /\ m[i].record.turn = m[k].record.turn
                 /\ \A j \in 1..(k - 1) : m[j].record.type = "turn" => j <= i
    <2>1. PICK i \in {i \in 1..(k - 1) : m[i].record.type = "turn"} :
               /\ \A j \in {j \in 1..(k - 1) : m[j].record.type = "turn"} : j <= i
               /\ m[i].record.turn = m[k].record.turn
      BY <1>2, <1>3, <1>4 DEF AnswersLatest
    <2> QED BY <2>1
  <1>5. AnswersLatest(l)
    <2> SUFFICES ASSUME NEW k \in 1..n, l[k].record.type = "response"
                 PROVE  \E i \in {i \in 1..(k - 1) : l[i].record.type = "turn"} :
                          /\ \A j \in {j \in 1..(k - 1) : l[j].record.type = "turn"} : j <= i
                          /\ l[i].record.turn = l[k].record.turn
      BY <1>2 DEF AnswersLatest
    <2>1. k \in 1..(n + 1) /\ m[k] = l[k]
      BY <1>1
    <2>2. PICK i \in 1..(k - 1) :
                 /\ m[i].record.type = "turn" /\ m[i].record.turn = m[k].record.turn
                 /\ \A j \in 1..(k - 1) : m[j].record.type = "turn" => j <= i
      BY <1>4, <2>1
    <2>3. \A j \in 1..(k - 1) : m[j] = l[j]
      BY <1>1
    <2> QED BY <2>1, <2>2, <2>3
  <1>6. ASSUME x.record.type = "response"
        PROVE  \E k \in 1..n : /\ l[k].record.type = "turn" /\ l[k].record.turn = x.record.turn
                               /\ \A j \in (k + 1)..n : l[j].record.type # "turn"
    <2>1. n + 1 \in 1..(n + 1) /\ (n + 1) - 1 = n
      BY <1>1
    <2>2. PICK i \in 1..n :
                 /\ m[i].record.type = "turn" /\ m[i].record.turn = m[n + 1].record.turn
                 /\ \A j \in 1..n : m[j].record.type = "turn" => j <= i
      BY <1>1, <1>4, <1>6, <2>1
    <2>3. \A j \in (i + 1)..n : l[j].record.type # "turn"
      BY <1>1, <2>2
    <2> QED BY <1>1, <2>2, <2>3
  <1> QED BY <1>5, <1>6 DEF n

(* Replaying any log in which responses answer the newest turn gives a     *)
(* state whose counters agree with its context.                            *)
ReplaysBalanced(l) ==
    /\ IsLoopState(Replayed(Items(l))) /\ Balanced(Replayed(Items(l)))
    /\ NewestIs(l, Replayed(Items(l)).turn)

LEMMA ReplayedOne ==
    ASSUME NEW l, IsSequence(l), NEW x
    PROVE  Replayed(Items(Append(l, x))) =
             IF IsItem(x.record) THEN AddItem(Replayed(Items(l)), x.record) ELSE Replayed(Items(l))
  <1>1. IsSequence(Items(l))
    BY ItemsFacts DEF ItemsWell
  <1>2. Items(Append(l, x)) = IF IsItem(x.record) THEN Append(Items(l), x) ELSE Items(l)
    BY ItemsAppend
  <1>3. Replayed(Append(Items(l), x)) = AddItem(Replayed(Items(l)), x.record)
    BY <1>1, ReplaysFold DEF Replay
  <1> QED BY <1>2, <1>3

LEMMA ReplaysAlwaysBalanced ==
    ASSUME NEW l, IsSequence(l), AnswersLatest(l),
           \A k \in DOMAIN l : l[k].record.type \in RecordTypes
    PROVE  ReplaysBalanced(l)
  <1> DEFINE T == Elements(l)
             C == {p \in Seq(T) : AnswersLatest(p) => ReplaysBalanced(p)}
  <1>1. << >> \in C
    <2>1. Items(<< >>) = << >> /\ Replayed(<< >>) = NewLoopState
      BY KeepItemsFold, ReplaysFold
    <2>2. NewestIs(<< >>, NewLoopState.turn)
      BY DEF NewestIs
    <2> QED BY <2>1, <2>2, NewLoopStateFacts, BalancedNew DEF ReplaysBalanced
  <1>2. ASSUME NEW p, NEW x, IsSequence(p), p \in C, x \in T
        PROVE  Append(p, x) \in C
    <2> DEFINE s == Replayed(Items(p))
               t == Replayed(Items(Append(p, x)))
    <2>1. x.record.type \in RecordTypes
      BY <1>2 DEF Elements, IsSequence
    <2>2. Append(p, x) \in Seq(T)
      BY <1>2
    <2>3. SUFFICES ASSUME AnswersLatest(Append(p, x)) PROVE ReplaysBalanced(Append(p, x))
      BY <2>2
    <2>4. /\ AnswersLatest(p)
          /\ x.record.type = "response" =>
                \E k \in 1..Len(p) : /\ p[k].record.type = "turn" /\ p[k].record.turn = x.record.turn
                                     /\ \A j \in (k + 1)..Len(p) : p[j].record.type # "turn"
      BY <1>2, <2>3, AnswersFront
    <2>5. IsLoopState(s) /\ Balanced(s) /\ NewestIs(p, s.turn)
      BY <1>2, <2>4 DEF ReplaysBalanced
    <2>6. t = IF IsItem(x.record) THEN AddItem(s, x.record) ELSE s
      BY <1>2, ReplayedOne
    <2> HIDE DEF s, t
    <2>7. x.record.type = "response" => x.record.turn = s.turn
      BY <2>4, <2>5 DEF NewestIs
    <2>8. IsLoopState(t) /\ Balanced(t)
      BY <2>1, <2>5, <2>6, <2>7, BalancedItem DEF RecordTypes, IsItem
    <2>9. t.turn = IF x.record.type = "turn" THEN x.record.turn ELSE s.turn
      <3> DEFINE r == x.record
      <3> HIDE DEF r
      <3>1. r.type \in RecordTypes /\ t = IF IsItem(r) THEN AddItem(s, r) ELSE s
        BY <2>1, <2>6 DEF r
      <3>2. CASE r.type \in {"fork", "operation"}
        BY <2>5, <3>1, <3>2, AddForkFacts DEF IsItem, r
      <3>3. CASE r.type = "input"
        BY <2>5, <3>1, <3>3, AddInputFacts DEF IsItem, r
      <3>4. CASE r.type = "turn"
        BY <2>5, <3>1, <3>4, AddTurnFacts DEF IsItem, r
      <3>5. CASE r.type = "response"
        BY <2>5, <3>1, <3>5, AddResponseFacts DEF IsItem, r
      <3>6. CASE r.type = "status"
        BY <2>5, <3>1, <3>6, StatusEffects DEF IsItem, r
      <3> QED BY <3>1, <3>2, <3>3, <3>4, <3>5, <3>6 DEF RecordTypes
    <2>10. NewestIs(Append(p, x), t.turn)
      BY <1>2, <2>5, <2>9, NewestAppend
    <2> QED BY <2>8, <2>10 DEF ReplaysBalanced, t
  <1>3. l \in Seq(T)
    BY DEF IsSequence
  <1>4. l \in C
    <2> HIDE DEF C, T
    <2> QED BY <1>1, <1>2, <1>3, SequenceInduction
  <1> QED BY <1>4

LEMMA InitBalanced == Init => Balanced(image.replayed)
  <1> SUFFICES ASSUME Init PROVE Balanced(image.replayed)
    OBVIOUS
  <1>1. image.replayed = Replayed(Items(InitialLog))
    BY Zenon DEF Init, Image, Replayed
  <1>2. IsSequence(InitialLog)
    BY InitialLogAssumption, SequenceIn
  <1> QED BY <1>1, <1>2, InitialLogAssumption, ReplaysAlwaysBalanced DEF ReplaysBalanced

LEMMA NextBalanced ==
    ASSUME Inv, Inv', Balanced(image.replayed), [Next]_vars
    PROVE  Balanced(image.replayed)'
  <1>1. CASE UNCHANGED <<log, image>>
    BY <1>1
  <1>2. ASSUME NEW r, Records(r)
        PROVE  Balanced(image.replayed)'
    <2>1. /\ CanAppend(head, r) /\ image' = Extend(image, r)
          /\ r.type = "response" => Up /\ r.turn = ls.turn
      BY <1>2 DEF Records, Appends
    <2>2. r.type = "response" => r.turn = image.replayed.turn
      BY <2>1 DEF Inv, MemoryOK, Agree
    <2>3. IsLoopState(image.replayed)
      BY DEF Inv, ImageInv
    <2>4. image'.replayed = IF r.type = "operation" THEN image.replayed ELSE AddItem(image.replayed, r)
      BY <2>1, ExtendFields
    <2>5. r.type \in {"input", "turn", "response", "status", "operation"}
      BY <2>1 DEF CanAppend
    <2> QED BY <2>2, <2>3, <2>4, <2>5, BalancedItem
  <1> QED BY <1>1, <1>2, StepRecords

(* The counters of inputs that loadHistory would compute from the log      *)
(* (loop.go:496-521) are always those of the context it would build.       *)
THEOREM CountersAreBalanced == Spec => []Balanced(image.replayed)
  <1>1. Inv /\ Inv' /\ Balanced(image.replayed) /\ [Next]_vars => Balanced(image.replayed)'
    BY NextBalanced
  <1> QED BY <1>1, InitBalanced, InvHolds, PTL DEF Spec

(* The modes of the loop keep their types, and what was delivered never    *)
(* overtakes what the turn was asked with, nor that what is available      *)
(* (loop.go:37-53, 541-641).                                               *)
THEOREM TypeCorrect == Spec => []TypeOK
  <1>1. Inv /\ Balanced(image.replayed) => TypeOK
    <2> SUFFICES ASSUME Inv, Balanced(image.replayed) PROVE TypeOK
      OBVIOUS
    <2>1. ASSUME Up
          PROVE  ls.delivered <= ls.turnInputs /\ ls.turnInputs <= ls.available
      <3>1. Agree(ls, image.replayed) /\ IsLoopState(image.replayed)
        BY <2>1 DEF Inv, MemoryOK, ImageInv
      <3> QED BY <3>1, BalancedOwed DEF Agree
    <2> QED BY <2>1 DEF Inv, Modes, MemoryOK, IsLoopState, TypeOK
  <1> QED BY <1>1, CountersAreBalanced, InvHolds, PTL

(* The counter of pending inputs is the number of messages, heartbeats and *)
(* final results behind the last response in the context, from whatever    *)
(* fork the session started and however often it was restarted             *)
(* (loop.go:541-641, builder.go:50-128).                                   *)
THEOREM PendingAreUnanswered == Spec => []PendingIsUnanswered
  <1>1. Inv /\ Balanced(image.replayed) => PendingIsUnanswered
    <2> SUFFICES ASSUME Inv, Balanced(image.replayed), Up
                 PROVE  LET c == Build(ls.builder)
                            last == SelectLastInSeq(c, LAMBDA entry : entry.kind = "response")
                        IN PendingInputs(ls) = Cardinality({k \in (last + 1)..Len(c) : ~c[k].running})
      BY DEF PendingIsUnanswered
    <2> DEFINE c == Build(ls.builder)
    <2>1. Agree(ls, image.replayed) /\ IsLoopState(image.replayed)
      BY DEF Inv, MemoryOK, ImageInv
    <2>2. OwedCount(Build(image.replayed.builder)) = PendingInputs(image.replayed)
      BY <2>1, BalancedOwed
    <2>3. OwedCount(c) = PendingInputs(ls)
      BY <2>1, <2>2 DEF Agree, PendingInputs
    <2>4. IsSequence(c)
      <3>1. IsSequence(ls.builder.committed) /\ IsSequence(ls.builder.staged)
        BY <2>1 DEF Agree, Balanced, IsBuilder
      <3> QED BY <3>1, ConcatFacts DEF Build
    <2> HIDE DEF c
    <2> QED BY <2>3, <2>4, LatestInSeq DEF OwedCount, c
  <1> QED BY <1>1, CountersAreBalanced, InvHolds, PTL

-----------------------------------------------------------------------------
(* What a stop leaves behind *)

(* A record that wants an answer: a turn, or a message of a user. *)
Asks(r) == r.type = "turn" \/ (r.type = "input" /\ r.kind = "external")

Unanswered(l) ==
    \E k \in 1..Len(l) : /\ Asks(l[k].record)
                         /\ \A j \in (k + 1)..Len(l) : l[j].record.type # "response"

(* The log the session starts from does not leave a turn unanswered        *)
(* without pending inputs.  It is so for a new session; a fork taken at an *)
(* unanswered turn may have lost the tool result the turn was for.         *)
StartsAccounted == Unanswered(InitialLog) => PendingInputs(Image(InitialLog).replayed) > 0

LEMMA NewIsAccounted == InitialLog = << >> => StartsAccounted
  BY DEF StartsAccounted, Unanswered

LEMMA UnansweredAppend ==
    ASSUME NEW l, IsSequence(l), NEW x, Unanswered(Append(l, x))
    PROVE  x.record.type # "response" /\ (Unanswered(l) \/ Asks(x.record))
  <1> DEFINE m == Append(l, x)
  <1>1. /\ Len(l) \in Nat /\ Len(m) = Len(l) + 1 /\ m[Len(l) + 1] = x
        /\ \A k \in 1..Len(l) : m[k] = l[k]
    BY AppendFacts DEF IsSequence
  <1>2. PICK k \in 1..Len(m) : /\ Asks(m[k].record)
                               /\ \A j \in (k + 1)..Len(m) : m[j].record.type # "response"
    BY DEF Unanswered
  <1> HIDE DEF m
  <1>3. CASE k = Len(l) + 1
    BY <1>1, <1>2, <1>3 DEF Asks
  <1>4. CASE k \in 1..Len(l)
    <2>1. Len(l) + 1 \in (k + 1)..Len(m)
      BY <1>1, <1>4
    <2>2. x.record.type # "response"
      BY <1>1, <1>2, <2>1
    <2>3. \A j \in (k + 1)..Len(l) : l[j].record.type # "response"
      BY <1>1, <1>2, <1>4
    <2>4. Asks(l[k].record)
      BY <1>1, <1>2, <1>4
    <2> QED BY <1>4, <2>2, <2>3, <2>4 DEF Unanswered
  <1> QED BY <1>1, <1>2, <1>3, <1>4

Waiting == PendingInputs(image.replayed) > 0

(* Whenever the model is about to be asked there is something to ask about,*)
(* and whoever wants an answer is among the pending inputs.                *)
AskInv ==
    /\ image.replayed.callModel = FALSE
    /\ Unanswered(log) => Waiting
    /\ ls.callModel = TRUE => Waiting
    /\ pc = "boot_request" => Waiting
    /\ RequireModelResponse => Waiting
    /\ pc = "select" /\ modelActive => ls.callModel = FALSE
    /\ pc \in {"boot_schedule", "boot_reconcile", "boot_request"} => ~modelActive

(* Pending inputs are added by inputs and final results, and taken by      *)
(* responses only.                                                         *)
LEMMA ItemPending ==
    ASSUME NEW s, IsLoopState(s), Balanced(s), NEW r,
           r.type \in {"input", "turn", "response", "status"}
    PROVE  /\ AddItem(s, r).callModel = s.callModel
           /\ r.type # "response" /\ PendingInputs(s) > 0 => PendingInputs(AddItem(s, r)) > 0
           /\ r.type = "input" /\ r.kind = "external" => PendingInputs(AddItem(s, r)) > 0
  <1> DEFINE t == AddItem(s, r)
  <1>1. /\ s.available \in Nat /\ s.delivered \in Nat /\ s.turnInputs \in Nat
        /\ s.delivered <= s.turnInputs /\ s.turnInputs <= s.available
    BY BalancedOwed DEF IsLoopState
  <1>2. CASE r.type = "input"
    <2>1. /\ t.callModel = s.callModel /\ t.delivered = s.delivered
          /\ t.available =
               IF r.kind \in {"external", "heartbeat"} THEN s.available + 1 ELSE s.available
      BY <1>2, AddInputFacts
    <2> HIDE DEF t
    <2> QED BY <1>1, <1>2, <2>1 DEF PendingInputs, t
  <1>3. CASE r.type = "turn"
    <2>1. t.callModel = s.callModel /\ t.delivered = s.delivered /\ t.available = s.available
      BY <1>3, AddTurnFacts
    <2> HIDE DEF t
    <2> QED BY <1>3, <2>1 DEF PendingInputs, t
  <1>4. CASE r.type = "response"
    BY <1>4, AddResponseFacts
  <1>5. CASE r.type = "status"
    <2>1. /\ t.callModel = s.callModel /\ t.delivered = s.delivered
          /\ t.available = s.available \/ t.available = s.available + 1
      BY <1>5, StatusEffects DEF SameContext, SameCounts, CountsOneMore
    <2> HIDE DEF t
    <2> QED BY <1>1, <1>5, <2>1 DEF PendingInputs, t
  <1> QED BY <1>2, <1>3, <1>4, <1>5

(* The part of the invariant that is about the log. *)
LEMMA RecordAsks ==
    ASSUME Inv, LogInv, Balanced(image.replayed), image.replayed.callModel = FALSE,
           Unanswered(log) => Waiting, NEW r, Records(r), r.type = "turn" => Waiting
    PROVE  /\ image'.replayed.callModel = FALSE
           /\ Unanswered(log') => Waiting'
           /\ r.type # "response" /\ Waiting => Waiting'
           /\ r.type = "input" /\ r.kind = "external" => Waiting'
  <1> DEFINE x == Line(head, r)
             s == image.replayed
  <1>1. /\ CanAppend(head, r) /\ log' = Append(log, x) /\ image' = Extend(image, r)
    BY DEF Records, Appends
  <1>2. x.record = r /\ IsSequence(log)
    BY DEF Line, LogInv
  <1>3. IsLoopState(s)
    BY DEF Inv, ImageInv
  <1>4. r.type \in {"input", "turn", "response", "status", "operation"}
    BY <1>1 DEF CanAppend
  <1>5. image'.replayed = IF r.type = "operation" THEN s ELSE AddItem(s, r)
    BY <1>1, ExtendFields
  <1> HIDE DEF x, s
  <1>6. /\ image'.replayed.callModel = FALSE
        /\ r.type # "response" /\ Waiting => Waiting'
        /\ r.type = "input" /\ r.kind = "external" => Waiting'
    <2>1. CASE r.type = "operation"
      BY <1>5, <2>1 DEF Waiting, s
    <2>2. CASE r.type # "operation"
      BY <1>3, <1>4, <1>5, <2>2, ItemPending DEF Waiting, s
    <2> QED BY <2>1, <2>2
  <1>7. Unanswered(log') => Waiting'
    <2> SUFFICES ASSUME Unanswered(Append(log, x)) PROVE Waiting'
      BY <1>1
    <2>1. r.type # "response" /\ (Unanswered(log) \/ Asks(r))
      BY <1>2, UnansweredAppend
    <2> QED BY <1>6, <2>1 DEF Asks
  <1> QED BY <1>6, <1>7

(* In memory the pending inputs are those on record. *)
LEMMA SamePending ==
    ASSUME Inv, Up
    PROVE  PendingInputs(ls) = PendingInputs(image.replayed)
  BY DEF Inv, MemoryOK, Agree, PendingInputs

LEMMA InitAsks ==
    ASSUME StartsAccounted, Init
    PROVE  AskInv
  <1>1. image.replayed.callModel = FALSE /\ ls.callModel = FALSE
    <2>1. NewLoopState.callModel = FALSE
      BY DEF NewLoopState
    <2>2. image.replayed.callModel = FALSE
      <3>1. OwnsNothing(image)
        BY InitialLogAssumption DEF Init
      <3>2. ASSUME NEW start, OwnsNothing(start)
            PROVE  LoopShape(start.replayed) /\ start.replayed.callModel = FALSE
        BY <3>2 DEF OwnsNothing, NewLoopState, LoopShape
      <3> QED BY <3>1, <3>2
    <2> QED BY <2>1, <2>2 DEF Init
  <1>2. Unanswered(log) => Waiting
    BY DEF Init, StartsAccounted, Waiting
  <1> QED BY <1>1, <1>2 DEF AskInv, Init, RequireModelResponse

(* Steps that record nothing. *)
LEMMA QuietAsks ==
    ASSUME Inv, AskInv, UNCHANGED <<log, image>>,
           ls'.callModel = ls.callModel \/ ls'.callModel = FALSE,
           statuses' = statuses \/ statuses' = {},
           pc' = "boot_request" => pc = "boot_request",
           pc' = "select" => pc = "select" \/ modelActive' = FALSE \/ ls'.callModel = FALSE,
           pc' \in {"boot_schedule", "boot_reconcile", "boot_request"} =>
             pc \in {"boot_schedule", "boot_reconcile", "boot_request"} \/ modelActive' = FALSE,
           modelActive' = modelActive \/ modelActive' = FALSE
    PROVE  AskInv'
  BY DEF AskInv, RequireModelResponse, Waiting

LEMMA StepAsks ==
    ASSUME Inv, Inv', LogInv, Balanced(image.replayed), AskInv, [Next]_vars
    PROVE  AskInv'
  <1> DEFINE Recorded1(r) == /\ image'.replayed.callModel = FALSE
                             /\ Unanswered(log') => Waiting'
                             /\ r.type # "response" /\ Waiting => Waiting'
                             /\ r.type = "input" /\ r.kind = "external" => Waiting'
  <1>0. ASSUME NEW r, Records(r), r.type = "turn" => Waiting
        PROVE  Recorded1(r)
    BY <1>0, RecordAsks DEF AskInv
  <1>1. ASSUME NEW key \in DOMAIN ls.toolCalls, NEW ops \in OpsOf(key[2]) \cup {{}},
               ScheduleToolCall(key, ops)
        PROVE  AskInv'
    <2> DEFINE r == [type |-> "status", turn |-> key[1], call |-> key[2],
                     error |-> ops = {}, waits |-> ops, ops |-> [op \in ops |-> "ready"]]
               s == image.replayed
    <2>1. /\ Persist(r) /\ Up /\ ls.toolCalls[key].translated # TRUE
          /\ ls' = AddItem(AddOperations(ls, r.ops), r)
          /\ statuses' = statuses \cup {<<key, r.error>>}
          /\ UNCHANGED <<pc, modelActive>>
      BY <1>1 DEF ScheduleToolCall, Up
    <2>2. /\ key \in DOMAIN s.toolCalls /\ ls.toolCalls = s.toolCalls
          /\ key = <<key[1], key[2]>>
      BY <2>1, CallKey
    <2>3. key \notin head.statuses /\ s.toolCalls[key].waits = {}
      BY <2>1, <2>2 DEF Inv, ImageInv, CallsOK, head
    <2>4. /\ r.type = "status" /\ StatusKey(r) = key /\ r.waits = ops
          /\ r.error = (ops = {}) /\ DOMAIN r.ops = ops
      BY <2>2 DEF StatusKey
    <2> HIDE DEF r
    <2>5. Records(r)
      BY <2>1, <2>3, <2>4, PersistAppends DEF Faithful, Records
    <2>6. Recorded1(r)
      BY <1>0, <2>4, <2>5
    <2>7. ls'.callModel = ls.callModel
      <3>1. /\ IsLoopState(AddOperations(ls, r.ops))
            /\ AddOperations(ls, r.ops).callModel = ls.callModel
        BY AddOperationsFacts DEF Inv, MemoryOK
      <3> QED BY <2>1, <2>4, <3>1, StatusEffects
    <2>8. r.error = TRUE => Waiting'
      <3> SUFFICES ASSUME ops = {} PROVE Waiting'
        BY <2>4
      <3>1. image'.replayed = AddItem(s, r)
        BY <2>4, <2>5, ExtendFields DEF Records, Appends
      <3>2. AllEnded(s, r)
        BY <2>3, <2>4 DEF AllEnded
      <3>3. /\ AddItem(s, r).available = s.available + 1
            /\ AddItem(s, r).delivered = s.delivered
        BY <2>2, <2>4, <3>2, AddStatusFacts DEF Inv, ImageInv
      <3>4. s.available \in Nat /\ s.delivered \in Nat /\ s.delivered <= s.available
        BY BalancedOwed DEF Inv, ImageInv, IsLoopState
      <3> HIDE DEF s
      <3> QED BY <3>1, <3>3, <3>4 DEF Waiting, PendingInputs
    <2>9. RequireModelResponse' => Waiting'
      <3> SUFFICES ASSUME NEW status \in statuses', status[2] PROVE Waiting'
        BY DEF RequireModelResponse
      <3>1. CASE status \in statuses
        BY <2>4, <2>6, <3>1 DEF AskInv, RequireModelResponse
      <3>2. CASE status = <<key, r.error>>
        BY <2>4, <2>8, <3>2
      <3> QED BY <2>1, <3>1, <3>2
    <2> QED BY <2>1, <2>4, <2>6, <2>7, <2>9 DEF AskInv
  <1>2. ASSUME NEW key \in DOMAIN ls.toolCalls, ReconcileToolCall(key)
        PROVE  AskInv'
    <2> DEFINE waits == ls.toolCalls[key].waits
               r == [type |-> "status", turn |-> key[1], call |-> key[2], error |-> FALSE,
                     waits |-> waits, ops |-> [op \in waits |-> ls.operations[op]]]
    <2>1. /\ Persist(r) /\ Up /\ CallIsTerminal(ls, key) /\ ls' = AddItem(ls, r)
          /\ UNCHANGED <<pc, modelActive, statuses>>
      BY <1>2 DEF ReconcileToolCall, Up
    <2>2. ls.operations = head.ops
      BY <2>1 DEF Inv, MemoryOK
    <2>3. /\ r.type = "status" /\ r.waits = waits /\ DOMAIN r.ops = waits /\ StatusKey(r) = key
          /\ \A op \in waits : r.ops[op] = ls.operations[op]
      BY <2>1, CallKey DEF StatusKey
    <2>4. \A op \in waits : op \in DOMAIN ls.operations
      BY <2>1 DEF CallIsTerminal, IsTerminal
    <2> HIDE DEF r, waits
    <2>5. Records(r)
      BY <2>1, <2>2, <2>3, <2>4, PersistAppends DEF Faithful, Records
    <2>6. Recorded1(r)
      BY <1>0, <2>3, <2>5
    <2>7. ls'.callModel = ls.callModel
      BY <2>1, <2>3, StatusEffects DEF Inv, MemoryOK
    <2> QED BY <2>1, <2>3, <2>6, <2>7 DEF AskInv, RequireModelResponse
  <1>3. ASSUME NEW turn \in inflight, NEW calls \in SUBSET (Calls \ issued),
               TakeResponse(turn, calls)
        PROVE  AskInv'
    <2> DEFINE r == [type |-> "response", turn |-> turn, calls |-> calls]
    <2>1. /\ Persist(r) /\ Up /\ modelActive /\ turn = ls.turn
          /\ pc = "select" /\ pc' = "schedule" /\ modelActive' = FALSE
          /\ ls' = AddItem(ls, r) /\ statuses' = statuses
      BY <1>3 DEF TakeResponse, Up, Awaited
    <2>2. r.type = "response" /\ r.turn = turn
      OBVIOUS
    <2> HIDE DEF r
    <2>3. Records(r)
      BY <2>1, <2>2, PersistAppends DEF Records, Faithful
    <2>4. Recorded1(r)
      BY <1>0, <2>2, <2>3
    <2>5. ls'.callModel = FALSE
      BY <2>1, <2>2, AddResponseFacts DEF Inv, MemoryOK, AskInv
    <2>6. statuses' = {}
      BY <2>1 DEF Inv, ControlOK
    <2> QED BY <2>1, <2>4, <2>5, <2>6 DEF AskInv, RequireModelResponse
  <1>4. CASE TakeInput
    <2> DEFINE r == Head(queue)
               added == AddItem(ls, r)
               asked == IF r.kind = "external" THEN [added EXCEPT !.callModel = TRUE] ELSE added
    <2>1. /\ Persist(r) /\ queue # << >>
          /\ ls' = IF r.kind = "settings" THEN asked ELSE ClearToolGrace(asked)
          /\ pc' = "slurp_inputs" /\ UNCHANGED <<modelActive, statuses>>
      BY <1>4 DEF TakeInput, HandleInput
    <2>2. r \in Queued
      BY <2>1 DEF Inv, Modes
    <2>3. r.type = "input"
      BY <2>2 DEF Queued
    <2>4. Records(r)
      <3> HIDE DEF r
      <3>1. Appends(r)
        BY <2>1, PersistAppends
      <3> QED BY <1>4, <2>1, <2>3, <3>1 DEF Records, Faithful, r
    <2> HIDE DEF r
    <2>5. Recorded1(r)
      BY <1>0, <2>3, <2>4
    <2>6. IsLoopState(added) /\ added.callModel = ls.callModel
      BY <2>3, AddInputFacts DEF Inv, MemoryOK
    <2> HIDE DEF added
    <2>7. /\ IsLoopState(asked)
          /\ r.kind # "external" => asked.callModel = ls.callModel
      BY <2>6, SetCallModelFacts
    <2> HIDE DEF asked
    <2>8. ls'.callModel = asked.callModel
      BY <2>1, <2>7, ClearToolGraceFacts
    <2> QED BY <2>1, <2>3, <2>5, <2>7, <2>8 DEF AskInv, RequireModelResponse
  <1>5. CASE TakeUpdate
    <2> DEFINE u == Head(updates)
               r == [type |-> "operation", op |-> u.op, sameType |-> TRUE, status |-> u.status]
    <2>1. /\ Persist(r) /\ Up /\ updates # << >>
          /\ ls' = AddOperations(ls, [op \in {u.op} |-> u.status])
          /\ pc' \in {"slurp_inputs", "slurp_updates"} /\ UNCHANGED <<modelActive, statuses>>
      BY <1>5 DEF TakeUpdate, Up
    <2>2. u = updates[1] /\ 1 \in DOMAIN updates
      BY <2>1, TakenUpdate DEF Inv, Modes
    <2>3. u.op \in DOMAIN ls.operations /\ ~IsTerminal(ls, u.op)
      BY <2>2 DEF Inv, ManagerOK
    <2>4. ls.operations = head.ops
      BY <2>1 DEF Inv, MemoryOK
    <2>5. r.type = "operation" /\ r.op = u.op
      OBVIOUS
    <2>6. ls'.callModel = ls.callModel
      BY <2>1, AddOperationsFacts DEF Inv, MemoryOK
    <2> HIDE DEF r, u
    <2>7. Records(r)
      BY <2>1, <2>3, <2>4, <2>5, PersistAppends DEF Records, Faithful, IsTerminal
    <2>8. Recorded1(r)
      BY <1>0, <2>5, <2>7
    <2> QED BY <2>1, <2>5, <2>6, <2>8 DEF AskInv, RequireModelResponse
  <1>6. CASE RequestModel
    <2> DEFINE r == [type |-> "turn", turn |-> FreshTurn, prev |-> ls.turn]
               s == AddItem(ls, r)
               added == [s EXCEPT !.callModel = FALSE]
    <2>1. /\ Persist(r) /\ Up
          /\ ls' = IF pc = "reconcile" THEN ClearToolGrace(added) ELSE added
          /\ pc = "boot_request" \/ CallModelNow
          /\ pc' = "select" /\ statuses' = statuses
      BY <1>6 DEF RequestModel, TopOfLoop, Up
    <2>2. r.type = "turn" /\ r.turn = FreshTurn
      OBVIOUS
    <2> HIDE DEF r
    <2>3. Records(r)
      BY <1>6, <2>1, <2>2, PersistAppends DEF Records, Faithful
    <2>4. Waiting
      <3>1. ls.callModel \in BOOLEAN
        BY DEF Inv, MemoryOK, IsLoopState
      <3> QED BY <2>1, <3>1, SamePending DEF AskInv, CallModelNow, Waiting
    <2>5. Recorded1(r)
      BY <1>0, <2>3, <2>4
    <2>6. IsLoopState(s)
      BY <2>2, AddTurnFacts DEF Inv, MemoryOK
    <2> HIDE DEF s
    <2>7. IsLoopState(added) /\ added.callModel = FALSE
      BY <2>6, SetCallModelFacts
    <2> HIDE DEF added
    <2>8. ls'.callModel = FALSE
      BY <2>1, <2>7, ClearToolGraceFacts
    <2> QED BY <2>1, <2>2, <2>4, <2>5, <2>8 DEF AskInv, RequireModelResponse
  <1>7. ASSUME NEW turn, DropResponse(turn) \/ ModelFails(turn)
        PROVE  AskInv'
    <2>1. CASE DropResponse(turn)
      BY <2>1, QuietAsks DEF DropResponse, TopOfLoop, storeVars
    <2>2. CASE ModelFails(turn)
      <3>1. NewLoopState.callModel = FALSE
        BY DEF NewLoopState
      <3> QED BY <2>2, <3>1, QuietAsks DEF ModelFails, Exit, storeVars
    <2> QED BY <1>7, <2>1, <2>2
  <1>8. ASSUME NEW id, NEW kind, Submit(id, kind)
        PROVE  AskInv'
    BY <1>8, QuietAsks DEF Submit, storeVars, loopVars
  <1>9. ASSUME NEW op, OperationProgresses(op) \/ OperationEnds(op)
        PROVE  AskInv'
    BY <1>9, QuietAsks DEF OperationProgresses, OperationEnds, storeVars, loopVars
  <1>10. CASE BootScheduled \/ SlurpEnds \/ UNCHANGED vars
    BY <1>10, QuietAsks DEF BootScheduled, SlurpEnds, vars, storeVars, loopVars
  <1>11. CASE PostHeartbeat \/ GraceExpires
    <2>1. ls'.callModel = ls.callModel
      BY <1>11, ClearToolGraceFacts DEF PostHeartbeat, GraceExpires, Inv, MemoryOK
    <2> QED BY <1>11, <2>1, QuietAsks DEF PostHeartbeat, GraceExpires, storeVars
  <1>12. CASE Start
    <2>1. ls' = Restore(image) /\ pc' = "boot_schedule" /\ UNCHANGED <<log, image, modelActive, statuses>>
          /\ pc \in {"down", "stopped"}
      BY <1>12 DEF Start, storeVars, Up
    <2>2. Restore(image).callModel = FALSE
      BY RestoreFacts DEF AskInv, Inv
    <2>3. modelActive = FALSE
      BY <2>1 DEF Inv, ControlOK, Modes
    <2> QED BY <2>1, <2>2, <2>3, QuietAsks
  <1>13. CASE Die
    <2>1. NewLoopState.callModel = FALSE
      BY DEF NewLoopState
    <2> QED BY <1>13, <2>1, QuietAsks DEF Die, Exit, storeVars
  <1>14. CASE HardStop
    <2>1. NewLoopState.callModel = FALSE
      BY DEF NewLoopState
    <2>2. cancelled => modelActive = FALSE
      BY DEF Inv, ControlOK, Modes
    <2>3. UNCHANGED <<log, image>>
      BY <1>14 DEF HardStop, storeVars
    <2>4. CASE HasPendingOperations(ls)
      <3>1. /\ modelActive' = (modelActive /\ cancelled) /\ pc' = "select"
            /\ UNCHANGED <<ls, statuses>>
        BY <1>14, <2>4 DEF HardStop, TopOfLoop
      <3>2. modelActive' = FALSE
        BY <2>2, <3>1
      <3> QED BY <2>3, <3>1, <3>2, QuietAsks
    <2>5. CASE ~HasPendingOperations(ls)
      BY <1>14, <2>1, <2>3, <2>5, QuietAsks DEF HardStop, Exit
    <2> QED BY <2>4, <2>5
  <1>15. CASE WaitOrStop
    <2>1. NewLoopState.callModel = FALSE
      BY DEF NewLoopState
    <2>2. UNCHANGED <<log, image>> /\ ls.callModel = FALSE
      BY <1>15 DEF WaitOrStop, storeVars, CallModelNow, Inv, MemoryOK, IsLoopState
    <2>3. CASE stop = "when_idle" /\ IsIdle(ls, modelActive)
      BY <1>15, <2>1, <2>2, <2>3, QuietAsks DEF WaitOrStop, Exit
    <2>4. CASE ~(stop = "when_idle" /\ IsIdle(ls, modelActive))
      BY <1>15, <2>2, <2>4, QuietAsks DEF WaitOrStop, TopOfLoop
    <2> QED BY <2>3, <2>4
  <1>16. CASE BootDispatch
    <2>1. /\ UNCHANGED <<log, image, ls, modelActive>> /\ statuses' = {} /\ pc = "boot_reconcile"
      BY <1>16 DEF BootDispatch, storeVars
    <2>2. modelActive = FALSE
      BY <2>1 DEF AskInv, Inv, Modes
    <2>3. CASE RequireModelResponse \/ PendingInputs(ls) > 0
      <3>1. pc' = "boot_request"
        BY <1>16, <2>3 DEF BootDispatch
      <3>2. Waiting
        BY <2>1, <2>3, SamePending DEF AskInv, Waiting, Up
      <3> QED BY <2>1, <2>2, <3>1, <3>2 DEF AskInv, RequireModelResponse, Waiting
    <2>4. CASE ~(RequireModelResponse \/ PendingInputs(ls) > 0)
      <3>1. pc' = "select"
        BY <1>16, <2>4 DEF BootDispatch, TopOfLoop
      <3> QED BY <2>1, <2>2, <3>1, QuietAsks
    <2> QED BY <2>3, <2>4
  <1>17. CASE ResponseScheduled
    <2>1. /\ UNCHANGED <<log, image, modelActive>> /\ statuses' = {}
          /\ pc = "schedule" /\ pc' = "slurp_inputs"
      BY <1>17 DEF ResponseScheduled, storeVars
    <2>2. CASE ~RequireModelResponse /\ statuses # {}
      <3>1. ls'.callModel = FALSE
        BY <1>17, <2>2, SetToolGraceFacts DEF ResponseScheduled, Inv, MemoryOK
      <3> QED BY <2>1, <3>1, QuietAsks
    <2>3. CASE ~(~RequireModelResponse /\ statuses # {})
      <3>1. ls' = [ls EXCEPT !.callModel = RequireModelResponse]
        BY <1>17, <2>3 DEF ResponseScheduled
      <3>2. CASE RequireModelResponse
        <4>1. RequireModelResponse = TRUE
          BY <3>2 DEF RequireModelResponse
        <4>2. ls'.callModel = TRUE
          BY <3>1, <4>1, SetCallModelFacts DEF Inv, MemoryOK
        <4> QED BY <2>1, <3>2, <4>2 DEF AskInv, RequireModelResponse, Waiting
      <3>3. CASE ~RequireModelResponse
        <4>1. RequireModelResponse = FALSE
          BY <3>3 DEF RequireModelResponse
        <4>2. ls'.callModel = FALSE
          BY <3>1, <4>1, SetCallModelFacts DEF Inv, MemoryOK
        <4> QED BY <2>1, <4>2, QuietAsks
      <3> QED BY <3>2, <3>3
    <2> QED BY <2>2, <2>3
  <1> QED BY <1>1, <1>2, <1>3, <1>4, <1>5, <1>6, <1>7, <1>8, <1>9, <1>10, <1>11, <1>12,
             <1>13, <1>14, <1>15, <1>16, <1>17 DEF Next

(* Whoever wants an answer is pending, in every reachable state. *)
THEOREM AskersArePending == ASSUME StartsAccounted PROVE Spec => []AskInv
  <1>1. Init => AskInv
    BY InitAsks
  <1>2. Inv /\ Inv' /\ LogInv /\ Balanced(image.replayed) /\ AskInv /\ [Next]_vars => AskInv'
    BY StepAsks
  <1> QED BY <1>1, <1>2, InvHolds, LogInvariant, CountersAreBalanced, PTL DEF Spec

(* The only steps to "stopped" are the last one of a hard stop and of a    *)
(* stop when idle.                                                         *)
LEMMA StepStops ==
    ASSUME Inv, [Next]_vars, pc # "stopped", pc' = "stopped"
    PROVE  /\ ~HasPendingOperations(ls) /\ Up
           /\ stop = "when_idle" => PendingInputs(ls) = 0
  <1>1. ASSUME NEW key, NEW ops, ScheduleToolCall(key, ops) \/ ReconcileToolCall(key)
        PROVE  FALSE
    BY <1>1 DEF ScheduleToolCall, ReconcileToolCall
  <1>2. ASSUME NEW turn, NEW calls,
               TakeResponse(turn, calls) \/ DropResponse(turn) \/ ModelFails(turn)
        PROVE  FALSE
    BY <1>2 DEF TakeResponse, DropResponse, ModelFails, Exit, TopOfLoop
  <1>3. ASSUME NEW id, NEW kind, Submit(id, kind)
        PROVE  FALSE
    BY <1>3 DEF Submit, loopVars
  <1>4. ASSUME NEW op, OperationProgresses(op) \/ OperationEnds(op)
        PROVE  FALSE
    BY <1>4 DEF OperationProgresses, OperationEnds, loopVars
  <1>5. ~(\/ Start \/ BootScheduled \/ BootDispatch \/ TakeInput \/ TakeUpdate \/ PostHeartbeat
          \/ GraceExpires \/ ResponseScheduled \/ SlurpEnds \/ RequestModel \/ Die
          \/ UNCHANGED vars)
    BY DEF Start, BootScheduled, BootDispatch, TakeInput, TakeUpdate, PostHeartbeat,
           GraceExpires, ResponseScheduled, SlurpEnds, RequestModel, Die, Exit, TopOfLoop,
           vars, loopVars
  <1>6. CASE HardStop
    BY <1>6 DEF HardStop, TopOfLoop, Up
  <1>7. CASE WaitOrStop
    BY <1>7 DEF WaitOrStop, TopOfLoop, IsIdle, Up
  <1> QED BY <1>1, <1>2, <1>3, <1>4, <1>5, <1>6, <1>7 DEF Next

(* When Run returns for a stop, no operation is left running and all ends  *)
(* are on record; after a stop when idle every turn and every message is   *)
(* followed by a response (loop.go:261-275, coordinator.go:30-33).         *)
THEOREM StopsLeaveNothingRunning ==
    ASSUME StartsAccounted PROVE Spec => StopLeavesNothingRunning
  <1> DEFINE AllAnswered ==
               /\ DOMAIN manager = {}
               /\ \A op \in DOMAIN head.ops : head.ops[op] \in TerminalStatuses
               /\ stop = "when_idle" =>
                    /\ \A k \in DOMAIN log :
                         log[k].record.type = "turn" =>
                           \E l \in DOMAIN log : l > k /\ log[l].record.type = "response"
                    /\ \A k \in DOMAIN log :
                         log[k].record.type = "input" /\ log[k].record.kind = "external" =>
                           \E l \in DOMAIN log : l > k /\ log[l].record.type = "response"
  <1>1. ASSUME Inv, LogInv, AskInv, [Next]_vars, pc # "stopped", pc' = "stopped"
        PROVE  AllAnswered
    <2>1. ~HasPendingOperations(ls) /\ Up /\ (stop = "when_idle" => PendingInputs(ls) = 0)
      BY <1>1, StepStops
    <2>2. DOMAIN manager = {}
      BY <1>1, <2>1 DEF Inv, ManagerOK, HasPendingOperations
    <2>3. \A op \in DOMAIN head.ops : head.ops[op] \in TerminalStatuses
      BY <1>1, <2>1 DEF Inv, MemoryOK, HasPendingOperations, IsTerminal
    <2>4. ASSUME stop = "when_idle", NEW k \in DOMAIN log, Asks(log[k].record)
          PROVE  \E l \in DOMAIN log : l > k /\ log[l].record.type = "response"
      <3>1. ~Unanswered(log)
        <4>1. PendingInputs(image.replayed) = 0
          BY <1>1, <2>1, <2>4, SamePending
        <4> QED BY <1>1, <4>1 DEF AskInv, Waiting
      <3>2. DOMAIN log = 1..Len(log) /\ Len(log) \in Nat
        BY <1>1 DEF LogInv, IsSequence
      <3>3. PICK l \in (k + 1)..Len(log) : log[l].record.type = "response"
        BY <2>4, <3>1, <3>2 DEF Unanswered
      <3> QED BY <3>2, <3>3
    <2> QED BY <2>2, <2>3, <2>4 DEF Asks
  <1>2. Inv /\ LogInv /\ AskInv /\ [Next]_vars =>
          [pc # "stopped" /\ pc' = "stopped" => AllAnswered]_vars
    BY <1>1
  <1> QED BY <1>2, AskersArePending, InvHolds, LogInvariant, PTL DEF Spec, StopLeavesNothingRunning
-----------------------------------------------------------------------------
(* What a request holds *)

CallsIn(l) ==
    UNION { {<<l[k].record.turn, call>> : call \in l[k].record.calls} :
              k \in {j \in DOMAIN l : l[j].record.type = "response"} }

CallKeys(r) == {<<r.turn, call>> : call \in r.calls}

IsSaid(r, id) ==
    r.type = "input" /\ r.kind \in {"external", "heartbeat"} /\ r.id = id

(* Where a message, or the text of a heartbeat, is on record. *)
Said(l, id) == {k \in 1..Len(l) : IsSaid(l[k].record, id)}

LEMMA CallsAppend ==
    ASSUME NEW l, IsSequence(l), NEW x
    PROVE  CallsIn(Append(l, x)) =
             IF x.record.type = "response" THEN CallsIn(l) \cup CallKeys(x.record) ELSE CallsIn(l)
  <1> DEFINE m == Append(l, x)
             n == Len(l)
  <1>1. /\ n \in Nat /\ DOMAIN l = 1..n /\ DOMAIN m = 1..(n + 1)
        /\ m[n + 1] = x /\ \A k \in 1..n : m[k] = l[k]
    BY AppendFacts DEF IsSequence
  <1>2. ASSUME NEW s, NEW key
        PROVE  key \in CallsIn(s) <=>
                 \E k \in DOMAIN s : s[k].record.type = "response" /\ key \in CallKeys(s[k].record)
    BY DEF CallsIn, CallKeys
  <1> HIDE DEF m, n
  <1>3. \A k : k \in 1..(n + 1) <=> k \in 1..n \/ k = n + 1
    BY <1>1
  <1>4. \A key : key \in CallsIn(m) <=>
                   \/ key \in CallsIn(l)
                   \/ x.record.type = "response" /\ key \in CallKeys(x.record)
    BY <1>1, <1>2, <1>3
  <1> QED BY <1>4 DEF m

LEMMA SaidAppend ==
    ASSUME NEW l, IsSequence(l), NEW x, NEW id
    PROVE  /\ IsFiniteSet(Said(l, id)) /\ Cardinality(Said(l, id)) \in Nat
           /\ Cardinality(Said(Append(l, x), id)) =
                IF IsSaid(x.record, id) THEN Cardinality(Said(l, id)) + 1
                                        ELSE Cardinality(Said(l, id))
  <1> DEFINE m == Append(l, x)
             n == Len(l)
             A == Said(l, id)
             B == Said(m, id)
  <1>1. /\ n \in Nat /\ Len(m) = n + 1
        /\ m[n + 1] = x /\ \A k \in 1..n : m[k] = l[k]
    BY AppendFacts
  <1> HIDE DEF m
  <1>2. A \subseteq 1..n
    BY DEF Said
  <1>3. B = IF IsSaid(x.record, id) THEN A \cup {n + 1} ELSE A
    <2>1. \A k : k \in 1..(n + 1) <=> k \in 1..n \/ k = n + 1
      BY <1>1
    <2>2. \A k : k \in B <=> k \in A \/ (k = n + 1 /\ IsSaid(x.record, id))
      BY <1>1, <2>1 DEF Said
    <2> HIDE DEF A, B
    <2> QED BY <2>2
  <1> HIDE DEF n, A, B
  <1>4. IsFiniteSet(1..n)
    BY <1>1, FS_Interval
  <1>5. IsFiniteSet(A) /\ n + 1 \notin A
    <2>1. IsFiniteSet(A)
      BY <1>2, <1>4, FS_Subset
    <2>2. n + 1 \notin 1..n
      BY <1>1
    <2> QED BY <1>2, <2>1, <2>2
  <1>6. /\ Cardinality(A) \in Nat
        /\ Cardinality(B) = IF IsSaid(x.record, id) THEN Cardinality(A) + 1 ELSE Cardinality(A)
    BY <1>3, <1>5, FS_CardinalityType, FS_AddElement
  <1> QED BY <1>5, <1>6 DEF A, B, m

(* The context knows the messages on record, each as often as it is on     *)
(* record, and final results of recorded calls only.                       *)
KnownContext(l, s) ==
    /\ IsBuilder(s.builder)
    /\ \A id : Occurs(Build(s.builder), Message(id)) = Cardinality(Said(l, id))
    /\ DOMAIN s.toolCalls \subseteq CallsIn(l)
    /\ \A key : key \notin CallsIn(l) => Occurs(Build(s.builder), Final(key)) = 0

LEMMA KnownItem ==
    ASSUME NEW l, IsSequence(l), NEW s, IsLoopState(s), KnownContext(l, s), NEW x,
           x.record.type \in {"fork", "input", "turn", "response", "status"}
    PROVE  KnownContext(Append(l, x), AddItem(s, x.record))
  <1> DEFINE r == x.record
             t == AddItem(s, r)
             b == s.builder
             m == Append(l, x)
  <1>1. /\ IsBuilder(b) /\ DOMAIN s.toolCalls \subseteq CallsIn(l)
        /\ \A id : Occurs(Build(b), Message(id)) = Cardinality(Said(l, id))
        /\ \A key : key \notin CallsIn(l) => Occurs(Build(b), Final(key)) = 0
    BY DEF KnownContext
  <1>2. CallsIn(m) = IF r.type = "response" THEN CallsIn(l) \cup CallKeys(r) ELSE CallsIn(l)
    BY CallsAppend
  <1>3. \A id : Cardinality(Said(m, id)) =
                  IF IsSaid(r, id) THEN Cardinality(Said(l, id)) + 1 ELSE Cardinality(Said(l, id))
    BY SaidAppend
  <1>4. r.type \in {"fork", "input", "turn", "response", "status"}
    OBVIOUS
  <1> HIDE DEF r, m
  <1>5. ASSUME t.builder = b, DOMAIN t.toolCalls \subseteq DOMAIN s.toolCalls,
               r.type # "response", \A id : ~IsSaid(r, id)
        PROVE  KnownContext(m, t)
    BY <1>1, <1>2, <1>3, <1>5 DEF KnownContext
  <1>6. CASE r.type = "fork"
    <2>1. t.builder = b /\ DOMAIN t.toolCalls = {}
      BY <1>6, AddForkFacts DEF SameContext
    <2> QED BY <1>5, <1>6, <2>1 DEF IsSaid, r, m
  <1>7. CASE r.type = "input" /\ r.kind \notin {"external", "heartbeat"}
    <2>1. t.builder = b /\ t.toolCalls = s.toolCalls
      BY <1>7, AddInputFacts
    <2> QED BY <1>5, <1>7, <2>1 DEF IsSaid, r, m
  <1>8. CASE r.type = "input" /\ r.kind \in {"external", "heartbeat"}
    <2>1. t.builder = AddMessage(b, r.id) /\ t.toolCalls = s.toolCalls
      BY <1>8, AddInputFacts
    <2>2. IsBuilder(t.builder)
      BY <1>1, <2>1, MessageCounts
    <2>3. ASSUME NEW id PROVE Occurs(Build(t.builder), Message(id)) = Cardinality(Said(m, id))
      <3>1. Message(id) = Message(r.id) <=> IsSaid(r, id)
        BY <1>8, EntriesDiffer DEF IsSaid
      <3>2. Occurs(Build(t.builder), Message(id)) =
              IF Message(id) = Message(r.id) THEN Occurs(Build(b), Message(id)) + 1
                                             ELSE Occurs(Build(b), Message(id))
        BY <1>1, <2>1, MessageCounts
      <3> QED BY <1>1, <1>3, <3>1, <3>2
    <2>4. ASSUME NEW key PROVE Occurs(Build(t.builder), Final(key)) = Occurs(Build(b), Final(key))
      <3>1. Final(key) # Message(r.id)
        BY EntriesDiffer
      <3> QED BY <1>1, <2>1, <3>1, MessageCounts
    <2> QED BY <1>1, <1>2, <1>8, <2>1, <2>2, <2>3, <2>4 DEF KnownContext, r, m
  <1>9. CASE r.type = "turn"
    <2>1. t.builder = Commit(b) /\ t.toolCalls = s.toolCalls
      BY <1>9, AddTurnFacts
    <2>2. IsBuilder(t.builder) /\ \A e : Occurs(Build(t.builder), e) = Occurs(Build(b), e)
      BY <1>1, <2>1, CommitCounts
    <2> QED BY <1>1, <1>2, <1>3, <1>9, <2>1, <2>2 DEF KnownContext, IsSaid, r, m
  <1>10. CASE r.type = "response"
    <2>1. /\ t.builder = AddModelResponse(b, r.turn)
          /\ t.toolCalls = Override(FreshCalls(r), s.toolCalls)
      BY <1>10, AddResponseFacts
    <2>2. DOMAIN t.toolCalls = CallKeys(r) \cup DOMAIN s.toolCalls
      BY <2>1 DEF Override, FreshCalls, CallKeys
    <2>3. IsBuilder(t.builder)
      BY <1>1, <2>1, AddModelResponseFacts
    <2>4. ASSUME NEW id
          PROVE  Occurs(Build(t.builder), Message(id)) = Occurs(Build(b), Message(id))
      BY <1>1, <2>1, EntriesDiffer, ResponseCounts
    <2>5. ASSUME NEW key
          PROVE  Occurs(Build(t.builder), Final(key)) = Occurs(Build(b), Final(key))
      BY <1>1, <2>1, EntriesDiffer, ResponseCounts
    <2> QED BY <1>1, <1>2, <1>3, <1>10, <2>2, <2>3, <2>4, <2>5 DEF KnownContext, IsSaid, r, m
  <1>11. CASE r.type = "status"
    <2> DEFINE key == StatusKey(r)
    <2>1. CASE key \notin DOMAIN s.toolCalls \/ ~(r.waits \subseteq DOMAIN Known(s, r))
      <3>1. t.builder = b /\ DOMAIN t.toolCalls = DOMAIN s.toolCalls
        BY <1>11, <2>1, IgnoredStatus DEF SameContext
      <3> QED BY <1>5, <1>11, <3>1 DEF IsSaid, r, m
    <2>2. CASE key \in DOMAIN s.toolCalls /\ r.waits \subseteq DOMAIN Known(s, r)
      <3>1. DOMAIN t.toolCalls \subseteq DOMAIN s.toolCalls
        BY <1>11, <2>2, AddStatusCalls
      <3>2. t.builder = b \/ t.builder = Shown(b, key) \/ t.builder = Settled(b, key)
        BY <1>11, StatusEffects DEF SameContext
      <3> HIDE DEF key
      <3>3. CASE t.builder = b
        BY <1>5, <1>11, <3>1, <3>3 DEF IsSaid, r, m
      <3>4. CASE t.builder = Shown(b, key)
        <4>1. IsBuilder(t.builder)
          BY <1>1, <3>4, ShownCounts
        <4>2. ASSUME NEW e, e # Placeholder(key)
              PROVE  Occurs(Build(t.builder), e) = Occurs(Build(b), e)
          BY <1>1, <3>4, <4>2, ShownCounts
        <4>3. \A id : Occurs(Build(t.builder), Message(id)) = Occurs(Build(b), Message(id))
          BY <4>2, EntriesDiffer
        <4>4. \A k : Occurs(Build(t.builder), Final(k)) = Occurs(Build(b), Final(k))
          BY <4>2, EntriesDiffer
        <4> QED BY <1>1, <1>2, <1>3, <1>11, <3>1, <4>1, <4>3, <4>4 DEF KnownContext, IsSaid, r, m
      <3>5. CASE t.builder = Settled(b, key)
        <4>1. IsBuilder(t.builder)
          BY <1>1, <3>5, SettledFacts
        <4>2. ASSUME NEW e, e # Placeholder(key), e # Final(key)
              PROVE  Occurs(Build(t.builder), e) = Occurs(Build(b), e)
          BY <1>1, <3>5, <4>2, SettledCounts
        <4>3. \A id : Occurs(Build(t.builder), Message(id)) = Occurs(Build(b), Message(id))
          BY <4>2, EntriesDiffer
        <4>4. \A k : k # key => Occurs(Build(t.builder), Final(k)) = Occurs(Build(b), Final(k))
          BY <4>2, EntriesDiffer
        <4>5. key \in CallsIn(l)
          BY <1>1, <2>2 DEF key
        <4> QED BY <1>1, <1>2, <1>3, <1>11, <3>1, <4>1, <4>3, <4>4, <4>5
                DEF KnownContext, IsSaid, r, m
      <3> QED BY <3>2, <3>3, <3>4, <3>5
    <2> QED BY <2>1, <2>2
  <1> QED BY <1>4, <1>6, <1>7, <1>8, <1>9, <1>10, <1>11

(* It is so for any log in which responses answer the newest turn. *)
LEMMA ReplaysKnown ==
    ASSUME NEW l, IsSequence(l), AnswersLatest(l),
           \A k \in DOMAIN l : l[k].record.type \in RecordTypes
    PROVE  KnownContext(l, Replayed(Items(l)))
  <1> DEFINE T == Elements(l)
             C == {p \in Seq(T) : AnswersLatest(p) => KnownContext(p, Replayed(Items(p)))}
  <1>1. << >> \in C
    <2>1. Items(<< >>) = << >> /\ Replayed(<< >>) = NewLoopState
      BY KeepItemsFold, ReplaysFold
    <2>2. IsBuilder(NewLoopState.builder)
      BY BalancedNew DEF Balanced
    <2>3. Build(NewLoopState.builder) = << >>
      BY EmptyIsSequence, ConcatFacts DEF NewLoopState, NewBuilder, Build
    <2>4. CallsIn(<< >>) = {}
      BY DEF CallsIn
    <2>5. \A id : Said(<< >>, id) = {}
      BY EmptyIsSequence DEF Said
    <2>6. \A e : Occurs(Build(NewLoopState.builder), e) = 0
      BY <2>3, OccursEmpty
    <2>7. KnownContext(<< >>, NewLoopState)
      BY <2>2, <2>4, <2>5, <2>6, NewLoopStateFacts, FS_EmptySet DEF KnownContext
    <2> QED BY <2>1, <2>7
  <1>2. ASSUME NEW p, NEW x, IsSequence(p), p \in C, x \in T
        PROVE  Append(p, x) \in C
    <2> DEFINE s == Replayed(Items(p))
               t == Replayed(Items(Append(p, x)))
    <2>1. x.record.type \in RecordTypes
      BY <1>2 DEF Elements, IsSequence
    <2>2. Append(p, x) \in Seq(T)
      BY <1>2
    <2>3. SUFFICES ASSUME AnswersLatest(Append(p, x)) PROVE KnownContext(Append(p, x), t)
      BY <2>2
    <2>4. AnswersLatest(p)
      BY <1>2, <2>3, AnswersFront
    <2>5. KnownContext(p, s)
      BY <1>2, <2>4
    <2>6. IsLoopState(s)
      <3>1. \A k \in DOMAIN p : p[k].record.type \in RecordTypes
        <4>1. p \in Seq(T) /\ \A y \in T : y.record.type \in RecordTypes
          BY <1>2 DEF Elements, IsSequence
        <4> HIDE DEF T
        <4> QED BY <4>1
      <3> QED BY <1>2, <2>4, <3>1, ReplaysAlwaysBalanced DEF ReplaysBalanced
    <2>7. t = IF IsItem(x.record) THEN AddItem(s, x.record) ELSE s
      BY <1>2, ReplayedOne
    <2> HIDE DEF s, t
    <2>8. CASE x.record.type = "operation"
      <3>1. CallsIn(Append(p, x)) = CallsIn(p)
        BY <1>2, <2>8, CallsAppend
      <3>2. \A id : Cardinality(Said(Append(p, x), id)) = Cardinality(Said(p, id))
        BY <1>2, <2>8, SaidAppend DEF IsSaid
      <3> QED BY <2>5, <2>7, <2>8, <3>1, <3>2 DEF KnownContext, IsItem
    <2>9. CASE x.record.type # "operation"
      BY <1>2, <2>1, <2>5, <2>6, <2>7, <2>9, KnownItem DEF IsItem, RecordTypes
    <2> QED BY <2>8, <2>9
  <1>3. l \in Seq(T)
    BY DEF IsSequence
  <1>4. l \in C
    <2> HIDE DEF C, T
    <2> QED BY <1>1, <1>2, <1>3, SequenceInduction
  <1> QED BY <1>4

(* The head that inherits a log knows all turns in it. *)
LEMMA TurnsInherited ==
    ASSUME NEW l, IsSequence(l)
    PROVE  /\ HeadShape(InheritHeads(l))
           /\ \A k \in 1..Len(l) :
                l[k].record.type = "turn" => l[k].record.turn \in InheritHeads(l).turns
  <1> DEFINE T == Elements(l)
             Known1(p) == \A k \in 1..Len(p) :
                            p[k].record.type = "turn" => p[k].record.turn \in InheritHeads(p).turns
             C == {p \in Seq(T) : Known1(p)}
  <1>1. << >> \in C
    BY EmptyIsSequence
  <1>2. ASSUME NEW p, NEW x, IsSequence(p), p \in C, x \in T
        PROVE  Append(p, x) \in C
    <2>1. Append(p, x) \in Seq(T) /\ Known1(p)
      BY <1>2
    <2>2. InheritHeads(Append(p, x)) = InheritTo(InheritHeads(p), x)
      BY <1>2, HeadsFold
    <2>3. InheritTo(InheritHeads(p), x).turns =
            IF x.record.type = "turn" THEN InheritHeads(p).turns \cup {x.record.turn}
                                      ELSE InheritHeads(p).turns
      BY <1>2, HeadsShape, InheritFields
    <2>4. /\ Len(p) \in Nat /\ Len(Append(p, x)) = Len(p) + 1
          /\ Append(p, x)[Len(p) + 1] = x /\ \A k \in 1..Len(p) : Append(p, x)[k] = p[k]
      BY <1>2, AppendFacts DEF IsSequence
    <2>5. Known1(Append(p, x))
      BY <2>1, <2>2, <2>3, <2>4
    <2> QED BY <2>1, <2>5
  <1>3. l \in Seq(T)
    BY DEF IsSequence
  <1>4. l \in C
    <2> HIDE DEF C, T
    <2> QED BY <1>1, <1>2, <1>3, SequenceInduction
  <1> QED BY <1>4, HeadsShape

InitialCalls == CallsIn(InitialLog)

InitialContext == Image(InitialLog).replayed.builder

InitialLatest == Image(InitialLog).head.latest

(* The calls a fork inherits are of inherited turns. *)
LEMMA InitialCallsFacts ==
    /\ InitialLatest \in Nat
    /\ \A key \in InitialCalls : key[1] \in Nat /\ key[1] <= InitialLatest
  <1> DEFINE l == InitialLog
             h == Image(InitialLog).head
  <1>1. /\ IsSequence(l) /\ Decode(l).ok /\ Inherited(l) = Len(l) /\ AnswersLatest(l)
        /\ OwnsNothing(Image(l))
    BY InitialLogAssumption, SequenceIn
  <1>2. h.latest \in Nat /\ \A turn \in h.turns : turn \in Nat /\ turn <= h.latest
    BY <1>1 DEF OwnsNothing
  <1>3. h = Decode(l).head
    BY DEF Image
  <1>4. l # << >> => Decode(l).head = InheritHeads(l)
    <2> SUFFICES ASSUME l # << >> PROVE Decode(l).head = InheritHeads(l)
      OBVIOUS
    <2> DEFINE n == Len(l) - 1
               p == SubSeq(l, 1, n)
               x == l[Len(l)]
    <2>1. Len(l) \in Nat /\ Len(l) # 0
      BY <1>1, LengthZero DEF IsSequence
    <2>2. n \in Nat /\ Len(l) = n + 1
      BY <2>1
    <2> HIDE DEF n, l
    <2>3. IsSequence(p) /\ l = Append(p, x)
      BY <1>1, <2>2, FrontAndLast
    <2>4. IsFork(x)
      BY <1>1, <2>1, InheritedFacts
    <2> HIDE DEF p, x
    <2>5. Decode(l) = ReplayInherited(InheritAll(p), x) /\ InheritAll(l) = ReplayInherited(InheritAll(p), x)
      BY <2>3, <2>4, DecodeFork, InheritFold
    <2>6. InheritAll(l).ok => InheritAll(l).head = InheritHeads(l)
      BY <1>1, InheritAllFacts DEF InheritsWell
    <2> QED BY <1>1, <2>5, <2>6
  <1> HIDE DEF h, l
  <1>5. ASSUME NEW key \in CallsIn(l)
        PROVE  key[1] \in h.turns
    <2>1. PICK k \in DOMAIN l : l[k].record.type = "response" /\ key \in CallKeys(l[k].record)
      BY DEF CallsIn, CallKeys
    <2>2. key[1] = l[k].record.turn
      BY <2>1 DEF CallKeys
    <2>3. DOMAIN l = 1..Len(l) /\ Len(l) \in Nat
      BY <1>1 DEF IsSequence
    <2>4. PICK i \in 1..(k - 1) : l[i].record.type = "turn" /\ l[i].record.turn = l[k].record.turn
      BY <1>1, <2>1 DEF AnswersLatest
    <2>5. i \in 1..Len(l) /\ l # << >>
      BY <2>3, <2>4, EmptyIsSequence
    <2>6. l[i].record.turn \in InheritHeads(l).turns
      BY <1>1, <2>4, <2>5, TurnsInherited
    <2> QED BY <1>3, <1>4, <2>2, <2>4, <2>5, <2>6
  <1> QED BY <1>2, <1>5 DEF InitialCalls, InitialLatest, h, l

(***************************************************************************)
(* The calls of this session: an unfinished one has no final result yet,   *)
(* and a placeholder once it is translated; a finished one has exactly one *)
(* final result.  What was inherited stays as it was.                      *)
(***************************************************************************)
TurnsAreNew ==
    /\ head.latest >= InitialLatest
    /\ \A turn \in head.owned : turn \in Nat /\ turn > InitialLatest
    /\ \A key \in CallsIn(log) :
         key \in InitialCalls \/ (key[1] \in head.owned /\ key[1] \in head.responded)

ResultsOK(calls, toolCalls, b) ==
    /\ \A key \in calls \ InitialCalls :
         Occurs(Build(b), Final(key)) = IF key \in DOMAIN toolCalls THEN 0 ELSE 1
    /\ \A key \in DOMAIN toolCalls :
         toolCalls[key].translated = TRUE => Occurs(Build(b), Placeholder(key)) > 0
    /\ \A key \in InitialCalls :
         /\ Occurs(Build(b), Final(key)) = Occurs(Build(InitialContext), Final(key))
         /\ Occurs(b.committed, Placeholder(key)) >= Occurs(InitialContext.committed, Placeholder(key))

ContextInv ==
    /\ KnownContext(log, image.replayed)
    /\ TurnsAreNew
    /\ ResultsOK(CallsIn(log), image.replayed.toolCalls, image.replayed.builder)

LEMMA InitContext == Init => ContextInv
  <1> SUFFICES ASSUME Init PROVE ContextInv
    OBVIOUS
  <1>1. /\ log = InitialLog /\ image = Image(InitialLog)
        /\ image.replayed = Replayed(Items(InitialLog))
    BY Zenon DEF Init, Image, Replayed
  <1>2. IsSequence(InitialLog)
    BY InitialLogAssumption, SequenceIn
  <1>3. KnownContext(log, image.replayed)
    BY <1>1, <1>2, InitialLogAssumption, ReplaysKnown
  <1>4. Inv
    BY InitInv
  <1>5. DOMAIN image.replayed.toolCalls = {} /\ head.owned = {}
    <2>1. OwnsNothing(image)
      BY <1>1, InitialLogAssumption
    <2>2. ASSUME NEW start, OwnsNothing(start)
          PROVE  start.replayed.toolCalls = << >> /\ start.head.owned = {}
      BY <2>2 DEF OwnsNothing, NewLoopState, NewHead
    <2> QED BY <2>1, <2>2 DEF head
  <1>6. TurnsAreNew
    <2>1. head.latest = InitialLatest
      BY <1>1 DEF head, InitialLatest
    <2>2. CallsIn(log) = InitialCalls
      BY <1>1 DEF InitialCalls
    <2> QED BY <1>5, <2>1, <2>2, InitialCallsFacts DEF TurnsAreNew
  <1>7. ResultsOK(CallsIn(log), image.replayed.toolCalls, image.replayed.builder)
    <2> DEFINE b == image.replayed.builder
    <2>1. b = InitialContext /\ CallsIn(log) = InitialCalls
      BY <1>1 DEF InitialContext, InitialCalls
    <2>2. \A e : Occurs(b.committed, e) \in Nat
      BY <1>3, BuildCounts DEF KnownContext
    <2> HIDE DEF b
    <2>3. ResultsOK(InitialCalls, image.replayed.toolCalls, b)
      BY <1>5, <2>1, <2>2 DEF ResultsOK
    <2> QED BY <2>1, <2>3 DEF b
  <1> QED BY <1>3, <1>6, <1>7 DEF ContextInv

(* An unfinished call is one of this session. *)
LEMMA OwnCall ==
    ASSUME Inv, ContextInv, NEW key \in DOMAIN image.replayed.toolCalls
    PROVE  key \in CallsIn(log) \ InitialCalls
  <1>1. key \in CallsIn(log)
    BY DEF ContextInv, KnownContext
  <1>2. key[1] \in head.owned
    BY DEF Inv, ImageInv, CallsOK, head
  <1>3. key[1] \in Nat /\ key[1] > InitialLatest
    BY <1>2 DEF ContextInv, TurnsAreNew
  <1> QED BY <1>1, <1>3, InitialCallsFacts

(* Results stay what they are; what is committed stays. *)
KeepsResults(b, c) ==
    \A key : /\ Occurs(Build(c), Final(key)) = Occurs(Build(b), Final(key))
             /\ Occurs(Build(c), Placeholder(key)) = Occurs(Build(b), Placeholder(key))
             /\ Occurs(c.committed, Placeholder(key)) >= Occurs(b.committed, Placeholder(key))

LEMMA QuietItem ==
    ASSUME NEW s, IsLoopState(s), IsBuilder(s.builder), NEW r, r.type \in {"input", "turn", "response"}
    PROVE  KeepsResults(s.builder, AddItem(s, r).builder)
  <1> DEFINE b == s.builder
             c == AddItem(s, r).builder
  <1> SUFFICES ASSUME NEW key
               PROVE /\ Occurs(Build(c), Final(key)) = Occurs(Build(b), Final(key))
                     /\ Occurs(Build(c), Placeholder(key)) = Occurs(Build(b), Placeholder(key))
                     /\ Occurs(c.committed, Placeholder(key)) >= Occurs(b.committed, Placeholder(key))
    BY DEF KeepsResults
  <1> DEFINE f == Final(key)
             d == Placeholder(key)
  <1>0. /\ Occurs(Build(b), d) = Occurs(b.committed, d) + Occurs(b.staged, d)
        /\ Occurs(b.committed, d) \in Nat /\ Occurs(b.staged, d) \in Nat
    BY BuildCounts
  <1>1. /\ f.kind # "response" /\ d.kind # "response"
        /\ \A id : f # Message(id) /\ d # Message(id)
    BY EntriesDiffer
  <1>2. CASE r.type = "input"
    <2>1. c = IF r.kind \in {"external", "heartbeat"} THEN AddMessage(b, r.id) ELSE b
      BY <1>2, AddInputFacts
    <2> HIDE DEF b, c, f, d
    <2>2. CASE r.kind \in {"external", "heartbeat"}
      <3>1. /\ c.committed = b.committed
            /\ Occurs(Build(c), d) = Occurs(Build(b), d)
            /\ Occurs(Build(c), f) = Occurs(Build(b), f)
        BY <1>1, <2>1, <2>2, MessageCounts DEF b
      <3> QED BY <1>0, <3>1 DEF b, c, f, d
    <2>3. CASE r.kind \notin {"external", "heartbeat"}
      BY <1>0, <2>1, <2>3 DEF f, d
    <2> QED BY <2>2, <2>3 DEF b, c
  <1>3. CASE r.type = "turn"
    <2>1. c = Commit(b)
      BY <1>3, AddTurnFacts
    <2> HIDE DEF b, c, f, d
    <2>2. /\ Occurs(c.committed, d) = Occurs(Build(b), d)
          /\ Occurs(Build(c), d) = Occurs(Build(b), d)
          /\ Occurs(Build(c), f) = Occurs(Build(b), f)
      BY <2>1, CommitCounts DEF b
    <2> QED BY <1>0, <2>2 DEF b, c, f, d
  <1>4. CASE r.type = "response"
    <2>1. c = AddModelResponse(b, r.turn)
      BY <1>4, AddResponseFacts
    <2> HIDE DEF b, c, f, d
    <2>2. /\ Occurs(c.committed, d) = Occurs(b.committed, d)
          /\ Occurs(Build(c), d) = Occurs(Build(b), d)
          /\ Occurs(Build(c), f) = Occurs(Build(b), f)
      BY <1>1, <2>1, ResponseCounts DEF b
    <2> QED BY <1>0, <2>2 DEF b, c, f, d
  <1> QED BY <1>2, <1>3, <1>4

LEMMA InitialContextFacts ==
    ASSUME NEW e PROVE Occurs(InitialContext.committed, e) \in Nat
  <1>1. KnownContext(InitialLog, Replayed(Items(InitialLog)))
    BY InitialLogAssumption, SequenceIn, ReplaysKnown
  <1>2. Image(InitialLog).replayed = Replayed(Items(InitialLog))
    BY Zenon DEF Image, Replayed
  <1>3. IsBuilder(InitialContext)
    BY <1>1, <1>2 DEF KnownContext, InitialContext
  <1> QED BY <1>3, BuildCounts

LEMMA ResponseResults ==
    ASSUME NEW calls, NEW toolCalls, NEW b, ResultsOK(calls, toolCalls, b), NEW r,
           NEW c, KeepsResults(b, c), IsBuilder(b), IsBuilder(c),
           DOMAIN toolCalls \subseteq calls,
           \A key \in CallKeys(r) : key \notin calls /\ Occurs(Build(b), Final(key)) = 0
    PROVE  ResultsOK(calls \cup CallKeys(r), Override(FreshCalls(r), toolCalls), c)
  <1> DEFINE new == Override(FreshCalls(r), toolCalls)
  <1>1. /\ DOMAIN new = CallKeys(r) \cup DOMAIN toolCalls
        /\ \A key \in CallKeys(r) : new[key].translated = FALSE
        /\ \A key \in DOMAIN toolCalls \ CallKeys(r) : new[key] = toolCalls[key]
    BY DEF Override, FreshCalls, CallKeys
  <1> HIDE DEF new
  <1>2. ASSUME NEW key
        PROVE  /\ Occurs(Build(c), Final(key)) = Occurs(Build(b), Final(key))
               /\ Occurs(Build(c), Placeholder(key)) = Occurs(Build(b), Placeholder(key))
               /\ Occurs(c.committed, Placeholder(key)) >= Occurs(b.committed, Placeholder(key))
               /\ Occurs(b.committed, Placeholder(key)) \in Nat
               /\ Occurs(c.committed, Placeholder(key)) \in Nat
    BY BuildCounts DEF KeepsResults
  <1>3. ASSUME NEW key \in (calls \cup CallKeys(r)) \ InitialCalls
        PROVE  Occurs(Build(c), Final(key)) = IF key \in DOMAIN new THEN 0 ELSE 1
    <2>1. CASE key \in CallKeys(r)
      BY <1>1, <1>2, <2>1
    <2>2. CASE key \notin CallKeys(r)
      <3>1. key \in calls \ InitialCalls /\ (key \in DOMAIN new <=> key \in DOMAIN toolCalls)
        BY <1>1, <2>2
      <3>2. Occurs(Build(b), Final(key)) = IF key \in DOMAIN toolCalls THEN 0 ELSE 1
        BY <3>1 DEF ResultsOK
      <3> QED BY <1>2, <3>1, <3>2
    <2> QED BY <2>1, <2>2
  <1>4. ASSUME NEW key \in DOMAIN new, new[key].translated = TRUE
        PROVE  Occurs(Build(c), Placeholder(key)) > 0
    <2>1. key \in DOMAIN toolCalls /\ toolCalls[key].translated = TRUE
      BY <1>1, <1>4
    <2>2. Occurs(Build(b), Placeholder(key)) > 0
      BY <2>1 DEF ResultsOK
    <2> QED BY <1>2, <2>2
  <1>5. ASSUME NEW key \in InitialCalls
        PROVE  /\ Occurs(Build(c), Final(key)) = Occurs(Build(InitialContext), Final(key))
               /\ Occurs(c.committed, Placeholder(key)) >= Occurs(InitialContext.committed, Placeholder(key))
    <2>1. /\ Occurs(Build(b), Final(key)) = Occurs(Build(InitialContext), Final(key))
          /\ Occurs(b.committed, Placeholder(key)) >= Occurs(InitialContext.committed, Placeholder(key))
      BY DEF ResultsOK
    <2>2. Occurs(InitialContext.committed, Placeholder(key)) \in Nat
      BY InitialContextFacts
    <2> QED BY <1>2, <2>1, <2>2
  <1> QED BY <1>3, <1>4, <1>5 DEF ResultsOK, new

(* Where calls are the same, and results stay. *)
LEMMA QuietResults ==
    ASSUME NEW calls, NEW toolCalls, NEW b, ResultsOK(calls, toolCalls, b),
           NEW c, KeepsResults(b, c), IsBuilder(b), IsBuilder(c)
    PROVE  ResultsOK(calls, toolCalls, c)
  <1>1. ASSUME NEW key
        PROVE  /\ Occurs(Build(c), Final(key)) = Occurs(Build(b), Final(key))
               /\ Occurs(Build(c), Placeholder(key)) = Occurs(Build(b), Placeholder(key))
               /\ Occurs(c.committed, Placeholder(key)) >= Occurs(b.committed, Placeholder(key))
               /\ Occurs(b.committed, Placeholder(key)) \in Nat
               /\ Occurs(c.committed, Placeholder(key)) \in Nat
               /\ Occurs(InitialContext.committed, Placeholder(key)) \in Nat
    BY BuildCounts, InitialContextFacts DEF KeepsResults
  <1>2. ASSUME NEW key \in InitialCalls
        PROVE  /\ Occurs(Build(c), Final(key)) = Occurs(Build(InitialContext), Final(key))
               /\ Occurs(c.committed, Placeholder(key)) >= Occurs(InitialContext.committed, Placeholder(key))
    <2>1. /\ Occurs(Build(b), Final(key)) = Occurs(Build(InitialContext), Final(key))
          /\ Occurs(b.committed, Placeholder(key)) >= Occurs(InitialContext.committed, Placeholder(key))
      BY DEF ResultsOK
    <2> QED BY <1>1, <2>1
  <1> QED BY <1>1, <1>2 DEF ResultsOK

(* A status of an unfinished call that carries all its operations. *)
LEMMA StatusResults ==
    ASSUME NEW calls, NEW s, IsLoopState(s), IsBuilder(s.builder),
           ResultsOK(calls, s.toolCalls, s.builder),
           NEW r, r.type = "status", StatusKey(r) \in DOMAIN s.toolCalls, r.waits = DOMAIN r.ops,
           StatusKey(r) \in calls \ InitialCalls
    PROVE  /\ ResultsOK(calls, AddItem(s, r).toolCalls, AddItem(s, r).builder)
           /\ AddItem(s, r).builder.committed = s.builder.committed
           /\ DOMAIN AddItem(s, r).toolCalls \subseteq DOMAIN s.toolCalls
  <1> DEFINE t == AddItem(s, r)
             b == s.builder
             c == t.builder
             old == s.toolCalls
             new == t.toolCalls
             me == StatusKey(r)
  <1>1. r.waits \subseteq DOMAIN Known(s, r)
    BY DEF Known, Override
  <1>2. /\ c = AddToolResult(b, me, ~AllEnded(s, r))
        /\ AllEnded(s, r) => new = Without(Given(old, r), me)
    BY <1>1, AddStatusFacts
  <1>3. /\ DOMAIN new \subseteq DOMAIN old
        /\ \A k \in DOMAIN new : k # me => new[k] = old[k]
        /\ me \in DOMAIN new => ~AllEnded(s, r)
    BY <1>1, AddStatusCalls
  <1>4. DOMAIN new = IF AllEnded(s, r) THEN DOMAIN old \ {me} ELSE DOMAIN old
    <2>1. DOMAIN Given(old, r) = DOMAIN old
      BY GivenFacts DEF IsLoopState
    <2>2. ~AllEnded(s, r) => new = Given(old, r)
      BY <1>1, AddStatusFacts
    <2> QED BY <1>2, <2>1, <2>2 DEF Without
  <1>5. /\ \A key \in calls \ InitialCalls :
             Occurs(Build(b), Final(key)) = IF key \in DOMAIN old THEN 0 ELSE 1
        /\ \A key \in DOMAIN old :
             old[key].translated = TRUE => Occurs(Build(b), Placeholder(key)) > 0
        /\ \A key \in InitialCalls :
             /\ Occurs(Build(b), Final(key)) = Occurs(Build(InitialContext), Final(key))
             /\ Occurs(b.committed, Placeholder(key)) >= Occurs(InitialContext.committed, Placeholder(key))
    BY DEF ResultsOK
  <1>6. me \in DOMAIN old /\ me \in calls \ InitialCalls /\ IsBuilder(b)
    OBVIOUS
  <1>7. CASE AllEnded(s, r)
    <2>1. (~AllEnded(s, r)) = FALSE
      BY <1>7 DEF AllEnded
    <2>2. c = Settled(b, me)
      BY <1>2, <2>1 DEF Settled
    <2>3. DOMAIN new = DOMAIN old \ {me}
      BY <1>4, <1>7
    <2> HIDE DEF b, c, t, old, new, me
    <2>4. c.committed = b.committed
      BY <1>6, <2>2, SettledFacts
    <2>5. ASSUME NEW key
          PROVE  Occurs(Build(c), Final(key)) =
                   IF key = me THEN Occurs(Build(b), Final(key)) + 1 ELSE Occurs(Build(b), Final(key))
      <3>1. Final(key) # Placeholder(me) /\ (Final(key) = Final(me) <=> key = me)
        BY EntriesDiffer
      <3> QED BY <1>6, <2>2, <3>1, SettledCounts
    <2>6. ASSUME NEW key, key # me
          PROVE  Occurs(Build(c), Placeholder(key)) = Occurs(Build(b), Placeholder(key))
      <3>1. Placeholder(key) # Placeholder(me) /\ Placeholder(key) # Final(me)
        BY <2>6, EntriesDiffer
      <3> QED BY <1>6, <2>2, <3>1, SettledCounts
    <2>7. \A key \in calls \ InitialCalls :
            Occurs(Build(c), Final(key)) = IF key \in DOMAIN new THEN 0 ELSE 1
      BY <1>5, <1>6, <2>3, <2>5
    <2>8. \A key \in DOMAIN new :
            new[key].translated = TRUE => Occurs(Build(c), Placeholder(key)) > 0
      BY <1>3, <1>5, <2>3, <2>6
    <2>9. \A key \in InitialCalls :
             /\ Occurs(Build(c), Final(key)) = Occurs(Build(InitialContext), Final(key))
             /\ Occurs(c.committed, Placeholder(key)) >= Occurs(InitialContext.committed, Placeholder(key))
      BY <1>5, <1>6, <2>4, <2>5
    <2>10. ResultsOK(calls, new, c)
      BY <2>7, <2>8, <2>9 DEF ResultsOK
    <2> QED BY <1>3, <2>4, <2>10 DEF b, c, t, old, new
  <1>8. CASE ~AllEnded(s, r)
    <2>1. (~AllEnded(s, r)) = TRUE
      BY <1>8 DEF AllEnded
    <2>2. c = Shown(b, me)
      BY <1>2, <2>1 DEF Shown
    <2>3. DOMAIN new = DOMAIN old
      BY <1>4, <1>8
    <2> HIDE DEF b, c, t, old, new, me
    <2>4. c.committed = b.committed /\ Occurs(Build(c), Placeholder(me)) > 0
      BY <1>6, <2>2, ShownFacts, ShownCounts
    <2>5. ASSUME NEW key
          PROVE  Occurs(Build(c), Final(key)) = Occurs(Build(b), Final(key))
      <3>1. Final(key) # Placeholder(me)
        BY EntriesDiffer
      <3> QED BY <1>6, <2>2, <3>1, ShownCounts
    <2>6. ASSUME NEW key, key # me
          PROVE  Occurs(Build(c), Placeholder(key)) = Occurs(Build(b), Placeholder(key))
      <3>1. Placeholder(key) # Placeholder(me)
        BY <2>6, EntriesDiffer
      <3> QED BY <1>6, <2>2, <3>1, ShownCounts
    <2>7. \A key \in calls \ InitialCalls :
            Occurs(Build(c), Final(key)) = IF key \in DOMAIN new THEN 0 ELSE 1
      BY <1>5, <2>3, <2>5
    <2>8. ASSUME NEW key \in DOMAIN new, new[key].translated = TRUE
          PROVE  Occurs(Build(c), Placeholder(key)) > 0
      <3>1. CASE key = me
        BY <2>4, <3>1
      <3>2. CASE key # me
        BY <1>3, <1>5, <2>3, <2>6, <2>8, <3>2
      <3> QED BY <3>1, <3>2
    <2>9. \A key \in InitialCalls :
             /\ Occurs(Build(c), Final(key)) = Occurs(Build(InitialContext), Final(key))
             /\ Occurs(c.committed, Placeholder(key)) >= Occurs(InitialContext.committed, Placeholder(key))
      BY <1>5, <2>4, <2>5
    <2>10. ResultsOK(calls, new, c)
      BY <2>7, <2>8, <2>9 DEF ResultsOK
    <2> QED BY <1>3, <2>4, <2>10 DEF b, c, t, old, new
  <1> QED BY <1>7, <1>8

(* One more record. *)
LEMMA RecordTurnsNew ==
    ASSUME Inv, LogInv, TurnsAreNew, NEW r, Appends(r), r.type = "turn" => r.turn = FreshTurn
    PROVE  /\ TurnsAreNew'
           /\ r.type = "response" => \A key \in CallKeys(r) : key \notin CallsIn(log)
  <1> DEFINE x == Line(head, r)
  <1>1. /\ IsSequence(log) /\ CanAppend(head, r) /\ log' = Append(log, x)
        /\ head' = AppendTo(head, r) /\ x.record = r
    BY DEF LogInv, Appends, head, Extend, Line
  <1>2. IsHead(head) /\ HeadShape(head)
    <2>1. IsHead(Decode(log).head) /\ head = Decode(log).head
      BY DecodeFacts DEF LogInv, LogReadsBack, DecodesWell, head, Image
    <2> QED BY <2>1 DEF IsHead
  <1>3. CallsIn(log') = IF r.type = "response" THEN CallsIn(log) \cup CallKeys(r) ELSE CallsIn(log)
    BY <1>1, CallsAppend
  <1>4. /\ head.latest \in Nat /\ head.latest >= InitialLatest /\ InitialLatest \in Nat
        /\ \A turn \in head.owned : turn \in Nat /\ turn > InitialLatest
        /\ \A key \in CallsIn(log) :
             key \in InitialCalls \/ (key[1] \in head.owned /\ key[1] \in head.responded)
    BY InitialCallsFacts DEF TurnsAreNew, Inv, ImageInv, TurnsOK, head
  <1>5. ASSUME r.type = "response", NEW key \in CallKeys(r)
        PROVE  key \notin CallsIn(log) /\ key[1] = r.turn
    <2>1. key[1] = r.turn
      BY <1>5 DEF CallKeys
    <2>2. r.turn \in head.owned /\ r.turn \notin head.responded
      BY <1>1, <1>5 DEF CanAppend
    <2>3. key \notin InitialCalls
      BY <1>4, <2>1, <2>2, InitialCallsFacts
    <2> QED BY <1>4, <2>1, <2>2, <2>3
  <1>6. TurnsAreNew'
    <2>1. CASE r.type = "turn"
      <3>1. /\ head'.latest = head.latest + 1 /\ head'.responded = head.responded
            /\ head'.owned = head.owned \cup {head.latest + 1}
        BY <1>1, <1>2, <2>1, AppendTurnFacts DEF FreshTurn
      <3>2. CallsIn(log') = CallsIn(log)
        BY <1>3, <2>1
      <3> QED BY <1>4, <3>1, <3>2 DEF TurnsAreNew
    <2>2. CASE r.type # "turn"
      <3>1. /\ head'.latest = head.latest /\ head'.owned = head.owned
            /\ head'.responded = IF r.type = "response" THEN head.responded \cup {r.turn}
                                                        ELSE head.responded
        BY <1>1, <1>2, <2>2, AppendLatest, AppendOwned
      <3>2. r.type = "response" => r.turn \in head.owned
        BY <1>1 DEF CanAppend
      <3>3. ASSUME NEW key \in CallsIn(log')
            PROVE  key \in InitialCalls \/ (key[1] \in head'.owned /\ key[1] \in head'.responded)
        <4>1. CASE key \in CallsIn(log)
          BY <1>4, <3>1, <4>1
        <4>2. CASE key \notin CallsIn(log)
          <5>1. r.type = "response" /\ key \in CallKeys(r)
            BY <1>3, <4>2
          <5>2. key[1] = r.turn
            BY <1>5, <5>1
          <5> QED BY <3>1, <3>2, <5>1, <5>2
        <4> QED BY <4>1, <4>2
      <3> QED BY <1>4, <3>1, <3>3 DEF TurnsAreNew
    <2> QED BY <2>1, <2>2
  <1> QED BY <1>5, <1>6

LEMMA RecordContext ==
    ASSUME Inv, LogInv, ContextInv, NEW r, Records(r)
    PROVE  ContextInv'
  <1> DEFINE x == Line(head, r)
             s == image.replayed
             t == image.replayed'
  <1>1. /\ IsSequence(log) /\ CanAppend(head, r) /\ log' = Append(log, x) /\ x.record = r
        /\ IsLoopState(s) /\ Appends(r) /\ (r.type = "turn" => r.turn = FreshTurn)
    BY DEF LogInv, Records, Appends, Line, Inv, ImageInv
  <1>2. t = IF r.type = "operation" THEN s ELSE AddItem(s, r)
    BY ExtendFields DEF Records, Appends
  <1>3. r.type \in {"input", "turn", "response", "status", "operation"}
    BY <1>1 DEF CanAppend
  <1>4. /\ KnownContext(log, s) /\ TurnsAreNew /\ IsBuilder(s.builder)
        /\ ResultsOK(CallsIn(log), s.toolCalls, s.builder)
    BY DEF ContextInv, KnownContext
  <1>5. CallsIn(log') = IF r.type = "response" THEN CallsIn(log) \cup CallKeys(r) ELSE CallsIn(log)
    BY <1>1, CallsAppend
  <1>6. /\ TurnsAreNew'
        /\ r.type = "response" => \A key \in CallKeys(r) : key \notin CallsIn(log)
    BY <1>1, <1>4, RecordTurnsNew
  <1> HIDE DEF x, s, t
  <1>7. KnownContext(log', t)
    <2>1. CASE r.type = "operation"
      <3>1. CallsIn(log') = CallsIn(log)
        BY <1>5, <2>1
      <3>2. \A id : Cardinality(Said(log', id)) = Cardinality(Said(log, id))
        BY <1>1, <2>1, SaidAppend DEF IsSaid
      <3> QED BY <1>2, <1>4, <2>1, <3>1, <3>2 DEF KnownContext
    <2>2. CASE r.type # "operation"
      BY <1>1, <1>2, <1>3, <1>4, <2>2, KnownItem
    <2> QED BY <2>1, <2>2
  <1>8. IsBuilder(t.builder)
    BY <1>7 DEF KnownContext
  <1>9. ResultsOK(CallsIn(log'), t.toolCalls, t.builder)
    <2>1. CASE r.type = "operation"
      BY <1>2, <1>4, <1>5, <2>1
    <2>2. CASE r.type \in {"input", "turn"}
      <3>1. KeepsResults(s.builder, t.builder)
        BY <1>1, <1>2, <1>4, <2>2, QuietItem
      <3>2. t.toolCalls = s.toolCalls
        BY <1>1, <1>2, <2>2, AddInputFacts, AddTurnFacts
      <3> QED BY <1>4, <1>5, <1>8, <2>2, <3>1, <3>2, QuietResults
    <2>3. CASE r.type = "response"
      <3>1. KeepsResults(s.builder, t.builder)
        BY <1>1, <1>2, <1>4, <2>3, QuietItem
      <3>2. t.toolCalls = Override(FreshCalls(r), s.toolCalls)
        BY <1>1, <1>2, <2>3, AddResponseFacts
      <3>3. /\ DOMAIN s.toolCalls \subseteq CallsIn(log)
            /\ \A key \in CallKeys(r) :
                 key \notin CallsIn(log) /\ Occurs(Build(s.builder), Final(key)) = 0
        BY <1>4, <1>6, <2>3 DEF KnownContext
      <3> QED BY <1>4, <1>5, <1>8, <2>3, <3>1, <3>2, <3>3, ResponseResults
    <2>4. CASE r.type = "status"
      <3>1. StatusKey(r) \in DOMAIN s.toolCalls /\ r.waits = DOMAIN r.ops
        BY <2>4 DEF Records, Inv, MemoryOK, Agree, s
      <3>2. StatusKey(r) \in CallsIn(log) \ InitialCalls
        BY <3>1, OwnCall DEF s
      <3> QED BY <1>1, <1>2, <1>4, <1>5, <2>4, <3>1, <3>2, StatusResults
    <2> QED BY <1>3, <2>1, <2>2, <2>3, <2>4
  <1> QED BY <1>6, <1>7, <1>9 DEF ContextInv, t

(* What was asked: every unfinished call has a placeholder in the request. *)
AskedInv ==
    modelActive =>
      \A key \in DOMAIN image.replayed.toolCalls :
        Occurs(image.replayed.builder.committed, Placeholder(key)) > 0

LEMMA StepActive ==
    ASSUME [Next]_vars, ~modelActive
    PROVE  ~modelActive' \/ RequestModel
  BY DEF Next, vars, loopVars, storeVars, envVars, Start, ScheduleToolCall, ReconcileToolCall, BootScheduled,
         BootDispatch, TakeInput, TakeUpdate, PostHeartbeat, GraceExpires, TakeResponse,
         DropResponse, ModelFails, ResponseScheduled, SlurpEnds, HardStop, WaitOrStop,
         Submit, OperationProgresses, OperationEnds, Die, Exit

LEMMA RequestAsked ==
    ASSUME Inv, Inv', ContextInv, RequestModel
    PROVE  AskedInv'
  <1> DEFINE r == [type |-> "turn", turn |-> FreshTurn, prev |-> ls.turn]
             s == image.replayed
             t == image.replayed'
  <1>1. Appends(r) /\ r.type = "turn"
    BY PersistAppends DEF RequestModel
  <1> HIDE DEF r
  <1>2. t = AddItem(s, r) /\ IsLoopState(s)
    BY <1>1, ExtendFields DEF Appends, Inv, ImageInv
  <1>3. Up /\ Scheduled
    BY DEF RequestModel, Inv, ControlOK, Up
  <1>4. ls.toolCalls = s.toolCalls
    BY <1>3 DEF Inv, MemoryOK, Agree
  <1>5. ASSUME NEW key \in DOMAIN s.toolCalls
        PROVE  s.toolCalls[key].translated = TRUE
    BY <1>3, <1>4 DEF Scheduled, Inv, ImageInv, CallsOK
  <1>6. IsBuilder(s.builder) /\ ResultsOK(CallsIn(log), s.toolCalls, s.builder)
    BY DEF ContextInv, KnownContext
  <1> HIDE DEF s, t
  <1>7. t.toolCalls = s.toolCalls /\ t.builder = Commit(s.builder)
    BY <1>1, <1>2, AddTurnFacts
  <1>8. ASSUME NEW key \in DOMAIN t.toolCalls
        PROVE  Occurs(t.builder.committed, Placeholder(key)) > 0
    <2>1. Occurs(Build(s.builder), Placeholder(key)) > 0
      BY <1>5, <1>6, <1>7 DEF ResultsOK
    <2>2. Occurs(t.builder.committed, Placeholder(key)) = Occurs(Build(s.builder), Placeholder(key))
      BY <1>6, <1>7, CommitCounts
    <2> QED BY <2>1, <2>2
  <1> QED BY <1>8 DEF AskedInv, t

LEMMA StepAsked ==
    ASSUME Inv, Inv', ContextInv, ContextInv', AskedInv, [Next]_vars
    PROVE  AskedInv'
  <1> DEFINE s == image.replayed
             t == image.replayed'
  <1>1. CASE RequestModel
    BY <1>1, RequestAsked
  <1>2. CASE ~modelActive'
    BY <1>2 DEF AskedInv
  <1>3. CASE modelActive /\ modelActive' /\ ~RequestModel
    <2>1. \A key \in DOMAIN s.toolCalls : Occurs(s.builder.committed, Placeholder(key)) > 0
      BY <1>3 DEF AskedInv
    <2>2. CASE UNCHANGED <<log, image>>
      BY <2>1, <2>2 DEF AskedInv
    <2>3. ASSUME NEW r, Records(r)
          PROVE  AskedInv'
      <3>1. r.type \in {"input", "status", "operation"}
        BY <1>3, <2>3 DEF Records, Appends, CanAppend
      <3>2. t = IF r.type = "operation" THEN s ELSE AddItem(s, r)
        BY <2>3, ExtendFields DEF Records, Appends
      <3>3. /\ IsLoopState(s) /\ IsBuilder(s.builder) /\ IsBuilder(t.builder)
            /\ ResultsOK(CallsIn(log), s.toolCalls, s.builder)
        BY DEF Inv, ImageInv, ContextInv, KnownContext
      <3>4. r.type = "status" => /\ StatusKey(r) \in DOMAIN s.toolCalls /\ r.waits = DOMAIN r.ops
                                 /\ StatusKey(r) \in CallsIn(log) \ InitialCalls
        <4> SUFFICES ASSUME r.type = "status"
                     PROVE  /\ StatusKey(r) \in DOMAIN s.toolCalls /\ r.waits = DOMAIN r.ops
                            /\ StatusKey(r) \in CallsIn(log) \ InitialCalls
          OBVIOUS
        <4>1. StatusKey(r) \in DOMAIN s.toolCalls /\ r.waits = DOMAIN r.ops
          BY <2>3 DEF Records, Inv, MemoryOK, Agree
        <4> QED BY <4>1, OwnCall
      <3> HIDE DEF s, t
      <3>5. DOMAIN t.toolCalls \subseteq DOMAIN s.toolCalls
        <4>1. CASE r.type = "input"
          BY <3>2, <3>3, <4>1, AddInputFacts
        <4>2. CASE r.type = "status"
          BY <3>2, <3>3, <3>4, <4>2, StatusResults
        <4> QED BY <3>1, <3>2, <4>1, <4>2
      <3>6. \A key : Occurs(t.builder.committed, Placeholder(key)) >=
                       Occurs(s.builder.committed, Placeholder(key))
        <4>1. CASE r.type = "input"
          BY <3>2, <3>3, <4>1, QuietItem DEF KeepsResults
        <4>2. CASE r.type \in {"status", "operation"}
          <5>1. t.builder.committed = s.builder.committed
            BY <3>2, <3>3, <3>4, <4>2, StatusResults
          <5>2. \A key : Occurs(s.builder.committed, Placeholder(key)) \in Nat
            BY <3>3, BuildCounts
          <5> QED BY <5>1, <5>2
        <4> QED BY <3>1, <4>1, <4>2
      <3>7. \A key : /\ Occurs(t.builder.committed, Placeholder(key)) \in Nat
                     /\ Occurs(s.builder.committed, Placeholder(key)) \in Nat
        BY <3>3, BuildCounts
      <3>8. \A key \in DOMAIN t.toolCalls : Occurs(t.builder.committed, Placeholder(key)) > 0
        BY <2>1, <3>5, <3>6, <3>7 DEF s
      <3> QED BY <3>8 DEF AskedInv, t
    <2> QED BY <2>2, <2>3, StepRecords
  <1> QED BY <1>1, <1>2, <1>3, StepActive

(* What the conversation holds is known in every reachable state: each     *)
(* message as often as it is on record, each finished call of this session *)
(* with one final result and each unfinished one with none, and in the     *)
(* request under way a placeholder for it (builder.go:50-128, loop.go:541-641). *)
THEOREM ContextIsKnown == Spec => [](ContextInv /\ AskedInv)
  <1>1. Init => ContextInv /\ AskedInv
    BY InitContext DEF Init, AskedInv
  <1>2. Inv /\ Inv' /\ LogInv /\ ContextInv /\ AskedInv /\ [Next]_vars => ContextInv' /\ AskedInv'
    <2> SUFFICES ASSUME Inv, Inv', LogInv, ContextInv, AskedInv, [Next]_vars
                 PROVE  ContextInv' /\ AskedInv'
      OBVIOUS
    <2>1. ContextInv'
      <3>1. CASE UNCHANGED <<log, image>>
        BY <3>1 DEF ContextInv, TurnsAreNew, head
      <3>2. ASSUME NEW r, Records(r)
            PROVE  ContextInv'
        BY <3>2, RecordContext
      <3> QED BY <3>1, <3>2, StepRecords
    <2> QED BY <2>1, StepAsked
  <1> QED BY <1>1, <1>2, InvHolds, LogInvariant, PTL DEF Spec

(* The calls a session starts from have their results, or a placeholder in *)
(* a request.  So it is for a new session, which starts from none; a fork  *)
(* made while a tool was running may have left it without (loop.go:552).   *)
StartsComplete ==
    \A key \in InitialCalls :
      LET final == Occurs(Build(InitialContext), Final(key))
      IN /\ final <= 1
         /\ final = 0 => Occurs(InitialContext.committed, Placeholder(key)) > 0

LEMMA NewIsComplete == InitialLog = << >> => StartsComplete
  <1> SUFFICES ASSUME InitialLog = << >> PROVE InitialCalls = {}
    BY DEF StartsComplete
  <1> QED BY DEF InitialCalls, CallsIn

(* A message the inbox is told of is on record exactly once. *)
LEMMA SaidOnce ==
    ASSUME Inv, LogInv, InboxInv, NEW id \in image.inputIDs
    PROVE  Cardinality(Said(log, id)) = 1
  <1>1. IsSequence(log) /\ image.inputIDs = ResumeInputIDs(log)
    BY DEF LogInv, LogReadsBack, Image
  <1>2. PICK k \in DOMAIN log :
          /\ log[k].record.type = "input" /\ log[k].record.kind = "external" /\ log[k].record.id = id
    BY <1>1 DEF ResumeInputIDs
  <1>3. DOMAIN log = 1..Len(log)
    BY <1>1 DEF IsSequence
  <1>4. \A j \in DOMAIN log : IsSaid(log[j].record, id) => j = k
    BY <1>2 DEF InboxInv, RecordedOnce, IsSaid
  <1>5. Said(log, id) = {k}
    BY <1>2, <1>3, <1>4 DEF Said, IsSaid
  <1> QED BY <1>5, FS_Singleton

(* While the model is being asked, its request holds every recorded        *)
(* message exactly once, and for every recorded tool call a result, at     *)
(* most one of them final; for calls inherited from before the session     *)
(* this holds if it held to begin with (builder.go:50-128, loop.go:205-254). *)
THEOREM RequestsAreComplete == ASSUME StartsComplete PROVE Spec => []RequestIsComplete
  <1>1. Inv /\ LogInv /\ InboxInv /\ ContextInv /\ AskedInv => RequestIsComplete
    <2> SUFFICES ASSUME Inv, LogInv, InboxInv, ContextInv, AskedInv, Up, modelActive
                 PROVE
                   LET b == ls.builder
                   IN /\ \A id \in image.inputIDs : Count(Build(b), Entry("message", id, FALSE)) = 1
                      /\ \A key \in RecordedCalls :
                           /\ Count(Build(b), Entry("result", key, FALSE)) <= 1
                           /\ Count(Build(b), Entry("result", key, FALSE)) = 0 =>
                                Count(b.committed, Entry("result", key, TRUE)) > 0
      BY DEF RequestIsComplete
    <2> DEFINE b == ls.builder
    <2>1. b = image.replayed.builder /\ IsBuilder(b)
      BY DEF Inv, MemoryOK, Agree, ContextInv, KnownContext
    <2>2. IsSequence(Build(b)) /\ IsSequence(b.committed)
      BY <2>1, ConcatFacts DEF Build, IsBuilder
    <2>3. ASSUME NEW c, IsSequence(c), NEW e PROVE Count(c, e) = Occurs(c, e)
      BY <2>3 DEF Count, Occurs, IsSequence
    <2>4. ASSUME NEW id \in image.inputIDs
          PROVE  Count(Build(b), Entry("message", id, FALSE)) = 1
      <3>1. Occurs(Build(b), Message(id)) = 1
        BY <2>1, SaidOnce DEF ContextInv, KnownContext
      <3> QED BY <2>2, <2>3, <3>1 DEF Message
    <2>5. ASSUME NEW key \in RecordedCalls
          PROVE  /\ Occurs(Build(b), Final(key)) <= 1
                 /\ Occurs(Build(b), Final(key)) = 0 => Occurs(b.committed, Placeholder(key)) > 0
      <3>1. key \in CallsIn(log)
        BY DEF RecordedCalls, CallsIn
      <3>2. /\ Occurs(Build(b), Final(key)) \in Nat /\ Occurs(b.committed, Placeholder(key)) \in Nat
            /\ Occurs(InitialContext.committed, Placeholder(key)) \in Nat
        BY <2>1, BuildCounts, InitialContextFacts
      <3>3. CASE key \in InitialCalls
        <4>1. /\ Occurs(Build(b), Final(key)) = Occurs(Build(InitialContext), Final(key))
              /\ Occurs(b.committed, Placeholder(key)) >= Occurs(InitialContext.committed, Placeholder(key))
          BY <2>1, <3>3 DEF ContextInv, ResultsOK
        <4>2. /\ Occurs(Build(InitialContext), Final(key)) <= 1
              /\ Occurs(Build(InitialContext), Final(key)) = 0 =>
                   Occurs(InitialContext.committed, Placeholder(key)) > 0
          BY <3>3 DEF StartsComplete
        <4> QED BY <3>2, <4>1, <4>2
      <3>4. CASE key \notin InitialCalls
        <4>1. Occurs(Build(b), Final(key)) =
                IF key \in DOMAIN image.replayed.toolCalls THEN 0 ELSE 1
          BY <2>1, <3>1, <3>4 DEF ContextInv, ResultsOK
        <4>2. key \in DOMAIN image.replayed.toolCalls => Occurs(b.committed, Placeholder(key)) > 0
          BY <2>1 DEF AskedInv
        <4> QED BY <4>1, <4>2
      <3> QED BY <3>3, <3>4
    <2>6. ASSUME NEW key \in RecordedCalls
          PROVE  /\ Count(Build(b), Entry("result", key, FALSE)) <= 1
                 /\ Count(Build(b), Entry("result", key, FALSE)) = 0 =>
                      Count(b.committed, Entry("result", key, TRUE)) > 0
      BY <2>2, <2>3, <2>5 DEF Final, Placeholder
    <2> QED BY <2>4, <2>6
  <1> QED BY <1>1, InvHolds, LogInvariant, InboxInvariant, ContextIsKnown, PTL
=============================================================================

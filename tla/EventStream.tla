---------------------------- MODULE EventStream ----------------------------
(***************************************************************************)
(* The event stream of a chat: publish, subscribe and unsubscribe           *)
(* (gui/chat.go), the handler that writes a connection's events             *)
(* (gui/server.go, handleEvents) and the page that reads them               *)
(* (gui/ui/app.js).                                                         *)
(*                                                                          *)
(* A connection can be cut at any time, with what was written to it and not *)
(* yet read; a stalled client's channel fills up and is closed. The browser *)
(* then connects again, with the id of the last item it was given.          *)
(***************************************************************************)
EXTENDS Naturals, Sequences, SequencesExt

CONSTANTS
    Conns,       \* connections the page may make
    Capacity,    \* capacity of a subscriber's channel (512 in the code)
    MaxItems,    \* bound: items published
    MaxStatuses, \* bound: changes of the status
    MaxCuts      \* bound: connections cut by the network

VARIABLES
    items,    \* c.items: the sequence numbers 1..items
    status,   \* the chat's status, by version
    subs,     \* c.subs: connections whose channel is registered
    conn,     \* each connection: its channel, what the handler writes, the wire
    closes,   \* how often each connection's channel was closed
    page,     \* the connection the page reads, or NoConn
    lastId,   \* the browser's last event id
    shown,    \* the items the page has shown, in order
    shownStatus, \* the status the page shows
    cuts      \* history: connections cut

vars == <<items, status, subs, conn, closes, page, lastId, shown, shownStatus, cuts>>

NoConn == "no connection"
Unused == [at |-> "unused", channel |-> <<>>, backlog |-> <<>>, wire |-> <<>>]

Item(n) == [name |-> "item", id |-> n]
Status(v) == [name |-> "status", id |-> v]

Init ==
    /\ items = 0 /\ status = 0
    /\ subs = {}
    /\ conn = [k \in Conns |-> Unused]
    /\ closes = [k \in Conns |-> 0]
    /\ page = NoConn
    /\ lastId = 0 /\ shown = <<>> /\ shownStatus = 0
    /\ cuts = 0

-----------------------------------------------------------------------------
(* The chat. *)

Full(k) == Len(conn[k].channel) >= Capacity

(* Faulty variant: an event that does not fit is skipped. *)
SkipWhenFull(k) == FALSE

(* A channel an event does not fit in is closed: its client has stalled. *)
CloseWhenFull(k) == Full(k)

(* broadcastLocked *)
Broadcast(ev) ==
    LET stalled == {k \in subs : CloseWhenFull(k)}
    IN  /\ subs' = subs \ stalled
        /\ closes' = [k \in Conns |-> IF k \in stalled THEN closes[k] + 1 ELSE closes[k]]
        /\ conn' = [k \in Conns |->
                      IF k \in subs /\ ~Full(k)
                      THEN [conn[k] EXCEPT !.channel = Append(@, ev)] ELSE conn[k]]

Publish ==
    /\ items < MaxItems
    /\ items' = items + 1
    /\ Broadcast(Item(items + 1))
    /\ UNCHANGED <<status, page, lastId, shown, shownStatus, cuts>>

StatusChanges ==
    /\ status < MaxStatuses
    /\ status' = status + 1
    /\ Broadcast(Status(status + 1))
    /\ UNCHANGED <<items, page, lastId, shown, shownStatus, cuts>>

(* subscribe: the first item the client has not been given. *)
FirstAfter(after) == after + 1

(* The page connects; the handler registers a channel and, under the same   *)
(* lock, takes the items the client lacks and the status.                   *)
Connect(k) ==
    /\ page = NoConn /\ conn[k] = Unused
    /\ page' = k
    /\ subs' = subs \cup {k}
    /\ conn' = [conn EXCEPT ![k] =
                  [at |-> "backlog", channel |-> <<>>, wire |-> <<>>,
                   backlog |-> [i \in 1..(items + 1 - FirstAfter(lastId)) |->
                                   Item(FirstAfter(lastId) + i - 1)] \o <<Status(status)>>]]
    /\ UNCHANGED <<items, status, closes, lastId, shown, shownStatus, cuts>>

-----------------------------------------------------------------------------
(* The handler of a connection. *)

WriteBacklog(k) ==
    /\ conn[k].at = "backlog"
    /\ conn' = [conn EXCEPT ![k].at = "events", ![k].wire = conn[k].backlog, ![k].backlog = <<>>]
    /\ UNCHANGED <<items, status, subs, closes, page, lastId, shown, shownStatus, cuts>>

WriteEvent(k) ==
    /\ conn[k].at = "events" /\ conn[k].channel # <<>>
    /\ conn' = [conn EXCEPT ![k].channel = Tail(@), ![k].wire = Append(@, Head(conn[k].channel))]
    /\ UNCHANGED <<items, status, subs, closes, page, lastId, shown, shownStatus, cuts>>

(* unsubscribe closes a channel that is still registered. *)
ClosesOnUnsubscribe(k) == k \in subs

(* The handler returns when its channel is closed and drained, or when the  *)
(* client is gone.                                                          *)
HandlerReturns(k) ==
    /\ \/ conn[k].at = "events" /\ k \notin subs /\ conn[k].channel = <<>>
       \/ conn[k].at = "gone"
    /\ closes' = [closes EXCEPT ![k] = IF ClosesOnUnsubscribe(k) THEN @ + 1 ELSE @]
    /\ subs' = subs \ {k}
    /\ conn' = [conn EXCEPT ![k].at = "returned"]
    /\ UNCHANGED <<items, status, page, lastId, shown, shownStatus, cuts>>

-----------------------------------------------------------------------------
(* The page. *)

(* The page shows an item that is newer than the last it has shown. *)
Read(k) ==
    /\ page = k /\ conn[k].wire # <<>>
    /\ conn' = [conn EXCEPT ![k].wire = Tail(@)]
    /\ LET ev == Head(conn[k].wire)
           last == IF shown = <<>> THEN 0 ELSE Last(shown)
       IN  IF ev.name = "item"
           THEN /\ lastId' = ev.id
                /\ shown' = IF ev.id <= last THEN shown ELSE Append(shown, ev.id)
                /\ UNCHANGED shownStatus
           ELSE /\ shownStatus' = ev.id
                /\ UNCHANGED <<lastId, shown>>
    /\ UNCHANGED <<items, status, subs, closes, page, cuts>>

(* The page sees the end of a stream whose handler has returned. *)
StreamEnds(k) ==
    /\ page = k /\ conn[k].at = "returned" /\ conn[k].wire = <<>>
    /\ page' = NoConn
    /\ UNCHANGED <<items, status, subs, conn, closes, lastId, shown, shownStatus, cuts>>

(* The network cuts the connection. *)
Cut(k) ==
    /\ page = k /\ cuts < MaxCuts
    /\ cuts' = cuts + 1
    /\ page' = NoConn
    /\ conn' = [conn EXCEPT ![k].at = IF @ = "returned" THEN @ ELSE "gone", ![k].wire = <<>>]
    /\ UNCHANGED <<items, status, subs, closes, lastId, shown, shownStatus>>

Next ==
    \/ Publish \/ StatusChanges
    \/ \E k \in Conns :
         \/ Connect(k) \/ WriteBacklog(k) \/ WriteEvent(k) \/ HandlerReturns(k)
         \/ Read(k) \/ StreamEnds(k) \/ Cut(k)

Fairness ==
    \A k \in Conns :
        /\ WF_vars(Connect(k)) /\ WF_vars(WriteBacklog(k)) /\ WF_vars(WriteEvent(k))
        /\ WF_vars(HandlerReturns(k)) /\ WF_vars(Read(k)) /\ WF_vars(StreamEnds(k))

Spec == Init /\ [][Next]_vars /\ Fairness

-----------------------------------------------------------------------------
(* Properties. *)

TypeOK ==
    /\ subs \subseteq Conns
    /\ \A k \in Conns :
        /\ Len(conn[k].channel) <= Capacity
        /\ closes[k] \in {0, 1}
        /\ k \in subs => conn[k].at \in {"backlog", "events", "gone"} /\ closes[k] = 0

(* gui/chat.go: "A stalled client reconnects and resumes from               *)
(* Last-Event-ID". Whatever is cut, stalled or written twice, the page has  *)
(* shown every item up to the last one it has shown, once and in order.     *)
NoItemSkipped == shown = [i \in 1..Len(shown) |-> i]

(* While the page can make a connection it catches up with the chat: all    *)
(* items are shown, and the status that is shown is the current one.        *)
CatchesUp ==
    <>[](\/ Len(shown) = items /\ shownStatus = status
         \/ page = NoConn /\ \A k \in Conns : conn[k] # Unused)
=============================================================================

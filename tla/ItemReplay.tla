----------------------------- MODULE ItemReplay -----------------------------
(***************************************************************************)
(* The life of an item of a conversation: decoded from a model's response   *)
(* (responsesapi/response.go) or made by the harness, written to the        *)
(* session log and read back (llm/itemjson.go, sessionstore/itemjson.go),   *)
(* and encoded into every later request (responsesapi/request.go).          *)
(*                                                                          *)
(* A request is built from the whole history, so one item that cannot be    *)
(* encoded makes every further request of the session fail.                 *)
(***************************************************************************)
EXTENDS Naturals, Sequences, SequencesExt, FiniteSets

CONSTANTS
    WireItems,  \* items a provider may send
    OwnItems,   \* items the harness makes: user messages and tool results
    MaxItems    \* bound: items of a history

VARIABLES
    wire,     \* history: what the provider sent, or the harness made, in order
    log,      \* the session's log: encoded items
    history,  \* the coordinator's items
    failed,   \* a response was refused
    sent,     \* the last request's input
    bodyErr   \* the last request could not be encoded

vars == <<wire, log, history, failed, sent, bodyErr>>

Init ==
    /\ wire = <<>> /\ log = <<>> /\ history = <<>>
    /\ failed = FALSE
    /\ sent = <<>> /\ bodyErr = FALSE

-----------------------------------------------------------------------------
(* From the wire. *)

Blank == ""

(* Reasoning keeps the provider's item: a JSON value and how it is written. *)
Raw(w) == w.raw

NoRaw == [value |-> Blank, form |-> "canonical"]

(* Marshalling a jsontext.Value writes the same value again, with the white *)
(* space and the escapes of the encoder.                                    *)
Marshal(raw) == [raw EXCEPT !.form = "canonical"]

(* The text of a message: its text and refusal parts joined; annotations    *)
(* are dropped.                                                             *)
Text(w) == w.text

(* responseOutputItem *)
FromWire(w) ==
    CASE w.type = "message" ->
           [provider |-> w.id, type |-> "message",
            data |-> [role |-> "assistant", text |-> Text(w), phase |-> w.phase]]
      [] w.type = "function_call" ->
           [provider |-> w.id, type |-> "tool_call",
            data |-> [call |-> w.call, name |-> w.name, arguments |-> w.arguments]]
      [] w.type = "reasoning" ->
           [provider |-> w.id, type |-> "reasoning", data |-> [raw |-> Raw(w)]]

Decodes(w) ==
    /\ w.type \in {"message", "function_call", "reasoning"}
    /\ w.type = "message" => w.parts \subseteq {"output_text", "refusal"}

-----------------------------------------------------------------------------
(* The log: an item is its fields; those marked omitzero are left out when  *)
(* empty and read back empty.                                               *)

Omitted(item) == IF item.type = "reasoning" /\ item.data.raw = NoRaw THEN {"raw"} ELSE {}

(* Item.MarshalJSON *)
Encode(item) ==
    [provider |-> item.provider, type |-> item.type,
     data |-> [field \in DOMAIN item.data \ Omitted(item) |->
                 IF field = "raw" THEN Marshal(item.data.raw) ELSE item.data[field]]]

(* Item.UnmarshalJSON and decodeItemData: the type decides how the data is  *)
(* read.                                                                    *)
Fields(type) ==
    CASE type = "message" -> {"role", "text", "phase"}
      [] type = "tool_call" -> {"call", "name", "arguments"}
      [] type = "tool_result" -> {"call", "output"}
      [] type = "reasoning" -> {"raw"}

Decode(stored) ==
    [stored EXCEPT !.data = [field \in Fields(stored.type) |->
        IF field \in DOMAIN stored.data THEN stored.data[field] ELSE IF field = "raw" THEN NoRaw ELSE Blank]]

-----------------------------------------------------------------------------
(* To the wire. *)

(* requestToolCallArguments: what is not a JSON object is wrapped in one. *)
requestToolCallArguments(arguments) ==
    IF arguments.object THEN arguments ELSE [object |-> TRUE, text |-> arguments.text]

Encodable(item) ==
    CASE item.type = "reasoning" -> item.data.raw # NoRaw
      [] item.type = "tool_result" -> item.data.output \subseteq {"text", "image"}
      [] item.type \in {"message", "tool_call"} -> TRUE
      [] OTHER -> FALSE

(* requestInputItem and requestItem: a message without a provider's ID is   *)
(* sent in the short form, an assistant's with one in the form it came in.  *)
ToWire(item) ==
    CASE item.type = "message" ->
           [type |-> IF item.provider = Blank THEN "easy message"
                     ELSE IF item.data.role = "assistant" THEN "message" ELSE "input message",
            id |-> item.provider, role |-> item.data.role, text |-> item.data.text,
            phase |-> item.data.phase]
      [] item.type = "tool_call" ->
           [type |-> "function_call", id |-> item.provider, call |-> item.data.call,
            name |-> item.data.name, arguments |-> requestToolCallArguments(item.data.arguments)]
      [] item.type = "tool_result" ->
           [type |-> "function_call_output", call |-> item.data.call, output |-> item.data.output]
      [] item.type = "reasoning" -> [type |-> "reasoning", raw |-> Marshal(item.data.raw)]

-----------------------------------------------------------------------------
(* Steps. *)

Keep(source, item) ==
    /\ Len(history) < MaxItems
    /\ wire' = Append(wire, source)
    /\ log' = Append(log, Encode(item))
    /\ history' = Append(history, item)
    /\ UNCHANGED <<failed, sent, bodyErr>>

(* A response with one output item: it is recorded, or refused as a whole. *)
Respond(w) ==
    IF Decodes(w) THEN Keep(w, FromWire(w))
    ELSE /\ failed' = TRUE
         /\ UNCHANGED <<wire, log, history, sent, bodyErr>>

MakeOwn(item) == Keep(item, item)

(* The session is resumed from its log. *)
Resume ==
    /\ history' = [i \in DOMAIN log |-> Decode(log[i])]
    /\ UNCHANGED <<wire, log, failed, sent, bodyErr>>

(* requestBody: the first item that cannot be encoded makes it fail. *)
Request ==
    /\ bodyErr' = \E i \in DOMAIN history : ~Encodable(history[i])
    /\ sent' = IF bodyErr' THEN <<>> ELSE [i \in DOMAIN history |-> ToWire(history[i])]
    /\ UNCHANGED <<wire, log, history, failed>>

Next ==
    \/ \E w \in WireItems : Respond(w)
    \/ \E item \in OwnItems : MakeOwn(item)
    \/ Resume \/ Request

Spec == Init /\ [][Next]_vars

-----------------------------------------------------------------------------
(* Properties. *)

(* No history, resumed or not, is one a request cannot be built from.       *)
NeverPoisoned == ~bodyErr

(* What a provider gets back is what it sent: reasoning as the same JSON    *)
(* value, written the same way in every request, whether the session was    *)
(* resumed in between or not; messages and calls with their IDs and text;   *)
(* and every call carries a JSON object, with the model's own words in it   *)
(* when they were none.                                                     *)
ReplayedAsSent ==
    \A i \in DOMAIN sent :
        LET w == wire[i] s == sent[i]
        IN  CASE w.type = "reasoning" -> s.raw.value = w.raw.value /\ s.raw.form = "canonical"
              [] w.type = "message" /\ "parts" \in DOMAIN w ->
                   s.id = w.id /\ s.text = w.text /\ s.phase = w.phase /\ s.role = "assistant"
              [] w.type = "function_call" ->
                   /\ s.id = w.id /\ s.call = w.call /\ s.name = w.name
                   /\ s.arguments.object /\ s.arguments.text = w.arguments.text
              [] OTHER -> TRUE
=============================================================================

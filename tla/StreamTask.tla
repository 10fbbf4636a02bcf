----------------------------- MODULE StreamTask -----------------------------
(***************************************************************************)
(* One streamed answer on its way from a backend to an Anthropic client:   *)
(* what the endpoints of crates/proxy/src/server/streaming and             *)
(* gemini_native.rs have in common.  A task reads the backend's frames,    *)
(* hands each to a translator and sends the events it answers, one by one. *)
(* The translators are modules of their own that extend this one; each is  *)
(* a record "st" whose queue "out" holds the events not sent yet.          *)
(***************************************************************************)
EXTENDS Integers, Sequences

CONSTANTS
  MaxToolIndex,    \* MAX_TOOL_CALL_INDEX
  MaxTools,        \* bound: tool calls of an OpenAI answer
  MaxItems,        \* bound: items and parts of a Responses answer, calls of a Gemini one
  MaxLength,       \* bound: length of a Gemini text and thought
  Quirks           \* what the backend does beyond the usual, see AllQuirks

AllQuirks ==
  {"toolAfterThinking",     \* calls a tool right after its reasoning
   "refusalAfterThinking",  \* refuses right after its reasoning
   "thinkingAfterText",     \* reasons again after text
   "textAfterTool",         \* goes on with text after a tool call
   "nameless",              \* calls a tool without a name
   "overlap",               \* begins an output item inside another
   "shrink",                \* takes back text it has sent
   "cutShort"}              \* ends the stream where its protocol does not

ASSUME BoundsAssumption ==
  MaxToolIndex \in Nat /\ MaxTools \in Nat /\ MaxItems \in Nat /\ MaxLength \in Nat
ASSUME QuirksAssumption == Quirks \subseteq AllQuirks

VARIABLES
  sent,        \* what the backend has sent so far
  st,          \* the translator and the events not sent yet
  done,        \* the task has read [DONE]
  reader,      \* "reading", or the StreamOutcome
  connected,   \* the client still listens
  client       \* what an Anthropic client makes of the events

vars == <<sent, st, done, reader, connected, client>>

Kinds    == {"thinking", "text", "tool"}
Outcomes == {"completed", "disconnected", "broken"}

\* An event of a block; of its text or arguments only the size is kept.
Sized(t, i, k, n) == [type |-> t, index |-> i, kind |-> k, size |-> n]
Block(t, i, k)    == Sized(t, i, k, 0)
BlockStop(i)      == Block("block_stop", i, "none")
Plain(t)          == Block(t, 0, "none")

Events == [type : {"block_start", "block_delta"}, index : Nat, kind : Kinds, size : Nat]
          \cup [type : {"block_stop"}, index : Nat, kind : {"none"}, size : {0}]
          \cup {Plain(t) : t \in {"message_start", "message_delta",
                                  "message_stop", "error"}}

Emit(s, e) == [s EXCEPT !.out = Append(@, e)]

\* The translator's message_start comes once, before everything else.
BeginMessage(s) ==
  IF s.started THEN s
  ELSE Emit([s EXCEPT !.started = TRUE], Plain("message_start"))

TaskInit ==
  /\ done = FALSE
  /\ reader = "reading"
  /\ connected = TRUE
  /\ client = [stage |-> "idle", open |-> {}, next |-> 0,
               heard |-> [k \in Kinds |-> 0]]

-----------------------------------------------------------------------------
\* The task sends all events of a frame before it reads the next one.
Reading == reader = "reading" /\ st.out = <<>>

ReadError ==
  /\ Reading
  /\ reader' = "broken"
  /\ UNCHANGED <<sent, st, done, connected, client>>

\* The wall-clock timeout drops the read loop with the events it was sending.
TimeOut ==
  /\ reader = "reading"
  /\ reader' = "broken"
  /\ st' = [st EXCEPT !.out = <<>>]
  /\ UNCHANGED <<sent, done, connected, client>>

\* What a client makes of an event.  It is confused by a second beginning and
\* by an event of a block that is not open.
Sees(c, e) ==
  LET open == {b \in c.open : b.index = e.index} IN
  CASE e.type = "message_start" ->
         [c EXCEPT !.stage = IF @ = "idle" THEN "open" ELSE "confused"]
    [] e.type = "block_start" ->
         [c EXCEPT !.open = @ \cup {[index |-> e.index, kind |-> e.kind]},
                   !.next = e.index + 1]
    [] e.type = "block_delta" ->
         [c EXCEPT !.stage = IF \E b \in open : b.kind = e.kind THEN @ ELSE "confused",
                   !.heard[e.kind] = @ + e.size]
    [] e.type = "block_stop" ->
         [c EXCEPT !.stage = IF open # {} THEN @ ELSE "confused", !.open = @ \ open]
    [] e.type = "message_delta" -> [c EXCEPT !.stage = "ending"]
    [] e.type = "message_stop"  -> [c EXCEPT !.stage = "stopped"]
    [] e.type = "error"         -> [c EXCEPT !.stage = "failed"]

Send ==
  /\ connected
  /\ st.out # <<>>
  /\ client' = Sees(client, Head(st.out))
  /\ st' = [st EXCEPT !.out = Tail(@)]
  /\ UNCHANGED <<sent, done, reader, connected>>

Leave ==
  /\ connected
  /\ connected' = FALSE
  /\ UNCHANGED <<sent, st, done, reader, client>>

\* The client has left: the events are dropped, and "outcome" stands.
DropEvents(outcome) ==
  /\ ~connected
  /\ st.out # <<>>
  /\ st' = [st EXCEPT !.out = <<>>]
  /\ reader' = outcome
  /\ UNCHANGED <<sent, done, connected, client>>

\* The task stops reading.
SendFails == DropEvents(IF reader = "reading" THEN "disconnected" ELSE reader)

-----------------------------------------------------------------------------
(* Properties *)

\* The types of the parts all endpoints share.
TaskTypeOK ==
  /\ \A i \in DOMAIN st.out : st.out[i] \in Events
  /\ done \in BOOLEAN
  /\ reader \in {"reading"} \cup Outcomes
  /\ connected \in BOOLEAN
  /\ client.stage \in {"idle", "open", "ending", "stopped", "failed", "confused"}
  /\ client.open \subseteq [index : Nat, kind : Kinds]
  /\ client.next \in Nat
  /\ client.heard \in [Kinds -> Nat]

\* "Start -> Delta -> Stop per block": the client never has two blocks open.
OneBlockAtATime ==
  \A a, b \in client.open : a = b

\* Every prefix of what the client sees is the prefix of a legal message.
Protocol == INSTANCE MessageStream WITH stage <- client.stage,
                                        open  <- client.open,
                                        next  <- client.next

ProtocolKept == Protocol!Spec

\* A stream that is recorded as completed has told its client how it ended.
CompletedIsSeen ==
  reader = "completed" ~> client.stage \in {"stopped", "failed"} \/ ~connected
=============================================================================

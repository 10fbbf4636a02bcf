------------------------- MODULE ResponsesStreaming -------------------------
(***************************************************************************)
(* The answer of an OpenAI Responses backend: the events it sends, and the *)
(* translator of crates/translator/src/mapping/responses_streaming_map.rs. *)
(*                                                                         *)
(* An answer is a sequence of output items.  A message item has content    *)
(* parts, each with deltas of text; a function_call item has deltas of its *)
(* arguments; other items (reasoning) the translator ignores.              *)
(***************************************************************************)
EXTENDS StreamTask

ItemTypes == {"message", "function_call", "other"}

\* The items and the part that are open, and how many of both there have been.
Init ==
  /\ sent = [stage |-> "new", items |-> {}, part |-> FALSE, count |-> 0]
  /\ st = [started |-> FALSE, index |-> 0, open |-> FALSE, depth |-> 0,
           finished |-> FALSE, out |-> <<>>]
  /\ TaskInit

-----------------------------------------------------------------------------
(* The translator *)

Close(s) ==
  IF s.open THEN Emit([s EXCEPT !.open = FALSE, !.index = @ + 1], BlockStop(s.index))
  ELSE s

Open(s, k) == Emit([s EXCEPT !.open = TRUE], Block("block_start", s.index, k))

Delta(s, k) == Emit(s, Block("block_delta", s.index, k))

handle_output_item_added(s, item) ==
  LET b == BeginMessage(s)
  IN IF item = "function_call"
     THEN [Open(Close(b), "tool") EXCEPT !.depth = @ + 1]
     ELSE b

handle_content_part_added(s) ==
  LET b == BeginMessage(s)
  IN Open(IF b.depth = 0 THEN Close(b) ELSE b, "text")

handle_content_part_done(s) == IF s.depth > 0 THEN s ELSE Close(s)

\* Mutant: a call's end does not end its block.
ItemDoneLeftOpen(s, item) ==
  IF item = "function_call"
  THEN [s EXCEPT !.depth = IF @ > 0 THEN @ - 1 ELSE 0]
  ELSE s

handle_output_item_done(s, item) ==
  IF item = "function_call"
  THEN [Close(s) EXCEPT !.depth = IF @ > 0 THEN @ - 1 ELSE 0]
  ELSE s

\* The end; the index is not used after it.
EndMessage(s) ==
  Emit(Emit([Close(s) EXCEPT !.finished = TRUE], Plain("message_delta")),
       Plain("message_stop"))

handle_completed(s) == EndMessage(BeginMessage(s))

handle_error(s) == Emit([s EXCEPT !.finished = TRUE], Plain("error"))

\* Events of other types, response.incomplete among them, are ignored.
process_event(s, e) ==
  IF s.finished THEN s
  ELSE CASE e.type = "created"         -> BeginMessage(s)
         [] e.type = "item_added"      -> handle_output_item_added(s, e.item)
         [] e.type = "part_added"      -> handle_content_part_added(s)
         [] e.type = "text_delta"      -> Delta(s, "text")
         [] e.type = "part_done"       -> handle_content_part_done(s)
         [] e.type = "item_done"       -> handle_output_item_done(s, e.item)
         [] e.type = "arguments_delta" -> Delta(s, "tool")
         [] e.type = "completed"       -> handle_completed(s)
         [] e.type = "failed"          -> handle_error(s)
         [] e.type = "incomplete"      -> s

finish(s) == IF s.finished THEN s ELSE EndMessage(s)

-----------------------------------------------------------------------------
(* The backend *)

\* Items follow one another, and so do the parts of a message.
NextEvents ==
  LET busy == sent.items # {} /\ "overlap" \notin Quirks IN
  {e \in [type : {"created", "item_added", "part_added", "text_delta", "part_done",
                  "item_done", "arguments_delta", "completed", "failed", "incomplete"},
          item : ItemTypes] :
     /\ e.type = "created" <=> sent.stage = "new"
     /\ sent.stage # "ended"
     /\ e.type \notin {"item_added", "item_done"} => e.item = "other"
     /\ e.type = "item_added" => ~busy /\ e.item \notin sent.items
     /\ e.type = "item_done" => e.item \in sent.items /\ (e.item = "message" => ~sent.part)
     /\ e.type \in {"item_added", "part_added"} => sent.count < MaxItems
     /\ e.type = "part_added" => "message" \in sent.items /\ ~sent.part
     /\ e.type \in {"text_delta", "part_done"} => sent.part
     /\ e.type = "arguments_delta" => "function_call" \in sent.items
     /\ e.type \in {"completed", "incomplete"} => sent.items = {}}

SentAfter(e) ==
  [stage |-> IF e.type \in {"completed", "failed", "incomplete"} THEN "ended" ELSE "open",
   items |-> CASE e.type = "item_added" -> sent.items \cup {e.item}
               [] e.type = "item_done"  -> sent.items \ {e.item}
               [] OTHER                 -> sent.items,
   part  |-> CASE e.type = "part_added" -> TRUE
               [] e.type = "part_done"  -> FALSE
               [] OTHER                 -> sent.part,
   count |-> IF e.type \in {"item_added", "part_added"} THEN sent.count + 1 ELSE sent.count]

ReadEvent ==
  /\ Reading
  /\ \E e \in NextEvents :
       /\ st'   = process_event(st, e)
       /\ sent' = SentAfter(e)
  /\ UNCHANGED <<done, reader, connected, client>>

\* The body ends, wherever the answer is, once it has begun.
ReadEnd ==
  /\ Reading
  /\ sent.stage # "new" \/ "cutShort" \in Quirks
  /\ reader' = "completed"
  /\ st' = finish(st)
  /\ UNCHANGED <<sent, done, connected, client>>

-----------------------------------------------------------------------------
Next == \/ ReadEvent \/ ReadEnd \/ ReadError \/ TimeOut
        \/ Send \/ Leave \/ SendFails

-----------------------------------------------------------------------------
(* Properties *)

TypeOK ==
  /\ sent \in [stage : {"new", "open", "ended"}, items : SUBSET ItemTypes,
               part : BOOLEAN, count : 0 .. MaxItems]
  /\ st.started \in BOOLEAN /\ st.open \in BOOLEAN /\ st.finished \in BOOLEAN
  /\ st.index \in Nat /\ st.depth \in 0 .. MaxItems
  /\ TaskTypeOK

\* What the backend is saying right now.
Saying == (IF sent.part THEN {"text"} ELSE {})
          \cup (IF "function_call" \in sent.items THEN {"tool"} ELSE {})

\* Between two events the client has the block open that the backend is filling,
\* under the index the next delta will carry, and the translator knows it.
InStep ==
  Reading /\ connected /\ ~st.finished =>
    /\ client.open = {[index |-> st.index, kind |-> k] : k \in Saying}
    /\ st.open <=> client.open # {}
    /\ st.started <=> client.stage # "idle"
=============================================================================

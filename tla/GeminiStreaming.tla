--------------------------- MODULE GeminiStreaming ---------------------------
(***************************************************************************)
(* The answer of a Gemini backend: the responses it sends, each of which   *)
(* holds everything said so far, and the translator of                     *)
(* crates/translator/src/mapping/gemini_streaming_map.rs, which sends on   *)
(* what a response has more than the one before.  A text is its length.    *)
(*                                                                         *)
(* The task of gemini_native.rs has no timeout, and counts an end it could *)
(* not send as a disconnected client.                                      *)
(***************************************************************************)
EXTENDS StreamTask

\* What has been said: the last response, and the longest thought and text.
Init ==
  /\ sent = [thought |-> 0, text |-> 0, tools |-> 0, finish |-> FALSE,
             begun |-> FALSE, longest |-> [thinking |-> 0, text |-> 0]]
  /\ st = [started |-> FALSE, index |-> 0, textOpen |-> FALSE, thoughtOpen |-> FALSE,
           text |-> 0, thought |-> 0, tools |-> 0, finished |-> FALSE, out |-> <<>>]
  /\ TaskInit

-----------------------------------------------------------------------------
(* The translator *)

CloseText(s) ==
  IF s.textOpen
  THEN Emit([s EXCEPT !.textOpen = FALSE, !.index = @ + 1], BlockStop(s.index))
  ELSE s

CloseThought(s) ==
  IF s.thoughtOpen
  THEN Emit([s EXCEPT !.thoughtOpen = FALSE, !.index = @ + 1], BlockStop(s.index))
  ELSE s

\* How much has been sent on, once shrunken text has reset it.
guard_shrinkage(current, prev) == IF current < prev THEN 0 ELSE prev

Thought(s, length) ==
  LET prev == guard_shrinkage(length, s.thought)
      o    == IF s.thoughtOpen THEN s
              ELSE Emit([s EXCEPT !.thoughtOpen = TRUE],
                        Block("block_start", s.index, "thinking"))
  IN IF length <= prev THEN [s EXCEPT !.thought = prev]
     ELSE Emit([o EXCEPT !.thought = length],
               Sized("block_delta", o.index, "thinking", length - prev))

\* Mutant: what was sent is not remembered.
TextForgotten(s, length) ==
  LET c == CloseThought(s)
      o == IF c.textOpen THEN c
           ELSE Emit([c EXCEPT !.textOpen = TRUE], Block("block_start", c.index, "text"))
  IN IF length <= s.text THEN s
     ELSE Emit(o, Sized("block_delta", o.index, "text", length - s.text))

Text(s, length) ==
  LET prev == guard_shrinkage(length, s.text)
      c    == CloseThought(s)
      o    == IF c.textOpen THEN c
              ELSE Emit([c EXCEPT !.textOpen = TRUE], Block("block_start", c.index, "text"))
  IN IF length <= prev THEN [s EXCEPT !.text = prev]
     ELSE Emit([o EXCEPT !.text = length],
               Sized("block_delta", o.index, "text", length - prev))

\* Each new call is a whole block.  A thought block is not closed for it.
ToolCalls(s, count) ==
  LET c      == CloseText(s)
      fresh  == count - s.tools
      events == [i \in 1 .. 3 * fresh |->
                   LET b == c.index + (i - 1) \div 3 IN
                   CASE i % 3 = 1 -> Block("block_start", b, "tool")
                     [] i % 3 = 2 -> Block("block_delta", b, "tool")
                     [] i % 3 = 0 -> BlockStop(b)]
  IN IF count <= s.tools THEN s
     ELSE [c EXCEPT !.tools = count, !.index = @ + fresh, !.out = @ \o events]

\* The end; the index is not used after it.
finish(s) ==
  IF s.finished THEN s
  ELSE Emit(Emit([CloseText(CloseThought(s)) EXCEPT !.finished = TRUE],
                 Plain("message_delta")), Plain("message_stop"))

process_response(s, c) ==
  LET t == ToolCalls(Text(Thought(BeginMessage(s), c.thought), c.text), c.tools)
  IN IF ~c.candidate THEN BeginMessage(s)
     ELSE IF c.finish THEN finish(t)
     ELSE t

-----------------------------------------------------------------------------
(* The backend *)

\* It thinks before it speaks and calls tools, and says nothing new at the end;
\* responses without a candidate (usage) may come at any time.
NextResponses ==
  {c \in [candidate : BOOLEAN, thought : 0 .. MaxLength, text : 0 .. MaxLength,
          tools : 0 .. MaxItems, finish : BOOLEAN] :
     LET thinks == c.thought > sent.thought
         calls  == c.tools > sent.tools
     IN /\ ~c.candidate => c = [candidate |-> FALSE, thought |-> sent.thought,
                                text |-> sent.text, tools |-> sent.tools,
                                finish |-> sent.finish]
        /\ \/ c.thought >= sent.thought /\ c.text >= sent.text
           \/ "shrink" \in Quirks
        /\ c.tools >= sent.tools
        /\ thinks => \/ sent.text = 0 /\ sent.tools = 0
                     \/ "thinkingAfterText" \in Quirks
        /\ calls /\ c.thought > 0 => c.text > 0 \/ "toolAfterThinking" \in Quirks
        /\ sent.finish => c.thought = sent.thought /\ c.text = sent.text
                          /\ c.tools = sent.tools /\ c.finish}

Longer(a, b) == IF a < b THEN b ELSE a

SentAfter(c) ==
  [thought |-> c.thought, text |-> c.text, tools |-> c.tools, finish |-> c.finish,
   begun |-> TRUE, longest |-> [thinking |-> Longer(sent.longest.thinking, c.thought),
                                text     |-> Longer(sent.longest.text, c.text)]]

ReadResponse ==
  /\ Reading
  /\ \E c \in NextResponses :
       /\ st'   = process_response(st, c)
       /\ sent' = SentAfter(c)
  /\ UNCHANGED <<done, reader, connected, client>>

\* The body ends, wherever the answer is, once it has begun.
ReadEnd ==
  /\ Reading
  /\ sent.begun \/ "cutShort" \in Quirks
  /\ reader' = "completed"
  /\ st' = finish(st)
  /\ UNCHANGED <<sent, done, connected, client>>

SendEndFails == DropEvents("disconnected")

-----------------------------------------------------------------------------
Next == \/ ReadResponse \/ ReadEnd \/ ReadError
        \/ Send \/ Leave \/ SendEndFails

-----------------------------------------------------------------------------
(* Properties *)

TypeOK ==
  /\ sent \in [thought : 0 .. MaxLength, text : 0 .. MaxLength, tools : 0 .. MaxItems,
               finish : BOOLEAN, begun : BOOLEAN,
               longest : [{"thinking", "text"} -> 0 .. MaxLength]]
  /\ st.started \in BOOLEAN /\ st.textOpen \in BOOLEAN
  /\ st.thoughtOpen \in BOOLEAN /\ st.finished \in BOOLEAN
  /\ st.index \in Nat
  /\ st.text \in 0 .. MaxLength /\ st.thought \in 0 .. MaxLength
  /\ st.tools \in 0 .. MaxItems
  /\ TaskTypeOK

\* The blocks the translator thinks are open.
OpenBlocks ==
  (IF st.textOpen THEN {[index |-> st.index, kind |-> "text"]} ELSE {})
  \cup (IF st.thoughtOpen THEN {[index |-> st.index, kind |-> "thinking"]} ELSE {})

\* Between two responses the client has the blocks open that the translator
\* thinks are open, and no other.
InStep ==
  Reading /\ connected =>
    /\ ~st.finished => /\ client.open = OpenBlocks
                       /\ st.started <=> client.stage # "idle"
    /\ st.finished <=> client.stage = "stopped"

\* Between two responses the client has heard what the backend has said, all of
\* it and once, however it is cut into responses.
HeardOnce ==
  Reading /\ connected => \A k \in {"thinking", "text"} : client.heard[k] = sent.longest[k]
=============================================================================

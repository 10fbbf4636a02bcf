------------------------- MODULE StreamingTranslator -------------------------
(***************************************************************************)
(* The answer of an OpenAI-compatible backend: the chunks it sends, and    *)
(* the translator of crates/translator/src/mapping/streaming_map.rs.       *)
(*                                                                         *)
(* The translator is a record and each part of process_chunk an operator   *)
(* on it; the events a chunk yields are appended to its queue "out", from  *)
(* which the task sends them one by one.  Texts, names, ids and token      *)
(* counts are left out; what is kept of a chunk is which parts it has.     *)
(*                                                                         *)
(* A chunk with several tool calls yields the events of several chunks     *)
(* with one each, so chunks carry at most one here.                        *)
(***************************************************************************)
EXTENDS StreamTask, FiniteSets

Stages    == {"new", "thinking", "text", "tools", "finished"}
Ends      == {"none", "reason", "error"}
NoTool    == [index |-> -1]
ToolCalls == [index : 0 .. MaxTools, id : BOOLEAN,
              name : {"absent", "empty", "given"}, arguments : BOOLEAN]

Init ==
  /\ sent = [stage |-> "new", calls |-> 0]
  /\ st = [started |-> FALSE, index |-> 0, textOpen |-> FALSE,
           thinkingOpen |-> FALSE, tools |-> <<>>, finished |-> FALSE,
           out |-> <<>>]
  /\ TaskInit

-----------------------------------------------------------------------------
(* The translator *)

\* Mutant: a closed block's index is used again.
CloseTextInPlace(s) ==
  IF s.textOpen
  THEN Emit([s EXCEPT !.textOpen = FALSE], BlockStop(s.index))
  ELSE s

CloseText(s) ==
  IF s.textOpen
  THEN Emit([s EXCEPT !.textOpen = FALSE, !.index = @ + 1],
            BlockStop(s.index))
  ELSE s

CloseThinking(s) ==
  IF s.thinkingOpen
  THEN Emit([s EXCEPT !.thinkingOpen = FALSE, !.index = @ + 1],
            BlockStop(s.index))
  ELSE s

OpenText(s) ==
  IF s.textOpen THEN s
  ELSE Emit([s EXCEPT !.textOpen = TRUE], Block("block_start", s.index, "text"))

OpenThinking(s) ==
  IF s.thinkingOpen THEN s
  ELSE Emit([s EXCEPT !.thinkingOpen = TRUE],
            Block("block_start", s.index, "thinking"))

Reasoning(s) ==
  LET o == OpenThinking(s) IN Emit(o, Block("block_delta", o.index, "thinking"))

Content(s) ==
  LET o == OpenText(CloseThinking(s)) IN Emit(o, Block("block_delta", o.index, "text"))

\* A refusal becomes text; a thinking block is not closed for it.
Refusal(s) ==
  LET o == OpenText(s) IN Emit(o, Block("block_delta", o.index, "text"))

\* The accumulator at a tool call's index is open.
Active(s, i) == i < Len(s.tools) /\ ~s.tools[i + 1].closed

CloseLastTool(s) ==
  LET n == Len(s.tools) IN
  IF n > 0 /\ Active(s, n - 1)
  THEN Emit([s EXCEPT !.tools[n].closed = TRUE],
            BlockStop(s.tools[n].block))
  ELSE s

\* The accumulators, padded up to the tool call's index.
WithTool(tools, i, b) ==
  [n \in 1 .. (IF i < Len(tools) THEN Len(tools) ELSE i + 1) |->
     IF n = i + 1 THEN [block |-> b, closed |-> FALSE]
     ELSE IF n <= Len(tools) THEN tools[n]
     ELSE [block |-> 0, closed |-> TRUE]]

OpenTool(s, tc) ==
  LET b == s.index + tc.index IN
  Emit([s EXCEPT !.tools = WithTool(@, tc.index, b)], Block("block_start", b, "tool"))

Arguments(s, tc) ==
  IF tc.arguments /\ tc.index < Len(s.tools)
  THEN Emit(s, Block("block_delta", s.tools[tc.index + 1].block, "tool"))
  ELSE s

\* Mutant: one index too many.
ToolCallUncapped(s, tc) ==
  LET new == (tc.id \/ tc.name # "absent") /\ ~Active(s, tc.index)
      c   == CloseLastTool(CloseText(s))
  IN IF tc.index > MaxToolIndex + 1 THEN s
     ELSE IF ~new THEN Arguments(s, tc)
     ELSE IF tc.name = "given" THEN Arguments(OpenTool(c, tc), tc)
     ELSE c

\* An id or a name announces a new tool call, unless the one at this index is
\* still open; one without a name is skipped.
ToolCall(s, tc) ==
  LET new == (tc.id \/ tc.name # "absent") /\ ~Active(s, tc.index)
      c   == CloseLastTool(CloseText(s))
  IN IF tc.index > MaxToolIndex THEN s
     ELSE IF ~new THEN Arguments(s, tc)
     ELSE IF tc.name = "given" THEN Arguments(OpenTool(c, tc), tc)
     ELSE c

\* The tool blocks that are still open end in the order of their indices.
FlushTools(s) ==
  LET open   == {i \in DOMAIN s.tools : ~s.tools[i].closed}
      nth(n) == CHOOSE i \in open : Cardinality({j \in open : j < i}) = n - 1
  IN [s EXCEPT !.tools = <<>>,
               !.out = @ \o [n \in 1 .. Cardinality(open) |->
                               BlockStop(s.tools[nth(n)].block)]]

EndContent(s) ==
  Emit(FlushTools(CloseText(CloseThinking(s))), Plain("message_delta"))

Fail(s) == Emit([s EXCEPT !.finished = TRUE], Plain("error"))

process_chunk(s, c) ==
  IF s.finished THEN s
  ELSE IF c.error THEN Fail(s)
  ELSE LET b == BeginMessage(s)
           r == IF c.reasoning THEN Reasoning(b) ELSE b
           t == IF c.content THEN Content(r) ELSE r
           f == IF c.refusal THEN Refusal(t) ELSE t
           u == IF c.tool # NoTool THEN ToolCall(f, c.tool) ELSE f
       IN IF c.finish = "error" THEN Fail(u)
          ELSE IF c.finish = "reason" THEN EndContent(u)
          ELSE u

finish(s) ==
  IF s.finished THEN s
  ELSE Emit([s EXCEPT !.finished = TRUE], Plain("message_stop"))

-----------------------------------------------------------------------------
(* The backend *)

\* Tool calls come in the order of their indices, each announced by its name.
\* Some backends repeat the id on every chunk, others leave it out.
NextToolCalls ==
  {tc \in ToolCalls :
     \/ tc.index = sent.calls /\ sent.calls < MaxTools
        /\ tc.name \in {"given"} \cup (IF "nameless" \in Quirks THEN {"empty"} ELSE {})
     \/ tc.index = sent.calls - 1 /\ tc.name = "absent"}

\* Reasoning comes first, then text or a refusal, then tool calls, and one
\* finish_reason; chunks without choices (usage) may come at any time.
NextChunks ==
  {c \in [error : BOOLEAN, reasoning : BOOLEAN, content : BOOLEAN,
          refusal : BOOLEAN, tool : {NoTool} \cup NextToolCalls, finish : Ends] :
     LET thinking == sent.stage = "thinking" \/ c.reasoning
         says     == c.content \/ c.refusal
         calls    == c.tool # NoTool
     IN /\ c.reasoning => \/ sent.stage \in {"new", "thinking"}
                          \/ sent.stage = "text" /\ "thinkingAfterText" \in Quirks
        /\ says => \/ sent.stage \in {"new", "thinking", "text"}
                   \/ sent.stage = "tools" /\ "textAfterTool" \in Quirks
        /\ c.refusal /\ ~c.content /\ thinking => "refusalAfterThinking" \in Quirks
        /\ calls /\ ~says /\ thinking => "toolAfterThinking" \in Quirks
        /\ sent.stage = "finished" => ~calls /\ c.finish = "none"
        /\ c.error => ~c.reasoning /\ ~says /\ ~calls /\ c.finish = "none"}

SentAfter(c) ==
  [stage |-> IF c.error \/ c.finish # "none" THEN "finished"
             ELSE IF c.tool # NoTool \/ sent.stage = "tools" THEN "tools"
             ELSE IF c.content \/ c.refusal THEN "text"
             ELSE IF c.reasoning THEN "thinking"
             ELSE sent.stage,
   calls |-> IF c.tool # NoTool /\ c.tool.index = sent.calls
             THEN sent.calls + 1 ELSE sent.calls]

\* The backend may end its answer here.
MayEnd == sent.stage = "finished" \/ "cutShort" \in Quirks

-----------------------------------------------------------------------------
(* The task *)

ReadChunk ==
  /\ Reading /\ ~done
  /\ \E c \in NextChunks :
       /\ st'   = process_chunk(st, c)
       /\ sent' = SentAfter(c)
  /\ UNCHANGED <<done, reader, connected, client>>

ReadDone ==
  /\ Reading /\ ~done
  /\ MayEnd
  /\ done' = TRUE
  /\ st'   = finish(st)
  /\ UNCHANGED <<sent, reader, connected, client>>

\* Mutant: the end of the stream is not told the translator.
ReadEndSilently ==
  /\ Reading
  /\ done \/ MayEnd
  /\ reader' = "completed"
  /\ UNCHANGED <<sent, st, done, connected, client>>

\* The body ends, with or without a [DONE] before.
ReadEnd ==
  /\ Reading
  /\ done \/ MayEnd
  /\ reader' = "completed"
  /\ st' = IF done THEN st ELSE finish(st)
  /\ UNCHANGED <<sent, done, connected, client>>

-----------------------------------------------------------------------------
Next == \/ ReadChunk \/ ReadDone \/ ReadEnd \/ ReadError \/ TimeOut
        \/ Send \/ Leave \/ SendFails

Spec == Init /\ [][Next]_vars

\* The client reads what is sent while it listens.
Fairness == WF_vars(Send)

FairSpec == Spec /\ Fairness

-----------------------------------------------------------------------------
(* Properties *)

\* Every variable has the type its field has.
TypeOK ==
  /\ sent \in [stage : Stages, calls : 0 .. MaxTools]
  /\ st.started \in BOOLEAN /\ st.textOpen \in BOOLEAN
  /\ st.thinkingOpen \in BOOLEAN /\ st.finished \in BOOLEAN
  /\ st.index \in Nat
  /\ Len(st.tools) <= MaxToolIndex + 1
  /\ \A i \in DOMAIN st.tools : st.tools[i] \in [block : Nat, closed : BOOLEAN]
  /\ TaskTypeOK

\* The blocks the translator thinks are open.
OpenBlocks ==
  (IF st.textOpen THEN {[index |-> st.index, kind |-> "text"]} ELSE {})
  \cup (IF st.thinkingOpen THEN {[index |-> st.index, kind |-> "thinking"]} ELSE {})
  \cup {[index |-> t.block, kind |-> "tool"] :
          t \in {st.tools[i] : i \in {j \in DOMAIN st.tools : ~st.tools[j].closed}}}

\* Between two chunks the client has the blocks open that the translator thinks
\* are open, and no other, and knows as little as it does of an end.
InStep ==
  Reading /\ connected =>
    /\ ~st.finished => /\ client.open = OpenBlocks
                       /\ st.started <=> client.stage # "idle"
    /\ st.finished <=> client.stage \in {"stopped", "failed"}
=============================================================================

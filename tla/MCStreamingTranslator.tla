------------------------ MODULE MCStreamingTranslator ------------------------
(* Answers with a few tool calls, one of them beyond the largest index. *)
EXTENDS StreamingTranslator
=============================================================================

-------------------------- MODULE MCStreamEndpoints --------------------------
(* One stream of every kind of backend, with a few tool calls, items and     *)
(* pieces of text; one tool call is beyond the largest index.                *)
EXTENDS StreamEndpoints
=============================================================================

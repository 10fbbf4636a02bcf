-------------------------- MODULE MCUpstreamRequest --------------------------
(* A chain of three backends, with two retries at each. *)
EXTENDS UpstreamRequest
=============================================================================

--------------------------- MODULE MCWebhookQueue ---------------------------
(* A small dispatcher: two rows, two permits, one retry and two faults. *)
EXTENDS WebhookQueue
=============================================================================

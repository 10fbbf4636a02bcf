--------------------------- MODULE WebhookDelivery ---------------------------
(***************************************************************************)
(* What the durable webhook queue promises to the endpoints, without       *)
(* leases, timers or workers (crates/batch_engine/src/webhook/mod.rs).     *)
(*                                                                         *)
(* An accepted event is owed to its endpoint.  While it is owed, copies of *)
(* it are sent; the endpoint processes each copy at most once, possibly    *)
(* late.  The debt ends in one of two ways and never reopens: the event is *)
(* done, and then the endpoint has processed a copy, or it is abandoned,   *)
(* and then the first send and all of its retries have been made.          *)
(***************************************************************************)
EXTENDS Naturals

CONSTANTS Deliveries,    \* the webhook events, one per endpoint
          MaxRetries     \* retries after the first send

VARIABLES debt,          \* debt[d]: none, owed, done or abandoned
          sent,          \* sent[d]: copies sent
          seen           \* seen[d]: copies the endpoint has processed

avars == <<debt, sent, seen>>

Init == /\ debt = [d \in Deliveries |-> "none"]
        /\ sent = [d \in Deliveries |-> 0]
        /\ seen = [d \in Deliveries |-> 0]

Accept(d) == /\ debt[d] = "none"
             /\ debt' = [debt EXCEPT ![d] = "owed"]
             /\ UNCHANGED <<sent, seen>>

Send(d) == /\ debt[d] = "owed"
           /\ sent' = [sent EXCEPT ![d] = @ + 1]
           /\ UNCHANGED <<debt, seen>>

Process(d) == /\ seen[d] < sent[d]
              /\ seen' = [seen EXCEPT ![d] = @ + 1]
              /\ UNCHANGED <<debt, sent>>

Finish(d) == /\ debt[d] = "owed"
             /\ seen[d] > 0
             /\ debt' = [debt EXCEPT ![d] = "done"]
             /\ UNCHANGED <<sent, seen>>

Abandon(d) == /\ debt[d] = "owed"
              /\ sent[d] > MaxRetries
              /\ debt' = [debt EXCEPT ![d] = "abandoned"]
              /\ UNCHANGED <<sent, seen>>

Next == \E d \in Deliveries :
          Accept(d) \/ Send(d) \/ Process(d) \/ Finish(d) \/ Abandon(d)

Spec == Init /\ [][Next]_avars
=============================================================================

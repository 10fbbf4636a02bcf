---------------------------- MODULE MessageStream ----------------------------
(***************************************************************************)
(* What a client of the Messages API may see of one streamed message: it   *)
(* begins once, its content blocks are numbered one after another, each is *)
(* opened, filled and closed before the next one is opened, and after the  *)
(* message_delta that ends the content there is a message_stop.  An error  *)
(* event ends the message anywhere.  A connection that breaks shows as     *)
(* nothing more happening.                                                 *)
(***************************************************************************)
EXTENDS Naturals

CONSTANT Kinds           \* kinds of content blocks

VARIABLES stage,         \* idle, open, ending, stopped or failed
          open,          \* the blocks that are open: [index, kind]
          next           \* the index of the next block

avars == <<stage, open, next>>

Init == /\ stage = "idle"
        /\ open = {}
        /\ next = 0

Begin == /\ stage = "idle"
         /\ stage' = "open"
         /\ UNCHANGED <<open, next>>

OpenBlock == /\ stage = "open"
             /\ open = {}
             /\ \E k \in Kinds : open' = {[index |-> next, kind |-> k]}
             /\ next' = next + 1
             /\ UNCHANGED stage

CloseBlock == /\ stage = "open"
              /\ open # {}
              /\ open' = {}
              /\ UNCHANGED <<stage, next>>

EndContent == /\ stage = "open"
              /\ open = {}
              /\ stage' = "ending"
              /\ UNCHANGED <<open, next>>

Stop == /\ stage = "ending"
        /\ stage' = "stopped"
        /\ UNCHANGED <<open, next>>

Fail == /\ stage \in {"idle", "open", "ending"}
        /\ stage' = "failed"
        /\ UNCHANGED <<open, next>>

Next == Begin \/ OpenBlock \/ CloseBlock \/ EndContent \/ Stop \/ Fail

Spec == Init /\ [][Next]_avars
=============================================================================

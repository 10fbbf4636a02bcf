---------------------------- MODULE MCBatchEngine ----------------------------
(* One job of a few items, two workers that may finish it together and a     *)
(* handler.                                                                  *)
EXTENDS BatchEngine

CONSTANT theJob

MCJobOf == [i \in Items |-> theJob]
=============================================================================

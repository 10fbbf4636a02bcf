---------------------------- MODULE MCVirtualKey ----------------------------
(* One key, requests that cost nothing or a unit, and two periods. *)
EXTENDS VirtualKey, TLC

Symmetry == Permutations(Requests) \cup Permutations(Admins)
=============================================================================

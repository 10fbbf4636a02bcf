---------------------------- MODULE MCRateLimiter ----------------------------
(* Two requests of one key at a time and a neighbour on its shard, in a window *)
(* of one second and a half, so that an entry leaves between two seconds.      *)
EXTENDS RateLimiter

RpmLimits == [l \in Limiters |-> CASE l = "local" -> 3 [] l = "open" -> 1 [] l = "closed" -> 2]

\* Until the first entry has left the local window, or that of Redis where the
\* other instance wrote it; the run that has too few threads needs none to leave.
MaxTimes == [l \in Limiters |-> CASE l = "local" -> 8 [] l = "open" -> 6 [] l = "closed" -> 6]

EarlyTimes == [l \in Limiters |-> 5]
=============================================================================

-------------------------- MODULE DeploymentRouter --------------------------
(***************************************************************************)
(* The routing table of the proxy and the counters of its deployments      *)
(* (config/model_router, config/route_router).  A request picks a          *)
(* deployment under the read lock of the table, touching the lock-free     *)
(* counters of the deployments one atomic operation at a time, so the      *)
(* scans of several requests interleave; an administrator's change rebuilds*)
(* the table under the write lock.  The endpoint that serves the request   *)
(* then counts it in and, on some of its paths, out again.                 *)
(*                                                                         *)
(* One module constant is one window of the code: Window ticks are 60 s.   *)
(* The atomics are taken as sequentially consistent.  The latency-based    *)
(* strategy is left out: it is LeastBusy with another metric.              *)
(***************************************************************************)
EXTENDS Integers, FiniteSets, Sequences

CONSTANTS
  NumDeployments,   \* deployments of the model, in priority order 1..NumDeployments
  Requests,         \* requests in the proxy at a time
  Rpm,              \* rpm_limit of each deployment, or NoLimit
  Weight,           \* weight of each deployment (with_weight floors it at 1)
  Price,            \* price per token of each deployment, or NoPrice
  Strategies,       \* strategies a route may be configured with
  Endpoints,        \* endpoints the requests arrive at
  Window,           \* the 60 s of maybe_reset_window, in ticks
  MaxClock,         \* bound: ticks of the clock
  MaxArrivals,      \* bound: requests that arrive
  MaxRebuilds       \* bound: rebuilds of the table

NoLimit == -1
NoPrice == -1
None == 0           \* no deployment

Deployments == 1..NumDeployments

ASSUME RouterAssumption ==
  /\ NumDeployments \in Nat \ {0}
  /\ IsFiniteSet(Requests) /\ Requests # {}
  /\ Rpm \in [Deployments -> Nat \cup {NoLimit}]
  /\ Weight \in [Deployments -> Nat \ {0}]
  /\ Price \in [Deployments -> Nat \cup {NoPrice}]
  /\ Strategies \subseteq {"roundRobin", "failover", "leastBusy", "weighted", "costBased"}
  /\ Endpoints \subseteq {"plain", "stream", "geminiStream"}
  /\ Window \in Nat \ {0}
  /\ {MaxClock, MaxArrivals, MaxRebuilds} \subseteq Nat

VARIABLES
  strategy,      \* the route's strategy
  counter,       \* the round-robin counter of the route
  rpmUsed,       \* rpm_used of each deployment
  windowStart,   \* window_start_ms of each deployment
  inFlight,      \* in_flight of each deployment
  req,           \* what each request is doing
  clock, arrivals, rebuilds,
  admitted,      \* history: requests recorded on a deployment in its window
  reset          \* history: deployments whose window was being reset by another
                 \* request while a request was picking

table == <<strategy, counter, rpmUsed, windowStart, inFlight>>
bounds == <<clock, arrivals, rebuilds>>
vars == <<table, req, bounds, admitted, reset>>

\* A request: at is its program counter, scan the deployments it has yet to
\* look at, best the pick so far with its metric, now the time it read before
\* it swaps the window, to the deployment it was routed to, current whether
\* that deployment is still the one in the table.
Idle == [at |-> "idle", endpoint |-> "none", scan |-> <<>>, best |-> None,
         metric |-> 0, byPrice |-> FALSE, seen |-> 0, now |-> 0,
         to |-> None, current |-> FALSE]

Selecting == {"window", "swap", "clear", "limit", "record"}

Places == Selecting \cup {"idle", "routed", "started"}

At(r, place) == req[r].at = place
Looking(r) == Head(req[r].scan)

\* A request has swapped the window of the deployment and has yet to store zero.
Clearing(d) == \E r \in Requests : At(r, "clear") /\ Looking(r) = d

RequestSet ==
  [at : Places, endpoint : Endpoints \cup {"none"}, scan : Seq(Deployments),
   best : Deployments \cup {None}, metric : Int, byPrice : BOOLEAN, seen : Nat,
   now : Nat, to : Deployments \cup {None}, current : BOOLEAN]

-----------------------------------------------------------------------------
(* The scan of select_from *)

ScanBackwards(first) ==   \* mutant: lowest priority first
  [k \in 1..NumDeployments |-> ((first - k - 1) % NumDeployments) + 1]

ScanFrom(first) ==
  [k \in 1..NumDeployments |-> ((first + k - 2) % NumDeployments) + 1]

\* Weighted: the first deployment whose cumulative weight exceeds the tick.
CumulativeWeight[d \in 0..NumDeployments] ==
  IF d = 0 THEN 0 ELSE CumulativeWeight[d - 1] + Weight[d]

WeightedFirst(n) ==
  LET tick   == n % CumulativeWeight[NumDeployments]
      beyond == {d \in Deployments : tick < CumulativeWeight[d]}
  IN  IF beyond = {} THEN 1 ELSE CHOOSE d \in beyond : \A e \in beyond : d <= e

FirstLook(s, n) ==
  IF s = "roundRobin" THEN (n % NumDeployments) + 1
  ELSE IF s = "weighted" THEN WeightedFirst(n)
  ELSE 1

Rotates(s) == s \in {"roundRobin", "weighted"}
TakesBest(r) == strategy = "leastBusy" \/ req[r].byPrice

UnderOrAtLimit(d) ==      \* mutant: <= for <
  Rpm[d] = NoLimit \/ rpmUsed[d] <= Rpm[d]

UnderLimit(d) == Rpm[d] = NoLimit \/ rpmUsed[d] < Rpm[d]

\* The metric of a deployment that the scan of request r may pick on it.
Metric(r, d) == IF req[r].byPrice THEN Price[d] ELSE inFlight[d]
Eligible(r, d) == UnderLimit(d) /\ ~ (req[r].byPrice /\ Price[d] = NoPrice)
Better(r, d) == req[r].best = None \/ Metric(r, d) < req[r].metric

-----------------------------------------------------------------------------
Init ==
  /\ strategy \in Strategies
  /\ counter = 0
  /\ rpmUsed = [d \in Deployments |-> 0]
  /\ windowStart = [d \in Deployments |-> 0]
  /\ inFlight = [d \in Deployments |-> 0]
  /\ req = [r \in Requests |-> Idle]
  /\ clock = 0 /\ arrivals = 0 /\ rebuilds = 0
  /\ admitted = [d \in Deployments |-> 0]
  /\ reset = [r \in Requests |-> {}]

\* select_from, entered with the read lock of the table: RoundRobin and
\* Weighted take a ticket from the counter, the others start at the first.

Arrive(r) ==
  /\ At(r, "idle")
  /\ arrivals < MaxArrivals
  /\ arrivals' = arrivals + 1
  /\ counter' = IF Rotates(strategy) THEN counter + 1 ELSE counter
  /\ req' = [req EXCEPT ![r] =
       [Idle EXCEPT !.at = "window",
                    !.scan = ScanFrom(FirstLook(strategy, counter)),
                    !.byPrice = (strategy = "costBased")]]
  /\ reset' = [reset EXCEPT ![r] = {d \in Deployments : Clearing(d)}]
  /\ UNCHANGED <<strategy, rpmUsed, windowStart, inFlight, clock, rebuilds, admitted>>

\* maybe_reset_window, first half: read the clock and the start of the window.
ReadWindow(r) ==
  /\ At(r, "window")
  /\ LET d == Looking(r)
         expired == clock - windowStart[d] > Window
     IN  req' = [req EXCEPT ![r] =
                  IF expired
                  THEN [@ EXCEPT !.at = "swap", !.seen = windowStart[d], !.now = clock]
                  ELSE [@ EXCEPT !.at = "limit"]]
  /\ UNCHANGED <<table, bounds, admitted, reset>>

\* The compare_exchange of the window's start: one of the racing requests wins.
SwapWindow(r) ==
  LET d == Looking(r)
      wins == windowStart[d] = req[r].seen
  IN  /\ At(r, "swap")
      /\ windowStart' = IF wins THEN [windowStart EXCEPT ![d] = req[r].now] ELSE windowStart
      /\ admitted' = IF wins THEN [admitted EXCEPT ![d] = 0] ELSE admitted
      /\ reset' = [q \in Requests |-> IF wins /\ q # r /\ req[q].at \in Selecting
                                      THEN reset[q] \cup {d} ELSE reset[q]]
      /\ req' = [req EXCEPT ![r].at = IF wins THEN "clear" ELSE "limit", ![r].seen = 0,
                            ![r].now = IF wins THEN @ ELSE 0]
      /\ UNCHANGED <<strategy, counter, rpmUsed, inFlight, bounds>>

\* The winner's store of zero, after which it goes on to its own check.
ClearCounter(r) ==
  /\ At(r, "clear")
  /\ rpmUsed' = [rpmUsed EXCEPT ![Looking(r)] = 0]
  /\ req' = [req EXCEPT ![r].at = "limit", ![r].now = 0]
  /\ UNCHANGED <<strategy, counter, windowStart, inFlight, bounds, admitted, reset>>

TakeUnchecked(r) ==       \* mutant: the limit is not looked at
  /\ At(r, "limit") /\ ~ TakesBest(r)
  /\ req' = [req EXCEPT ![r].at = "record", ![r].best = Looking(r)]
  /\ UNCHANGED <<table, bounds, admitted, reset>>

\* under_rpm_limit, after the window: the first deployment under its limit is
\* taken at once, or, by least busy and by price, remembered if it is better.
Take(r) ==
  /\ At(r, "limit") /\ ~ TakesBest(r)
  /\ UnderLimit(Looking(r))
  /\ req' = [req EXCEPT ![r].at = "record", ![r].best = Looking(r)]
  /\ UNCHANGED <<table, bounds, admitted, reset>>

Remembered(r) ==
  LET d == Looking(r) IN
  IF TakesBest(r) /\ Eligible(r, d) /\ Better(r, d)
  THEN [req[r] EXCEPT !.best = d, !.metric = Metric(r, d)] ELSE req[r]

\* On to the next deployment of the scan.
Skip(r) ==
  /\ At(r, "limit") /\ (TakesBest(r) \/ ~ UnderLimit(Looking(r)))
  /\ Len(req[r].scan) > 1
  /\ req' = [req EXCEPT ![r] =
       [Remembered(r) EXCEPT !.at = "window", !.scan = Tail(req[r].scan)]]
  /\ UNCHANGED <<table, bounds, admitted, reset>>

AtAny(r) ==               \* mutant: the scan ends at the first deployment
  At(r, "limit") /\ (TakesBest(r) \/ ~ UnderLimit(Looking(r)))

\* The scan is over.  With a pick, record it; by price with no priced pick,
\* start over as round robin; otherwise come away empty-handed.
AtLast(r) ==
  /\ At(r, "limit") /\ (TakesBest(r) \/ ~ UnderLimit(Looking(r)))
  /\ Len(req[r].scan) = 1

EndScan(r) ==
  /\ AtLast(r)
  /\ Remembered(r).best # None
  /\ req' = [req EXCEPT ![r] = [Remembered(r) EXCEPT !.at = "record"]]
  /\ UNCHANGED <<table, bounds, admitted, reset>>

FallBack(r) ==
  /\ AtLast(r)
  /\ Remembered(r).best = None /\ req[r].byPrice
  /\ counter' = counter + 1
  /\ req' = [req EXCEPT ![r].at = "window", ![r].byPrice = FALSE,
                        ![r].scan = ScanFrom(FirstLook("roundRobin", counter))]
  /\ UNCHANGED <<strategy, rpmUsed, windowStart, inFlight, bounds, admitted, reset>>

\* select_from returns None.  The caller answers 429, or, on a route that matches
\* the model by "*" alone, leaves the request to the layers below; either way it
\* goes to no deployment of this table.
EmptyHanded(r) ==
  /\ AtLast(r)
  /\ Remembered(r).best = None /\ ~ req[r].byPrice
  /\ req' = [req EXCEPT ![r] = Idle]
  /\ reset' = [reset EXCEPT ![r] = {}]
  /\ UNCHANGED <<table, bounds, admitted>>

\* record_request on the pick; the read lock is released.
Record(r) ==
  LET d == req[r].best IN
  /\ At(r, "record")
  /\ rpmUsed' = [rpmUsed EXCEPT ![d] = @ + 1]
  /\ admitted' = [admitted EXCEPT ![d] = @ + 1]
  /\ req' = [req EXCEPT ![r] =
       [Idle EXCEPT !.at = "routed", !.to = d, !.current = TRUE]]
  /\ reset' = [reset EXCEPT ![r] = {}]
  /\ UNCHANGED <<strategy, counter, windowStart, inFlight, bounds>>

-----------------------------------------------------------------------------
(* The endpoints *)

\* Refused after routing (route scope, redaction, a malformed body) or served
\* from the cache: the slot in the window stays taken.
LeaveEarly(r) ==
  /\ At(r, "routed")
  /\ req' = [req EXCEPT ![r] = Idle]
  /\ UNCHANGED <<table, bounds, admitted, reset>>

\* record_start, on the deployment the request holds, which a rebuild may have
\* taken out of the table meanwhile; the endpoint matters from here on.
Start(r, e) ==
  /\ At(r, "routed")
  /\ inFlight' = IF req[r].current
                 THEN [inFlight EXCEPT ![req[r].to] = @ + 1] ELSE inFlight
  /\ req' = [req EXCEPT ![r].at = "started", ![r].endpoint = e]
  /\ UNCHANGED <<strategy, counter, rpmUsed, windowStart, bounds, admitted, reset>>

\* record_finish: after the answer or the error of the backend on the plain
\* path, from the Drop of the accounting guard on the streaming path.
Finish(r) ==
  /\ At(r, "started") /\ req[r].endpoint \in {"plain", "stream"}
  /\ inFlight' = IF req[r].current
                 THEN [inFlight EXCEPT ![req[r].to] = @ - 1] ELSE inFlight
  /\ req' = [req EXCEPT ![r] = Idle]
  /\ UNCHANGED <<strategy, counter, rpmUsed, windowStart, bounds, admitted, reset>>

\* Ways out that never call record_finish: a tool policy error or a client that
\* hangs up while the plain path waits, and every end of a Gemini stream.
LeaveUncounted(r) ==
  /\ At(r, "started") /\ req[r].endpoint \in {"plain", "geminiStream"}
  /\ req' = [req EXCEPT ![r] = Idle]
  /\ UNCHANGED <<table, bounds, admitted, reset>>

-----------------------------------------------------------------------------
RebuildInPlace ==         \* mutant: the old deployments are zeroed and kept
  /\ rebuilds < MaxRebuilds
  /\ \A r \in Requests : req[r].at \notin Selecting
  /\ rebuilds' = rebuilds + 1
  /\ counter' = 0
  /\ rpmUsed' = [d \in Deployments |-> 0]
  /\ windowStart' = [d \in Deployments |-> clock]
  /\ inFlight' = [d \in Deployments |-> 0]
  /\ admitted' = [d \in Deployments |-> 0]
  /\ UNCHANGED <<strategy, req, clock, arrivals, reset>>

\* rebuild_route_router under the write lock: new deployments, new counters;
\* requests already routed keep the deployments they hold.
Rebuild ==
  /\ rebuilds < MaxRebuilds
  /\ \A r \in Requests : req[r].at \notin Selecting
  /\ rebuilds' = rebuilds + 1
  /\ counter' = 0
  /\ rpmUsed' = [d \in Deployments |-> 0]
  /\ windowStart' = [d \in Deployments |-> clock]
  /\ inFlight' = [d \in Deployments |-> 0]
  /\ admitted' = [d \in Deployments |-> 0]
  /\ req' = [r \in Requests |-> [req[r] EXCEPT !.current = FALSE]]
  /\ UNCHANGED <<strategy, clock, arrivals, reset>>

\* Time passes.  A thread takes less than a window from reading the clock to
\* storing the zero: a handful of instructions against 60 s.
Tick ==
  /\ clock < MaxClock
  /\ \A r \in Requests :
       req[r].at \in {"swap", "clear"} => clock + 1 - req[r].now <= Window
  /\ clock' = clock + 1
  /\ UNCHANGED <<table, req, arrivals, rebuilds, admitted, reset>>

Select(r) ==
  \/ ReadWindow(r) \/ SwapWindow(r) \/ ClearCounter(r)
  \/ Take(r) \/ Skip(r) \/ EndScan(r) \/ FallBack(r)
  \/ EmptyHanded(r) \/ Record(r)

Serve(r) ==
  \/ LeaveEarly(r)
  \/ \E e \in Endpoints : Start(r, e)
  \/ Finish(r) \/ LeaveUncounted(r)

Next ==
  \/ \E r \in Requests : Arrive(r) \/ Select(r) \/ Serve(r)
  \/ Rebuild
  \/ Tick

Spec == Init /\ [][Next]_vars

-----------------------------------------------------------------------------
(* Properties *)

\* Every variable keeps its type; a request that looks at a deployment has one
\* to look at, and one that was routed has the deployment it was routed to.
TypeOK ==
  /\ strategy \in Strategies
  /\ counter \in Nat
  /\ rpmUsed \in [Deployments -> Nat]
  /\ windowStart \in [Deployments -> Nat]
  /\ inFlight \in [Deployments -> Int]
  /\ req \in [Requests -> RequestSet]
  /\ {clock, arrivals, rebuilds} \subseteq Nat
  /\ admitted \in [Deployments -> Nat]
  /\ reset \in [Requests -> SUBSET Deployments]
  /\ \A r \in Requests :
       /\ req[r].at \in Selecting \ {"record"} => req[r].scan # <<>>
       /\ req[r].at = "record" => req[r].best # None
       /\ req[r].at \in {"routed", "started"} => req[r].to # None

Slack == Cardinality(Requests) - 1

\* A limited deployment's count overshoots its limit by at most one for every
\* other request that was past its check at the time: under_rpm_limit and
\* record_request are not one atomic step.
OvershootBounded ==
  \A d \in Deployments : Rpm[d] # NoLimit => rpmUsed[d] <= Rpm[d] + Slack

\* What a deployment is really sent in one window.  Requests recorded between
\* the winner's swap and its store of zero are lost from the count, so the limit
\* can be had twice, but never a third time: the swap lets one request clear.
SentInWindowBounded ==
  \A d \in Deployments : Rpm[d] > 0 => admitted[d] <= 2 * (Rpm[d] + Slack) - 1

Started(d) == {r \in Requests : At(r, "started") /\ req[r].current /\ req[r].to = d}

\* in_flight is never below the requests that are in flight, so its fetch_sub
\* never wraps, whatever the table was rebuilt under.
InFlightNeverLow ==
  \A d \in Deployments : inFlight[d] >= Cardinality(Started(d))

\* "Current in-flight request count." (Deployment::in_flight_count)
InFlightIsCurrent ==
  \A d \in Deployments : inFlight[d] = Cardinality(Started(d))

\* The deployment has been sent its limit in its window.
Full(d) == Rpm[d] # NoLimit /\ admitted[d] >= Rpm[d]

\* Failover is sticky: a request goes to a deployment only when each one of
\* higher priority has been sent its limit in its window, or has its window reset
\* by another request while this one picks.
FailoverFillsInOrder ==
  [][\A r \in Requests :
       strategy = "failover" /\ Record(r) =>
         \A d \in Deployments : d < req[r].best => Full(d) \/ d \in reset[r]]_vars

\* A request is answered 429, or falls through, only when every deployment of
\* the route has been sent its limit in its window, whatever the strategy and
\* whoever else is picking; but not of a deployment whose window another request
\* resets meanwhile: its old count may still be read.
RefusedOnlyWhenFull ==
  [][\A r \in Requests :
       EmptyHanded(r) => \A d \in Deployments : Full(d) \/ d \in reset[r]]_vars

=============================================================================

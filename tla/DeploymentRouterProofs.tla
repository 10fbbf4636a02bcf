----------------------- MODULE DeploymentRouterProofs -----------------------
(***************************************************************************)
(* The counters of DeploymentRouter for any number of deployments and      *)
(* requests, any limits, weights and prices, any window and any number of  *)
(* rebuilds.                                                               *)
(***************************************************************************)
EXTENDS DeploymentRouter, FiniteSetTheorems, WellFoundedInduction, TLAPS

-----------------------------------------------------------------------------
(* Scans *)

\* A non-empty set of natural numbers has a least element.
LEMMA Least ==
  ASSUME NEW S \in SUBSET Nat, S # {}
  PROVE  \E m \in S : \A e \in S : m <= e
<1> DEFINE R == {p \in Nat \X Nat : p[1] < p[2]}
<1>1. IsWellFoundedOn(R, Nat)
  <2>1. OpToRel(<, Nat) = R
    BY DEF OpToRel
  <2>2. QED
    BY <2>1, NatLessThanWellFounded
<1>2. PICK m \in S : \A e \in S : <<e, m>> \notin R
  BY <1>1, WFMin
<1>3. ASSUME NEW e \in S PROVE m <= e
  <2>1. m \in Nat /\ e \in Nat
    OBVIOUS
  <2>2. ~(e < m)
    BY <1>2, <2>1
  <2>3. QED
    BY <2>1, <2>2
<1>4. QED
  BY <1>3

\* What modulo does below twice the number of deployments.
LEMMA Modulo ==
  /\ \A x \in Int : x % NumDeployments \in 0 .. NumDeployments - 1
  /\ \A x \in 0 .. NumDeployments - 1 : x % NumDeployments = x
  /\ \A x \in NumDeployments .. 2 * NumDeployments - 1 :
       x % NumDeployments = x - NumDeployments
BY RouterAssumption

\* Every strategy starts its scan at a deployment of the model.
LEMMA FirstLookType ==
  ASSUME NEW s, NEW n \in Nat
  PROVE  FirstLook(s, n) \in Deployments
<1>1. 1 \in Deployments
  BY RouterAssumption DEF Deployments
<1>2. (n % NumDeployments) + 1 \in Deployments
  <2>1. n % NumDeployments \in 0 .. NumDeployments - 1
    BY Modulo
  <2>2. QED
    BY <2>1, RouterAssumption DEF Deployments
<1>3. WeightedFirst(n) \in Deployments
  <2> DEFINE beyond == {d \in Deployments :
                          n % CumulativeWeight[NumDeployments] < CumulativeWeight[d]}
  <2>1. CASE beyond = {}
    BY <1>1, <2>1 DEF WeightedFirst
  <2>2. CASE beyond # {}
    <3>1. beyond \in SUBSET Nat
      BY DEF Deployments
    <3>2. \E d \in beyond : \A e \in beyond : d <= e
      BY <2>2, <3>1, Least
    <3>3. (CHOOSE d \in beyond : \A e \in beyond : d <= e) \in beyond
      BY <3>2
    <3>4. QED
      BY <2>2, <3>3 DEF WeightedFirst
  <2>3. QED
    BY <2>1, <2>2
<1>4. QED
  BY <1>1, <1>2, <1>3 DEF FirstLook

\* A scan is a sequence of all deployments, in their order if it starts at the
\* first one.
LEMMA ScanType ==
  ASSUME NEW first \in Deployments
  PROVE  /\ ScanFrom(first) \in Seq(Deployments)
         /\ Len(ScanFrom(first)) = NumDeployments
         /\ ScanFrom(first) # <<>>
         /\ \A d \in Deployments : \E k \in 1 .. NumDeployments : ScanFrom(first)[k] = d
         /\ first = 1 => \A k \in 1 .. NumDeployments : ScanFrom(first)[k] = k
<1>1. NumDeployments \in Nat \ {0} /\ Deployments = 1 .. NumDeployments
  BY RouterAssumption DEF Deployments
<1>2. \A k \in 1 .. NumDeployments :
        ((first + k - 2) % NumDeployments) + 1 \in Deployments
  <2> TAKE k \in 1 .. NumDeployments
  <2>1. first + k - 2 \in Int
    BY <1>1
  <2>2. (first + k - 2) % NumDeployments \in 0 .. NumDeployments - 1
    BY <2>1, Modulo
  <2>3. QED
    BY <1>1, <2>2
<1>3. ScanFrom(first) \in [1 .. NumDeployments -> Deployments]
  BY <1>2 DEF ScanFrom
<1>4. /\ ScanFrom(first) \in Seq(Deployments)
      /\ Len(ScanFrom(first)) = NumDeployments
      /\ ScanFrom(first) # <<>>
  <2> DEFINE f == ScanFrom(first)
  <2> HIDE DEF f
  <2>1. f \in Seq(Deployments) /\ Len(f) = NumDeployments
    BY <1>1, <1>3 DEF f
  <2>2. f # <<>>
    BY <1>1, <2>1
  <2>3. QED
    BY <2>1, <2>2 DEF f
<1>5. ASSUME NEW d \in Deployments
      PROVE  \E k \in 1 .. NumDeployments : ScanFrom(first)[k] = d
  <2>1. CASE d >= first
    <3>1. d - first + 1 \in 1 .. NumDeployments
      BY <1>1, <2>1
    <3>2. d - 1 \in 0 .. NumDeployments - 1 /\ first + (d - first + 1) - 2 = d - 1
      BY <1>1
    <3>3. (d - 1) % NumDeployments = d - 1
      BY <3>2, Modulo
    <3>4. ScanFrom(first)[d - first + 1] = d
      BY <1>1, <3>1, <3>2, <3>3 DEF ScanFrom
    <3>5. QED
      BY <3>1, <3>4
  <2>2. CASE d < first
    <3>1. d - first + 1 + NumDeployments \in 1 .. NumDeployments
      BY <1>1, <2>2
    <3>2. /\ d - 1 + NumDeployments \in NumDeployments .. 2 * NumDeployments - 1
          /\ first + (d - first + 1 + NumDeployments) - 2 = d - 1 + NumDeployments
      BY <1>1
    <3>3. (d - 1 + NumDeployments) % NumDeployments = d - 1
      <4>1. PICK x \in NumDeployments .. 2 * NumDeployments - 1 :
              x = d - 1 + NumDeployments
        BY <3>2
      <4>2. x % NumDeployments = x - NumDeployments
        BY Modulo
      <4>3. QED
        BY <1>1, <4>1, <4>2
    <3>4. ScanFrom(first)[d - first + 1 + NumDeployments] = d
      BY <1>1, <3>1, <3>2, <3>3 DEF ScanFrom
    <3>5. QED
      BY <3>1, <3>4
  <2>3. QED
    BY <1>1, <2>1, <2>2
<1>6. ASSUME first = 1, NEW k \in 1 .. NumDeployments PROVE ScanFrom(first)[k] = k
  <2>1. first + k - 2 = k - 1 /\ k - 1 \in 0 .. NumDeployments - 1
    BY <1>1, <1>6
  <2>2. (k - 1) % NumDeployments = k - 1
    BY <2>1, Modulo
  <2>3. QED
    BY <2>1, <2>2, <1>1 DEF ScanFrom
<1>7. QED
  BY <1>4, <1>5, <1>6

-----------------------------------------------------------------------------
(* Type correctness *)

\* One request is well formed.
RequestOK(q) ==
  /\ q \in RequestSet
  /\ q.at \in Selecting \ {"record"} => q.scan # <<>>
  /\ q.at = "record" => q.best # None
  /\ q.at \in {"routed", "started"} => q.to # None

\* The deployment a scan looks at, and the rest of the scan.
LEMMA ScanParts ==
  ASSUME NEW q \in RequestSet, q.scan # <<>>
  PROVE  /\ Head(q.scan) \in Deployments
         /\ Len(q.scan) > 1 => Tail(q.scan) \in Seq(Deployments) /\ Tail(q.scan) # <<>>
<1> DEFINE s == q.scan
<1>1. s \in Seq(Deployments) /\ s # <<>>
  BY DEF RequestSet
<1> HIDE DEF s
<1>2. Head(s) \in Deployments
  BY <1>1
<1>3. ASSUME Len(s) > 1 PROVE Tail(s) \in Seq(Deployments) /\ Tail(s) # <<>>
  <2>1. Tail(s) \in Seq(Deployments) /\ Len(Tail(s)) = Len(s) - 1
    BY <1>1
  <2>2. Len(Tail(s)) # 0 /\ Len(<<>>) = 0
    BY <1>1, <1>3, <2>1
  <2>3. QED
    BY <2>1, <2>2
<1>4. QED
  BY <1>2, <1>3 DEF s

\* An idle request is well formed.
LEMMA IdleOK == RequestOK(Idle)
<1>1. <<>> \in Seq(Deployments)
  OBVIOUS
<1>2. QED
  BY <1>1 DEF RequestOK, RequestSet, Idle, Places, Selecting

\* What a step of one request leaves well typed.
LEMMA OneRequestType ==
  ASSUME TypeOK, NEW r \in Requests, RequestOK(req'[r]),
         req' = [req EXCEPT ![r] = req'[r]],
         strategy' \in Strategies, counter' \in Nat,
         rpmUsed' \in [Deployments -> Nat], windowStart' \in [Deployments -> Nat],
         inFlight' \in [Deployments -> Int], admitted' \in [Deployments -> Nat],
         {clock', arrivals', rebuilds'} \subseteq Nat,
         reset' \in [Requests -> SUBSET Deployments]
  PROVE  TypeOK'
<1>1. req' \in [Requests -> RequestSet]
  BY DEF TypeOK, RequestOK
<1>2. \A x \in Requests : RequestOK(req'[x])
  BY DEF TypeOK, RequestOK
<1>3. QED
  BY <1>1, <1>2 DEF TypeOK, RequestOK

\* What is remembered of a scan is well formed wherever the scan is then.
LEMMA RememberedOK ==
  ASSUME TypeOK, NEW r \in Requests, At(r, "limit"), NEW scan \in Seq(Deployments)
  PROVE  /\ Remembered(r) \in RequestSet
         /\ Remembered(r).scan = req[r].scan
         /\ scan # <<>> =>
              RequestOK([Remembered(r) EXCEPT !.at = "window", !.scan = scan])
         /\ Remembered(r).best # None =>
              RequestOK([Remembered(r) EXCEPT !.at = "record"])
<1>1. req[r] \in RequestSet /\ Looking(r) \in Deployments
  BY ScanParts DEF TypeOK, At, Selecting, Looking
<1>2. ASSUME Eligible(r, Looking(r)) PROVE Metric(r, Looking(r)) \in Int
  BY <1>1, RouterAssumption DEF Metric, TypeOK, NoPrice
<1>3. Remembered(r) \in RequestSet /\ Remembered(r).scan = req[r].scan
  <2>1. CASE TakesBest(r) /\ Eligible(r, Looking(r)) /\ Better(r, Looking(r))
    BY <1>1, <1>2, <2>1 DEF Remembered, RequestSet
  <2>2. CASE ~(TakesBest(r) /\ Eligible(r, Looking(r)) /\ Better(r, Looking(r)))
    BY <1>1, <2>2 DEF Remembered
  <2>3. QED
    BY <2>1, <2>2
<1>4. QED
  <2> DEFINE q == Remembered(r)
  <2> HIDE DEF q
  <2>1. q \in RequestSet
    BY <1>3 DEF q
  <2>2. scan # <<>> => RequestOK([q EXCEPT !.at = "window", !.scan = scan])
    BY <2>1 DEF RequestOK, RequestSet, Places, Selecting
  <2>3. q.best # None => RequestOK([q EXCEPT !.at = "record"])
    BY <2>1 DEF RequestOK, RequestSet, Places, Selecting
  <2>4. QED
    BY <1>3, <2>2, <2>3 DEF q

\* Types are preserved by what a request does to select a deployment.
LEMMA SelectType ==
  ASSUME TypeOK, NEW r \in Requests, Arrive(r) \/ Select(r)
  PROVE  TypeOK'
<1> DEFINE q == req[r]
<1>1. RequestOK(q) /\ q \in RequestSet
  BY DEF TypeOK, RequestOK
<1>2. q.at \in Selecting \ {"record"} => q.scan # <<>> /\ Looking(r) \in Deployments
  BY <1>1, ScanParts DEF RequestOK, Looking
<1>3. \A s : \A n \in Nat :
                        /\ ScanFrom(FirstLook(s, n)) \in Seq(Deployments)
                        /\ ScanFrom(FirstLook(s, n)) # <<>>
  BY FirstLookType, ScanType
<1>4. <<>> \in Seq(Deployments)
  OBVIOUS
<1>5. \A x : /\ req' = [req EXCEPT ![r] = x] => req'[r] = x
  BY DEF TypeOK
<1> HIDE DEF q
<1>6. CASE Arrive(r)
  <2>1. RequestOK(req'[r])
    <3> DEFINE s == ScanFrom(FirstLook(strategy, counter))
    <3>1. s \in Seq(Deployments) /\ s # <<>>
      BY <1>3 DEF TypeOK
    <3>2. req'[r] = [Idle EXCEPT !.at = "window", !.scan = s,
                                 !.byPrice = (strategy = "costBased")]
      BY <1>6, <1>5 DEF Arrive
    <3> HIDE DEF s
    <3>3. PICK b \in BOOLEAN :
            req'[r] = [Idle EXCEPT !.at = "window", !.scan = s, !.byPrice = b]
      BY <3>2
    <3>4. PICK i \in RequestSet : i = Idle
      BY IdleOK DEF RequestOK
    <3>5. [i EXCEPT !.at = "window", !.scan = s, !.byPrice = b] \in RequestSet
      BY <3>1 DEF RequestSet, Places, Selecting
    <3>6. req'[r].at = "window" /\ req'[r].scan = s
      BY <3>3, <3>4 DEF RequestSet
    <3>7. QED
      BY <3>1, <3>3, <3>4, <3>5, <3>6 DEF RequestOK, Selecting
  <2>2. counter' \in Nat /\ arrivals' \in Nat
    BY <1>6 DEF Arrive, TypeOK
  <2>3. /\ req' = [req EXCEPT ![r] = req'[r]]
        /\ reset' \in [Requests -> SUBSET Deployments]
    BY <1>6 DEF Arrive, TypeOK
  <2>4. QED
    BY <1>6, <2>1, <2>2, <2>3, OneRequestType DEF Arrive, TypeOK
<1>7. CASE ReadWindow(r)
  <2>1. RequestOK(req'[r])
    <3>1. \/ req'[r] = [q EXCEPT !.at = "swap", !.seen = windowStart[Looking(r)],
                                 !.now = clock]
          \/ req'[r] = [q EXCEPT !.at = "limit"]
      BY <1>7 DEF ReadWindow, TypeOK, q
    <3>2. q.at = "window" /\ windowStart[Looking(r)] \in Nat /\ clock \in Nat
      BY <1>7, <1>2 DEF ReadWindow, At, TypeOK, Selecting, q
    <3>3. QED
      BY <1>1, <3>1, <3>2 DEF RequestOK, RequestSet, Places, Selecting
  <2>2. QED
    BY <1>7, <2>1, OneRequestType DEF ReadWindow, TypeOK, table, bounds
<1>8. CASE SwapWindow(r)
  <2>1. q.at = "swap" /\ q.now \in Nat /\ Looking(r) \in Deployments
    BY <1>1, <1>2, <1>8 DEF SwapWindow, At, Selecting, RequestSet, q
  <2>2. RequestOK(req'[r])
    <3>1. \/ req'[r] = [q EXCEPT !.at = "clear", !.seen = 0]
          \/ req'[r] = [q EXCEPT !.at = "limit", !.seen = 0, !.now = 0]
      BY <1>1, <1>8 DEF SwapWindow, TypeOK, RequestSet, q
    <3>2. req'[r] \in RequestSet
      <4>1. [q EXCEPT !.at = "clear", !.seen = 0] \in RequestSet
        BY <1>1 DEF RequestSet, Places, Selecting
      <4>2. [q EXCEPT !.at = "limit", !.seen = 0, !.now = 0] \in RequestSet
        BY <1>1 DEF RequestSet, Places, Selecting
      <4>3. QED
        BY <3>1, <4>1, <4>2
    <3>3. req'[r].at \in {"clear", "limit"} /\ req'[r].scan = q.scan
      BY <1>1, <3>1 DEF RequestSet
    <3>4. QED
      BY <1>1, <2>1, <3>2, <3>3 DEF RequestOK, Selecting
  <2>3. /\ windowStart' \in [Deployments -> Nat]
        /\ admitted' \in [Deployments -> Nat]
    BY <1>8, <2>1 DEF SwapWindow, TypeOK, q
  <2>4. /\ req' = [req EXCEPT ![r] = req'[r]]
        /\ reset' \in [Requests -> SUBSET Deployments]
    BY <1>8, <2>1 DEF SwapWindow, TypeOK
  <2>5. QED
    BY <1>8, <2>2, <2>3, <2>4, OneRequestType DEF SwapWindow, TypeOK, bounds
<1>9. CASE ClearCounter(r)
  <2>1. RequestOK(req'[r])
    <3>1. req'[r] = [q EXCEPT !.at = "limit", !.now = 0]
      BY <1>9 DEF ClearCounter, TypeOK, q
    <3>2. q.at = "clear"
      BY <1>9 DEF ClearCounter, At, q
    <3>3. req'[r] \in RequestSet
      <4>1. [q EXCEPT !.at = "limit", !.now = 0] \in RequestSet
        BY <1>1 DEF RequestSet, Places, Selecting
      <4>2. QED
        BY <3>1, <4>1
    <3>4. req'[r].at = "limit" /\ req'[r].scan = q.scan
      BY <1>1, <3>1 DEF RequestSet
    <3>5. QED
      BY <1>1, <3>2, <3>3, <3>4 DEF RequestOK, Selecting
  <2>2. QED
    BY <1>9, <2>1, OneRequestType DEF ClearCounter, TypeOK, bounds
<1>10. CASE Take(r)
  <2>1. RequestOK(req'[r])
    <3>1. /\ req'[r] = [q EXCEPT !.at = "record", !.best = Looking(r)]
          /\ Looking(r) \in Deployments
      BY <1>2, <1>10 DEF Take, At, Selecting, TypeOK, q
    <3>2. Looking(r) # None
      BY <3>1 DEF Deployments, None
    <3>3. req'[r] \in RequestSet
      BY <1>1, <3>1 DEF RequestSet, Places, Selecting
    <3>4. req'[r].at = "record" /\ req'[r].best = Looking(r)
      BY <1>1, <3>1 DEF RequestSet
    <3>5. QED
      BY <3>2, <3>3, <3>4 DEF RequestOK, Selecting
  <2>2. QED
    BY <1>10, <2>1, OneRequestType DEF Take, TypeOK, table, bounds
<1>11. CASE Skip(r)
  <2>1. At(r, "limit") /\ Tail(req[r].scan) \in Seq(Deployments)
                       /\ Tail(req[r].scan) # <<>>
    BY <1>1, <1>2, <1>11, ScanParts DEF Skip, At, Selecting, q
  <2>2. req'[r] = [Remembered(r) EXCEPT !.at = "window", !.scan = Tail(req[r].scan)]
    BY <1>5, <1>11 DEF Skip
  <2>3. RequestOK(req'[r])
    BY <2>1, <2>2, RememberedOK
  <2>4. QED
    BY <1>5, <1>11, <2>3, OneRequestType DEF Skip, TypeOK, table, bounds
<1>12. CASE EndScan(r)
  <2>1. RequestOK(req'[r])
    BY <1>4, <1>5, <1>12, RememberedOK DEF EndScan, AtLast
  <2>2. QED
    BY <1>5, <1>12, <2>1, OneRequestType DEF EndScan, TypeOK, table, bounds
<1>13. CASE FallBack(r)
  <2>1. RequestOK(req'[r])
    <3> DEFINE s == ScanFrom(FirstLook("roundRobin", counter))
    <3>1. s \in Seq(Deployments) /\ s # <<>>
      BY <1>3 DEF TypeOK
    <3>2. req'[r] = [q EXCEPT !.at = "window", !.byPrice = FALSE, !.scan = s]
      BY <1>13 DEF FallBack, TypeOK, q
    <3> HIDE DEF s
    <3>3. req'[r] \in RequestSet
      BY <1>1, <3>1, <3>2 DEF RequestSet, Places, Selecting
    <3>4. req'[r].at = "window" /\ req'[r].scan = s
      BY <1>1, <3>2 DEF RequestSet
    <3>5. QED
      BY <3>1, <3>3, <3>4 DEF RequestOK, Selecting
  <2>2. req' = [req EXCEPT ![r] = req'[r]]
    BY <1>13 DEF FallBack, TypeOK
  <2>3. counter' \in Nat
    BY <1>13 DEF FallBack, TypeOK
  <2>4. QED
    BY <1>13, <2>1, <2>2, <2>3, OneRequestType DEF FallBack, TypeOK, bounds
<1>14. CASE EmptyHanded(r)
  <2>1. reset' \in [Requests -> SUBSET Deployments]
    BY <1>14 DEF EmptyHanded, TypeOK
  <2>2. QED
    BY <1>5, <1>14, <2>1, IdleOK, OneRequestType DEF EmptyHanded, TypeOK, table, bounds
<1>15. CASE Record(r)
  <2>1. q.best \in Deployments
    BY <1>1, <1>15 DEF Record, At, RequestOK, RequestSet, q
  <2>2. RequestOK(req'[r])
    <3>1. req'[r] = [Idle EXCEPT !.at = "routed", !.to = q.best, !.current = TRUE]
      BY <1>5, <1>15 DEF Record, q
    <3>2. q.best # None
      BY <2>1 DEF Deployments, None
    <3>3. PICK d \in Deployments : d = q.best
      BY <2>1
    <3>4. req'[r] \in RequestSet
      <4>1. PICK i \in RequestSet : i = Idle
        BY IdleOK DEF RequestOK
      <4>2. [i EXCEPT !.at = "routed", !.to = d, !.current = TRUE] \in RequestSet
        BY DEF RequestSet, Places, Selecting
      <4>3. QED
        BY <3>1, <3>3, <4>1, <4>2
    <3>5. req'[r].at = "routed" /\ req'[r].to = q.best
      BY <3>1 DEF Idle
    <3>6. QED
      BY <3>2, <3>3, <3>4, <3>5 DEF RequestOK, Selecting
  <2>3. rpmUsed' \in [Deployments -> Nat] /\ admitted' \in [Deployments -> Nat]
    <3>1. /\ rpmUsed' = [rpmUsed EXCEPT ![q.best] = rpmUsed[q.best] + 1]
          /\ admitted' = [admitted EXCEPT ![q.best] = admitted[q.best] + 1]
      BY <1>15 DEF Record, q
    <3>2. QED
      BY <2>1, <3>1 DEF TypeOK
  <2>4. reset' \in [Requests -> SUBSET Deployments]
    BY <1>15 DEF Record, TypeOK
  <2>5. QED
    BY <1>15, <2>2, <2>3, <2>4, OneRequestType DEF Record, TypeOK, bounds
<1>16. QED
  BY <1>6, <1>7, <1>8, <1>9, <1>10, <1>11, <1>12, <1>13, <1>14, <1>15 DEF Select

\* Types are preserved by what the endpoints do.
LEMMA ServeType ==
  ASSUME TypeOK, NEW r \in Requests, Serve(r)
  PROVE  TypeOK'
<1> DEFINE q == req[r]
<1>1. RequestOK(q) /\ q \in RequestSet
  BY DEF TypeOK, RequestOK
<1>2. \A x : req' = [req EXCEPT ![r] = x] => req'[r] = x
  BY DEF TypeOK
<1> HIDE DEF q
<1>3. CASE LeaveEarly(r)
  BY <1>2, <1>3, IdleOK, OneRequestType DEF LeaveEarly, TypeOK, table, bounds
<1>4. ASSUME NEW e \in Endpoints, Start(r, e) PROVE TypeOK'
  <2>1. RequestOK(req'[r])
    <3>1. req'[r] = [q EXCEPT !.at = "started", !.endpoint = e] /\ q.at = "routed"
      BY <1>4 DEF Start, At, TypeOK, q
    <3>2. QED
      BY <1>1, <3>1 DEF RequestOK, RequestSet, Places, Selecting
  <2>2. inFlight' \in [Deployments -> Int]
    <3>1. q.to \in Deployments
      BY <1>1, <1>4 DEF Start, At, RequestOK, RequestSet, q
    <3>2. \/ inFlight' = [inFlight EXCEPT ![q.to] = inFlight[q.to] + 1]
          \/ inFlight' = inFlight
      BY <1>4 DEF Start, q
    <3>3. QED
      BY <3>1, <3>2 DEF TypeOK
  <2>3. QED
    BY <1>4, <2>1, <2>2, OneRequestType DEF Start, TypeOK, bounds
<1>5. CASE Finish(r)
  <2>1. inFlight' \in [Deployments -> Int]
    <3>1. q.to \in Deployments
      BY <1>1, <1>5 DEF Finish, At, RequestOK, RequestSet, q
    <3>2. \/ inFlight' = [inFlight EXCEPT ![q.to] = inFlight[q.to] - 1]
          \/ inFlight' = inFlight
      BY <1>5 DEF Finish, q
    <3>3. QED
      BY <3>1, <3>2 DEF TypeOK
  <2>2. QED
    BY <1>2, <1>5, <2>1, IdleOK, OneRequestType DEF Finish, TypeOK, bounds
<1>6. CASE LeaveUncounted(r)
  BY <1>2, <1>6, IdleOK, OneRequestType DEF LeaveUncounted, TypeOK, table, bounds
<1>7. QED
  BY <1>3, <1>4, <1>5, <1>6 DEF Serve

\* Every variable keeps its type, and a request that needs a deployment has one.
THEOREM TypeCorrect == Spec => []TypeOK
<1>1. Init => TypeOK
  <2>1. ASSUME Init, NEW r \in Requests PROVE RequestOK(req[r])
    BY <2>1, IdleOK DEF Init
  <2>2. QED
    BY <2>1 DEF Init, TypeOK, RequestOK
<1>2. TypeOK /\ [Next]_vars => TypeOK'
  <2> SUFFICES ASSUME TypeOK, [Next]_vars PROVE TypeOK'
    OBVIOUS
  <2>1. ASSUME NEW r \in Requests, Arrive(r) \/ Select(r) PROVE TypeOK'
    BY <2>1, SelectType
  <2>2. ASSUME NEW r \in Requests, Serve(r) PROVE TypeOK'
    BY <2>2, ServeType
  <2>3. CASE Rebuild
    <3>1. ASSUME NEW r \in Requests PROVE RequestOK(req'[r])
      <4> DEFINE q == req[r]
      <4>1. RequestOK(q)
        BY DEF TypeOK, RequestOK
      <4>2. req'[r] = [q EXCEPT !.current = FALSE]
        BY <2>3 DEF Rebuild
      <4> HIDE DEF q
      <4>3. QED
        BY <4>1, <4>2 DEF RequestOK, RequestSet
    <3>2. req' \in [Requests -> RequestSet]
      BY <2>3, <3>1 DEF Rebuild, RequestOK
    <3>3. QED
      BY <2>3, <3>1, <3>2 DEF Rebuild, TypeOK, RequestOK
  <2>4. CASE Tick
    BY <2>4 DEF Tick, TypeOK, table
  <2>5. CASE UNCHANGED vars
    BY <2>5 DEF vars, table, bounds, TypeOK
  <2>6. QED
    BY <2>1, <2>2, <2>3, <2>4, <2>5 DEF Next
<1>3. QED
  BY <1>1, <1>2, PTL DEF Spec

-----------------------------------------------------------------------------
(* The steps of a request *)

\* What each step of the selection leaves in the request that takes it; the
\* other requests keep what they have.
LEMMA SelectSteps ==
  ASSUME TypeOK, NEW r \in Requests, Arrive(r) \/ Select(r)
  PROVE  /\ req' = [req EXCEPT ![r] = req'[r]]
         /\ Arrive(r) => /\ req'[r].at = "window" /\ req'[r].best = None
                         /\ req'[r].scan = ScanFrom(FirstLook(strategy, counter))
                         /\ req'[r].byPrice = (strategy = "costBased")
         /\ ReadWindow(r) \/ SwapWindow(r) \/ ClearCounter(r) =>
              /\ req'[r].best = req[r].best /\ req'[r].scan = req[r].scan
              /\ req'[r].byPrice = req[r].byPrice
         /\ ReadWindow(r) =>
              \/ req'[r].at = "limit"
              \/ /\ req'[r].at = "swap" /\ req'[r].now = clock
                 /\ req'[r].seen = windowStart[Looking(r)]
                 /\ clock - windowStart[Looking(r)] > Window
         /\ SwapWindow(r) =>
              IF windowStart[Looking(r)] = req[r].seen
              THEN req'[r].at = "clear" /\ req'[r].now = req[r].now
              ELSE req'[r].at = "limit"
         /\ ClearCounter(r) => req'[r].at = "limit"
         /\ Take(r) => req'[r].at = "record" /\ req'[r].best = Looking(r)
         /\ Skip(r) => /\ req'[r].at = "window" /\ req'[r].scan = Tail(req[r].scan)
                       /\ req'[r].best = Remembered(r).best
                       /\ req'[r].byPrice = req[r].byPrice
         /\ EndScan(r) => /\ req'[r].at = "record"
                          /\ req'[r].best = Remembered(r).best
         /\ FallBack(r) => /\ req'[r].at = "window" /\ req'[r].best = req[r].best
                           /\ req'[r].scan = ScanFrom(FirstLook("roundRobin", counter))
                           /\ req'[r].byPrice = FALSE
         /\ EmptyHanded(r) => req'[r] = Idle /\ req'[r].at = "idle"
         /\ Record(r) => req'[r].at = "routed"
<1> DEFINE q == req[r]
<1>1. q \in RequestSet /\ RequestOK(q)
  BY DEF TypeOK, RequestOK
<1>2. ASSUME NEW x, req' = [req EXCEPT ![r] = x]
      PROVE  req' = [req EXCEPT ![r] = req'[r]] /\ req'[r] = x
  BY <1>2 DEF TypeOK
<1>3. At(r, "limit") => /\ Remembered(r) \in RequestSet
                        /\ Remembered(r).byPrice = q.byPrice
  <2>1. SUFFICES ASSUME At(r, "limit")
                 PROVE  Remembered(r) \in RequestSet /\ Remembered(r).byPrice = q.byPrice
    OBVIOUS
  <2>2. \/ Remembered(r) = q
        \/ Remembered(r) = [q EXCEPT !.best = Looking(r), !.metric = Metric(r, Looking(r))]
    BY DEF Remembered
  <2>3. Remembered(r).byPrice = q.byPrice
    BY <1>1, <2>2 DEF RequestSet
  <2>4. q.scan \in Seq(Deployments)
    BY <1>1 DEF RequestSet
  <2>5. QED
    BY <2>1, <2>3, <2>4, RememberedOK
<1>4. CASE Arrive(r)
  <2>1. /\ req' = [req EXCEPT ![r] = req'[r]]
        /\ req'[r] = [Idle EXCEPT !.at = "window",
                                  !.scan = ScanFrom(FirstLook(strategy, counter)),
                                  !.byPrice = (strategy = "costBased")]
    BY <1>2, <1>4 DEF Arrive
  <2>2. /\ req'[r].at = "window" /\ req'[r].best = None
        /\ req'[r].scan = ScanFrom(FirstLook(strategy, counter))
        /\ req'[r].byPrice = (strategy = "costBased")
    BY <2>1 DEF Idle
  <2>3. q.at = "idle"
    BY <1>4 DEF Arrive, At
  <2>4. QED
    BY <2>1, <2>2, <2>3 DEF ReadWindow, SwapWindow, ClearCounter, Take, Skip, EndScan,
                            FallBack, EmptyHanded, Record, AtLast, At
<1>5. CASE ReadWindow(r)
  <2> DEFINE w == windowStart[Looking(r)]
  <2>1. /\ req' = [req EXCEPT ![r] = req'[r]]
        /\ \/ /\ req'[r] = [q EXCEPT !.at = "swap", !.seen = w, !.now = clock]
              /\ clock - w > Window
           \/ req'[r] = [q EXCEPT !.at = "limit"]
    BY <1>2, <1>5 DEF ReadWindow
  <2> HIDE DEF w, q
  <2>2. /\ req'[r].best = q.best /\ req'[r].scan = q.scan /\ req'[r].byPrice = q.byPrice
        /\ \/ req'[r].at = "limit"
           \/ /\ req'[r].at = "swap" /\ req'[r].now = clock /\ req'[r].seen = w
              /\ clock - w > Window
    BY <1>1, <2>1 DEF RequestSet
  <2>3. q.at = "window"
    BY <1>5 DEF ReadWindow, At, q
  <2>4. QED
    BY <2>1, <2>2, <2>3 DEF Arrive, SwapWindow, ClearCounter, Take, Skip, EndScan,
                            FallBack, EmptyHanded, Record, AtLast, At, q, w
<1>6. CASE SwapWindow(r)
  <2> DEFINE wins == windowStart[Looking(r)] = q.seen
  <2>1. /\ req' = [req EXCEPT ![r] = req'[r]]
        /\ \/ wins /\ req'[r] = [q EXCEPT !.at = "clear", !.seen = 0]
           \/ ~ wins /\ req'[r] = [q EXCEPT !.at = "limit", !.seen = 0, !.now = 0]
    BY <1>1, <1>6 DEF SwapWindow, TypeOK, RequestSet
  <2> HIDE DEF wins, q
  <2>2. /\ req'[r].best = q.best /\ req'[r].scan = q.scan /\ req'[r].byPrice = q.byPrice
        /\ IF wins THEN req'[r].at = "clear" /\ req'[r].now = q.now
                   ELSE req'[r].at = "limit"
    BY <1>1, <2>1 DEF RequestSet
  <2>3. q.at = "swap"
    BY <1>6 DEF SwapWindow, At, q
  <2>4. QED
    BY <2>1, <2>2, <2>3 DEF Arrive, ReadWindow, ClearCounter, Take, Skip, EndScan,
                            FallBack, EmptyHanded, Record, AtLast, At, q, wins
<1>7. CASE ClearCounter(r)
  <2>1. /\ req' = [req EXCEPT ![r] = req'[r]]
        /\ req'[r] = [q EXCEPT !.at = "limit", !.now = 0]
    BY <1>1, <1>7 DEF ClearCounter, TypeOK
  <2> HIDE DEF q
  <2>2. /\ req'[r].best = q.best /\ req'[r].scan = q.scan /\ req'[r].byPrice = q.byPrice
        /\ req'[r].at = "limit"
    BY <1>1, <2>1 DEF RequestSet
  <2>3. q.at = "clear"
    BY <1>7 DEF ClearCounter, At, q
  <2>4. QED
    BY <2>1, <2>2, <2>3 DEF Arrive, ReadWindow, SwapWindow, Take, Skip, EndScan,
                            FallBack, EmptyHanded, Record, AtLast, At, q
<1>8. CASE Take(r)
  <2>1. /\ req' = [req EXCEPT ![r] = req'[r]]
        /\ req'[r] = [q EXCEPT !.at = "record", !.best = Looking(r)]
    BY <1>1, <1>8 DEF Take, TypeOK
  <2> HIDE DEF q
  <2>2. req'[r].at = "record" /\ req'[r].best = Looking(r)
    BY <1>1, <2>1 DEF RequestSet
  <2>3. q.at = "limit" /\ ~(TakesBest(r) \/ ~UnderLimit(Looking(r)))
    BY <1>8 DEF Take, At, q
  <2>4. QED
    BY <2>1, <2>2, <2>3 DEF Arrive, ReadWindow, SwapWindow, ClearCounter, Skip, EndScan,
                            FallBack, EmptyHanded, Record, AtLast, At, q
<1>9. CASE Skip(r)
  <2>1. /\ req' = [req EXCEPT ![r] = req'[r]]
        /\ req'[r] = [Remembered(r) EXCEPT !.at = "window", !.scan = Tail(q.scan)]
    BY <1>2, <1>9 DEF Skip
  <2>2. /\ q.at = "limit" /\ (TakesBest(r) \/ ~UnderLimit(Looking(r)))
        /\ Len(q.scan) > 1 /\ At(r, "limit")
    BY <1>9 DEF Skip, At
  <2> HIDE DEF q
  <2>3. /\ req'[r].at = "window" /\ req'[r].scan = Tail(q.scan)
        /\ req'[r].best = Remembered(r).best
        /\ req'[r].byPrice = q.byPrice
    BY <1>3, <2>1, <2>2 DEF RequestSet
  <2>4. Len(q.scan) # 1
    <3>1. q.scan \in Seq(Deployments)
      BY <1>1 DEF RequestSet
    <3>2. Len(q.scan) \in Nat /\ Len(q.scan) > 1
      BY <2>2, <3>1
    <3>3. PICK n \in Nat : n = Len(q.scan)
      BY <3>2
    <3>4. n > 1
      BY <3>2, <3>3
    <3>5. n # 1
      BY <3>4
    <3>6. QED
      BY <3>3, <3>5, Zenon
  <2>5. QED
    BY <2>1, <2>2, <2>3, <2>4 DEF Arrive, ReadWindow, SwapWindow, ClearCounter, Take,
                                  EndScan, FallBack, EmptyHanded, Record, AtLast, At, q
<1>10. CASE EndScan(r)
  <2>1. /\ req' = [req EXCEPT ![r] = req'[r]]
        /\ req'[r] = [Remembered(r) EXCEPT !.at = "record"]
    BY <1>2, <1>10 DEF EndScan
  <2>2. /\ q.at = "limit" /\ (TakesBest(r) \/ ~UnderLimit(Looking(r)))
        /\ Len(q.scan) = 1 /\ At(r, "limit") /\ Remembered(r).best # None
    BY <1>10 DEF EndScan, AtLast, At
  <2> HIDE DEF q
  <2>3. req'[r].at = "record" /\ req'[r].best = Remembered(r).best
    BY <1>3, <2>1, <2>2 DEF RequestSet
  <2>4. QED
    BY <2>1, <2>2, <2>3 DEF Arrive, ReadWindow, SwapWindow, ClearCounter, Take, Skip,
                            FallBack, EmptyHanded, Record, At, q
<1>11. CASE FallBack(r)
  <2> DEFINE s == ScanFrom(FirstLook("roundRobin", counter))
  <2>1. /\ req' = [req EXCEPT ![r] = req'[r]]
        /\ req'[r] = [q EXCEPT !.at = "window", !.byPrice = FALSE, !.scan = s]
    BY <1>1, <1>11 DEF FallBack, TypeOK
  <2>2. /\ q.at = "limit" /\ q.byPrice /\ Remembered(r).best = None
        /\ Len(q.scan) = 1 /\ TakesBest(r)
    BY <1>11 DEF FallBack, AtLast, At, TakesBest
  <2> HIDE DEF q, s
  <2>3. /\ req'[r].at = "window" /\ req'[r].best = q.best /\ req'[r].scan = s
        /\ req'[r].byPrice = FALSE
    BY <1>1, <2>1 DEF RequestSet
  <2>4. QED
    BY <2>1, <2>2, <2>3 DEF Arrive, ReadWindow, SwapWindow, ClearCounter, Take, Skip,
                            EndScan, EmptyHanded, Record, At, q, s
<1>12. CASE EmptyHanded(r)
  <2>1. req' = [req EXCEPT ![r] = req'[r]] /\ req'[r] = Idle
    BY <1>2, <1>12 DEF EmptyHanded
  <2>2. req'[r].at = "idle"
    BY <2>1 DEF Idle
  <2>3. /\ q.at = "limit" /\ ~ q.byPrice /\ Remembered(r).best = None
        /\ Len(q.scan) = 1 /\ (TakesBest(r) \/ ~UnderLimit(Looking(r)))
    BY <1>12 DEF EmptyHanded, AtLast, At
  <2>4. QED
    BY <2>1, <2>2, <2>3 DEF Arrive, ReadWindow, SwapWindow, ClearCounter, Take, Skip,
                            EndScan, FallBack, Record, At
<1>13. CASE Record(r)
  <2>1. /\ req' = [req EXCEPT ![r] = req'[r]]
        /\ req'[r] = [Idle EXCEPT !.at = "routed", !.to = q.best, !.current = TRUE]
    BY <1>2, <1>13 DEF Record
  <2>2. req'[r].at = "routed"
    BY <2>1 DEF Idle
  <2>3. q.at = "record"
    BY <1>13 DEF Record, At
  <2>4. QED
    BY <2>1, <2>2, <2>3 DEF Arrive, ReadWindow, SwapWindow, ClearCounter, Take, Skip,
                            EndScan, FallBack, EmptyHanded, AtLast, At
<1>14. QED
  BY <1>4, <1>5, <1>6, <1>7, <1>8, <1>9, <1>10, <1>11, <1>12, <1>13 DEF Select

-----------------------------------------------------------------------------
(* Requests in flight *)

\* The requests in flight on a deployment are finitely many.
LEMMA StartedFinite ==
  ASSUME NEW d \in Deployments
  PROVE  IsFiniteSet(Started(d)) /\ Cardinality(Started(d)) \in Nat
<1>1. Started(d) \subseteq Requests
  BY DEF Started
<1>2. QED
  BY <1>1, RouterAssumption, FS_Subset, FS_CardinalityType

\* A step after which no other request is in flight, and which does not count,
\* keeps the count high enough.
LEMMA FewerStarted ==
  ASSUME InFlightNeverLow, inFlight \in [Deployments -> Int], inFlight' = inFlight,
         \A d \in Deployments : Started(d)' \subseteq Started(d)
  PROVE  InFlightNeverLow'
<1>1. SUFFICES ASSUME NEW d \in Deployments
               PROVE  inFlight'[d] >= Cardinality(Started(d)')
  BY DEF InFlightNeverLow
<1>2. /\ Cardinality(Started(d)') \in Nat
      /\ Cardinality(Started(d)') <= Cardinality(Started(d))
  BY StartedFinite, FS_Subset, FS_CardinalityType
<1>3. QED
  BY <1>2, StartedFinite DEF InFlightNeverLow

\* A step of a request that is not in flight after it adds none in flight.
LEMMA NotStarted ==
  ASSUME TypeOK, NEW r \in Requests, req' = [req EXCEPT ![r] = req'[r]],
         req'[r].at # "started"
  PROVE  \A d \in Deployments : Started(d)' \subseteq Started(d)
BY DEF TypeOK, Started, At

\* While a request selects a deployment it is not in flight.
LEMMA SelectNotStarted ==
  ASSUME TypeOK, NEW r \in Requests, Arrive(r) \/ Select(r)
  PROVE  /\ inFlight' = inFlight
         /\ \A d \in Deployments : Started(d)' \subseteq Started(d)
<1>1. req' = [req EXCEPT ![r] = req'[r]] /\ req'[r].at # "started"
  BY SelectSteps DEF Select
<1>2. inFlight' = inFlight
  BY DEF Arrive, Select, ReadWindow, SwapWindow, ClearCounter, Take, Skip, EndScan,
         FallBack, EmptyHanded, Record, table
<1>3. QED
  BY <1>1, <1>2, NotStarted

\* record_start counts the request it adds in flight, if it counts at all.
LEMMA StartCounts ==
  ASSUME TypeOK, InFlightNeverLow, NEW r \in Requests, NEW e \in Endpoints, Start(r, e)
  PROVE  InFlightNeverLow'
<1> DEFINE q == req[r]
<1>1. q \in RequestSet /\ q.at = "routed" /\ q.to \in Deployments
  BY DEF TypeOK, Start, At, RequestSet
<1>2. /\ req'[r] = [q EXCEPT !.at = "started", !.endpoint = e]
      /\ \A x \in Requests \ {r} : req'[x] = req[x]
  BY DEF Start, TypeOK
<1>3. /\ req'[r].to = q.to /\ req'[r].current = q.current
  BY <1>1, <1>2 DEF RequestSet
<1>4. CASE ~ q.current
  <2>1. \A d \in Deployments : Started(d)' \subseteq Started(d)
    BY <1>2, <1>3, <1>4 DEF Started, At
  <2>2. QED
    BY <1>4, <2>1, FewerStarted DEF Start, TypeOK
<1>5. CASE q.current
  <2>1. SUFFICES ASSUME NEW d \in Deployments
                 PROVE  inFlight'[d] >= Cardinality(Started(d)')
    BY DEF InFlightNeverLow
  <2>2. /\ Cardinality(Started(d)) \in Nat /\ IsFiniteSet(Started(d))
        /\ inFlight[d] \in Int /\ inFlight[d] >= Cardinality(Started(d))
    BY StartedFinite DEF InFlightNeverLow, TypeOK
  <2>3. inFlight' = [inFlight EXCEPT ![q.to] = inFlight[q.to] + 1]
    BY <1>5 DEF Start
  <2>4. CASE d = q.to
    <3>1. Started(d)' \subseteq Started(d) \cup {r}
      BY <1>2 DEF Started, At
    <3>2. /\ Cardinality(Started(d)') <= Cardinality(Started(d) \cup {r})
          /\ Cardinality(Started(d)') \in Nat
          /\ Cardinality(Started(d) \cup {r}) \in Nat
          /\ Cardinality(Started(d) \cup {r}) <= Cardinality(Started(d)) + 1
      BY <2>2, <3>1, FS_Subset, FS_AddElement, FS_CardinalityType
    <3>3. inFlight'[d] = inFlight[d] + 1
      BY <2>3, <2>4 DEF TypeOK
    <3>4. QED
      BY <2>2, <3>2, <3>3
  <2>5. CASE d # q.to
    <3>1. Started(d)' \subseteq Started(d)
      BY <1>2, <1>3, <2>5 DEF Started, At
    <3>2. /\ Cardinality(Started(d)') <= Cardinality(Started(d))
          /\ Cardinality(Started(d)') \in Nat
      BY <2>2, <3>1, FS_Subset, FS_CardinalityType
    <3>3. inFlight'[d] = inFlight[d]
      BY <2>3, <2>5 DEF TypeOK
    <3>4. QED
      BY <2>2, <3>2, <3>3
  <2>6. QED
    BY <2>4, <2>5
<1>6. QED
  BY <1>4, <1>5

\* record_finish uncounts a request that was in flight.
LEMMA FinishCounts ==
  ASSUME TypeOK, InFlightNeverLow, NEW r \in Requests, Finish(r)
  PROVE  InFlightNeverLow'
<1> DEFINE q == req[r]
<1>1. q \in RequestSet /\ q.at = "started" /\ q.to \in Deployments
  BY DEF TypeOK, Finish, At, RequestSet
<1>2. /\ req' = [req EXCEPT ![r] = req'[r]] /\ req'[r] = Idle
      /\ \A x \in Requests \ {r} : req'[x] = req[x]
  BY DEF Finish, TypeOK
<1>3. req'[r].at # "started"
  BY <1>2 DEF Idle
<1>4. \A d \in Deployments : Started(d)' \subseteq Started(d)
  BY <1>2, <1>3, NotStarted
<1>5. CASE ~ q.current
  BY <1>4, <1>5, FewerStarted DEF Finish, TypeOK
<1>6. CASE q.current
  <2>1. SUFFICES ASSUME NEW d \in Deployments
                 PROVE  inFlight'[d] >= Cardinality(Started(d)')
    BY DEF InFlightNeverLow
  <2>2. /\ Cardinality(Started(d)) \in Nat /\ IsFiniteSet(Started(d))
        /\ inFlight[d] \in Int /\ inFlight[d] >= Cardinality(Started(d))
    BY StartedFinite DEF InFlightNeverLow, TypeOK
  <2>3. inFlight' = [inFlight EXCEPT ![q.to] = inFlight[q.to] - 1]
    BY <1>6 DEF Finish
  <2>4. CASE d = q.to
    <3>1. r \in Started(d) /\ Started(d)' \subseteq Started(d) \ {r}
      BY <1>1, <1>3, <1>4, <1>6, <2>4 DEF Started, At
    <3>2. /\ Cardinality(Started(d)') <= Cardinality(Started(d) \ {r})
          /\ Cardinality(Started(d)') \in Nat
          /\ Cardinality(Started(d) \ {r}) = Cardinality(Started(d)) - 1
      BY <2>2, <3>1, FS_Subset, FS_RemoveElement, FS_CardinalityType
    <3>3. inFlight'[d] = inFlight[d] - 1
      BY <2>3, <2>4 DEF TypeOK
    <3>4. QED
      BY <2>2, <3>2, <3>3
  <2>5. CASE d # q.to
    <3>1. /\ Cardinality(Started(d)') <= Cardinality(Started(d))
          /\ Cardinality(Started(d)') \in Nat
      BY <1>4, <2>2, FS_Subset, FS_CardinalityType
    <3>2. inFlight'[d] = inFlight[d]
      BY <2>3, <2>5 DEF TypeOK
    <3>3. QED
      BY <2>2, <3>1, <3>2
  <2>6. QED
    BY <2>4, <2>5
<1>7. QED
  BY <1>5, <1>6

\* in_flight never falls below the requests that are really in flight, so the
\* fetch_sub of record_finish never wraps, under any number of rebuilds and
\* whichever of the endpoints leak.
THEOREM InFlightHigh == Spec => []InFlightNeverLow
<1>1. Init => InFlightNeverLow
  <2> SUFFICES ASSUME Init, NEW d \in Deployments
               PROVE  inFlight[d] >= Cardinality(Started(d))
    BY DEF InFlightNeverLow
  <2>1. Started(d) = {}
    BY DEF Init, Started, At, Idle
  <2>2. QED
    BY <2>1, FS_EmptySet DEF Init
<1>2. TypeOK /\ InFlightNeverLow /\ [Next]_vars => InFlightNeverLow'
  <2> SUFFICES ASSUME TypeOK, InFlightNeverLow, [Next]_vars PROVE InFlightNeverLow'
    OBVIOUS
  <2>1. ASSUME NEW r \in Requests, Arrive(r) \/ Select(r) PROVE InFlightNeverLow'
    BY <2>1, SelectNotStarted, FewerStarted DEF TypeOK
  <2>2. ASSUME NEW r \in Requests, Serve(r) PROVE InFlightNeverLow'
    <3>1. CASE LeaveEarly(r) \/ LeaveUncounted(r)
      <4>1. req' = [req EXCEPT ![r] = req'[r]] /\ req'[r] = Idle /\ inFlight' = inFlight
        BY <3>1 DEF LeaveEarly, LeaveUncounted, TypeOK, table
      <4>2. req'[r].at # "started"
        BY <4>1 DEF Idle
      <4>3. QED
        BY <4>1, <4>2, NotStarted, FewerStarted DEF TypeOK
    <3>2. ASSUME NEW e \in Endpoints, Start(r, e) PROVE InFlightNeverLow'
      BY <3>2, StartCounts
    <3>3. CASE Finish(r)
      BY <3>3, FinishCounts
    <3>4. QED
      BY <2>2, <3>1, <3>2, <3>3 DEF Serve
  <2>3. CASE Rebuild
    <3>1. ASSUME NEW d \in Deployments PROVE Started(d)' = {}
      <4>1. ASSUME NEW r \in Requests PROVE req'[r].current = FALSE
        <5>1. req[r] \in RequestSet /\ req'[r] = [req[r] EXCEPT !.current = FALSE]
          BY <2>3 DEF Rebuild, TypeOK
        <5>2. QED
          BY <5>1 DEF RequestSet
      <4>2. QED
        BY <4>1 DEF Started
    <3>2. ASSUME NEW d \in Deployments PROVE inFlight'[d] >= Cardinality(Started(d)')
      <4>1. inFlight'[d] = 0 /\ Cardinality(Started(d)') = 0
        BY <2>3, <3>1, FS_EmptySet DEF Rebuild
      <4>2. QED
        BY <4>1
    <3>3. QED
      BY <3>2 DEF InFlightNeverLow
  <2>4. CASE Tick \/ UNCHANGED vars
    <3>1. inFlight' = inFlight /\ req' = req
      BY <2>4 DEF Tick, vars, table
    <3>2. QED
      BY <3>1 DEF InFlightNeverLow, Started, At
  <2>5. QED
    BY <2>1, <2>2, <2>3, <2>4 DEF Next
<1>3. QED
  BY <1>1, <1>2, TypeCorrect, PTL DEF Spec

-----------------------------------------------------------------------------
(* The invariant of the counts *)

Scanning(r) == req[r].at \in Selecting \ {"record"}

\* The scans that go through the deployments in their order.
InOrder(r) == strategy \in {"failover", "leastBusy"} \/ req[r].byPrice

\* A scan in order has what is left of the order, and its pick behind it; the
\* other scans have no pick before they end.
ScanOK(r) ==
  Scanning(r) =>
    /\ req[r].byPrice => strategy = "costBased"
    /\ InOrder(r) => \A k \in 1 .. Len(req[r].scan) :
                       req[r].scan[k] = NumDeployments - Len(req[r].scan) + k
    /\ IF TakesBest(r) THEN req[r].best <= NumDeployments - Len(req[r].scan)
                       ELSE req[r].best = None

ScanInv == \A r \in Requests : ScanOK(r)

\* The requests that may yet record themselves on a deployment.
Pending(d) == {r \in Requests : req[r].at \in Selecting /\ req[r].best = d}

\* A limited deployment has room for everyone who may yet record.
CountInv ==
  \A d \in Deployments : Rpm[d] # NoLimit =>
    rpmUsed[d] + Cardinality(Pending(d)) <= Rpm[d] + Slack

\* A request about to swap found an expired window, less than a window ago; the
\* one about to store zero is the one that last swapped.
WindowOK(r) ==
  /\ At(r, "swap") => /\ req[r].now - req[r].seen > Window /\ req[r].now <= clock
                      /\ clock - req[r].now <= Window
  /\ At(r, "clear") => /\ windowStart[Looking(r)] = req[r].now
                       /\ clock - req[r].now <= Window

\* At most one request is about to store zero on a deployment.
OneClears(r, x) ==
  (At(r, "clear") /\ At(x, "clear") /\ Looking(x) = Looking(r)) => x = r

WindowInv == \A r \in Requests : WindowOK(r) /\ \A x \in Requests : OneClears(r, x)

\* What is sent in a window: until the zero is stored the old count stands over
\* it, and after that at most what was sent before is missing from the count.
SentOK(d) ==
  Rpm[d] > 0 =>
    /\ admitted[d] <= rpmUsed[d] + Rpm[d] + Slack - 1
    /\ Clearing(d) =>
         /\ admitted[d] <= rpmUsed[d]
         /\ admitted[d] + Cardinality(Pending(d)) <= Rpm[d] + Slack - 1

SentInv == \A d \in Deployments : SentOK(d)

SelectInv == ScanInv /\ CountInv /\ WindowInv /\ SentInv

\* The deployments a scan is done with.
Behind(r) == {d \in Deployments : \A k \in 1 .. Len(req[r].scan) : req[r].scan[k] # d}

\* What may pass a deployment over: it is full, or is reset under the scan.
Spent(r, d) == Full(d) \/ d \in reset[r]

\* Unless somebody is about to store zero, the count has no more than was sent.
Counted(d) == Clearing(d) \/ rpmUsed[d] <= admitted[d]

\* Whoever picks while somebody else is about to store zero has it marked.
Marked(r) ==
  At(r, "clear") =>
    \A x \in Requests \ {r} : req[x].at \in Selecting => Looking(r) \in reset[x]

\* A request that has picked nothing left only spent deployments behind.
LeftSpent(r) ==
  (Scanning(r) /\ req[r].best = None /\ ~ req[r].byPrice) =>
    \A d \in Behind(r) : Spent(r, d)

\* By failover the deployments before the pick are spent.
PickedInOrder(r) ==
  (strategy = "failover" /\ At(r, "record")) =>
    \A d \in Deployments : d < req[r].best => Spent(r, d)

\* A deployment found at its limit has been sent it, or its count is about to be
\* cleared and the scan has that marked: what a scan passes over is spent, and
\* stays so until the request records itself or leaves empty-handed.
SpentInv ==
  /\ \A d \in Deployments : Counted(d)
  /\ \A r \in Requests : Marked(r) /\ LeftSpent(r) /\ PickedInOrder(r)

-----------------------------------------------------------------------------
(* The scans *)

\* The first deployment of a scan, and what a step to the next leaves of it.
LEMMA ScanShift ==
  ASSUME NEW q \in RequestSet, q.scan # <<>>
  PROVE  /\ Len(q.scan) \in Nat \ {0} /\ Head(q.scan) = q.scan[1]
         /\ Len(q.scan) > 1 =>
              /\ Len(Tail(q.scan)) = Len(q.scan) - 1
              /\ \A k \in 1 .. Len(q.scan) - 1 : Tail(q.scan)[k] = q.scan[k + 1]
<1> DEFINE s == q.scan
<1>1. s \in Seq(Deployments) /\ s # <<>>
  BY DEF RequestSet
<1> HIDE DEF s
<1>2. Len(s) \in Nat \ {0}
  BY <1>1
<1>3. Head(s) = s[1]
  BY <1>1
<1>4. ASSUME Len(s) > 1
      PROVE  /\ Len(Tail(s)) = Len(s) - 1
             /\ \A k \in 1 .. Len(s) - 1 : Tail(s)[k] = s[k + 1]
  BY <1>1, <1>4
<1>5. QED
  BY <1>2, <1>3, <1>4 DEF s

\* What a scan remembers of the deployment it looked at.
LEMMA RememberedBest ==
  ASSUME TypeOK, NEW r \in Requests, At(r, "limit")
  PROVE  \/ /\ Remembered(r).best = Looking(r)
            /\ TakesBest(r) /\ UnderLimit(Looking(r))
         \/ /\ Remembered(r).best = req[r].best
            /\ (req[r].best = None /\ ~ req[r].byPrice /\ TakesBest(r)) =>
                 ~ UnderLimit(Looking(r))
<1> DEFINE q == req[r]
<1>1. q \in RequestSet
  BY DEF TypeOK
<1>2. CASE TakesBest(r) /\ Eligible(r, Looking(r)) /\ Better(r, Looking(r))
  <2>1. Remembered(r) = [q EXCEPT !.best = Looking(r), !.metric = Metric(r, Looking(r))]
    BY <1>2 DEF Remembered
  <2> HIDE DEF q
  <2>2. Remembered(r).best = Looking(r)
    BY <1>1, <2>1 DEF RequestSet
  <2>3. QED
    BY <1>2, <2>2 DEF Eligible
<1>3. CASE ~(TakesBest(r) /\ Eligible(r, Looking(r)) /\ Better(r, Looking(r)))
  <2>1. Remembered(r) = req[r]
    BY <1>3 DEF Remembered
  <2>2. QED
    BY <1>3, <2>1 DEF Eligible, Better
<1>4. QED
  BY <1>2, <1>3

\* What the endpoints leave alone.
LEMMA ServeSteps ==
  ASSUME TypeOK, NEW r \in Requests, Serve(r)
  PROVE  /\ req' = [req EXCEPT ![r] = req'[r]]
         /\ req[r].at \notin Selecting /\ req'[r].at \notin Selecting
         /\ UNCHANGED <<strategy, counter, rpmUsed, windowStart, bounds, admitted, reset>>
<1> DEFINE q == req[r]
<1>1. q \in RequestSet
  BY DEF TypeOK
<1>2. ASSUME LeaveEarly(r) \/ Finish(r) \/ LeaveUncounted(r)
      PROVE  /\ req' = [req EXCEPT ![r] = req'[r]] /\ req'[r] = Idle
             /\ q.at \in {"routed", "started"}
             /\ UNCHANGED <<strategy, counter, rpmUsed, windowStart, bounds, admitted, reset>>
  BY <1>2 DEF LeaveEarly, Finish, LeaveUncounted, At, TypeOK, table
<1>3. ASSUME NEW e \in Endpoints, Start(r, e)
      PROVE  /\ req' = [req EXCEPT ![r] = req'[r]] /\ req'[r].at = "started"
             /\ q.at = "routed"
             /\ UNCHANGED <<strategy, counter, rpmUsed, windowStart, bounds, admitted, reset>>
  <2>1. /\ req' = [req EXCEPT ![r] = req'[r]]
        /\ req'[r] = [q EXCEPT !.at = "started", !.endpoint = e] /\ q.at = "routed"
        /\ UNCHANGED <<strategy, counter, rpmUsed, windowStart, bounds, admitted, reset>>
    BY <1>3 DEF Start, At, TypeOK
  <2> HIDE DEF q
  <2>2. req'[r].at = "started"
    BY <1>1, <2>1 DEF RequestSet
  <2>3. QED
    BY <2>1, <2>2
<1>4. QED
  BY <1>2, <1>3 DEF Serve, Selecting, Idle

\* A rebuild, which finds nobody selecting.
LEMMA RebuildSteps ==
  ASSUME TypeOK, Rebuild, NEW r \in Requests
  PROVE  /\ req[r].at \notin Selecting /\ req'[r].at = req[r].at
         /\ req'[r].at \notin Selecting
<1>1. /\ req[r] \in RequestSet /\ req[r].at \notin Selecting
      /\ req'[r] = [req[r] EXCEPT !.current = FALSE]
  BY DEF Rebuild, TypeOK
<1>2. QED
  BY <1>1 DEF RequestSet

\* The scans of every step of a request that selects.
LEMMA ScanOKStep ==
  ASSUME TypeOK, ScanInv, NEW r \in Requests, Arrive(r) \/ Select(r)
  PROVE  ScanOK(r)'
<1> DEFINE q == req[r]
           p == req'[r]
           N == NumDeployments
<1>1. q \in RequestSet /\ RequestOK(q) /\ ScanOK(r) /\ N \in Nat \ {0}
  BY RouterAssumption DEF TypeOK, RequestOK, ScanInv
<1>2. strategy' = strategy
  BY DEF Arrive, Select, ReadWindow, SwapWindow, ClearCounter, Take, Skip, EndScan,
         FallBack, EmptyHanded, Record, table
<1>3. 1 \in Deployments /\ Deployments = 1 .. N
  BY <1>1 DEF Deployments
<1>4. CASE Arrive(r)
  <2> DEFINE f == ScanFrom(FirstLook(strategy, counter))
  <2>1. /\ p.at = "window" /\ p.best = None /\ p.scan = f
        /\ p.byPrice = (strategy = "costBased")
    BY <1>4, SelectSteps
  <2>2. Len(f) = N
    BY FirstLookType, ScanType DEF TypeOK
  <2>3. ASSUME strategy \in {"failover", "leastBusy", "costBased"}
        PROVE  \A k \in 1 .. N : f[k] = k
    <3>1. FirstLook(strategy, counter) = 1
      BY <2>3 DEF FirstLook
    <3>2. QED
      BY <1>3, <3>1, ScanType
  <2> HIDE DEF f
  <2>4. ASSUME strategy \in {"failover", "leastBusy", "costBased"}
        PROVE  \A k \in 1 .. Len(f) : f[k] = N - Len(f) + k
    BY <1>1, <2>2, <2>3, <2>4
  <2>5. None <= N - Len(f)
    BY <1>1, <2>2 DEF None
  <2>6. QED
    BY <1>2, <2>1, <2>4, <2>5 DEF ScanOK, InOrder, TakesBest
<1>5. CASE ReadWindow(r) \/ SwapWindow(r) \/ ClearCounter(r)
  <2>1. p.best = q.best /\ p.scan = q.scan /\ p.byPrice = q.byPrice
    BY <1>5, SelectSteps DEF Select
  <2>2. Scanning(r)
    BY <1>5 DEF ReadWindow, SwapWindow, ClearCounter, At, Scanning, Selecting
  <2>3. QED
    BY <1>1, <1>2, <2>1, <2>2 DEF ScanOK, InOrder, TakesBest
<1>6. CASE Take(r) \/ EndScan(r) \/ EmptyHanded(r) \/ Record(r)
  <2>1. p.at \in {"record", "idle", "routed"}
    BY <1>6, SelectSteps DEF Select
  <2>2. QED
    BY <2>1 DEF ScanOK, Scanning, Selecting
<1>7. CASE Skip(r)
  <2>1. /\ p.at = "window" /\ p.scan = Tail(q.scan) /\ p.best = Remembered(r).best
        /\ p.byPrice = q.byPrice
    BY <1>7, SelectSteps DEF Select
  <2>2. /\ Scanning(r) /\ At(r, "limit") /\ q.scan # <<>> /\ Len(q.scan) > 1
    BY <1>1, <1>7 DEF Skip, At, Scanning, Selecting, RequestOK
  <2>3. /\ Len(q.scan) \in Nat \ {0} /\ Looking(r) = q.scan[1]
        /\ Len(p.scan) = Len(q.scan) - 1
        /\ \A k \in 1 .. Len(q.scan) - 1 : p.scan[k] = q.scan[k + 1]
    BY <1>1, <2>1, <2>2, ScanShift DEF Looking
  <2>4. InOrder(r) => \A k \in 1 .. Len(p.scan) : p.scan[k] = N - Len(p.scan) + k
    <3> SUFFICES ASSUME InOrder(r), NEW k \in 1 .. Len(p.scan)
                 PROVE  p.scan[k] = N - Len(p.scan) + k
      OBVIOUS
    <3>1. k + 1 \in 1 .. Len(q.scan)
      BY <2>3
    <3>2. q.scan[k + 1] = N - Len(q.scan) + (k + 1)
      BY <1>1, <2>2, <3>1 DEF ScanOK
    <3>3. p.scan[k] = q.scan[k + 1]
      BY <2>3
    <3>4. PICK n \in Nat : n = Len(q.scan) /\ n - 1 = Len(p.scan) /\ k \in Nat
      BY <2>3
    <3>5. N - n + (k + 1) = N - (n - 1) + k
      BY <1>1, <3>4
    <3>6. QED
      BY <3>2, <3>3, <3>4, <3>5
  <2>5. CASE TakesBest(r)
    <3>1. q.scan[1] = N - Len(q.scan) + 1 /\ q.best <= N - Len(q.scan)
      <4>1. InOrder(r) /\ 1 \in 1 .. Len(q.scan)
        BY <2>3, <2>5 DEF InOrder, TakesBest
      <4>2. QED
        BY <1>1, <2>2, <2>5, <4>1 DEF ScanOK
    <3>2. q.best \in Int
      BY <1>1 DEF RequestSet, Deployments, None
    <3>3. p.best <= N - Len(p.scan)
      <4>1. p.best = q.scan[1] \/ p.best = q.best
        BY <2>1, <2>2, <2>3, RememberedBest
      <4>2. PICK n \in Nat : n = Len(q.scan) /\ n - 1 = Len(p.scan)
        BY <2>3
      <4>3. PICK b \in Int : b = q.best
        BY <3>2
      <4>4. b <= N - n /\ q.scan[1] = N - n + 1 /\ N \in Int
        BY <1>1, <3>1, <4>2, <4>3
      <4>5. b <= N - (n - 1) /\ N - n + 1 <= N - (n - 1)
        BY <4>4
      <4>6. QED
        BY <4>1, <4>2, <4>3, <4>4, <4>5
    <3>4. QED
      BY <1>1, <1>2, <2>1, <2>2, <2>4, <2>5, <3>3 DEF ScanOK, InOrder, TakesBest
  <2>6. CASE ~ TakesBest(r)
    <3>1. p.best = None
      BY <1>1, <2>1, <2>2, <2>6, RememberedBest DEF ScanOK
    <3>2. QED
      BY <1>1, <1>2, <2>1, <2>2, <2>4, <2>6, <3>1 DEF ScanOK, InOrder, TakesBest
  <2>7. QED
    BY <2>5, <2>6
<1>8. CASE FallBack(r)
  <2>1. p.byPrice = FALSE /\ p.best = q.best
    BY <1>8, SelectSteps DEF Select
  <2>2. /\ Scanning(r) /\ At(r, "limit") /\ q.byPrice /\ Remembered(r).best = None
        /\ q.scan # <<>>
    BY <1>1, <1>8 DEF FallBack, AtLast, At, Scanning, Selecting, RequestOK
  <2>3. q.best = None
    <3>1. Looking(r) # None
      BY <1>1, <2>2, ScanParts DEF Looking, Deployments, None
    <3>2. QED
      BY <2>2, <3>1, RememberedBest
  <2>4. strategy = "costBased"
    BY <1>1, <2>2 DEF ScanOK
  <2>5. QED
    BY <1>2, <2>1, <2>3, <2>4 DEF ScanOK, InOrder, TakesBest
<1>9. QED
  BY <1>4, <1>5, <1>6, <1>7, <1>8 DEF Select

\* A request that no step touches keeps its scan.
LEMMA ScanFrame ==
  ASSUME NEW x \in Requests, ScanOK(x), req'[x] = req[x], strategy' = strategy
  PROVE  ScanOK(x)'
BY DEF ScanOK, Scanning, InOrder, TakesBest

\* Every step keeps the scans in order.
LEMMA ScanStep ==
  ASSUME TypeOK, ScanInv, [Next]_vars
  PROVE  ScanInv'
<1>1. ASSUME NEW r \in Requests, Arrive(r) \/ Select(r) PROVE ScanInv'
  <2>1. strategy' = strategy
    BY <1>1 DEF Arrive, Select, ReadWindow, SwapWindow, ClearCounter, Take, Skip, EndScan,
                FallBack, EmptyHanded, Record, table
  <2>2. \A x \in Requests \ {r} : req'[x] = req[x]
    BY <1>1, SelectSteps DEF TypeOK
  <2>3. QED
    BY <1>1, <2>1, <2>2, ScanFrame, ScanOKStep DEF ScanInv
<1>2. ASSUME NEW r \in Requests, Serve(r) PROVE ScanInv'
  <2>1. ScanOK(r)'
    BY <1>2, ServeSteps DEF ScanOK, Scanning
  <2>2. strategy' = strategy /\ \A x \in Requests \ {r} : req'[x] = req[x]
    BY <1>2, ServeSteps DEF TypeOK
  <2>3. QED
    BY <2>1, <2>2, ScanFrame DEF ScanInv
<1>3. CASE Rebuild
  BY <1>3, RebuildSteps DEF ScanInv, ScanOK, Scanning
<1>4. CASE Tick \/ UNCHANGED vars
  <2>1. req' = req /\ strategy' = strategy
    BY <1>4 DEF Tick, vars, table
  <2>2. QED
    BY <2>1, ScanFrame DEF ScanInv
<1>5. QED
  BY <1>1, <1>2, <1>3, <1>4 DEF Next

-----------------------------------------------------------------------------
(* The counts *)

\* A scan does not look at the deployment it has picked.
LEMMA LookNotBest ==
  ASSUME TypeOK, ScanInv, NEW r \in Requests, Scanning(r)
  PROVE  Looking(r) \in Deployments /\ Looking(r) # req[r].best
<1> DEFINE q == req[r]
<1>1. q \in RequestSet /\ q.scan # <<>> /\ ScanOK(r) /\ NumDeployments \in Nat
  BY RouterAssumption DEF TypeOK, Scanning, ScanInv
<1>2. Looking(r) \in Deployments /\ Looking(r) = q.scan[1]
  BY <1>1, ScanParts, ScanShift DEF Looking
<1>3. CASE TakesBest(r)
  <2>1. Len(q.scan) \in Nat \ {0}
    BY <1>1, ScanShift
  <2>2. q.scan[1] = NumDeployments - Len(q.scan) + 1
    <3>1. InOrder(r) /\ 1 \in 1 .. Len(q.scan)
      BY <1>3, <2>1 DEF InOrder, TakesBest
    <3>2. QED
      BY <1>1, <3>1 DEF ScanOK
  <2>3. q.best <= NumDeployments - Len(q.scan)
    BY <1>1, <1>3 DEF ScanOK
  <2>4. PICK n \in Nat : n = Len(q.scan)
    BY <2>1
  <2>5. ~(NumDeployments - n + 1 <= NumDeployments - n)
    BY <1>1
  <2>6. QED
    BY <1>2, <2>2, <2>3, <2>4, <2>5
<1>4. CASE ~ TakesBest(r)
  BY <1>1, <1>2, <1>4 DEF ScanOK, Deployments, None
<1>5. QED
  BY <1>2, <1>3, <1>4

\* Some requests are no more than all, and fewer if one is not among them.
LEMMA SomeRequests ==
  ASSUME NEW P \in SUBSET Requests
  PROVE  /\ IsFiniteSet(P) /\ Cardinality(P) \in Nat /\ Slack \in Nat
         /\ Cardinality(P) <= Slack + 1
         /\ \A x \in Requests : x \notin P => Cardinality(P) <= Slack
<1>1. IsFiniteSet(Requests) /\ Cardinality(Requests) \in Nat /\ Cardinality(Requests) # 0
  BY RouterAssumption, FS_CardinalityType, FS_EmptySet
<1>2. /\ IsFiniteSet(P) /\ Cardinality(P) \in Nat
      /\ Cardinality(P) <= Cardinality(Requests)
  BY <1>1, FS_Subset, FS_CardinalityType
<1>3. ASSUME NEW x \in Requests, x \notin P
      PROVE  Cardinality(P) <= Cardinality(Requests) - 1
  <2>1. P \subseteq Requests \ {x}
    BY <1>3
  <2>2. /\ IsFiniteSet(Requests \ {x})
        /\ Cardinality(Requests \ {x}) = Cardinality(Requests) - 1
    BY <1>1, FS_RemoveElement
  <2>3. QED
    BY <2>1, <2>2, FS_Subset
<1>4. QED
  BY <1>1, <1>2, <1>3 DEF Slack

\* The requests that may yet record are some of the requests.
LEMMA PendingSize ==
  ASSUME NEW d \in Deployments
  PROVE  /\ IsFiniteSet(Pending(d)) /\ Cardinality(Pending(d)) \in Nat
         /\ Slack \in Nat /\ Cardinality(Pending(d)) <= Slack + 1
<1>1. Pending(d) \subseteq Requests
  BY DEF Pending
<1>2. QED
  BY <1>1, SomeRequests

\* A request picks a deployment it looks at and finds under its limit.
Picks(r, d) ==
  /\ At(r, "limit") /\ Looking(r) = d /\ UnderLimit(d)
  /\ Take(r) \/ Skip(r) \/ EndScan(r)

\* Only a pick adds to the requests that may yet record.
LEMMA PendingStep ==
  ASSUME TypeOK, [Next]_vars, NEW d \in Deployments
  PROVE  Pending(d)' \subseteq Pending(d) \/ \E r \in Requests : Picks(r, d)
<1>1. None # d
  BY DEF None, Deployments
<1>2. ASSUME NEW r \in Requests, Arrive(r) \/ Select(r)
      PROVE  Pending(d)' \subseteq Pending(d) \/ Picks(r, d)
  <2>1. \A x \in Requests \ {r} : req'[x] = req[x]
    BY <1>2, SelectSteps DEF TypeOK
  <2>2. CASE Arrive(r) \/ EmptyHanded(r) \/ Record(r)
    <3>1. req'[r].best = None \/ req'[r].at \in {"routed", "idle"}
      BY <2>2, SelectSteps DEF Select
    <3>2. QED
      BY <1>1, <2>1, <3>1 DEF Pending, Selecting
  <2>3. CASE ReadWindow(r) \/ SwapWindow(r) \/ ClearCounter(r) \/ FallBack(r)
    <3>1. req'[r].best = req[r].best
      BY <2>3, SelectSteps DEF Select
    <3>2. req[r].at \in Selecting
      BY <2>3 DEF ReadWindow, SwapWindow, ClearCounter, FallBack, AtLast, At, Selecting
    <3>3. QED
      BY <2>1, <3>1, <3>2 DEF Pending
  <2>4. CASE Take(r) \/ Skip(r) \/ EndScan(r)
    <3>1. At(r, "limit") /\ req[r].at \in Selecting
      BY <2>4 DEF Take, Skip, EndScan, AtLast, At, Selecting
    <3>2. \/ req'[r].best = Looking(r) /\ UnderLimit(Looking(r))
          \/ req'[r].best = req[r].best
      <4>1. CASE Take(r)
        BY <4>1, SelectSteps DEF Select, Take
      <4>2. CASE Skip(r) \/ EndScan(r)
        <5>1. req'[r].best = Remembered(r).best
          BY <4>2, SelectSteps DEF Select
        <5>2. QED
          BY <3>1, <5>1, RememberedBest
      <4>3. QED
        BY <2>4, <4>1, <4>2
    <3>3. CASE req'[r].best = Looking(r) /\ UnderLimit(Looking(r)) /\ Looking(r) = d
      BY <2>4, <3>1, <3>3 DEF Picks
    <3>4. CASE req'[r].best = Looking(r) /\ Looking(r) # d
      BY <2>1, <3>4 DEF Pending
    <3>5. CASE req'[r].best = req[r].best
      BY <2>1, <3>1, <3>5 DEF Pending
    <3>6. QED
      BY <3>2, <3>3, <3>4, <3>5
  <2>5. QED
    BY <1>2, <2>2, <2>3, <2>4 DEF Select
<1>3. ASSUME NEW r \in Requests, Serve(r) PROVE Pending(d)' \subseteq Pending(d)
  <2>1. /\ \A x \in Requests \ {r} : req'[x] = req[x]
        /\ req'[r].at \notin Selecting
    BY <1>3, ServeSteps DEF TypeOK
  <2>2. QED
    BY <2>1 DEF Pending
<1>4. CASE Rebuild
  BY <1>4, RebuildSteps DEF Pending
<1>5. CASE Tick \/ UNCHANGED vars
  BY <1>5 DEF Tick, vars, table, Pending
<1>6. QED
  BY <1>2, <1>3, <1>4, <1>5 DEF Next

\* A request that records leaves the ones that may.
LEMMA RecordPending ==
  ASSUME TypeOK, NEW r \in Requests, Record(r)
  PROVE  /\ req[r].best \in Deployments
         /\ \A d \in Deployments :
              /\ d # req[r].best => Cardinality(Pending(d)') <= Cardinality(Pending(d))
              /\ d = req[r].best => Cardinality(Pending(d)') <= Cardinality(Pending(d)) - 1
<1> DEFINE b == req[r].best
<1>1. req[r] \in RequestSet /\ b # None /\ req[r].at = "record"
  BY DEF TypeOK, Record, At
<1>2. b \in Deployments
  BY <1>1 DEF RequestSet
<1>3. req'[r].at = "routed" /\ \A x \in Requests \ {r} : req'[x] = req[x]
  BY SelectSteps DEF Select, TypeOK
<1>4. ASSUME NEW d \in Deployments
      PROVE  /\ d # b => Cardinality(Pending(d)') <= Cardinality(Pending(d))
             /\ d = b => Cardinality(Pending(d)') <= Cardinality(Pending(d)) - 1
  <2>1. Pending(d)' \subseteq Pending(d) \ {r}
    BY <1>3 DEF Pending, Selecting
  <2>2. IsFiniteSet(Pending(d)) /\ Cardinality(Pending(d)) \in Nat
    BY PendingSize
  <2>3. Cardinality(Pending(d)') <= Cardinality(Pending(d))
    BY <2>1, <2>2, FS_Subset
  <2>4. ASSUME d = b PROVE Cardinality(Pending(d)') <= Cardinality(Pending(d)) - 1
    <3>1. r \in Pending(d)
      BY <1>1, <2>4 DEF Pending, Selecting
    <3>2. /\ IsFiniteSet(Pending(d) \ {r})
          /\ Cardinality(Pending(d) \ {r}) = Cardinality(Pending(d)) - 1
      BY <2>2, <3>1, FS_RemoveElement
    <3>3. QED
      BY <2>1, <3>2, FS_Subset
  <2>5. QED
    BY <2>3, <2>4
<1>5. QED
  BY <1>2, <1>4

\* The counts change when a request records, and are stored zero otherwise.
LEMMA CountSteps ==
  ASSUME TypeOK, [Next]_vars
  PROVE  \/ \A d \in Deployments : rpmUsed'[d] = rpmUsed[d] \/ rpmUsed'[d] = 0
         \/ \E r \in Requests : Record(r)
<1>1. CASE \E r \in Requests : ClearCounter(r)
  BY <1>1 DEF ClearCounter, TypeOK
<1>2. CASE Rebuild
  BY <1>2 DEF Rebuild
<1>3. ASSUME NEW r \in Requests, Serve(r) PROVE rpmUsed' = rpmUsed
  BY <1>3, ServeSteps
<1>4. ASSUME NEW r \in Requests,
             Arrive(r) \/ ReadWindow(r) \/ SwapWindow(r) \/ Take(r) \/ Skip(r)
               \/ EndScan(r) \/ FallBack(r) \/ EmptyHanded(r)
      PROVE  rpmUsed' = rpmUsed
  BY <1>4 DEF Arrive, ReadWindow, SwapWindow, Take, Skip, EndScan, FallBack, EmptyHanded, table
<1>5. CASE Tick \/ UNCHANGED vars
  BY <1>5 DEF Tick, vars, table
<1>6. QED
  BY <1>1, <1>2, <1>3, <1>4, <1>5 DEF Next, Select

\* Every step leaves room for everyone who may yet record.
LEMMA CountStep ==
  ASSUME TypeOK, TypeOK', CountInv, [Next]_vars
  PROVE  CountInv'
<1> SUFFICES ASSUME NEW d \in Deployments, Rpm[d] # NoLimit
             PROVE  rpmUsed'[d] + Cardinality(Pending(d)') <= Rpm[d] + Slack
  BY DEF CountInv, Slack
<1> DEFINE u == rpmUsed[d]
           v == rpmUsed'[d]
           m == Cardinality(Pending(d))
           n == Cardinality(Pending(d)')
<1>1. /\ u \in Nat /\ v \in Nat /\ m \in Nat /\ Slack \in Nat /\ Rpm[d] \in Nat
      /\ u + m <= Rpm[d] + Slack
  BY PendingSize, RouterAssumption DEF TypeOK, CountInv
<1>2. n \in Nat /\ n <= Slack + 1
  <2>1. Pending(d)' \subseteq Requests
    BY DEF Pending
  <2>2. QED
    BY <2>1, SomeRequests
<1>3. CASE \E r \in Requests : Record(r)
  <2>1. PICK r \in Requests : Record(r)
    BY <1>3
  <2>2. CASE d = req[r].best
    <3>1. v = u + 1 /\ n <= m - 1
      BY <2>1, <2>2, RecordPending DEF Record, TypeOK
    <3>2. QED
      BY <1>1, <1>2, <3>1
  <2>3. CASE d # req[r].best
    <3>1. v = u /\ n <= m
      BY <2>1, <2>3, RecordPending DEF Record, TypeOK
    <3>2. QED
      BY <1>1, <1>2, <3>1
  <2>4. QED
    BY <2>2, <2>3
<1>4. CASE ~ \E r \in Requests : Record(r)
  <2>1. v <= u
    BY <1>1, <1>4, CountSteps
  <2>2. CASE Pending(d)' \subseteq Pending(d)
    <3>1. n <= m
      BY <2>2, PendingSize, FS_Subset
    <3>2. QED
      BY <1>1, <1>2, <2>1, <3>1
  <2>3. CASE \E r \in Requests : Picks(r, d)
    <3>1. u < Rpm[d]
      BY <2>3 DEF Picks, UnderLimit
    <3>2. QED
      BY <1>1, <1>2, <2>1, <3>1
  <2>4. QED
    BY <2>2, <2>3, PendingStep
<1>5. QED
  BY <1>3, <1>4

-----------------------------------------------------------------------------
(* The windows *)

\* A request that wins the swap of a window finds nobody about to store zero
\* there: whoever is last swapped the window less than a window ago.
LEMMA WinnerIsAlone ==
  ASSUME TypeOK, WindowInv, NEW r \in Requests, At(r, "swap"),
         windowStart[Looking(r)] = req[r].seen,
         NEW x \in Requests, At(x, "clear")
  PROVE  Looking(x) # Looking(r)
<1> SUFFICES ASSUME Looking(x) = Looking(r) PROVE FALSE
  OBVIOUS
<1>1. /\ req[r].now \in Nat /\ req[r].seen \in Nat /\ req[x].now \in Nat
      /\ clock \in Nat /\ Window \in Nat
  BY RouterAssumption DEF TypeOK, RequestSet
<1>2. /\ req[r].now - req[r].seen > Window /\ req[r].now <= clock
      /\ req[r].seen = req[x].now /\ clock - req[x].now <= Window
  BY DEF WindowInv, WindowOK
<1>3. QED
  BY <1>1, <1>2

\* The starts of the windows change by a won swap, and by a rebuild.
LEMMA WindowSteps ==
  ASSUME TypeOK, NEW r \in Requests, Arrive(r) \/ Select(r)
  PROVE  /\ clock' = clock /\ rebuilds' = rebuilds
         /\ \A x \in Requests \ {r} : req'[x] = req[x]
         /\ \/ windowStart' = windowStart
            \/ /\ SwapWindow(r) /\ windowStart[Looking(r)] = req[r].seen
               /\ windowStart' = [windowStart EXCEPT ![Looking(r)] = req[r].now]
<1>1. \A x \in Requests \ {r} : req'[x] = req[x]
  BY SelectSteps DEF TypeOK
<1>2. CASE SwapWindow(r)
  BY <1>1, <1>2 DEF SwapWindow, bounds
<1>3. CASE ~ SwapWindow(r)
  BY <1>1, <1>3 DEF Arrive, Select, ReadWindow, ClearCounter, Take, Skip, EndScan,
                    FallBack, EmptyHanded, Record, table, bounds
<1>4. QED
  BY <1>2, <1>3

\* A step of a request leaves it about to swap, or about to store zero, only so.
LEMMA EntersWindow ==
  ASSUME TypeOK, NEW r \in Requests, Arrive(r) \/ Select(r)
  PROVE  /\ req'[r].at = "swap" => ReadWindow(r)
         /\ req'[r].at = "clear" => /\ SwapWindow(r)
                                    /\ windowStart[Looking(r)] = req[r].seen
<1>1. CASE Arrive(r) \/ ClearCounter(r) \/ Take(r) \/ Skip(r) \/ EndScan(r) \/ FallBack(r)
             \/ EmptyHanded(r) \/ Record(r)
  <2>1. req'[r].at \in {"window", "limit", "record", "idle", "routed"}
    BY <1>1, SelectSteps DEF Select
  <2>2. QED
    BY <2>1
<1>2. CASE ReadWindow(r)
  <2>1. req'[r].at \in {"limit", "swap"}
    BY <1>2, SelectSteps DEF Select
  <2>2. QED
    BY <1>2, <2>1
<1>3. CASE SwapWindow(r)
  <2>1. IF windowStart[Looking(r)] = req[r].seen THEN req'[r].at = "clear"
                                                 ELSE req'[r].at = "limit"
    BY <1>3, SelectSteps DEF Select
  <2>2. QED
    BY <1>3, <2>1
<1>4. QED
  BY <1>1, <1>2, <1>3 DEF Select

\* Every step keeps what the requests know of their windows.
LEMMA WindowStep ==
  ASSUME TypeOK, ScanInv, WindowInv, [Next]_vars
  PROVE  WindowInv'
<1>1. \A r \in Requests : WindowOK(r) /\ \A x \in Requests : OneClears(r, x)
  BY DEF WindowInv
<1> SUFFICES \A r \in Requests : WindowOK(r)' /\ \A x \in Requests : OneClears(r, x)'
  BY DEF WindowInv
<1>2. ASSUME NEW r \in Requests, Arrive(r) \/ Select(r)
      PROVE  \A x \in Requests : WindowOK(x)' /\ \A y \in Requests : OneClears(x, y)'
  <2> DEFINE d == Looking(r)
             won == SwapWindow(r) /\ windowStart[d] = req[r].seen
  <2>1. /\ clock' = clock /\ \A x \in Requests \ {r} : req'[x] = req[x]
        /\ \/ windowStart' = windowStart
           \/ won /\ windowStart' = [windowStart EXCEPT ![d] = req[r].now]
    BY <1>2, WindowSteps
  <2>2. \A x \in Requests \ {r} : Looking(x)' = Looking(x) /\ At(x, "clear")' = At(x, "clear")
    BY <2>1 DEF Looking, At
  <2>3. ASSUME won, NEW x \in Requests, At(x, "clear") PROVE Looking(x) # d
    BY <2>3, WinnerIsAlone DEF SwapWindow
  <2>4. ASSUME NEW x \in Requests \ {r} PROVE WindowOK(x)'
    <3>1. ASSUME At(x, "clear") PROVE windowStart'[Looking(x)] = windowStart[Looking(x)]
      <4>1. Looking(x) \in Deployments
        BY <3>1, LookNotBest DEF Scanning, At, Selecting
      <4>2. QED
        BY <2>1, <2>3, <3>1, <4>1 DEF TypeOK
    <3>2. QED
      BY <1>1, <2>1, <2>2, <3>1 DEF WindowOK, At
  <2>5. WindowOK(r)'
    <3>1. CASE req'[r].at = "swap"
      <4>1. /\ req'[r].now = clock /\ req'[r].seen = windowStart[d]
            /\ clock - windowStart[d] > Window
        BY <1>2, <3>1, EntersWindow, SelectSteps
      <4>2. clock \in Nat /\ Window \in Nat
        BY RouterAssumption DEF TypeOK
      <4>3. QED
        BY <2>1, <3>1, <4>1, <4>2 DEF WindowOK, At
    <3>2. CASE req'[r].at = "clear"
      <4>1. won
        BY <1>2, <3>2, EntersWindow
      <4>2. At(r, "swap") /\ d \in Deployments
        BY <4>1, LookNotBest DEF SwapWindow, Scanning, At, Selecting
      <4>3. /\ req'[r].now = req[r].now /\ req'[r].scan = req[r].scan
            /\ windowStart' = [windowStart EXCEPT ![d] = req[r].now]
        BY <1>2, <4>1, SelectSteps DEF SwapWindow
      <4>4. Looking(r)' = d /\ windowStart'[d] = req[r].now
        BY <4>2, <4>3 DEF Looking, TypeOK
      <4>5. QED
        BY <1>1, <2>1, <3>2, <4>2, <4>3, <4>4 DEF WindowOK, At
    <3>3. QED
      BY <3>1, <3>2 DEF WindowOK, At
  <2>6. ASSUME NEW x \in Requests \ {r}, At(r, "clear")', At(x, "clear")'
        PROVE  Looking(x)' # Looking(r)'
    <3>1. won
      BY <1>2, <2>6, EntersWindow DEF At
    <3>2. req'[r].scan = req[r].scan
      BY <1>2, <3>1, SelectSteps
    <3>3. Looking(r)' = d /\ At(x, "clear") /\ Looking(x)' = Looking(x)
      BY <2>2, <2>6, <3>2 DEF Looking
    <3>4. QED
      BY <2>3, <3>1, <3>3
  <2>7. ASSUME NEW x \in Requests, NEW y \in Requests PROVE OneClears(x, y)'
    <3>1. CASE x # r /\ y # r
      BY <1>1, <2>2, <3>1 DEF OneClears
    <3>2. CASE x = r \/ y = r
      BY <2>6, <3>2 DEF OneClears
    <3>3. QED
      BY <3>1, <3>2
  <2>8. QED
    BY <2>4, <2>5, <2>7
<1>3. ASSUME NEW r \in Requests, Serve(r)
      PROVE  \A x \in Requests : WindowOK(x)' /\ \A y \in Requests : OneClears(x, y)'
  <2>1. /\ clock' = clock /\ windowStart' = windowStart /\ req'[r].at \notin Selecting
        /\ \A x \in Requests \ {r} : req'[x] = req[x]
    BY <1>3, ServeSteps DEF TypeOK, bounds
  <2>2. ~ At(r, "swap")' /\ ~ At(r, "clear")'
    BY <2>1 DEF At, Selecting
  <2>3. \A x \in Requests \ {r} : /\ Looking(x)' = Looking(x)
                                  /\ At(x, "clear")' = At(x, "clear")
                                  /\ At(x, "swap")' = At(x, "swap")
    BY <2>1 DEF Looking, At
  <2>4. QED
    BY <1>1, <2>1, <2>2, <2>3 DEF WindowOK, OneClears
<1>4. CASE Rebuild
  <2>1. \A x \in Requests : ~ At(x, "swap")' /\ ~ At(x, "clear")'
    BY <1>4, RebuildSteps DEF At, Selecting
  <2>2. QED
    BY <2>1 DEF WindowOK, OneClears
<1>5. CASE Tick
  <2>1. /\ clock' = clock + 1 /\ clock \in Nat /\ windowStart' = windowStart /\ req' = req
        /\ \A x \in Requests : At(x, "swap") \/ At(x, "clear") =>
             clock + 1 - req[x].now <= Window
    BY <1>5 DEF Tick, TypeOK, At, table
  <2>2. \A x \in Requests : req[x].now \in Nat
    BY DEF TypeOK, RequestSet
  <2>3. QED
    BY <1>1, <2>1, <2>2 DEF WindowOK, OneClears, At, Looking
<1>6. CASE UNCHANGED vars
  BY <1>1, <1>6 DEF vars, table, bounds, WindowOK, OneClears, At, Looking
<1>7. QED
  BY <1>2, <1>3, <1>4, <1>5, <1>6 DEF Next

-----------------------------------------------------------------------------
(* What is sent in a window *)

\* A step that leaves the counts of a deployment alone.
LEMMA SentKept ==
  ASSUME TypeOK, SentInv, NEW d \in Deployments,
         admitted'[d] = admitted[d], rpmUsed'[d] = rpmUsed[d],
         Clearing(d)' => /\ Clearing(d)
                         /\ \/ Cardinality(Pending(d)') <= Cardinality(Pending(d))
                            \/ UnderLimit(d) /\ Cardinality(Pending(d)') <= Slack
  PROVE  SentOK(d)'
<1> SUFFICES ASSUME Rpm[d] > 0
             PROVE  /\ admitted'[d] <= rpmUsed'[d] + Rpm[d] + Slack - 1
                    /\ Clearing(d)' =>
                         /\ admitted'[d] <= rpmUsed'[d]
                         /\ admitted'[d] + Cardinality(Pending(d)') <= Rpm[d] + Slack - 1
  BY DEF SentOK, Clearing, Slack
<1> DEFINE a == admitted[d]
           u == rpmUsed[d]
           m == Cardinality(Pending(d))
           n == Cardinality(Pending(d)')
<1>1. /\ a \in Nat /\ u \in Nat /\ m \in Nat /\ Slack \in Nat /\ Rpm[d] \in Nat \ {0}
      /\ a <= u + Rpm[d] + Slack - 1
      /\ Clearing(d) => a <= u /\ a + m <= Rpm[d] + Slack - 1
  BY PendingSize, RouterAssumption DEF TypeOK, SentInv, SentOK, Clearing, NoLimit
<1>2. n \in Nat
  <2>1. Pending(d)' \subseteq Requests
    BY DEF Pending
  <2>2. QED
    BY <2>1, SomeRequests
<1>3. UnderLimit(d) => u < Rpm[d]
  BY <1>1 DEF UnderLimit, NoLimit
<1>4. QED
  BY <1>1, <1>2, <1>3

\* Whoever is about to store zero, and does not step, was about to before.
LEMMA ClearingKept ==
  ASSUME TypeOK, NEW r \in Requests, NEW d \in Deployments,
         req' = [req EXCEPT ![r] = req'[r]],
         req'[r].at # "clear" \/ Looking(r)' # d, Clearing(d)'
  PROVE  \E x \in Requests \ {r} : At(x, "clear") /\ Looking(x) = d /\ req'[x] = req[x]
<1>1. PICK x \in Requests : At(x, "clear")' /\ Looking(x)' = d
  BY DEF Clearing
<1>2. x # r
  BY <1>1 DEF At
<1>3. req'[x] = req[x]
  BY <1>2 DEF TypeOK
<1>4. QED
  BY <1>1, <1>2, <1>3 DEF At, Looking

\* What is sent stays bounded by every step of a request that selects.
LEMMA SentSelect ==
  ASSUME TypeOK, ScanInv, WindowInv, SentInv, [Next]_vars, NEW d \in Deployments,
         NEW r \in Requests, Arrive(r) \/ Select(r)
  PROVE  SentOK(d)'
<1> DEFINE q == req[r]
           n == Cardinality(Pending(d)')
<1>1. req' = [req EXCEPT ![r] = req'[r]] /\ \A x \in Requests \ {r} : req'[x] = req[x]
  BY SelectSteps DEF TypeOK
<1>2. /\ n \in Nat /\ Slack \in Nat
      /\ \A x \in Requests : x \notin Pending(d)' => n <= Slack
  <2>1. Pending(d)' \subseteq Requests
    BY DEF Pending
  <2>2. QED
    BY <2>1, SomeRequests
<1>3. Pending(d)' \subseteq Pending(d) => n <= Cardinality(Pending(d))
  BY PendingSize, FS_Subset
<1>4. admitted \in [Deployments -> Nat] /\ rpmUsed \in [Deployments -> Nat]
  BY DEF TypeOK
<1>5. CASE Record(r)
  <2>1. req'[r].at # "clear"
    <3>1. req'[r].at = "routed"
      BY <1>5, SelectSteps DEF Select
    <3>2. QED
      BY <3>1
  <2>2. Clearing(d)' => Clearing(d)
    BY <1>1, <2>1, ClearingKept DEF Clearing
  <2>3. CASE d # q.best
    <3>1. /\ admitted'[d] = admitted[d] /\ rpmUsed'[d] = rpmUsed[d]
          /\ n <= Cardinality(Pending(d))
      BY <1>4, <1>5, <2>3, RecordPending DEF Record
    <3>2. QED
      BY <2>2, <3>1, SentKept
  <2>4. CASE d = q.best
    <3> DEFINE a == admitted[d]
               u == rpmUsed[d]
               m == Cardinality(Pending(d))
    <3>1. admitted'[d] = a + 1 /\ rpmUsed'[d] = u + 1 /\ n <= m - 1
      BY <1>4, <1>5, <2>4, RecordPending DEF Record
    <3>2. SUFFICES ASSUME Rpm[d] > 0
                   PROVE  /\ a + 1 <= u + 1 + Rpm[d] + Slack - 1
                          /\ Clearing(d)' => a + 1 <= u + 1 /\ a + 1 + n <= Rpm[d] + Slack - 1
      BY <3>1 DEF SentOK, Clearing, Slack
    <3>3. /\ a \in Nat /\ u \in Nat /\ m \in Nat /\ Rpm[d] \in Nat
          /\ a <= u + Rpm[d] + Slack - 1
          /\ Clearing(d) => a <= u /\ a + m <= Rpm[d] + Slack - 1
      BY <1>4, <3>2, PendingSize, RouterAssumption DEF SentInv, SentOK, Clearing, NoLimit
    <3>4. QED
      BY <1>2, <2>2, <3>1, <3>3
  <2>5. QED
    BY <2>3, <2>4
<1>6. CASE SwapWindow(r)
  <2> DEFINE won == windowStart[Looking(r)] = q.seen
  <2>1. /\ rpmUsed' = rpmUsed /\ req'[r].best = q.best /\ Looking(r)' = Looking(r)
        /\ req'[r].at = "clear" => won
        /\ q.best # Looking(r) /\ Looking(r) \in Deployments /\ q.at \in Selecting
    <3>1. Scanning(r) /\ q.at \in Selecting
      BY <1>6 DEF SwapWindow, Scanning, At, Selecting
    <3>2. /\ req'[r].best = q.best /\ req'[r].scan = q.scan
          /\ req'[r].at = "clear" => won
      BY <1>6, SelectSteps, EntersWindow DEF Select
    <3>3. QED
      BY <1>6, <3>1, <3>2, LookNotBest DEF SwapWindow, Looking
  <2>2. Pending(d)' \subseteq Pending(d)
    BY <1>1, <2>1 DEF Pending
  <2>3. CASE won /\ Looking(r) = d
    <3>1. admitted'[d] = 0 /\ rpmUsed'[d] \in Nat
      BY <1>4, <1>6, <2>1, <2>3 DEF SwapWindow
    <3>2. n <= Slack
      BY <1>2, <2>1, <2>3 DEF Pending
    <3>3. SUFFICES ASSUME Rpm[d] > 0
                   PROVE  /\ 0 <= rpmUsed'[d] + Rpm[d] + Slack - 1 /\ 0 <= rpmUsed'[d]
                          /\ 0 + n <= Rpm[d] + Slack - 1
      BY <3>1 DEF SentOK, Slack
    <3>4. Rpm[d] \in Nat \ {0}
      BY <3>3, RouterAssumption DEF NoLimit
    <3>5. QED
      BY <1>2, <3>1, <3>2, <3>4
  <2>4. CASE ~ (won /\ Looking(r) = d)
    <3>1. admitted'[d] = admitted[d] /\ rpmUsed'[d] = rpmUsed[d]
      BY <1>4, <1>6, <2>1, <2>4 DEF SwapWindow
    <3>2. Clearing(d)' => Clearing(d)
      BY <1>1, <2>1, <2>4, ClearingKept DEF Clearing
    <3>3. QED
      BY <1>3, <2>2, <3>1, <3>2, SentKept
  <2>5. QED
    BY <2>3, <2>4
<1>7. CASE ClearCounter(r)
  <2>1. /\ admitted' = admitted /\ At(r, "clear") /\ req'[r].at # "clear"
        /\ rpmUsed' = [rpmUsed EXCEPT ![Looking(r)] = 0]
        /\ req'[r].best = q.best /\ q.at \in Selecting
    <3>1. req'[r].best = q.best /\ req'[r].at = "limit"
      BY <1>7, SelectSteps DEF Select
    <3>2. QED
      BY <1>7, <3>1 DEF ClearCounter, At, Selecting
  <2>2. Pending(d)' \subseteq Pending(d)
    BY <1>1, <2>1 DEF Pending
  <2>3. CASE Looking(r) # d
    <3>1. admitted'[d] = admitted[d] /\ rpmUsed'[d] = rpmUsed[d]
      BY <1>4, <2>1, <2>3
    <3>2. Clearing(d)' => Clearing(d)
      BY <1>1, <2>1, ClearingKept DEF Clearing
    <3>3. QED
      BY <1>3, <2>2, <3>1, <3>2, SentKept
  <2>4. CASE Looking(r) = d
    <3>1. ~ Clearing(d)'
      BY <1>1, <2>1, <2>4, ClearingKept DEF WindowInv, OneClears
    <3>2. admitted'[d] = admitted[d] /\ rpmUsed'[d] = 0
      BY <1>4, <2>1, <2>4
    <3>3. SUFFICES ASSUME Rpm[d] > 0
                   PROVE  admitted[d] <= 0 + Rpm[d] + Slack - 1
      BY <3>1, <3>2 DEF SentOK, Clearing, Slack
    <3>4. admitted[d] + Cardinality(Pending(d)) <= Rpm[d] + Slack - 1
      BY <2>1, <2>4, <3>3 DEF SentInv, SentOK, Clearing
    <3>5. Cardinality(Pending(d)) \in Nat /\ admitted[d] \in Nat /\ Rpm[d] \in Nat
      BY <1>4, <3>3, PendingSize, RouterAssumption DEF NoLimit
    <3>6. QED
      BY <1>2, <3>4, <3>5
  <2>5. QED
    BY <2>3, <2>4
<1>8. CASE Arrive(r) \/ ReadWindow(r) \/ Take(r) \/ Skip(r) \/ EndScan(r) \/ FallBack(r)
             \/ EmptyHanded(r)
  <2>1. admitted' = admitted /\ rpmUsed' = rpmUsed
    BY <1>8 DEF Arrive, ReadWindow, Take, Skip, EndScan, FallBack, EmptyHanded, table
  <2>2. req'[r].at # "clear"
    <3>1. req'[r].at \in {"window", "swap", "limit", "record", "idle"}
      BY <1>8, SelectSteps DEF Select
    <3>2. QED
      BY <3>1
  <2>3. ASSUME Clearing(d)'
        PROVE  /\ Clearing(d)
               /\ n <= Cardinality(Pending(d)) \/ (UnderLimit(d) /\ n <= Slack)
    <3>1. PICK x \in Requests \ {r} : At(x, "clear") /\ Looking(x) = d /\ req'[x] = req[x]
      BY <1>1, <2>2, <2>3, ClearingKept
    <3>2. Clearing(d)
      BY <3>1 DEF Clearing
    <3>3. n <= Slack
      <4>1. req[x].best # d
        BY <3>1, LookNotBest DEF Scanning, At, Selecting
      <4>2. x \notin Pending(d)'
        BY <3>1, <4>1 DEF Pending
      <4>3. QED
        BY <1>2, <4>2
    <3>4. Pending(d)' \subseteq Pending(d) \/ UnderLimit(d)
      BY PendingStep DEF Picks
    <3>5. QED
      BY <1>3, <3>2, <3>3, <3>4
  <2>4. QED
    BY <2>1, <2>3, SentKept
<1>9. QED
  BY <1>5, <1>6, <1>7, <1>8 DEF Select

\* Every step keeps what is sent in a window bounded.
LEMMA SentStep ==
  ASSUME TypeOK, ScanInv, WindowInv, SentInv, [Next]_vars
  PROVE  SentInv'
<1> SUFFICES ASSUME NEW d \in Deployments PROVE SentOK(d)'
  BY DEF SentInv
<1>1. ASSUME NEW r \in Requests, Arrive(r) \/ Select(r) PROVE SentOK(d)'
  BY <1>1, SentSelect
<1>2. ASSUME NEW r \in Requests, Serve(r) PROVE SentOK(d)'
  <2>1. /\ req' = [req EXCEPT ![r] = req'[r]] /\ req'[r].at \notin Selecting
        /\ admitted' = admitted /\ rpmUsed' = rpmUsed
    BY <1>2, ServeSteps
  <2>2. Clearing(d)' => Clearing(d)
    BY <2>1, ClearingKept DEF Clearing, Selecting
  <2>3. Pending(d)' \subseteq Pending(d)
    BY <2>1 DEF Pending, TypeOK
  <2>4. Cardinality(Pending(d)') <= Cardinality(Pending(d))
    BY <2>3, PendingSize, FS_Subset
  <2>5. QED
    BY <2>1, <2>2, <2>4, SentKept
<1>3. CASE Rebuild
  <2>1. admitted'[d] = 0 /\ rpmUsed'[d] = 0 /\ ~ Clearing(d)'
    BY <1>3, RebuildSteps DEF Rebuild, Clearing, At, Selecting
  <2>2. Slack \in Nat /\ Rpm[d] > 0 => 0 <= 0 + Rpm[d] + Slack - 1
    BY PendingSize, RouterAssumption DEF NoLimit
  <2>3. QED
    BY <2>1, <2>2, PendingSize DEF SentOK, Clearing, Slack
<1>4. CASE Tick \/ UNCHANGED vars
  <2>1. req' = req /\ admitted' = admitted /\ rpmUsed' = rpmUsed
    BY <1>4 DEF Tick, vars, table
  <2>2. QED
    BY <2>1 DEF SentInv, SentOK, Clearing, Pending, At, Looking
<1>5. QED
  BY <1>1, <1>2, <1>3, <1>4 DEF Next

\* The invariant of the counts, from the start and over every step.
THEOREM Counts == Spec => []SelectInv
<1>1. Init => SelectInv
  <2> SUFFICES ASSUME Init PROVE SelectInv
    OBVIOUS
  <2>1. \A r \in Requests : req[r].at = "idle"
    BY DEF Init, Idle
  <2>2. ScanInv /\ WindowInv
    BY <2>1 DEF ScanInv, ScanOK, Scanning, WindowInv, WindowOK, OneClears, At, Selecting
  <2>3. ASSUME NEW d \in Deployments PROVE Cardinality(Pending(d)) = 0 /\ ~ Clearing(d)
    <3>1. Pending(d) = {}
      BY <2>1 DEF Pending, Selecting
    <3>2. QED
      BY <2>1, <3>1, FS_EmptySet DEF Clearing, At
  <2>4. ASSUME NEW d \in Deployments
        PROVE  /\ rpmUsed[d] = 0 /\ admitted[d] = 0 /\ Slack \in Nat
               /\ Rpm[d] \in Nat \cup {NoLimit}
    BY PendingSize, RouterAssumption DEF Init
  <2>5. CountInv
    BY <2>3, <2>4 DEF CountInv
  <2>6. SentInv
    BY <2>3, <2>4 DEF SentInv, SentOK, Clearing, NoLimit
  <2>7. QED
    BY <2>2, <2>5, <2>6 DEF SelectInv
<1>2. TypeOK /\ TypeOK' /\ SelectInv /\ [Next]_vars => SelectInv'
  BY ScanStep, CountStep, WindowStep, SentStep DEF SelectInv
<1>3. QED
  BY <1>1, <1>2, TypeCorrect, PTL DEF Spec

\* However the checks and the records of any number of requests interleave, a
\* deployment's count overshoots its limit by at most one for each other request.
THEOREM Overshoot == Spec => []OvershootBounded
<1>1. TypeOK /\ SelectInv => OvershootBounded
  <2> SUFFICES ASSUME TypeOK, SelectInv, NEW d \in Deployments, Rpm[d] # NoLimit
               PROVE  rpmUsed[d] <= Rpm[d] + Slack
    BY DEF OvershootBounded
  <2>1. rpmUsed[d] + Cardinality(Pending(d)) <= Rpm[d] + Slack
    BY DEF SelectInv, CountInv
  <2>2. /\ rpmUsed[d] \in Nat /\ Cardinality(Pending(d)) \in Nat /\ Slack \in Nat
        /\ Rpm[d] \in Nat
    BY PendingSize, RouterAssumption DEF TypeOK
  <2>3. QED
    BY <2>1, <2>2
<1>2. QED
  BY <1>1, TypeCorrect, Counts, PTL

\* A deployment is never sent more than twice its limit, and the overshoot
\* twice, in one window: only one request ever stores zero in it.
THEOREM SentBounded == Spec => []SentInWindowBounded
<1>1. TypeOK /\ SelectInv => SentInWindowBounded
  <2> SUFFICES ASSUME TypeOK, SelectInv, NEW d \in Deployments, Rpm[d] > 0
               PROVE  admitted[d] <= 2 * (Rpm[d] + Slack) - 1
    BY DEF SentInWindowBounded
  <2>1. admitted[d] <= rpmUsed[d] + Rpm[d] + Slack - 1
    BY DEF SelectInv, SentInv, SentOK
  <2>2. Rpm[d] \in Nat \ {0} /\ Rpm[d] # NoLimit
    BY RouterAssumption DEF NoLimit
  <2>3. rpmUsed[d] + Cardinality(Pending(d)) <= Rpm[d] + Slack
    BY <2>2 DEF SelectInv, CountInv
  <2>4. /\ rpmUsed[d] \in Nat /\ admitted[d] \in Nat
        /\ Cardinality(Pending(d)) \in Nat /\ Slack \in Nat
    BY PendingSize DEF TypeOK
  <2>5. QED
    BY <2>1, <2>2, <2>3, <2>4
<1>2. QED
  BY <1>1, TypeCorrect, Counts, PTL

-----------------------------------------------------------------------------
(* What a scan passes over *)

\* What is behind the deployment a scan looks at, and behind the next one.
LEMMA BehindNext ==
  ASSUME TypeOK, NEW r \in Requests, Scanning(r)
  PROVE  /\ Len(req[r].scan) = 1 => \A d \in Deployments : d \in Behind(r) \/ d = Looking(r)
         /\ (Len(req[r].scan) > 1 /\ req'[r].scan = Tail(req[r].scan)) =>
              \A d \in Behind(r)' : d \in Behind(r) \/ d = Looking(r)
<1> DEFINE q == req[r]
<1>1. q \in RequestSet /\ q.scan # <<>>
  BY DEF TypeOK, Scanning
<1>2. Len(q.scan) \in Nat \ {0} /\ Looking(r) = q.scan[1]
  BY <1>1, ScanShift DEF Looking
<1>3. ASSUME Len(q.scan) = 1, NEW d \in Deployments PROVE d \in Behind(r) \/ d = Looking(r)
  <2>1. \A k \in 1 .. Len(q.scan) : k = 1
    BY <1>3
  <2>2. QED
    BY <1>2, <2>1 DEF Behind
<1>4. ASSUME Len(q.scan) > 1, req'[r].scan = Tail(q.scan), NEW d \in Behind(r)'
      PROVE  d \in Behind(r) \/ d = Looking(r)
  <2>1. /\ Len(req'[r].scan) = Len(q.scan) - 1
        /\ \A k \in 1 .. Len(q.scan) - 1 : req'[r].scan[k] = q.scan[k + 1]
    BY <1>1, <1>4, ScanShift
  <2>2. d \in Deployments /\ \A k \in 1 .. Len(q.scan) - 1 : q.scan[k + 1] # d
    BY <1>4, <2>1 DEF Behind
  <2>3. ASSUME d # Looking(r), NEW k \in 1 .. Len(q.scan) PROVE q.scan[k] # d
    <3>1. CASE k = 1
      BY <1>2, <2>3, <3>1
    <3>2. CASE k # 1
      <4>1. k - 1 \in 1 .. Len(q.scan) - 1 /\ (k - 1) + 1 = k
        BY <1>2, <3>2
      <4>2. q.scan[(k - 1) + 1] # d
        BY <2>2, <4>1
      <4>3. QED
        BY <4>1, <4>2
    <3>3. QED
      BY <3>1, <3>2
  <2>4. QED
    BY <2>2, <2>3 DEF Behind
<1>5. QED
  BY <1>3, <1>4

\* A scan that goes on, or ends, without a pick looks at a full deployment, and
\* had no pick before.
LEMMA LookedFull ==
  ASSUME TypeOK, NEW r \in Requests, At(r, "limit"), ~ req[r].byPrice,
         TakesBest(r) \/ ~ UnderLimit(Looking(r)), Remembered(r).best = None
  PROVE  ~ UnderLimit(Looking(r)) /\ req[r].best = None
<1>1. Looking(r) # None
  <2>1. req[r] \in RequestSet /\ req[r].scan # <<>>
    BY DEF TypeOK, At, Selecting
  <2>2. QED
    BY <2>1, ScanParts DEF Looking, Deployments, None
<1>2. QED
  BY <1>1, RememberedBest

\* The scan of a request covers every deployment when it begins.
LEMMA BeginsWhole ==
  ASSUME NEW r \in Requests, NEW n \in Nat, NEW s,
         req'[r].scan = ScanFrom(FirstLook(s, n))
  PROVE  Behind(r)' = {}
<1> DEFINE f == ScanFrom(FirstLook(s, n))
<1>1. /\ Len(f) = NumDeployments
      /\ \A d \in Deployments : \E k \in 1 .. NumDeployments : f[k] = d
  BY FirstLookType, ScanType
<1> HIDE DEF f
<1>2. req'[r].scan = f
  BY DEF f
<1>3. QED
  BY <1>1, <1>2 DEF Behind

\* A scan looks at no deployment it has left behind.
LEMMA LookNotBehind ==
  ASSUME TypeOK, NEW r \in Requests, Scanning(r)
  PROVE  Looking(r) \in Deployments /\ Looking(r) \notin Behind(r)
<1>1. req[r] \in RequestSet /\ req[r].scan # <<>>
  BY DEF TypeOK, Scanning
<1>2. /\ Len(req[r].scan) \in Nat \ {0} /\ Looking(r) = req[r].scan[1]
      /\ Looking(r) \in Deployments
  BY <1>1, ScanShift, ScanParts DEF Looking
<1>3. 1 \in 1 .. Len(req[r].scan)
  BY <1>2
<1>4. QED
  BY <1>2, <1>3 DEF Behind

\* What a step does to the requests admitted to a deployment and to the marks of
\* a request that goes on selecting.
LEMMA MarkSteps ==
  ASSUME TypeOK, [Next]_vars, NEW q \in Requests,
         req[q].at \in Selecting, req'[q].at \in Selecting
  PROVE  /\ reset[q] \subseteq reset'[q]
         /\ \A d \in Deployments :
              \/ admitted'[d] >= admitted[d]
              \/ \E r \in Requests :
                   /\ SwapWindow(r) /\ windowStart[Looking(r)] = req[r].seen
                   /\ Looking(r) = d /\ (r # q => d \in reset'[q])
<1>1. \A d \in Deployments : admitted[d] \in Nat
  BY DEF TypeOK
<1>2. ASSUME reset' = reset, admitted' = admitted
      PROVE  reset[q] \subseteq reset'[q] /\ \A d \in Deployments : admitted'[d] >= admitted[d]
  BY <1>1, <1>2
<1>3. ASSUME NEW r \in Requests, Serve(r) PROVE reset' = reset /\ admitted' = admitted
  BY <1>3, ServeSteps
<1>4. CASE Rebuild
  BY <1>4, RebuildSteps
<1>5. CASE Tick \/ UNCHANGED vars
  BY <1>2, <1>5 DEF Tick, vars
<1>6. ASSUME NEW r \in Requests,
             ReadWindow(r) \/ ClearCounter(r) \/ Take(r) \/ Skip(r) \/ EndScan(r) \/ FallBack(r)
      PROVE  reset' = reset /\ admitted' = admitted
  BY <1>6 DEF ReadWindow, ClearCounter, Take, Skip, EndScan, FallBack
<1>7. ASSUME NEW r \in Requests, Arrive(r)
      PROVE  reset[q] \subseteq reset'[q] /\ admitted' = admitted
  <2>1. r # q
    BY <1>7 DEF Arrive, At, Selecting
  <2>2. QED
    BY <1>7, <2>1 DEF Arrive, TypeOK
<1>8. ASSUME NEW r \in Requests, EmptyHanded(r) \/ Record(r) PROVE r # q
  <2>1. req'[r].at \notin Selecting
    BY <1>8, SelectSteps DEF Select, Selecting
  <2>2. QED
    BY <2>1
<1>9. ASSUME NEW r \in Requests, EmptyHanded(r)
      PROVE  reset[q] \subseteq reset'[q] /\ admitted' = admitted
  BY <1>8, <1>9 DEF EmptyHanded, TypeOK
<1>10. ASSUME NEW r \in Requests, Record(r)
       PROVE  reset[q] \subseteq reset'[q] /\ \A d \in Deployments : admitted'[d] >= admitted[d]
  <2>1. reset[q] \subseteq reset'[q]
    BY <1>8, <1>10 DEF Record, TypeOK
  <2>2. admitted' = [admitted EXCEPT ![req[r].best] = admitted[req[r].best] + 1]
    BY <1>10 DEF Record
  <2>3. QED
    BY <1>1, <2>1, <2>2 DEF TypeOK
<1>11. ASSUME NEW r \in Requests, SwapWindow(r)
       PROVE  /\ reset[q] \subseteq reset'[q]
              /\ \A d \in Deployments :
                   \/ admitted'[d] = admitted[d]
                   \/ /\ windowStart[Looking(r)] = req[r].seen
                      /\ Looking(r) = d /\ (r # q => d \in reset'[q])
  <2>1. reset'[q] = IF windowStart[Looking(r)] = req[r].seen /\ q # r
                    THEN reset[q] \cup {Looking(r)} ELSE reset[q]
    BY <1>11 DEF SwapWindow
  <2>2. admitted' = IF windowStart[Looking(r)] = req[r].seen
                    THEN [admitted EXCEPT ![Looking(r)] = 0] ELSE admitted
    BY <1>11 DEF SwapWindow
  <2>3. QED
    BY <2>1, <2>2 DEF TypeOK
<1>12. QED
  BY <1>1, <1>2, <1>3, <1>4, <1>5, <1>6, <1>7, <1>9, <1>10, <1>11 DEF Next, Select

\* What is spent for a request stays so while it selects, unless it resets the
\* window itself.
LEMMA SpentStays ==
  ASSUME TypeOK, TypeOK', [Next]_vars, NEW q \in Requests,
         req[q].at \in Selecting, req'[q].at \in Selecting,
         NEW d \in Deployments, SwapWindow(q) => Looking(q) # d, Spent(q, d)
  PROVE  Spent(q, d)'
<1>1. /\ reset[q] \subseteq reset'[q]
      /\ admitted'[d] >= admitted[d] \/ d \in reset'[q]
  BY MarkSteps
<1>2. /\ admitted[d] \in Nat /\ admitted'[d] \in Nat /\ Rpm[d] \in Nat \cup {NoLimit}
  BY RouterAssumption DEF TypeOK
<1>3. QED
  BY <1>1, <1>2 DEF Spent, Full

\* A deployment a request finds at its limit is spent for it.
LEMMA AtLimitSpent ==
  ASSUME TypeOK, SpentInv, NEW r \in Requests, At(r, "limit"), ~ UnderLimit(Looking(r))
  PROVE  Spent(r, Looking(r))
<1> DEFINE d == Looking(r)
<1>1. Scanning(r)
  BY DEF Scanning, At, Selecting
<1>2. d \in Deployments
  BY <1>1, LookNotBehind
<1>3. CASE Clearing(d)
  <2>1. PICK x \in Requests : At(x, "clear") /\ Looking(x) = d
    BY <1>3 DEF Clearing
  <2>2. x # r
    BY <2>1 DEF At
  <2>3. QED
    BY <1>1, <2>1, <2>2 DEF SpentInv, Marked, Scanning, Spent
<1>4. CASE ~ Clearing(d)
  <2>1. rpmUsed[d] <= admitted[d]
    BY <1>2, <1>4 DEF SpentInv, Counted
  <2>2. /\ rpmUsed[d] \in Nat /\ admitted[d] \in Nat /\ Rpm[d] \in Nat \cup {NoLimit}
    BY <1>2, RouterAssumption DEF TypeOK
  <2>3. Rpm[d] # NoLimit /\ ~ (rpmUsed[d] < Rpm[d])
    BY DEF UnderLimit
  <2>4. QED
    BY <2>1, <2>2, <2>3 DEF Spent, Full, NoLimit
<1>5. QED
  BY <1>3, <1>4

\* The counts and what was sent.
LEMMA CountedStep ==
  ASSUME TypeOK, SpentInv, [Next]_vars, NEW d \in Deployments
  PROVE  Counted(d)'
<1>1. /\ rpmUsed[d] \in Nat /\ admitted[d] \in Nat /\ Counted(d)
  BY DEF TypeOK, SpentInv
<1>2. ASSUME NEW r \in Requests, req' = [req EXCEPT ![r] = req'[r]], ~ At(r, "clear"),
             rpmUsed' = rpmUsed, admitted' = admitted
      PROVE  Counted(d)'
  <2>1. ASSUME NEW x \in Requests, At(x, "clear") PROVE At(x, "clear")' /\ Looking(x)' = Looking(x)
    <3>1. req'[x] = req[x]
      BY <1>2, <2>1 DEF TypeOK
    <3>2. QED
      BY <2>1, <3>1 DEF At, Looking
  <2>2. Clearing(d) => Clearing(d)'
    BY <2>1 DEF Clearing
  <2>3. QED
    BY <1>1, <1>2, <2>2 DEF Counted
<1>3. ASSUME NEW r \in Requests,
             Arrive(r) \/ ReadWindow(r) \/ Take(r) \/ Skip(r) \/ EndScan(r) \/ FallBack(r)
               \/ EmptyHanded(r)
      PROVE  Counted(d)'
  <2>1. ~ At(r, "clear") /\ rpmUsed' = rpmUsed /\ admitted' = admitted
    BY <1>3 DEF Arrive, ReadWindow, Take, Skip, EndScan, FallBack, EmptyHanded, AtLast, At, table
  <2>2. req' = [req EXCEPT ![r] = req'[r]]
    BY <1>3, SelectSteps DEF Select
  <2>3. QED
    BY <1>2, <2>1, <2>2
<1>4. ASSUME NEW r \in Requests, Record(r) PROVE Counted(d)'
  <2>1. /\ rpmUsed' = [rpmUsed EXCEPT ![req[r].best] = rpmUsed[req[r].best] + 1]
        /\ admitted' = [admitted EXCEPT ![req[r].best] = admitted[req[r].best] + 1]
        /\ At(r, "record")
    BY <1>4 DEF Record
  <2>2. \/ rpmUsed'[d] = rpmUsed[d] /\ admitted'[d] = admitted[d]
        \/ rpmUsed'[d] = rpmUsed[d] + 1 /\ admitted'[d] = admitted[d] + 1
    BY <2>1 DEF TypeOK
  <2>3. ASSUME Clearing(d) PROVE Clearing(d)'
    <3>1. PICK x \in Requests : At(x, "clear") /\ Looking(x) = d
      BY <2>3 DEF Clearing
    <3>2. x # r
      BY <2>1, <3>1 DEF At
    <3>3. req'[x] = req[x]
      BY <1>4, <3>2 DEF Record, TypeOK
    <3>4. QED
      BY <3>1, <3>3 DEF Clearing, At, Looking
  <2>4. QED
    BY <1>1, <2>2, <2>3 DEF Counted
<1>5. ASSUME NEW r \in Requests, ClearCounter(r) PROVE Counted(d)'
  <2>1. /\ rpmUsed' = [rpmUsed EXCEPT ![Looking(r)] = 0] /\ admitted' = admitted
    BY <1>5 DEF ClearCounter
  <2>2. CASE d = Looking(r)
    BY <1>1, <2>1, <2>2 DEF Counted, TypeOK
  <2>3. CASE d # Looking(r)
    <3>1. rpmUsed'[d] = rpmUsed[d] /\ admitted'[d] = admitted[d]
      BY <2>1, <2>3 DEF TypeOK
    <3>2. ASSUME Clearing(d) PROVE Clearing(d)'
      <4>1. PICK x \in Requests : At(x, "clear") /\ Looking(x) = d
        BY <3>2 DEF Clearing
      <4>2. req'[x] = req[x]
        BY <1>5, <2>3, <4>1 DEF ClearCounter, TypeOK
      <4>3. QED
        BY <4>1, <4>2 DEF Clearing, At, Looking
    <3>3. QED
      BY <1>1, <3>1, <3>2 DEF Counted
  <2>4. QED
    BY <2>2, <2>3
<1>6. ASSUME NEW r \in Requests, SwapWindow(r) PROVE Counted(d)'
  <2>1. /\ rpmUsed' = rpmUsed /\ ~ At(r, "clear")
        /\ req' = [req EXCEPT ![r] = req'[r]]
    BY <1>6, SelectSteps DEF SwapWindow, At, Select
  <2>2. CASE windowStart[Looking(r)] = req[r].seen /\ Looking(r) = d
    <3>1. req'[r].at = "clear" /\ req'[r].scan = req[r].scan
      BY <1>6, <2>2, SelectSteps DEF Select
    <3>2. Clearing(d)'
      BY <2>2, <3>1 DEF Clearing, At, Looking
    <3>3. QED
      BY <3>2 DEF Counted
  <2>3. CASE ~ (windowStart[Looking(r)] = req[r].seen /\ Looking(r) = d)
    <3>1. admitted'[d] = admitted[d]
      BY <1>6, <2>3 DEF SwapWindow, TypeOK
    <3>2. ASSUME Clearing(d) PROVE Clearing(d)'
      <4>1. PICK x \in Requests : At(x, "clear") /\ Looking(x) = d
        BY <3>2 DEF Clearing
      <4>2. req'[x] = req[x]
        BY <2>1, <4>1 DEF TypeOK, At
      <4>3. QED
        BY <4>1, <4>2 DEF Clearing, At, Looking
    <3>3. QED
      BY <1>1, <2>1, <3>1, <3>2 DEF Counted
  <2>4. QED
    BY <2>2, <2>3
<1>7. ASSUME NEW r \in Requests, Serve(r) PROVE Counted(d)'
  <2>1. /\ req' = [req EXCEPT ![r] = req'[r]] /\ rpmUsed' = rpmUsed /\ admitted' = admitted
        /\ ~ At(r, "clear")
    BY <1>7, ServeSteps DEF At, Selecting
  <2>2. QED
    BY <1>2, <2>1
<1>8. CASE Rebuild
  BY <1>8 DEF Rebuild, Counted
<1>9. CASE Tick \/ UNCHANGED vars
  BY <1>1, <1>9 DEF Tick, vars, table, Counted, Clearing, At, Looking
<1>10. QED
  BY <1>3, <1>4, <1>5, <1>6, <1>7, <1>8, <1>9 DEF Next, Select

\* Whoever is about to store zero was marked by everyone who selects.
LEMMA MarkedStep ==
  ASSUME TypeOK, SpentInv, [Next]_vars, NEW r \in Requests
  PROVE  Marked(r)'
<1> SUFFICES ASSUME At(r, "clear")', NEW x \in Requests \ {r}, req'[x].at \in Selecting
             PROVE  Looking(r)' \in reset'[x]
  BY DEF Marked
<1>1. CASE At(r, "clear") /\ req'[r] = req[r]
  <2>1. Looking(r)' = Looking(r)
    BY <1>1 DEF Looking
  <2>2. CASE req[x].at \in Selecting
    BY <1>1, <2>1, <2>2, MarkSteps DEF SpentInv, Marked
  <2>3. CASE req[x].at \notin Selecting
    <3>1. Arrive(x)
      <4>1. ASSUME NEW y \in Requests, Serve(y) PROVE req'[x].at \notin Selecting
        BY <2>3, <4>1, ServeSteps DEF TypeOK
      <4>2. ASSUME Rebuild PROVE FALSE
        BY <4>2, RebuildSteps
      <4>3. ASSUME Tick \/ UNCHANGED vars PROVE FALSE
        BY <2>3, <4>3 DEF Tick, vars, table
      <4>4. ASSUME NEW y \in Requests \ {x}, Arrive(y) \/ Select(y) PROVE FALSE
        BY <2>3, <4>4, SelectSteps DEF TypeOK
      <4>5. ASSUME Select(x) PROVE FALSE
        BY <2>3, <4>5 DEF Select, ReadWindow, SwapWindow, ClearCounter, Take, Skip, EndScan,
                          FallBack, EmptyHanded, Record, AtLast, At, Selecting
      <4>6. QED
        BY <4>1, <4>2, <4>3, <4>4, <4>5 DEF Next
    <3>2. reset'[x] = {d \in Deployments : Clearing(d)}
      BY <3>1 DEF Arrive, TypeOK
    <3>3. Looking(r) \in Deployments
      BY <1>1, LookNotBehind DEF Scanning, At, Selecting
    <3>4. QED
      BY <1>1, <2>1, <3>2, <3>3 DEF Clearing
  <2>4. QED
    BY <2>2, <2>3
<1>2. CASE ~ (At(r, "clear") /\ req'[r] = req[r])
  <2>1. Arrive(r) \/ Select(r)
    <3>1. ASSUME NEW y \in Requests, Serve(y) PROVE req'[r] = req[r]
      BY <3>1, ServeSteps DEF TypeOK, At, Selecting
    <3>2. ASSUME Rebuild PROVE FALSE
      BY <3>2, RebuildSteps DEF At, Selecting
    <3>3. ASSUME Tick \/ UNCHANGED vars PROVE req'[r] = req[r]
      BY <3>3 DEF Tick, vars, table
    <3>4. ASSUME NEW y \in Requests \ {r}, Arrive(y) \/ Select(y) PROVE req'[r] = req[r]
      BY <3>4, SelectSteps DEF TypeOK
    <3>5. req'[r] = req[r] => FALSE
      BY <1>2 DEF At
    <3>6. QED
      BY <3>1, <3>2, <3>3, <3>4, <3>5 DEF Next
  <2>2. SwapWindow(r) /\ windowStart[Looking(r)] = req[r].seen
    BY <2>1, EntersWindow DEF At
  <2>3. req'[x] = req[x] /\ req'[r].scan = req[r].scan
    BY <2>1, <2>2, SelectSteps DEF TypeOK
  <2>4. reset'[x] = reset[x] \cup {Looking(r)}
    BY <2>2, <2>3 DEF SwapWindow
  <2>5. QED
    BY <2>3, <2>4 DEF Looking
<1>3. QED
  BY <1>1, <1>2

\* A request that selects leaves only spent deployments behind.
LEMMA LeftSpentStep ==
  ASSUME TypeOK, TypeOK', SpentInv, [Next]_vars, NEW r \in Requests, Arrive(r) \/ Select(r)
  PROVE  LeftSpent(r)'
<1> DEFINE q == req[r]
           p == req'[r]
<1>1. LeftSpent(r)
  BY DEF SpentInv
<1>2. Behind(r)' \subseteq Deployments
  BY DEF Behind
<1>3. CASE Arrive(r) \/ FallBack(r)
  <2>1. Behind(r)' = {}
    <3>1. \E s : p.scan = ScanFrom(FirstLook(s, counter))
      BY <1>3, SelectSteps DEF Select
    <3>2. QED
      BY <3>1, BeginsWhole DEF TypeOK
  <2>2. QED
    BY <2>1 DEF LeftSpent
<1>4. CASE ReadWindow(r) \/ SwapWindow(r) \/ ClearCounter(r)
  <2>1. p.scan = q.scan /\ p.best = q.best /\ p.byPrice = q.byPrice
    BY <1>4, SelectSteps DEF Select
  <2>2. Scanning(r)
    BY <1>4 DEF ReadWindow, SwapWindow, ClearCounter, At, Scanning, Selecting
  <2>3. Behind(r)' = Behind(r)
    BY <2>1 DEF Behind
  <2>4. ASSUME NEW d \in Behind(r), Spent(r, d), Scanning(r)' PROVE Spent(r, d)'
    <3>1. Looking(r) # d /\ d \in Deployments
      BY <2>2, LookNotBehind DEF Behind
    <3>2. QED
      BY <2>2, <2>4, <3>1, SpentStays DEF Scanning
  <2>5. QED
    BY <1>1, <2>1, <2>2, <2>3, <2>4 DEF LeftSpent
<1>5. CASE Skip(r)
  <2>1. /\ p.scan = Tail(q.scan) /\ p.best = Remembered(r).best /\ p.byPrice = q.byPrice
        /\ p.at = "window"
    BY <1>5, SelectSteps DEF Select
  <2>2. /\ At(r, "limit") /\ Scanning(r) /\ Len(q.scan) > 1
        /\ TakesBest(r) \/ ~ UnderLimit(Looking(r))
        /\ ~ SwapWindow(r)
    BY <1>5 DEF Skip, SwapWindow, At, Scanning, Selecting
  <2>3. \A d \in Behind(r)' : d \in Behind(r) \/ d = Looking(r)
    BY <2>1, <2>2, BehindNext
  <2>4. ASSUME p.best = None, ~ p.byPrice, NEW d \in Behind(r)' PROVE Spent(r, d)'
    <3>1. ~ UnderLimit(Looking(r)) /\ q.best = None /\ ~ q.byPrice
      BY <2>1, <2>2, <2>4, LookedFull
    <3>2. Spent(r, Looking(r))
      BY <2>2, <3>1, AtLimitSpent
    <3>3. Spent(r, d)
      BY <1>1, <2>2, <2>3, <2>4, <3>1, <3>2 DEF LeftSpent
    <3>4. req[r].at \in Selecting /\ req'[r].at \in Selecting /\ d \in Deployments
      BY <1>2, <2>1, <2>2, <2>4 DEF Scanning, Selecting
    <3>5. QED
      BY <2>2, <3>3, <3>4, SpentStays
  <2>5. QED
    BY <2>4 DEF LeftSpent
<1>6. CASE Take(r) \/ EndScan(r) \/ EmptyHanded(r) \/ Record(r)
  <2>1. p.at \in {"record", "idle", "routed"}
    BY <1>6, SelectSteps DEF Select
  <2>2. QED
    BY <2>1 DEF LeftSpent, Scanning, Selecting
<1>7. QED
  BY <1>3, <1>4, <1>5, <1>6 DEF Select

\* By failover a deployment is picked only with the ones before it spent.
LEMMA PicksInOrder ==
  ASSUME TypeOK, ScanInv, SpentInv, strategy = "failover",
         NEW r \in Requests, NEW e \in Deployments, At(r, "limit"), Looking(r) = e,
         NEW d \in Deployments, d < e
  PROVE  Spent(r, d)
<1> DEFINE q == req[r]
<1>1. Scanning(r) /\ Looking(r) = e
  BY DEF At, Scanning, Selecting
<1>2. q \in RequestSet /\ q.scan # <<>> /\ ScanOK(r) /\ NumDeployments \in Nat
  BY <1>1, RouterAssumption DEF TypeOK, Scanning, ScanInv
<1>3. ~ q.byPrice /\ q.best = None
  BY <1>1, <1>2 DEF ScanOK, TakesBest
<1>4. PICK n \in Nat \ {0} : n = Len(q.scan)
  BY <1>2, ScanShift
<1>5. \A k \in 1 .. n : q.scan[k] = NumDeployments - n + k
  BY <1>1, <1>2, <1>4 DEF ScanOK, InOrder
<1>6. e = NumDeployments - n + 1
  <2>1. e = q.scan[1] /\ 1 \in 1 .. n
    BY <1>1, <1>2, <1>4, ScanShift DEF Looking
  <2>2. QED
    BY <1>5, <2>1
<1>7. d \in Behind(r)
  <2>1. d \in Nat
    BY DEF Deployments
  <2>2. ASSUME NEW k \in 1 .. n PROVE NumDeployments - n + k # d
    BY <1>2, <1>6, <2>1
  <2>3. QED
    BY <1>4, <1>5, <2>2 DEF Behind
<1>8. QED
  BY <1>1, <1>3, <1>7 DEF SpentInv, LeftSpent

\* By failover a request about to record has only spent deployments before it.
LEMMA PickedInOrderStep ==
  ASSUME TypeOK, TypeOK', ScanInv, SpentInv, [Next]_vars, NEW r \in Requests,
         Arrive(r) \/ Select(r)
  PROVE  PickedInOrder(r)'
<1> SUFFICES ASSUME strategy' = "failover", At(r, "record")',
                    NEW d \in Deployments, d < req'[r].best
             PROVE  Spent(r, d)'
  BY DEF PickedInOrder
<1>1. strategy = "failover"
  BY DEF Arrive, Select, ReadWindow, SwapWindow, ClearCounter, Take, Skip, EndScan,
         FallBack, EmptyHanded, Record, table
<1>2. Take(r) \/ EndScan(r)
  <2>1. CASE Arrive(r) \/ ReadWindow(r) \/ ClearCounter(r) \/ Skip(r) \/ FallBack(r)
               \/ EmptyHanded(r) \/ Record(r)
    <3>1. req'[r].at \in {"window", "swap", "limit", "idle", "routed"}
      BY <2>1, SelectSteps DEF Select
    <3>2. QED
      BY <3>1 DEF At
  <2>2. CASE SwapWindow(r)
    <3>1. req'[r].at \in {"clear", "limit"}
      BY <2>2, SelectSteps DEF Select
    <3>2. QED
      BY <3>1 DEF At
  <2>3. QED
    BY <2>1, <2>2 DEF Select
<1>3. At(r, "limit") /\ Scanning(r) /\ ~ SwapWindow(r)
  BY <1>2 DEF Take, EndScan, AtLast, At, Scanning, Selecting, SwapWindow
<1>4. ~ TakesBest(r) /\ req[r].best = None
  BY <1>1, <1>3 DEF ScanInv, ScanOK, TakesBest
<1>5. Take(r)
  <2>1. ASSUME EndScan(r) PROVE FALSE
    BY <1>4, <2>1 DEF EndScan, Remembered
  <2>2. QED
    BY <1>2, <2>1
<1>6. req'[r].best = Looking(r) /\ Looking(r) \in Deployments
  BY <1>3, <1>5, SelectSteps, LookNotBehind DEF Select
<1>7. Spent(r, d)
  BY <1>1, <1>3, <1>6, PicksInOrder
<1>8. req[r].at \in Selecting /\ req'[r].at \in Selecting
  BY <1>3 DEF At, Selecting
<1>9. QED
  BY <1>3, <1>7, <1>8, SpentStays

\* The compare_exchange moves the request on, whoever wins.
LEMMA SwapMoves ==
  ASSUME TypeOK, NEW x \in Requests, SwapWindow(x)
  PROVE  req'[x] # req[x] /\ req'[x].at \in Selecting
<1>1. req'[x].at \in {"clear", "limit"}
  BY SelectSteps DEF Select
<1>2. req[x].at = "swap"
  BY DEF SwapWindow, At
<1>3. QED
  BY <1>1, <1>2 DEF Selecting

\* A request that does not step keeps what is spent.
LEMMA SpentFrame ==
  ASSUME TypeOK, TypeOK', SpentInv, [Next]_vars, NEW x \in Requests, ~ SwapWindow(x),
         req'[x] = req[x] \/ req'[x].at \notin Selecting, strategy' = strategy
  PROVE  LeftSpent(x)' /\ PickedInOrder(x)'
<1>1. LeftSpent(x) /\ PickedInOrder(x)
  BY DEF SpentInv
<1>2. CASE req'[x] = req[x]
  <2>1. Behind(x)' = Behind(x) /\ Behind(x) \subseteq Deployments
    BY <1>2 DEF Behind
  <2>2. ASSUME req[x].at \in Selecting, NEW d \in Deployments, Spent(x, d) PROVE Spent(x, d)'
    BY <1>2, <2>2, SpentStays
  <2>3. LeftSpent(x)'
    BY <1>1, <1>2, <2>1, <2>2 DEF LeftSpent, Scanning
  <2>4. PickedInOrder(x)'
    BY <1>1, <1>2, <2>2 DEF PickedInOrder, At, Selecting
  <2>5. QED
    BY <2>3, <2>4
<1>3. CASE req'[x].at \notin Selecting
  BY <1>3 DEF LeftSpent, PickedInOrder, Scanning, At, Selecting
<1>4. QED
  BY <1>2, <1>3

\* Every step keeps what the scans passed over spent.
LEMMA SpentStep ==
  ASSUME TypeOK, TypeOK', ScanInv, SpentInv, [Next]_vars
  PROVE  SpentInv'
<1>1. ASSUME NEW x \in Requests PROVE LeftSpent(x)' /\ PickedInOrder(x)'
  <2>1. ASSUME NEW r \in Requests, Arrive(r) \/ Select(r) PROVE LeftSpent(x)' /\ PickedInOrder(x)'
    <3>1. CASE x = r
      BY <2>1, <3>1, LeftSpentStep, PickedInOrderStep
    <3>2. CASE x # r
      <4>1. req'[x] = req[x] /\ strategy' = strategy
        <5>1. strategy' = strategy
          BY <2>1 DEF Arrive, Select, ReadWindow, SwapWindow, ClearCounter, Take, Skip,
                      EndScan, FallBack, EmptyHanded, Record, table
        <5>2. QED
          BY <2>1, <3>2, <5>1, SelectSteps DEF TypeOK
      <4>2. ~ SwapWindow(x)
        BY <4>1, SwapMoves
      <4>3. QED
        BY <4>1, <4>2, SpentFrame
    <3>3. QED
      BY <3>1, <3>2
  <2>2. ASSUME NEW r \in Requests, Serve(r) PROVE LeftSpent(x)' /\ PickedInOrder(x)'
    <3>1. (req'[x] = req[x] \/ req'[x].at \notin Selecting) /\ strategy' = strategy
      BY <2>2, ServeSteps DEF TypeOK
    <3>2. ~ SwapWindow(x)
      BY <3>1, SwapMoves
    <3>3. QED
      BY <3>1, <3>2, SpentFrame
  <2>3. CASE Rebuild
    <3>1. req'[x].at \notin Selecting /\ req[x].at \notin Selecting /\ strategy' = strategy
      BY <2>3, RebuildSteps DEF Rebuild
    <3>2. ~ SwapWindow(x)
      BY <3>1 DEF SwapWindow, At, Selecting
    <3>3. QED
      BY <3>1, <3>2, SpentFrame
  <2>4. CASE Tick \/ UNCHANGED vars
    <3>1. req'[x] = req[x] /\ strategy' = strategy
      BY <2>4 DEF Tick, vars, table
    <3>2. QED
      BY <3>1, SwapMoves, SpentFrame
  <2>5. QED
    BY <2>1, <2>2, <2>3, <2>4 DEF Next
<1>2. QED
  BY <1>1, CountedStep, MarkedStep DEF SpentInv

\* The invariant of what the scans pass over.
THEOREM PassedOver == Spec => []SpentInv
<1>1. Init => SpentInv
  <2> SUFFICES ASSUME Init PROVE SpentInv
    OBVIOUS
  <2>1. /\ \A r \in Requests : req[r].at = "idle"
        /\ \A d \in Deployments : rpmUsed[d] = 0 /\ admitted[d] = 0
    BY DEF Init, Idle
  <2>2. QED
    BY <2>1 DEF SpentInv, Counted, Marked, LeftSpent, PickedInOrder, Scanning, At, Selecting
<1>2. TypeOK /\ TypeOK' /\ SelectInv /\ SpentInv /\ [Next]_vars => SpentInv'
  BY SpentStep DEF SelectInv
<1>3. QED
  BY <1>1, <1>2, TypeCorrect, Counts, PTL DEF Spec

\* Failover is sticky, whoever else picks at the same time and whenever windows
\* end: a request goes to a deployment only when each one of higher priority has
\* been sent its limit in its window, or was reset while the request picked.
THEOREM FailoverInOrder == Spec => FailoverFillsInOrder
<1>1. ASSUME SpentInv, NEW r \in Requests, strategy = "failover", Record(r),
             NEW d \in Deployments, d < req[r].best
      PROVE  Full(d) \/ d \in reset[r]
  BY <1>1 DEF SpentInv, PickedInOrder, Spent, Record
<1>2. SpentInv /\ [Next]_vars =>
        [\A r \in Requests :
           strategy = "failover" /\ Record(r) =>
             \A d \in Deployments : d < req[r].best => Full(d) \/ d \in reset[r]]_vars
  BY <1>1
<1>3. QED
  BY <1>2, PassedOver, PTL DEF Spec, FailoverFillsInOrder

\* A request comes away empty-handed only when every deployment has been sent its
\* limit in its window, or was reset while the request picked.
THEOREM RefusedWhenFull == Spec => RefusedOnlyWhenFull
<1>1. ASSUME TypeOK, SpentInv, NEW r \in Requests, EmptyHanded(r), NEW d \in Deployments
      PROVE  Full(d) \/ d \in reset[r]
  <2>1. /\ At(r, "limit") /\ Scanning(r) /\ Len(req[r].scan) = 1
        /\ TakesBest(r) \/ ~ UnderLimit(Looking(r))
        /\ Remembered(r).best = None /\ ~ req[r].byPrice
    BY <1>1 DEF EmptyHanded, AtLast, At, Scanning, Selecting
  <2>2. ~ UnderLimit(Looking(r)) /\ req[r].best = None
    BY <1>1, <2>1, LookedFull
  <2>3. d \in Behind(r) \/ d = Looking(r)
    BY <1>1, <2>1, BehindNext
  <2>4. Spent(r, d)
    BY <1>1, <2>1, <2>2, <2>3, AtLimitSpent DEF SpentInv, LeftSpent
  <2>5. QED
    BY <2>4 DEF Spent
<1>2. TypeOK /\ SpentInv /\ [Next]_vars =>
        [\A r \in Requests :
           EmptyHanded(r) => \A d \in Deployments : Full(d) \/ d \in reset[r]]_vars
  BY <1>1
<1>3. QED
  BY <1>2, TypeCorrect, PassedOver, PTL DEF Spec, RefusedOnlyWhenFull


=============================================================================

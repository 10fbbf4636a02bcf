------------------------- MODULE RateLimiterProofs --------------------------
(***************************************************************************)
(* What holds of the limiters for any limits, windows, clocks and numbers  *)
(* of requests, neighbours and threads: the ceiling on requests            *)
(* (CeilingHolds), the bound on tokens (TokensHold) and the promise of     *)
(* Retry-After (RefusalsHold).  The ceiling needs more than itself: the    *)
(* windows are in order, and after every recent time at most as many       *)
(* requests were let in as the window shows or Redis did not hear of       *)
(* (WindowInv).                                                            *)
(***************************************************************************)
EXTENDS RateLimiter, FiniteSetTheorems, SequenceTheorems, TLAPS

\* A window is sorted by the times of its entries.
Ascending(w) == \A i, j \in DOMAIN w : i <= j => w[i].at <= w[j].at

\* No request can be checked at an earlier time from now on: the local windows
\* are only written under the guard, at the time its holder read.
Earliest ==
  IF guard \in Requests /\ req[guard].stage = "rpm" THEN req[guard].at ELSE now

\* The windows are in order.
InOrder ==
  /\ Ascending(rpm) /\ Ascending(admitted)
  /\ \A r \in Requests : req[r].stage = "rpm" => req[r].at <= now
  /\ limiter = "local" =>
       \A w \in {rpm, admitted} : \A i \in DOMAIN w : w[i].at <= Earliest

\* The times after which the window can still tell how many were let in.
Recent(t) ==
  /\ admitted # <<>> => t >= Last(admitted).at - Window
  /\ limiter = "local" => t >= Earliest - Window

\* What is counted is what was let in, but for what Redis did not hear of: after
\* any recent time.
Counted ==
  \A t \in Int : Recent(t) =>
    Len(Later(admitted, t)) <= Len(Later(rpm, t)) + uncounted

WindowInv ==
  /\ InOrder
  /\ Counted
  /\ Len(rpm) <= RpmLimit[limiter]
  /\ RpmCeiling

\* Requests that were let through and whose tokens may still be recorded.
Spending == {r \in Requests : req[r].stage \in {"running", "streaming", "recording"}}

TokensInv ==
  limiter = "local" =>
    /\ records = <<>>
    /\ TpmLimit > 0 =>
         TokensIn(tpm) + Max(Tokens) * Cardinality(Spending)
           <= TpmLimit - 1 + Max(Tokens) * Cardinality(Requests)

\* When the request returns, at the earliest.
Return(r) ==
  IF req[r].stage \in {"refused", "blocked"} THEN req[r].at + req[r].told * Second
  ELSE req[r].at

\* Once refused, a request returns less than a second before the entry has left;
\* twice refused, after that.
RefusalInv ==
  \A r \in Requests :
    /\ req[r].times <= 2
    /\ req[r].times > 0 => req[r].stage \in {"refused", "blocked", "rpm", "tpm"}
    /\ req[r].times > 0 /\ req[r].stage = "blocked" => now >= Return(r)
    /\ req[r].times = 1 => Return(r) + Second > req[r].blame + Window
    /\ req[r].times = 2 => Return(r) > req[r].blame + Window

\* A set of numbers that is not empty has a least element.  What an induction over
\* the length of a window would show is shown from its least counterexample.
LEMMA Least ==
  ASSUME NEW S \in SUBSET Nat, S # {}
  PROVE  \E x \in S : \A y \in S : x <= y
<1> DEFINE Below == {0 .. x - 1 : x \in S}
<1>1. IsWellFoundedOn(StrictSubsetOrdering(Nat), FiniteSubsetsOf(Nat))
  BY FS_StrictSubsetOrderingWellFounded
<1>2. Below \subseteq FiniteSubsetsOf(Nat)
  <2>1. \A x \in S : 0 .. x - 1 \in SUBSET Nat /\ IsFiniteSet(0 .. x - 1)
    BY FS_Interval
  <2>2. QED
    BY <2>1 DEF FiniteSubsetsOf
<1>3. PICK b \in Below : \A c \in Below : <<c, b>> \notin StrictSubsetOrdering(Nat)
  <2>1. Below # {}
    OBVIOUS
  <2>2. QED
    BY <1>1, <1>2, <2>1, WFMin
<1>4. PICK x \in S : b = 0 .. x - 1
  OBVIOUS
<1>5. ASSUME NEW y \in S, y < x PROVE FALSE
  <2>1. y \in 0 .. x - 1 /\ y \notin 0 .. y - 1
    BY <1>5
  <2>2. 0 .. y - 1 \subseteq 0 .. x - 1 /\ 0 .. y - 1 # 0 .. x - 1
    BY <2>1, <1>5
  <2>3. 0 .. y - 1 \in SUBSET Nat /\ 0 .. x - 1 \in SUBSET Nat
    OBVIOUS
  <2>4. <<0 .. y - 1, b>> \in StrictSubsetOrdering(Nat)
    BY <2>2, <2>3, <1>4 DEF StrictSubsetOrdering
  <2>5. QED
    BY <2>4, <1>3
<1>6. QED
  BY <1>5

\* Min of the library is the least element.
LEMMA MinIsLeast ==
  ASSUME NEW S \in SUBSET Nat, S # {}
  PROVE  Min(S) \in S /\ \A y \in S : Min(S) <= y
  BY Least DEF Min

\* Entries that carry their time.
Timed(S) == \A e \in S : e.at \in Nat

\* v is what is left of w without its first k entries.
Cut(w, v, k) ==
  /\ k \in 0 .. Len(w)
  /\ Len(v) = Len(w) - k
  /\ \A i \in 1 .. Len(v) : v[i] = w[k + i]

\* Emptying a window up to its first fresh entry cuts exactly what lies before it.
LEMMA FromFirstCuts ==
  ASSUME NEW S, NEW w \in Seq(S), NEW fresh \in SUBSET (1 .. Len(w))
  PROVE  /\ FromFirst(w, fresh) \in Seq(S)
         /\ \E k \in 0 .. Len(w) :
              /\ Cut(w, FromFirst(w, fresh), k)
              /\ \A i \in 1 .. k : i \notin fresh
              /\ k < Len(w) => k + 1 \in fresh
<1> DEFINE all == fresh \cup {Len(w) + 1}
           k   == Min(all) - 1
           v   == SubSeq(w, k + 1, Len(w))
<1>1. Len(w) \in Nat
  BY LenProperties
<1>0. ASSUME NEW y \in all PROVE y \in 1 .. Len(w) + 1
  <2>1. CASE y \in fresh
    <3>1. y \in 1 .. Len(w)
      BY <2>1
    <3>2. QED
      BY <1>1, <3>1
  <2>2. CASE y = Len(w) + 1
    BY <1>1, <2>2
  <2>3. QED
    BY <2>1, <2>2
<1>2. Min(all) \in all /\ \A y \in all : Min(all) <= y
  <2>1. all \in SUBSET Nat /\ all # {}
    <3>1. all # {}
      OBVIOUS
    <3> HIDE DEF all
    <3>2. \A y \in all : y \in Nat
      BY <1>0, <1>1
    <3>3. QED
      BY <3>1, <3>2
  <2> HIDE DEF all
  <2>2. QED
    BY <2>1, MinIsLeast
<1>3. Min(all) \in 1 .. Len(w) + 1 /\ k \in 0 .. Len(w) /\ k + 1 = Min(all)
  <2>1. Min(all) \in 1 .. Len(w) + 1
    BY <1>0, <1>2
  <2> HIDE DEF all
  <2>2. QED
    BY <1>1, <2>1
<1>4. \A i \in k + 1 .. Len(w) : w[i] \in S
  BY <1>3, ElementOfSeq
<1>5. /\ v \in Seq(S)
      /\ Len(v) = IF k + 1 <= Len(w) THEN Len(w) - (k + 1) + 1 ELSE 0
      /\ \A i \in 1 .. Len(w) - (k + 1) + 1 : v[i] = w[(k + 1) + i - 1]
  <2> HIDE DEF k
  <2>1. k + 1 \in Int
    BY <1>3
  <2>2. QED
    BY <1>1, <1>4, <2>1, SubSeqProperties
<1>6. FromFirst(w, fresh) = v
  BY <1>3 DEF FromFirst
<1>7. Cut(w, v, k)
  <2> HIDE DEF k, v
  <2>1. QED
    BY <1>1, <1>3, <1>5 DEF Cut
<1>8. \A i \in 1 .. k : i \notin fresh
  <2>1. \A i \in fresh : k + 1 <= i
    BY <1>2, <1>3
  <2> HIDE DEF k, v, all
  <2>2. QED
    BY <1>1, <1>3, <2>1
<1>9. k < Len(w) => k + 1 \in fresh
  <2>1. k + 1 \in fresh \/ k + 1 = Len(w) + 1
    BY <1>2, <1>3
  <2> HIDE DEF k, v, all
  <2>2. QED
    BY <1>1, <1>3, <2>1
<1>10. QED
  <2> HIDE DEF k, v
  <2>1. QED
    BY <1>3, <1>5, <1>6, <1>7, <1>8, <1>9

\* The entries after a time are what is left once those up to it are cut off, in a
\* window that is in order.
LEMMA LaterCuts ==
  ASSUME NEW S, Timed(S), NEW w \in Seq(S), NEW t \in Int, Ascending(w)
  PROVE  /\ Later(w, t) \in Seq(S)
         /\ \E k \in 0 .. Len(w) :
              /\ Cut(w, Later(w, t), k)
              /\ \A i \in 1 .. k : w[i].at <= t
              /\ \A i \in k + 1 .. Len(w) : w[i].at > t
<1> DEFINE fresh == {i \in DOMAIN w : w[i].at > t}
<1>1. DOMAIN w = 1 .. Len(w) /\ Len(w) \in Nat /\ \A i \in 1 .. Len(w) : w[i].at \in Nat
  BY LenProperties, ElementOfSeq DEF Timed
<1>2. Later(w, t) = FromFirst(w, fresh) /\ fresh \in SUBSET (1 .. Len(w))
  BY <1>1 DEF Later
<1>3. PICK k \in 0 .. Len(w) :
        /\ Cut(w, Later(w, t), k)
        /\ \A i \in 1 .. k : i \notin fresh
        /\ k < Len(w) => k + 1 \in fresh
  <2> HIDE DEF fresh
  <2>1. \E k \in 0 .. Len(w) :
              /\ Cut(w, FromFirst(w, fresh), k)
              /\ \A i \in 1 .. k : i \notin fresh
              /\ k < Len(w) => k + 1 \in fresh
    BY <1>2, FromFirstCuts
  <2>2. QED
    BY <1>2, <2>1
<1>4. \A i \in 1 .. k : w[i].at <= t
  BY <1>1, <1>3
<1>5. \A i \in k + 1 .. Len(w) : w[i].at > t
  <2> SUFFICES ASSUME NEW i \in k + 1 .. Len(w) PROVE w[i].at > t
    OBVIOUS
  <2>1. k + 1 \in 1 .. Len(w) /\ i \in 1 .. Len(w) /\ k + 1 <= i /\ w[k + 1].at > t
    BY <1>1, <1>3
  <2>2. w[k + 1].at <= w[i].at
    BY <1>1, <2>1 DEF Ascending
  <2>3. QED
    BY <1>1, <2>1, <2>2
<1>6. Later(w, t) \in Seq(S)
  <2> HIDE DEF fresh
  <2>1. QED
    BY <1>2, FromFirstCuts
<1>7. QED
  BY <1>3, <1>4, <1>5, <1>6

\* The number of later entries.
LEMMA LaterLen ==
  ASSUME NEW S, Timed(S), NEW w \in Seq(S), NEW t \in Int, Ascending(w),
         NEW k \in 0 .. Len(w),
         \A i \in 1 .. k : w[i].at <= t,
         \A i \in k + 1 .. Len(w) : w[i].at > t
  PROVE  Len(Later(w, t)) = Len(w) - k
<1>1. Len(w) \in Nat /\ \A i \in 1 .. Len(w) : w[i].at \in Nat
  BY LenProperties, ElementOfSeq DEF Timed
<1>2. PICK m \in 0 .. Len(w) :
        /\ Cut(w, Later(w, t), m)
        /\ \A i \in 1 .. m : w[i].at <= t
        /\ \A i \in m + 1 .. Len(w) : w[i].at > t
  BY LaterCuts
<1>3. m = k
  <2>1. CASE m < k
    <3>1. k \in 1 .. k /\ k \in m + 1 .. Len(w)
      BY <1>1, <2>1
    <3>2. QED
      BY <1>1, <1>2, <3>1
  <2>2. CASE k < m
    <3>1. m \in 1 .. m /\ m \in k + 1 .. Len(w)
      BY <1>1, <2>2
    <3>2. QED
      BY <1>1, <1>2, <3>1
  <2>3. QED
    BY <1>1, <2>1, <2>2
<1>4. QED
  BY <1>2, <1>3 DEF Cut

\* An entry that is put in its place.
LEMMA InsertAscends ==
  ASSUME NEW S, Timed(S), NEW w \in Seq(S), NEW e \in S, Ascending(w)
  PROVE  /\ Insert(w, e) \in Seq(S)
         /\ Len(Insert(w, e)) = Len(w) + 1
         /\ Ascending(Insert(w, e))
         /\ \E k \in 0 .. Len(w) :
              /\ \A i \in 1 .. k : Insert(w, e)[i] = w[i] /\ w[i].at <= e.at
              /\ Insert(w, e)[k + 1] = e
              /\ \A i \in k + 1 .. Len(w) : Insert(w, e)[i + 1] = w[i] /\ w[i].at > e.at
<1> DEFINE later == Later(w, e.at)
           v     == Insert(w, e)
<1>1. Len(w) \in Nat /\ \A i \in 1 .. Len(w) : w[i] \in S /\ w[i].at \in Nat
  BY LenProperties, ElementOfSeq DEF Timed
<1>2. e.at \in Nat
  BY DEF Timed
<1>3. PICK k \in 0 .. Len(w) :
        /\ Cut(w, later, k)
        /\ \A i \in 1 .. k : w[i].at <= e.at
        /\ \A i \in k + 1 .. Len(w) : w[i].at > e.at
  <2>1. e.at \in Int
    BY <1>2
  <2>2. QED
    BY <2>1, LaterCuts
<1>4. later \in Seq(S) /\ Len(later) = Len(w) - k
      /\ \A i \in 1 .. Len(later) : later[i] = w[k + i]
  BY <1>2, <1>3, LaterCuts DEF Cut
<1> DEFINE front == SubSeq(w, 1, k)
<1>5. /\ front \in Seq(S) /\ Len(front) = k
      /\ \A i \in 1 .. k : front[i] = w[i]
  <2>1. \A i \in 1 .. k : w[i] \in S
    BY <1>1
  <2>2. k \in Int /\ 1 \in Int
    OBVIOUS
  <2>3. /\ front \in Seq(S) /\ Len(front) = IF 1 <= k THEN k - 1 + 1 ELSE 0
        /\ \A i \in 1 .. k - 1 + 1 : front[i] = w[1 + i - 1]
    BY <2>1, <2>2, SubSeqProperties
  <2>4. QED
    BY <1>1, <2>3
<1>6. v = front \o <<e>> \o later
  BY <1>1, <1>4 DEF Insert
<1> HIDE DEF v, front, later
<1>7. <<e>> \in Seq(S) /\ Len(<<e>>) = 1 /\ <<e>>[1] = e
  OBVIOUS
<1> DEFINE head == front \o <<e>>
<1>8. /\ head \in Seq(S) /\ Len(head) = k + 1
      /\ \A i \in 1 .. k + 1 : head[i] = IF i <= k THEN w[i] ELSE e
  <2>1. /\ head \in Seq(S) /\ Len(head) = Len(front) + Len(<<e>>)
        /\ \A i \in 1 .. Len(front) + Len(<<e>>) : head[i] =
              IF i <= Len(front) THEN front[i] ELSE <<e>>[i - Len(front)]
    BY <1>5, <1>7, ConcatProperties
  <2> HIDE DEF head
  <2>2. ASSUME NEW i \in 1 .. k + 1
        PROVE  head[i] = IF i <= k THEN w[i] ELSE e
    <3>1. CASE i <= k
      BY <1>5, <1>7, <2>1, <3>1
    <3>2. CASE i = k + 1
      <4>1. i - Len(front) = 1
        BY <1>5, <3>2
      <4>2. QED
        BY <1>5, <1>7, <2>1, <3>2, <4>1
    <3>3. i <= k \/ i = k + 1
      BY <1>1
    <3>4. QED
      BY <3>1, <3>2, <3>3
  <2>3. QED
    BY <1>5, <1>7, <2>1, <2>2
<1>9. /\ v \in Seq(S) /\ Len(v) = Len(w) + 1
      /\ \A i \in 1 .. Len(w) + 1 : v[i] =
            IF i <= k THEN w[i] ELSE IF i = k + 1 THEN e ELSE w[i - 1]
  <2>0. v = head \o later
    BY <1>6
  <2> HIDE DEF head
  <2>1. /\ v \in Seq(S) /\ Len(v) = Len(head) + Len(later)
        /\ \A i \in 1 .. Len(head) + Len(later) : v[i] =
              IF i <= Len(head) THEN head[i] ELSE later[i - Len(head)]
    BY <1>4, <1>8, <2>0, ConcatProperties
  <2>2. Len(v) = Len(w) + 1 /\ Len(head) + Len(later) = Len(w) + 1
    BY <1>1, <1>4, <1>8, <2>1
  <2>3. ASSUME NEW i \in 1 .. Len(w) + 1
        PROVE  v[i] = IF i <= k THEN w[i] ELSE IF i = k + 1 THEN e ELSE w[i - 1]
    <3>0. v[i] = IF i <= Len(head) THEN head[i] ELSE later[i - Len(head)]
      BY <2>1, <2>2
    <3>1. CASE i <= k + 1
      <4>1. v[i] = head[i] /\ i \in 1 .. k + 1
        BY <1>1, <1>8, <3>0, <3>1
      <4>2. head[i] = IF i <= k THEN w[i] ELSE e
        BY <1>8, <4>1
      <4>3. QED
        BY <1>1, <3>1, <4>1, <4>2
    <3>2. CASE i > k + 1
      <4>1. v[i] = later[i - (k + 1)] /\ i - (k + 1) \in 1 .. Len(later)
        BY <1>1, <1>4, <1>8, <3>0, <3>2
      <4>2. later[i - (k + 1)] = w[k + (i - (k + 1))]
        BY <1>4, <4>1
      <4>3. k + (i - (k + 1)) = i - 1
        BY <1>1
      <4>4. QED
        BY <1>1, <3>2, <4>1, <4>2, <4>3
    <3>3. QED
      BY <1>1, <3>1, <3>2
  <2>4. QED
    BY <2>1, <2>2, <2>3
<1>10. Ascending(v)
  <2> SUFFICES ASSUME NEW i \in 1 .. Len(w) + 1, NEW j \in 1 .. Len(w) + 1, i <= j
               PROVE  v[i].at <= v[j].at
    BY <1>9, LenProperties DEF Ascending
  <2>1. ASSUME NEW a \in 1 .. Len(w), NEW b \in 1 .. Len(w), a <= b
        PROVE  w[a].at <= w[b].at
    BY <2>1, LenProperties DEF Ascending
  <2>2. CASE j <= k
    <3>1. v[i] = w[i] /\ v[j] = w[j] /\ i \in 1 .. Len(w) /\ j \in 1 .. Len(w)
      BY <1>1, <1>9, <2>2
    <3>2. QED
      BY <2>1, <3>1
  <2>3. CASE j = k + 1
    <3>1. v[j] = e /\ (i <= k => v[i] = w[i] /\ w[i].at <= e.at) /\ (i > k => v[i] = e)
      BY <1>1, <1>3, <1>9, <2>3
    <3>2. QED
      BY <1>1, <1>2, <3>1
  <2>4. CASE j > k + 1
    <3>1. v[j] = w[j - 1] /\ j - 1 \in k + 1 .. Len(w) /\ w[j - 1].at > e.at
      BY <1>1, <1>3, <1>9, <2>4
    <3>2. CASE i <= k
      <4>1. v[i] = w[i] /\ i \in 1 .. Len(w) /\ j - 1 \in 1 .. Len(w) /\ i <= j - 1
        BY <1>1, <1>9, <2>4, <3>2
      <4>2. w[i].at <= w[j - 1].at
        BY <2>1, <4>1
      <4>3. QED
        BY <3>1, <4>1, <4>2
    <3>3. CASE i = k + 1
      <4>1. v[i] = e
        BY <1>1, <1>9, <3>3
      <4>2. w[j - 1].at \in Nat /\ e.at \in Nat
        BY <1>1, <1>2, <3>1
      <4>3. QED
        BY <3>1, <4>1, <4>2
    <3>4. CASE i > k + 1
      <4>1. v[i] = w[i - 1] /\ i - 1 \in 1 .. Len(w) /\ j - 1 \in 1 .. Len(w) /\ i - 1 <= j - 1
        BY <1>1, <1>9, <2>4, <3>4
      <4>2. QED
        BY <2>1, <3>1, <4>1
    <3>5. QED
      BY <1>1, <3>2, <3>3, <3>4
  <2>5. QED
    BY <1>1, <2>2, <2>3, <2>4
<1>11. /\ \A i \in 1 .. k : v[i] = w[i] /\ w[i].at <= e.at
       /\ v[k + 1] = e
       /\ \A i \in k + 1 .. Len(w) : v[i + 1] = w[i] /\ w[i].at > e.at
  <2>1. ASSUME NEW i \in k + 1 .. Len(w) PROVE v[i + 1] = w[i]
    <3>1. i + 1 \in 1 .. Len(w) + 1 /\ ~(i + 1 <= k) /\ i + 1 # k + 1 /\ (i + 1) - 1 = i
      BY <1>1
    <3>2. QED
      BY <1>9, <3>1
  <2>2. QED
    BY <1>1, <1>3, <1>9, <2>1
<1>12. QED
  BY <1>9, <1>10, <1>11 DEF v
\* A window that lost its front tells as much of the times after it.
LEMMA CutLater ==
  ASSUME NEW S, Timed(S), NEW w \in Seq(S), NEW v \in Seq(S), Ascending(w),
         NEW k \in 0 .. Len(w), Cut(w, v, k), NEW t \in Int,
         \A i \in 1 .. k : w[i].at <= t
  PROVE  Ascending(v) /\ Len(Later(v, t)) = Len(Later(w, t))
<1>1. /\ Len(w) \in Nat /\ Len(v) \in Nat /\ DOMAIN w = 1 .. Len(w) /\ DOMAIN v = 1 .. Len(v)
      /\ \A i \in 1 .. Len(w) : w[i].at \in Nat
  BY LenProperties, ElementOfSeq DEF Timed
<1>2. Len(v) = Len(w) - k /\ \A i \in 1 .. Len(v) : v[i] = w[k + i]
  BY DEF Cut
<1>3. Ascending(v)
  <2> SUFFICES ASSUME NEW i \in 1 .. Len(v), NEW j \in 1 .. Len(v), i <= j
               PROVE  v[i].at <= v[j].at
    BY <1>1 DEF Ascending
  <2>1. k + i \in 1 .. Len(w) /\ k + j \in 1 .. Len(w) /\ k + i <= k + j
    BY <1>1, <1>2
  <2>2. w[k + i].at <= w[k + j].at
    BY <1>1, <2>1 DEF Ascending
  <2>3. QED
    BY <1>2, <2>2
<1>4. PICK m \in 0 .. Len(w) :
        /\ Cut(w, Later(w, t), m)
        /\ \A i \in 1 .. m : w[i].at <= t
        /\ \A i \in m + 1 .. Len(w) : w[i].at > t
  BY LaterCuts
<1>5. k <= m
  <2> SUFFICES ASSUME m < k PROVE FALSE
    BY <1>1
  <2>1. k \in 1 .. k /\ k \in m + 1 .. Len(w)
    BY <1>1
  <2>2. QED
    BY <1>1, <1>4, <2>1
<1>6. m - k \in 0 .. Len(v)
  BY <1>1, <1>2, <1>5
<1>7. \A i \in 1 .. m - k : v[i].at <= t
  <2> SUFFICES ASSUME NEW i \in 1 .. m - k PROVE v[i].at <= t
    OBVIOUS
  <2>1. k + i \in 1 .. m /\ i \in 1 .. Len(v)
    BY <1>1, <1>2, <1>5
  <2>2. QED
    BY <1>2, <1>4, <2>1
<1>8. \A i \in (m - k) + 1 .. Len(v) : v[i].at > t
  <2> SUFFICES ASSUME NEW i \in (m - k) + 1 .. Len(v) PROVE v[i].at > t
    OBVIOUS
  <2>1. k + i \in m + 1 .. Len(w) /\ i \in 1 .. Len(v)
    BY <1>1, <1>2, <1>5
  <2>2. QED
    BY <1>2, <1>4, <2>1
<1>9. Len(Later(v, t)) = Len(v) - (m - k)
  <2> HIDE DEF Timed, Ascending, Later
  <2>1. QED
    BY <1>3, <1>6, <1>7, <1>8, LaterLen
<1>10. Len(Later(w, t)) = Len(w) - m
  BY <1>4 DEF Cut
<1>11. QED
  BY <1>1, <1>2, <1>3, <1>9, <1>10

\* No more entries are later than there are.
LEMMA LaterFewer ==
  ASSUME NEW S, Timed(S), NEW w \in Seq(S), Ascending(w), NEW t \in Int
  PROVE  Len(Later(w, t)) \in Nat /\ Len(Later(w, t)) <= Len(w)
<1>1. PICK k \in 0 .. Len(w) : Cut(w, Later(w, t), k)
  BY LaterCuts
<1>2. Len(w) \in Nat
  BY LenProperties
<1>3. QED
  BY <1>1, <1>2 DEF Cut

\* An entry put in its place is counted with the times before its own.
LEMMA InsertLater ==
  ASSUME NEW S, Timed(S), NEW w \in Seq(S), NEW e \in S, Ascending(w), NEW t \in Int
  PROVE  Len(Later(Insert(w, e), t)) = Len(Later(w, t)) + IF e.at > t THEN 1 ELSE 0
<1> DEFINE v == Insert(w, e)
<1>1. /\ Len(w) \in Nat /\ e.at \in Nat
      /\ \A i \in 1 .. Len(w) : w[i].at \in Nat
  BY LenProperties, ElementOfSeq DEF Timed
<1>2. v \in Seq(S) /\ Len(v) = Len(w) + 1 /\ Ascending(v)
  BY InsertAscends
<1>3. PICK k \in 0 .. Len(w) :
        /\ \A i \in 1 .. k : v[i] = w[i] /\ w[i].at <= e.at
        /\ v[k + 1] = e
        /\ \A i \in k + 1 .. Len(w) : v[i + 1] = w[i] /\ w[i].at > e.at
  BY InsertAscends
<1>4. PICK m \in 0 .. Len(w) :
        /\ Cut(w, Later(w, t), m)
        /\ \A i \in 1 .. m : w[i].at <= t
        /\ \A i \in m + 1 .. Len(w) : w[i].at > t
  BY LaterCuts
<1>5. Len(Later(w, t)) = Len(w) - m
  BY <1>4 DEF Cut
<1> HIDE DEF v
<1>6. CASE e.at > t
  <2>1. m <= k
    <3> SUFFICES ASSUME k < m PROVE FALSE
      BY <1>1
    <3>1. m \in 1 .. m /\ m \in k + 1 .. Len(w)
      BY <1>1
    <3>2. QED
      BY <1>1, <1>3, <1>4, <1>6, <3>1
  <2>2. m \in 0 .. Len(v)
    BY <1>1, <1>2
  <2>3. \A i \in 1 .. m : v[i].at <= t
    <3> SUFFICES ASSUME NEW i \in 1 .. m PROVE v[i].at <= t
      OBVIOUS
    <3>1. i \in 1 .. k
      BY <1>1, <2>1
    <3>2. QED
      BY <1>3, <1>4, <3>1
  <2>4. \A i \in m + 1 .. Len(v) : v[i].at > t
    <3> SUFFICES ASSUME NEW i \in m + 1 .. Len(v) PROVE v[i].at > t
      OBVIOUS
    <3>1. CASE i <= k
      <4>1. i \in 1 .. k /\ i \in m + 1 .. Len(w)
        BY <1>1, <3>1
      <4>2. QED
        BY <1>3, <1>4, <4>1
    <3>2. CASE i = k + 1
      BY <1>3, <1>6, <3>2
    <3>3. CASE i > k + 1
      <4>1. i - 1 \in k + 1 .. Len(w) /\ (i - 1) + 1 = i
        BY <1>1, <1>2, <3>3
      <4>2. v[i] = w[i - 1] /\ w[i - 1].at > e.at
        BY <1>3, <4>1
      <4>3. i - 1 \in 1 .. Len(w)
        BY <1>1, <4>1
      <4>4. QED
        BY <1>1, <1>6, <4>2, <4>3
    <3>4. QED
      BY <1>1, <3>1, <3>2, <3>3
  <2>5. Len(Later(v, t)) = Len(v) - m
    BY <1>2, <2>2, <2>3, <2>4, LaterLen
  <2>6. QED
    BY <1>1, <1>2, <1>5, <1>6, <2>5 DEF v
<1>7. CASE e.at <= t
  <2>1. k <= m
    <3> SUFFICES ASSUME m < k PROVE FALSE
      BY <1>1
    <3>1. k \in 1 .. k /\ k \in m + 1 .. Len(w) /\ k \in 1 .. Len(w)
      BY <1>1
    <3>2. QED
      BY <1>1, <1>3, <1>4, <1>7, <3>1
  <2>2. m + 1 \in 0 .. Len(v)
    BY <1>1, <1>2
  <2>3. \A i \in 1 .. m + 1 : v[i].at <= t
    <3> SUFFICES ASSUME NEW i \in 1 .. m + 1 PROVE v[i].at <= t
      OBVIOUS
    <3>1. CASE i <= k
      <4>1. i \in 1 .. k /\ i \in 1 .. m
        BY <1>1, <2>1, <3>1
      <4>2. QED
        BY <1>3, <1>4, <4>1
    <3>2. CASE i = k + 1
      BY <1>3, <1>7, <3>2
    <3>3. CASE i > k + 1
      <4>1. i - 1 \in k + 1 .. Len(w) /\ (i - 1) + 1 = i /\ i - 1 \in 1 .. m
        BY <1>1, <1>2, <3>3
      <4>2. v[i] = w[i - 1]
        BY <1>3, <4>1
      <4>3. QED
        BY <1>4, <4>1, <4>2
    <3>4. QED
      BY <1>1, <3>1, <3>2, <3>3
  <2>4. \A i \in (m + 1) + 1 .. Len(v) : v[i].at > t
    <3> SUFFICES ASSUME NEW i \in (m + 1) + 1 .. Len(v) PROVE v[i].at > t
      OBVIOUS
    <3>1. i - 1 \in k + 1 .. Len(w) /\ (i - 1) + 1 = i /\ i - 1 \in m + 1 .. Len(w)
      BY <1>1, <1>2, <2>1
    <3>2. v[i] = w[i - 1]
      BY <1>3, <3>1
    <3>3. QED
      BY <1>4, <3>1, <3>2
  <2>5. Len(Later(v, t)) = Len(v) - (m + 1)
    BY <1>2, <2>2, <2>3, <2>4, LaterLen
  <2>6. ~(e.at > t)
    BY <1>1, <1>7
  <2>7. QED
    BY <1>1, <1>2, <1>5, <2>5, <2>6 DEF v
<1>8. QED
  BY <1>1, <1>6, <1>7
\* The greater of two.
LEMMA MaxOfTwo ==
  ASSUME NEW a \in Int, NEW b \in Int
  PROVE  Max({a, b}) = IF a >= b THEN a ELSE b
<1> DEFINE m == IF a >= b THEN a ELSE b
<1>1. m \in {a, b} /\ \A y \in {a, b} : m >= y
  OBVIOUS
<1>2. \A x \in {a, b} : (\A y \in {a, b} : x >= y) => x = m
  OBVIOUS
<1> HIDE DEF m
<1>3. QED
  BY <1>1, <1>2 DEF Max, m

\* Whole seconds.
LEMMA Seconds ==
  ASSUME NEW d \in Nat
  PROVE  /\ d \div Second \in Nat
         /\ (d \div Second) * Second <= d
         /\ d < (d \div Second) * Second + Second
  BY LimitsAssumption

\* What a refused request is told.
LEMMA Told ==
  ASSUME NEW oldest \in Nat, NEW at \in Nat
  PROVE  /\ RetryAfter(oldest, at) \in Nat \ {0}
         /\ at + RetryAfter(oldest, at) * Second + Second > oldest + Window
         /\ RetryAfter(oldest, at) * Second >= Second
<1> DEFINE d == IF oldest + Window - at >= 0 THEN oldest + Window - at ELSE 0
           q == d \div Second
           n == IF q >= 1 THEN q ELSE 1
<1>1. Window \in Nat /\ Second \in Nat \ {0}
  BY LimitsAssumption
<1>2. d \in Nat /\ Max({oldest + Window - at, 0}) = d
  BY <1>1, MaxOfTwo
<1> HIDE DEF d
<1>3. q \in Nat /\ q * Second <= d /\ d < q * Second + Second
  BY <1>2, Seconds
<1> HIDE DEF q
<1>4. n \in Nat \ {0} /\ Max({q, 1}) = n
  BY <1>3, MaxOfTwo
<1>5. RetryAfter(oldest, at) = n
  BY <1>2, <1>4 DEF RetryAfter, q
<1>6. n * Second >= Second /\ n * Second >= q * Second
  <2>1. CASE q >= 1
    <3>1. n = q
      BY <2>1
    <3>2. q * Second >= 1 * Second
      BY <1>1, <1>3, <2>1
    <3>3. QED
      BY <1>1, <1>3, <3>1, <3>2
  <2>2. CASE q = 0
    <3>1. n = 1 /\ q * Second = 0
      BY <1>1, <2>2
    <3>2. QED
      BY <1>1, <3>1
  <2>3. QED
    BY <1>3, <2>1, <2>2
<1> HIDE DEF n
<1>7. d >= oldest + Window - at
  BY <1>1 DEF d
<1>8. n * Second \in Nat /\ q * Second \in Nat
  BY <1>1, <1>3, <1>4
<1>9. QED
  BY <1>1, <1>2, <1>3, <1>4, <1>5, <1>6, <1>7, <1>8

\* The entries of the two windows.
RpmEntry == [at : Nat]
TpmEntry == [at : Nat, tokens : Tokens]

\* The entries of both windows carry their time.
LEMMA EntriesTimed == Timed(RpmEntry) /\ Timed(TpmEntry)
  BY DEF Timed, RpmEntry, TpmEntry

\* What expires is the front of a window, and old.
LEMMA ExpireCuts ==
  ASSUME NEW S, Timed(S), NEW w \in Seq(S), NEW at \in Nat
  PROVE  /\ Expire(w, at) \in Seq(S)
         /\ \E k \in 0 .. Len(w) :
              /\ Cut(w, Expire(w, at), k)
              /\ \A i \in 1 .. k : w[i].at <= at - Window
         /\ Expire(w, at) # <<>> => Expire(w, at)[1].at >= at - Window
<1> DEFINE fresh == IF limiter = "local" THEN {i \in DOMAIN w : w[i].at >= at - Window}
                    ELSE {i \in DOMAIN w : w[i].at > at - Window}
           v == Expire(w, at)
<1>1. /\ Len(w) \in Nat /\ DOMAIN w = 1 .. Len(w) /\ Window \in Nat
      /\ \A i \in 1 .. Len(w) : w[i].at \in Nat
  BY LenProperties, ElementOfSeq, LimitsAssumption DEF Timed
<1>2. v = FromFirst(w, fresh)
  BY DEF Expire, Drain, Trim, Later
<1>3. fresh \in SUBSET (1 .. Len(w))
  BY <1>1
<1>4. \A i \in 1 .. Len(w) : /\ i \notin fresh => w[i].at <= at - Window
                             /\ i \in fresh => w[i].at >= at - Window
  BY <1>1
<1> HIDE DEF fresh, v
<1>5. v \in Seq(S)
  BY <1>2, <1>3, FromFirstCuts
<1>6. PICK k \in 0 .. Len(w) :
        /\ Cut(w, v, k)
        /\ \A i \in 1 .. k : i \notin fresh
        /\ k < Len(w) => k + 1 \in fresh
  BY <1>2, <1>3, FromFirstCuts
<1>7. \A i \in 1 .. k : w[i].at <= at - Window
  BY <1>1, <1>4, <1>6
<1>8. v # <<>> => v[1].at >= at - Window
  <2> SUFFICES ASSUME v # <<>> PROVE v[1].at >= at - Window
    OBVIOUS
  <2>1. Len(v) \in Nat \ {0}
    BY <1>5, EmptySeq
  <2>2. Len(v) = Len(w) - k /\ \A i \in 1 .. Len(v) : v[i] = w[k + i]
    BY <1>6 DEF Cut
  <2>3. k + 1 \in 1 .. Len(w) /\ k < Len(w) /\ 1 \in 1 .. Len(v)
    <3>1. Len(w) \in Nat /\ k \in Nat
      BY <1>1
    <3>2. 1 \in 1 .. Len(v)
      BY <2>1
    <3>3. Len(v) >= 1
      BY <2>1
    <3>4. k + 1 <= Len(w)
      BY <2>2, <3>1, <3>3
    <3>5. QED
      BY <3>1, <3>2, <3>4
  <2>4. v[1] = w[k + 1]
    BY <2>2, <2>3
  <2>5. QED
    BY <1>4, <1>6, <2>3, <2>4
<1>9. QED
  BY <1>5, <1>6, <1>7, <1>8 DEF v

\* What is stored is a window again.
LEMMA StoreType ==
  ASSUME NEW S, Timed(S), NEW w \in Seq(S), NEW e \in S,
         limiter # "local" => Ascending(w)
  PROVE  Store(w, e) \in Seq(S) /\ Len(Store(w, e)) = Len(w) + 1
<1>1. CASE limiter = "local"
  BY <1>1, AppendProperties DEF Store
<1>2. CASE limiter # "local"
  BY <1>2, InsertAscends DEF Store
<1>3. QED
  BY <1>1, <1>2

\* An admission, in the record of admissions.
LEMMA AdmitWindow ==
  ASSUME admitted \in Seq(RpmEntry), Ascending(admitted), NEW at \in Nat, Admit(at)
  PROVE  /\ admitted' \in Seq(RpmEntry) /\ Ascending(admitted)' /\ admitted' # <<>>
         /\ Last(admitted').at >= at
         /\ admitted # <<>> => Last(admitted').at >= Last(admitted).at
         /\ Len(admitted') = Len(Later(admitted', Last(admitted').at - Window))
         /\ \A t \in Int : t >= Last(admitted').at - Window =>
              Len(Later(admitted', t)) =
                Len(Later(admitted, t)) + IF at > t THEN 1 ELSE 0
         /\ \A b \in Nat : at <= b /\ (\A i \in DOMAIN admitted : admitted[i].at <= b) =>
              \A i \in DOMAIN admitted' : admitted'[i].at <= b
<1> DEFINE w == admitted
           e == [at |-> at]
           v == Insert(w, e)
           n == Last(v).at
           u == Later(v, n - Window)
           len == Len(w)
<1>1. /\ Len(w) \in Nat /\ DOMAIN w = 1 .. Len(w) /\ Window \in Nat \ {0} /\ Timed(RpmEntry)
      /\ \A i \in 1 .. Len(w) : w[i].at \in Nat
  <2>1. Window \in Nat \ {0}
    BY LimitsAssumption
  <2>2. QED
    BY <2>1, LenProperties, ElementOfSeq, EntriesTimed DEF Timed
<1>2. e \in RpmEntry /\ e.at = at
  BY DEF RpmEntry
<1> HIDE DEF e
<1>3. /\ v \in Seq(RpmEntry) /\ Len(v) = Len(w) + 1 /\ Ascending(v)
      /\ DOMAIN v = 1 .. Len(w) + 1
  BY <1>1, <1>2, InsertAscends, LenProperties
<1>4. PICK k \in 0 .. Len(w) :
        /\ \A i \in 1 .. k : v[i] = w[i] /\ w[i].at <= e.at
        /\ v[k + 1] = e
        /\ \A i \in k + 1 .. Len(w) : v[i + 1] = w[i] /\ w[i].at > e.at
  BY <1>1, <1>2, InsertAscends
<1>5. admitted' = u
  BY <1>2 DEF Admit, e
<1> HIDE DEF v
<1>6. n = v[Len(w) + 1].at /\ n \in Nat
  <2>1. Last(v) = v[Len(v)]
    BY DEF Last
  <2>2. v[Len(w) + 1] \in RpmEntry
    BY <1>1, <1>3, ElementOfSeq
  <2>3. QED
    BY <1>3, <2>1, <2>2 DEF RpmEntry
<1>7. \A i \in 1 .. Len(w) + 1 : v[i].at <= n
  BY <1>1, <1>3, <1>6 DEF Ascending
<1> HIDE DEF n
<1>8. n >= at
  BY <1>1, <1>2, <1>4, <1>7
<1>9. \A i \in 1 .. Len(w) : w[i].at <= n
  <2> SUFFICES ASSUME NEW i \in 1 .. Len(w) PROVE w[i].at <= n
    OBVIOUS
  <2>1. CASE i <= k
    BY <1>1, <1>4, <1>7, <2>1
  <2>2. CASE i > k
    <3>1. i + 1 \in 1 .. Len(w) + 1 /\ i \in k + 1 .. Len(w)
      BY <1>1, <2>2
    <3>2. QED
      BY <1>4, <1>7, <3>1
  <2>3. QED
    BY <1>1, <2>1, <2>2
<1>0. n - Window \in Int
  BY <1>1, <1>6
<1>10. u \in Seq(RpmEntry)
  BY <1>0, <1>1, <1>3, LaterCuts
<1>11. PICK m \in 0 .. Len(v) :
        /\ Cut(v, u, m)
        /\ \A i \in 1 .. m : v[i].at <= n - Window
        /\ \A i \in m + 1 .. Len(v) : v[i].at > n - Window
  BY <1>0, <1>1, <1>3, LaterCuts
<1> HIDE DEF u
<1>12. m < Len(v)
  <2> SUFFICES ASSUME m = Len(v) PROVE FALSE
    BY <1>1, <1>3
  <2>1. v[Len(w) + 1].at <= n - Window
    BY <1>1, <1>3, <1>11
  <2>2. QED
    BY <1>1, <1>6, <2>1
<1>13. /\ Len(u) = Len(v) - m /\ Len(u) \in Nat \ {0} /\ u # <<>>
       /\ \A i \in 1 .. Len(u) : u[i] = v[m + i]
  <2>1. Len(u) = Len(v) - m /\ \A i \in 1 .. Len(u) : u[i] = v[m + i]
    BY <1>11 DEF Cut
  <2>2. Len(u) \in Nat \ {0}
    BY <1>1, <1>3, <1>12, <2>1
  <2>3. QED
    BY <2>1, <2>2, EmptySeq
<1>14. Last(u).at = n
  <2>1. Last(u) = u[Len(u)]
    BY DEF Last
  <2>2. u[Len(u)] = v[Len(w) + 1]
    <3>1. Len(u) \in 1 .. Len(u) /\ m + Len(u) = Len(w) + 1
      BY <1>1, <1>3, <1>13
    <3>2. QED
      BY <1>13, <3>1
  <2>3. QED
    BY <1>6, <2>1, <2>2
<1>15. \A t \in Int : t >= n - Window => Len(Later(u, t)) = Len(Later(v, t))
  <2> SUFFICES ASSUME NEW t \in Int, t >= n - Window
               PROVE  Len(Later(u, t)) = Len(Later(v, t))
    OBVIOUS
  <2>1. \A i \in 1 .. m : v[i].at <= t
    <3> SUFFICES ASSUME NEW i \in 1 .. m PROVE v[i].at <= t
      OBVIOUS
    <3>1. i \in 1 .. Len(v)
      BY <1>1, <1>3
    <3>2. v[i].at \in Nat
      BY <1>1, <1>3, <3>1, ElementOfSeq DEF Timed
    <3>3. v[i].at <= n - Window
      BY <1>11
    <3>4. QED
      BY <1>0, <3>2, <3>3
  <2>2. QED
    BY <1>1, <1>3, <1>10, <1>11, <2>1, CutLater
<1>16. Ascending(u)
  BY <1>0, <1>1, <1>3, <1>10, <1>11, CutLater
<1>17. Len(u) = Len(Later(u, n - Window))
  <2>1. n - Window >= n - Window
    BY <1>0
  <2>2. QED
    BY <1>0, <1>15, <2>1 DEF u
<1>18. \A t \in Int : t >= n - Window =>
         Len(Later(u, t)) = Len(Later(w, t)) + IF at > t THEN 1 ELSE 0
  BY <1>1, <1>2, <1>15, InsertLater DEF v
<1>19. w # <<>> => n >= Last(w).at
  <2> SUFFICES ASSUME w # <<>> PROVE n >= Last(w).at
    OBVIOUS
  <2>1. Len(w) \in 1 .. Len(w)
    BY <1>1, EmptySeq
  <2>2. w[Len(w)].at <= n /\ w[Len(w)].at \in Nat
    BY <1>1, <1>9, <2>1
  <2>3. QED
    BY <1>6, <2>2 DEF Last
<1>20. ASSUME NEW b \in Nat, at <= b, \A i \in DOMAIN w : w[i].at <= b, NEW j \in DOMAIN u
       PROVE  u[j].at <= b
  <2>1. j \in 1 .. Len(u)
    BY <1>10, LenProperties
  <2>2. u[j] = v[m + j] /\ m + j \in 1 .. Len(w) + 1
    BY <1>1, <1>3, <1>13, <2>1
  <2>3. n <= b
    <3>1. CASE k = Len(w)
      BY <1>1, <1>2, <1>4, <1>6, <1>20, <3>1
    <3>2. CASE k < Len(w)
      <4>1. Len(w) \in k + 1 .. Len(w) /\ Len(w) \in DOMAIN w
        BY <1>1, <3>2
      <4>2. v[Len(w) + 1] = w[Len(w)]
        BY <1>4, <4>1
      <4>3. QED
        BY <1>6, <1>20, <4>1, <4>2
    <3>3. k = Len(w) \/ k < Len(w)
      <4>1. Len(w) \in Nat
        BY <1>1, LenProperties
      <4>2. k \in 0 .. Len(w)
        OBVIOUS
      <4>3. QED
        BY <4>1, <4>2
    <3>4. QED
      BY <3>1, <3>2, <3>3
  <2>4. v[m + j].at \in Nat
    BY <1>1, <1>3, <2>2, ElementOfSeq DEF Timed
  <2>5. v[m + j].at <= n
    BY <1>7, <2>2
  <2>6. PICK x : u[j] = x /\ x.at \in Nat /\ x.at <= n
    BY <2>2, <2>4, <2>5
  <2>7. x.at <= b
    BY <1>6, <2>3, <2>6
  <2>8. QED
    BY <2>6, <2>7
<1>21. QED
  BY <1>5, <1>8, <1>10, <1>13, <1>14, <1>16, <1>17, <1>18, <1>19, <1>20 DEF Ascending
-----------------------------------------------------------------------------
\* The entries after a time are entries of the window, and no more than it had.
LEMMA LaterType ==
  ASSUME NEW S, NEW w \in Seq(S), NEW t
  PROVE  Later(w, t) \in Seq(S) /\ Len(Later(w, t)) \in 0 .. Len(w)
<1> DEFINE fresh == {i \in DOMAIN w : w[i].at > t}
<1>1. fresh \in SUBSET (1 .. Len(w)) /\ Len(w) \in Nat
  BY LenProperties
<1>2. Later(w, t) = FromFirst(w, fresh)
  BY DEF Later
<1> HIDE DEF fresh
<1>3. FromFirst(w, fresh) \in Seq(S) /\ \E k \in 0 .. Len(w) : Cut(w, FromFirst(w, fresh), k)
  BY <1>1, FromFirstCuts
<1>4. QED
  BY <1>1, <1>2, <1>3 DEF Cut

\* A window with one more entry is a window, and not empty.
LEMMA InsertType ==
  ASSUME NEW S, NEW w \in Seq(S), NEW e \in S
  PROVE  Insert(w, e) \in Seq(S) /\ Insert(w, e) # <<>>
<1> DEFINE later == Later(w, e.at)
           k     == Len(w) - Len(later)
           front == SubSeq(w, 1, k)
           head  == front \o <<e>>
<1>1. later \in Seq(S) /\ Len(later) \in 0 .. Len(w) /\ Len(w) \in Nat
  BY LaterType, LenProperties
<1> HIDE DEF later
<1>2. k \in 0 .. Len(w)
  BY <1>1
<1>3. \A i \in 1 .. k : w[i] \in S
  BY <1>1, <1>2, ElementOfSeq
<1>4. Insert(w, e) = head \o later
  BY DEF Insert, later
<1> HIDE DEF k
<1>5. front \in Seq(S)
  <2>1. k \in Int /\ 1 \in Int
    BY <1>1, <1>2
  <2>2. QED
    BY <1>3, <2>1, SubSeqProperties
<1> HIDE DEF front
<1>6. <<e>> \in Seq(S) /\ Len(<<e>>) = 1
  OBVIOUS
<1>7. head \in Seq(S) /\ Len(head) = Len(front) + Len(<<e>>)
  BY <1>5, <1>6, ConcatProperties
<1> HIDE DEF head
<1>8. Insert(w, e) \in Seq(S) /\ Len(Insert(w, e)) = Len(head) + Len(later)
  BY <1>1, <1>4, <1>7, ConcatProperties
<1>9. Len(Insert(w, e)) # 0
  BY <1>1, <1>5, <1>6, <1>7, <1>8, LenProperties
<1>10. QED
  BY <1>8, <1>9, EmptySeq

\* What Admit keeps of the times at which requests were let in is a window.
LEMMA AdmitType ==
  ASSUME admitted \in Seq(RpmEntry), NEW at \in Nat, Admit(at)
  PROVE  admitted' \in Seq(RpmEntry)
<1>1. [at |-> at] \in RpmEntry
  BY DEF RpmEntry
<1>2. Insert(admitted, [at |-> at]) \in Seq(RpmEntry)
  BY <1>1, InsertType
<1>3. QED
  BY <1>2, LaterType DEF Admit

\* What Store returns is a window, with either limiter.
LEMMA StoreIsWindow ==
  ASSUME NEW S, NEW w \in Seq(S), NEW e \in S
  PROVE  Store(w, e) \in Seq(S)
  BY InsertType, AppendProperties DEF Store

\* Taking a record out of those on their way to Redis leaves records.
LEMMA RemoveAtType ==
  ASSUME NEW S, NEW w \in Seq(S), NEW i \in DOMAIN w
  PROVE  RemoveAt(w, i) \in Seq(S) /\ w[i] \in S
<1> DEFINE a == SubSeq(w, 1, i - 1)
           b == SubSeq(w, i + 1, Len(w))
<1>1. i \in 1 .. Len(w) /\ Len(w) \in Nat
  BY LenProperties
<1>2. \A j \in 1 .. Len(w) : w[j] \in S
  BY ElementOfSeq
<1>3. a \in Seq(S)
  <2>1. \A j \in 1 .. i - 1 : w[j] \in S
    BY <1>1, <1>2
  <2>2. i - 1 \in Int /\ 1 \in Int
    BY <1>1
  <2>3. QED
    BY <2>1, <2>2, SubSeqProperties
<1>4. b \in Seq(S)
  <2>1. \A j \in i + 1 .. Len(w) : w[j] \in S
    BY <1>1, <1>2
  <2>2. i + 1 \in Int /\ Len(w) \in Int
    BY <1>1
  <2>3. QED
    BY <2>1, <2>2, SubSeqProperties
<1>5. RemoveAt(w, i) = a \o b
  BY DEF RemoveAt
<1> HIDE DEF a, b
<1>6. QED
  BY <1>1, <1>2, <1>3, <1>4, <1>5, ConcatProperties

\* What the model keeps of a request.
Record0 == [stage : Stages, at : Nat, told : Nat, blame : Nat, times : Nat]

\* The oldest entry has a time, and what a client is told is a number.
LEMMA OldestType ==
  ASSUME NEW S, Timed(S), NEW w \in Seq(S), NEW at \in Nat
  PROVE  Oldest(w, at) \in Nat /\ RetryAfter(Oldest(w, at), at) \in Nat
<1>1. Oldest(w, at) \in Nat
  <2>1. CASE w = <<>>
    BY <2>1 DEF Oldest
  <2>2. CASE w # <<>>
    <3>1. Head(w) \in S
      BY <2>2, HeadTailProperties
    <3>2. QED
      BY <2>2, <3>1 DEF Oldest, Timed
  <2>3. QED
    BY <2>1, <2>2
<1>2. QED
  BY <1>1, Told

\* A refusal leaves requests as they must be, and the guard free.
LEMMA RefuseType ==
  ASSUME req \in [Requests -> Record0], NEW r \in Requests,
         NEW oldest \in Nat, NEW told \in Nat, Refuse(r, oldest, told)
  PROVE  req' \in [Requests -> Record0] /\ guard' = Nobody
  BY DEF Refuse, Record0, Stages

\* A step that moves only the request that has the guard.
LEMMA GuardKept ==
  ASSUME TypeOK, NEW r \in Requests, guard = r,
         \A s \in Requests : s # r => req'[s] = req[s],
         guard' = r \/ req'[r].stage \notin {"rpm", "tpm", "running"}
  PROVE  \A s \in Requests : req'[s].stage \in {"rpm", "tpm", "running"} => guard' = s
  BY DEF TypeOK

\* A refusal is one.
LEMMA RefuseKeeps ==
  ASSUME TypeOK, NEW r \in Requests, guard = r, NEW oldest, NEW told, Refuse(r, oldest, told)
  PROVE  \A s \in Requests : req'[s].stage \in {"rpm", "tpm", "running"} => guard' = s
<1>1. req \in [Requests -> Record0]
  BY DEF TypeOK, Record0, Stages
<1>2. /\ \A s \in Requests : s # r => req'[s] = req[s]
      /\ req'[r].stage \notin {"rpm", "tpm", "running"}
  BY <1>1 DEF Refuse, Record0
<1>3. QED
  BY <1>2, GuardKept

\* A request that passes the checks is one, in the stage it is put in.
LEMMA NowType ==
  ASSUME now \in Nat, NEW stage \in Stages
  PROVE  Now(stage) \in Record0 /\ Now(stage).stage = stage /\ Now(stage).times = 0
  BY DEF Now, Idle, Record0, Stages

\* Type correctness: what validate_auth and the two limiters keep has its type, the
\* requests past the guard but for one are outside its critical section, and a
\* request that holds a stage of the section holds the guard.
THEOREM TypeCorrect == Spec => []TypeOK
<1> USE DEF RpmEntry, TpmEntry, Record0
<1>1. Init => TypeOK
  BY RequestsAssumption, LimitersAssumption, LimitsAssumption
     DEF Init, TypeOK, Idle, Stages, Visits
<1>2. TypeOK /\ [Next]_vars => TypeOK'
  <2> SUFFICES ASSUME TypeOK, [Next]_vars PROVE TypeOK'
    OBVIOUS
  <2>0. /\ now \in Nat /\ limiter \in Limiters /\ rpm \in Seq(RpmEntry)
        /\ tpm \in Seq(TpmEntry) /\ records \in Seq(TpmEntry)
        /\ req \in [Requests -> Record0] /\ admitted \in Seq(RpmEntry)
        /\ guard \in Requests \cup Neighbours \cup {Nobody} /\ Nobody \notin Requests
        /\ visits \in [Neighbours -> Visits] /\ Neighbours \cap Requests = {}
        /\ uncounted \in 0 .. MaxUncounted /\ MaxUncounted \in Nat
        /\ Window \in Nat \ {0} /\ Second \in Nat \ {0} /\ Tokens \subseteq Nat
        /\ \A r \in Requests : req[r].at \in Nat
        /\ Timed(RpmEntry) /\ Timed(TpmEntry) /\ MaxTime \in [Limiters -> Nat]
    BY RequestsAssumption, NeighboursAssumption, LimitsAssumption, EntriesTimed DEF TypeOK
  <2>1. ASSUME NEW r \in Requests, Arrive(r) PROVE TypeOK'
    <3>1. UNCHANGED <<now, limiter, rpm, tpm, records, pruner, visits, uncounted, admitted>>
          /\ req[r].stage \in {"idle", "refused"}
      BY <2>1 DEF Arrive
    <3>2. CASE guard = Nobody
      <4>1. guard' = r /\ req' = [req EXCEPT ![r].stage = "rpm", ![r].at = now]
        BY <2>1, <3>2 DEF Arrive, Enter
      <4>2. \A s \in Requests : req[s].stage \notin {"rpm", "tpm", "running"}
        BY <2>0, <3>2 DEF TypeOK
      <4>3. req' \in [Requests -> Record0]
        <5>1. req \in [Requests -> Record0] /\ now \in Nat
          BY <2>0
        <5>2. QED
          BY <4>1, <5>1 DEF Stages
      <4>4. QED
        BY <2>0, <3>1, <4>1, <4>2, <4>3 DEF TypeOK
    <3>3. CASE guard # Nobody
      <4>1. guard' = guard /\ req' = [req EXCEPT ![r].stage = "blocked"]
        BY <2>1, <3>3 DEF Arrive
      <4>2. req' \in [Requests -> Record0]
        BY <2>0, <4>1 DEF Stages
      <4>3. QED
        BY <2>0, <3>1, <4>1, <4>2 DEF TypeOK
    <3>4. QED
      BY <3>2, <3>3
  <2>2. ASSUME NEW r \in Requests, Unblock(r) PROVE TypeOK'
    BY <2>0, <2>2 DEF Unblock, Enter, TypeOK, Stages
  <2>3. ASSUME NEW r \in Requests, CheckRpm(r) PROVE TypeOK'
    <3> DEFINE at == req[r].at
               w  == Expire(rpm, at)
    <3>1. w \in Seq(RpmEntry)
      BY <2>0, ExpireCuts
    <3>2. guard = r /\ req[r].stage = "rpm"
      BY <2>3 DEF CheckRpm, Checks, TypeOK
    <3>3. CASE Len(w) >= RpmLimit[limiter]
      <4>1. Refuse(r, Oldest(w, at), RetryAfter(Oldest(w, at), at)) /\ rpm' = w
            /\ UNCHANGED <<admitted, now, limiter, tpm, records, pruner, visits, uncounted>>
        BY <2>3, <3>3 DEF CheckRpm
      <4>2. req' \in [Requests -> Record0] /\ guard' = Nobody
        BY <2>0, <3>1, <4>1, OldestType, RefuseType
      <4>3. \A s \in Requests : req'[s].stage \in {"rpm", "tpm", "running"} => guard' = s
        BY <2>0, <3>2, <4>1, RefuseKeeps
      <4>4. QED
        BY <2>0, <3>1, <4>1, <4>2, <4>3 DEF TypeOK
    <3>4. CASE ~(Len(w) >= RpmLimit[limiter])
      <4>1. PassRpm(r) /\ rpm' = Store(w, [at |-> at]) /\ Admit(at)
            /\ UNCHANGED <<now, limiter, tpm, records, pruner, visits, uncounted>>
        BY <2>3, <3>4 DEF CheckRpm
      <4>2. rpm' \in Seq(RpmEntry)
        BY <2>0, <3>1, <4>1, StoreIsWindow
      <4>3. admitted' \in Seq(RpmEntry)
        BY <2>0, <4>1, AdmitType
      <4>4. req' \in [Requests -> Record0] /\ guard' = guard
            /\ \A s \in Requests : s # r => req'[s] = req[s]
        BY <2>0, <4>1 DEF PassRpm, Stages
      <4>5. \A s \in Requests : req'[s].stage \in {"rpm", "tpm", "running"} => guard' = s
        BY <3>2, <4>4, GuardKept
      <4>6. QED
        BY <2>0, <4>1, <4>2, <4>3, <4>4, <4>5 DEF TypeOK
    <3>5. QED
      BY <3>3, <3>4
  <2>4. ASSUME NEW r \in Requests, CheckTpm(r) PROVE TypeOK'
    <3> DEFINE at == req[r].at
               w  == Expire(tpm, at)
    <3>1. w \in Seq(TpmEntry)
      BY <2>0, ExpireCuts
    <3>2. guard = r /\ req[r].stage = "tpm"
      BY <2>4 DEF CheckTpm, Checks, TypeOK
    <3>3. tpm' = w /\ UNCHANGED <<now, limiter, rpm, records, pruner, visits, uncounted, admitted>>
      BY <2>4 DEF CheckTpm
    <3>4. CASE TokensIn(w) >= TpmLimit
      <4>1. Refuse(r, Oldest(w, at), RetryAfter(Oldest(w, at), at))
        BY <2>4, <3>4 DEF CheckTpm
      <4>2. req' \in [Requests -> Record0] /\ guard' = Nobody
        BY <2>0, <3>1, <4>1, OldestType, RefuseType
      <4>3. \A s \in Requests : req'[s].stage \in {"rpm", "tpm", "running"} => guard' = s
        BY <2>0, <3>2, <4>1, RefuseKeeps
      <4>4. QED
        BY <2>0, <3>1, <3>3, <4>2, <4>3 DEF TypeOK
    <3>5. CASE ~(TokensIn(w) >= TpmLimit)
      <4>1. PassTpm(r)
        BY <2>4, <3>5 DEF CheckTpm
      <4>2. req' \in [Requests -> Record0] /\ guard' = guard
            /\ \A s \in Requests : s # r => req'[s] = req[s]
        BY <2>0, <4>1 DEF PassTpm, Stages, Idle
      <4>3. \A s \in Requests : req'[s].stage \in {"rpm", "tpm", "running"} => guard' = s
        BY <3>2, <4>2, GuardKept
      <4>4. QED
        BY <2>0, <3>1, <3>3, <4>2, <4>3 DEF TypeOK
    <3>6. QED
      BY <3>4, <3>5
  <2>5. ASSUME NEW r \in Requests, CheckFails(r) PROVE TypeOK'
    <3>1. guard = r /\ req[r].stage \in {"rpm", "tpm"}
          /\ UNCHANGED <<now, limiter, rpm, tpm, records, pruner, visits>>
      BY <2>5 DEF CheckFails, TypeOK, Checking
    <3>2. CASE limiter = "closed"
      <4>1. Refuse(r, req[r].at, Window \div Second) /\ UNCHANGED <<uncounted, admitted>>
        BY <2>5, <3>2 DEF CheckFails
      <4>2. Window \div Second \in Nat
        BY <2>0, Seconds
      <4>3. req' \in [Requests -> Record0] /\ guard' = Nobody
        BY <2>0, <4>1, <4>2, RefuseType
      <4>4. \A s \in Requests : req'[s].stage \in {"rpm", "tpm", "running"} => guard' = s
        BY <2>0, <3>1, <4>1, RefuseKeeps
      <4>5. QED
        BY <2>0, <3>1, <4>1, <4>3, <4>4 DEF TypeOK
    <3>3. CASE limiter # "closed" /\ req[r].stage = "rpm"
      <4>1. PassRpm(r) /\ Admit(req[r].at) /\ uncounted' = uncounted + 1
            /\ uncounted < MaxUncounted
        BY <2>5, <3>3 DEF CheckFails
      <4>2. admitted' \in Seq(RpmEntry) /\ uncounted' \in 0 .. MaxUncounted
        BY <2>0, <4>1, AdmitType
      <4>3. req' \in [Requests -> Record0] /\ guard' = guard
            /\ \A s \in Requests : s # r => req'[s] = req[s]
        BY <2>0, <4>1 DEF PassRpm, Stages
      <4>4. \A s \in Requests : req'[s].stage \in {"rpm", "tpm", "running"} => guard' = s
        BY <3>1, <4>3, GuardKept
      <4>5. QED
        BY <2>0, <3>1, <4>2, <4>3, <4>4 DEF TypeOK
    <3>4. CASE limiter # "closed" /\ req[r].stage # "rpm"
      <4>1. PassTpm(r) /\ UNCHANGED <<uncounted, admitted>>
        BY <2>5, <3>4 DEF CheckFails
      <4>2. req' \in [Requests -> Record0] /\ guard' = guard
            /\ \A s \in Requests : s # r => req'[s] = req[s]
        BY <2>0, <4>1 DEF PassTpm, Stages, Idle
      <4>3. \A s \in Requests : req'[s].stage \in {"rpm", "tpm", "running"} => guard' = s
        BY <3>1, <4>2, GuardKept
      <4>4. QED
        BY <2>0, <3>1, <4>1, <4>2, <4>3 DEF TypeOK
    <3>5. QED
      BY <3>2, <3>3, <3>4
  <2>6. ASSUME NEW r \in Requests, Answer(r) PROVE TypeOK'
    <3>1. PICK stage \in {"idle", "streaming", "recording"} :
            /\ req' = [req EXCEPT ![r] = Now(stage)]
            /\ guard' = IF stage = "recording" THEN guard ELSE Nobody
      BY <2>6 DEF Answer
    <3>2. UNCHANGED <<now, limiter, rpm, tpm, records, pruner, visits, uncounted, admitted>> /\ guard = r
      BY <2>6 DEF Answer, TypeOK
    <3>3. Now(stage) \in Record0 /\ Now(stage).stage = stage
      BY <2>0, NowType DEF Stages
    <3>4. req' \in [Requests -> Record0] /\ req'[r].stage = stage
          /\ \A s \in Requests : s # r => req'[s] = req[s]
      BY <2>0, <3>1, <3>3
    <3>5. \A s \in Requests : req'[s].stage \in {"rpm", "tpm", "running"} => guard' = s
      BY <3>2, <3>4, GuardKept
    <3>6. QED
      BY <2>0, <3>1, <3>2, <3>4, <3>5 DEF TypeOK
  <2>7. ASSUME NEW r \in Requests, StreamEnds(r) PROVE TypeOK'
    <3>1. PICK stage \in {"idle", "recording"} : req' = [req EXCEPT ![r] = Now(stage)]
      BY <2>7 DEF StreamEnds
    <3>2. UNCHANGED <<now, limiter, guard, rpm, tpm, records, pruner, visits, uncounted, admitted>>
      BY <2>7 DEF StreamEnds
    <3>3. Now(stage) \in Record0 /\ Now(stage).stage = stage
      BY <2>0, NowType DEF Stages
    <3>4. req' \in [Requests -> Record0] /\ req'[r].stage = stage
          /\ \A s \in Requests : s # r => req'[s] = req[s]
      BY <2>0, <3>1, <3>3
    <3>5. QED
      BY <2>0, <3>2, <3>4 DEF TypeOK
  <2>8. ASSUME NEW r \in Requests, Record(r) PROVE TypeOK'
    <3>1. PICK n \in Tokens :
            IF limiter = "local"
            THEN /\ tpm' = Append(Drain(tpm, req[r].at), [at |-> req[r].at, tokens |-> n])
                 /\ UNCHANGED records
            ELSE /\ records' = Insert(records, [at |-> req[r].at, tokens |-> n])
                 /\ UNCHANGED tpm
      BY <2>8 DEF Record
    <3>2. [at |-> req[r].at, tokens |-> n] \in TpmEntry
      BY <2>0
    <3>3. tpm' \in Seq(TpmEntry) /\ records' \in Seq(TpmEntry)
      <4>1. CASE limiter = "local"
        <5>1. Drain(tpm, req[r].at) \in Seq(TpmEntry)
          <6>1. Drain(tpm, req[r].at) = Expire(tpm, req[r].at)
            BY <4>1 DEF Expire
          <6>2. QED
            BY <2>0, <6>1, ExpireCuts
        <5>2. tpm' = Append(Drain(tpm, req[r].at), [at |-> req[r].at, tokens |-> n])
              /\ records' = records
          BY <3>1, <4>1
        <5>3. tpm' \in Seq(TpmEntry)
          BY <3>2, <5>1, <5>2, AppendProperties
        <5>4. QED
          BY <2>0, <5>2, <5>3
      <4>2. CASE limiter # "local"
        <5>1. records' = Insert(records, [at |-> req[r].at, tokens |-> n]) /\ tpm' = tpm
          BY <3>1, <4>2
        <5>2. records' \in Seq(TpmEntry)
          BY <2>0, <3>2, <5>1, InsertType
        <5>3. QED
          BY <2>0, <5>1, <5>2
      <4>3. QED
        BY <4>1, <4>2
    <3>4. req' = [req EXCEPT ![r] = Idle] /\ guard' = (IF guard = r THEN Nobody ELSE guard)
          /\ UNCHANGED <<now, limiter, rpm, pruner, visits, uncounted, admitted>>
      BY <2>8 DEF Record
    <3>5. QED
      BY <2>0, <3>3, <3>4 DEF TypeOK, Idle, Stages
  <2>9. CASE RecordRedis
    <3>1. PICK i \in DOMAIN records : /\ records' = RemoveAt(records, i)
                                      /\ tpm' = Insert(tpm, records[i]) \/ UNCHANGED tpm
      BY <2>9 DEF RecordRedis
    <3>2. records' \in Seq(TpmEntry) /\ tpm' \in Seq(TpmEntry)
      <4>1. records' \in Seq(TpmEntry) /\ records[i] \in TpmEntry
        BY <2>0, <3>1, RemoveAtType
      <4>2. Insert(tpm, records[i]) \in Seq(TpmEntry)
        BY <2>0, <4>1, InsertType
      <4>3. QED
        BY <2>0, <3>1, <4>1, <4>2
    <3>3. QED
      BY <2>0, <2>9, <3>2 DEF RecordRedis, TypeOK
  <2>10. CASE OtherInstance
    <3> DEFINE at == now - Skew
               w  == Trim(rpm, at)
    <3>1. at \in Nat
      BY <2>0, LimitsAssumption DEF TypeOK
    <3>2. limiter # "local" /\ w = Expire(rpm, at)
          /\ UNCHANGED <<now, limiter, tpm, records, guard, req, pruner, visits, uncounted>>
      BY <2>10 DEF OtherInstance, Expire
    <3>3. w \in Seq(RpmEntry)
      BY <2>0, <3>1, <3>2, ExpireCuts
    <3>4. \/ rpm' = w /\ UNCHANGED admitted
          \/ rpm' = Insert(w, [at |-> at]) /\ Admit(at)
      BY <2>10 DEF OtherInstance
    <3> HIDE DEF at, w
    <3>5. [at |-> at] \in RpmEntry
      BY <3>1
    <3>6. Insert(w, [at |-> at]) \in Seq(RpmEntry)
      BY <3>3, <3>5, InsertType
    <3>7. Admit(at) => admitted' \in Seq(RpmEntry)
      BY <2>0, <3>1, AdmitType
    <3>8. rpm' \in Seq(RpmEntry) /\ admitted' \in Seq(RpmEntry)
      BY <2>0, <3>3, <3>4, <3>6, <3>7
    <3>9. QED
      BY <2>0, <3>2, <3>8 DEF TypeOK
  <2>11. CASE Prune \/ UnblockPruner
    <3>1. Drained => rpm' \in Seq(RpmEntry) /\ tpm' \in Seq(TpmEntry)
      <4>1. limiter = "local" =>
              Drain(rpm, now) = Expire(rpm, now) /\ Drain(tpm, now) = Expire(tpm, now)
        BY DEF Expire
      <4>2. Expire(rpm, now) \in Seq(RpmEntry) /\ Expire(tpm, now) \in Seq(TpmEntry)
        BY <2>0, ExpireCuts
      <4>3. QED
        BY <2>0, <4>1, <4>2 DEF Drained
    <3>2. QED
      BY <2>0, <2>11, <3>1 DEF Prune, UnblockPruner, TypeOK
  <2>12. CASE Tick
    <3>1. now' = now + 1
          /\ UNCHANGED <<limiter, rpm, tpm, records, guard, req, pruner, visits, uncounted, admitted>>
      BY <2>12 DEF Tick
    <3>2. now' \in Nat /\ now' >= Window + Skew
      BY <2>0, <3>1, LimitsAssumption DEF TypeOK
    <3>3. QED
      BY <2>0, <3>1, <3>2 DEF TypeOK
  <2>13. ASSUME NEW n \in Neighbours, Visit(n) \/ UnblockVisit(n) \/ Leave(n) PROVE TypeOK'
    <3>1. UNCHANGED <<now, limiter, rpm, tpm, records, req, pruner, uncounted, admitted>>
      BY <2>13 DEF Visit, UnblockVisit, Leave
    <3>2. \/ guard' = guard
          \/ guard \notin Requests /\ guard' \in {n, Nobody}
      BY <2>0, <2>13 DEF Visit, UnblockVisit, Leave, Hold
    <3>3. visits' \in [Neighbours -> Visits]
      BY <2>0, <2>13 DEF Visit, UnblockVisit, Leave, Hold, Visits
    <3>4. \A s \in Requests : req'[s].stage \in {"rpm", "tpm", "running"} => guard' = s
      BY <3>1, <3>2 DEF TypeOK
    <3>5. QED
      BY <2>0, <3>1, <3>2, <3>3, <3>4 DEF TypeOK
  <2>14. CASE UNCHANGED vars
    BY <2>14 DEF vars, TypeOK
  <2>15. QED
    BY <2>1, <2>2, <2>3, <2>4, <2>5, <2>6, <2>7, <2>8, <2>9, <2>10, <2>11, <2>12, <2>13,
       <2>14
       DEF Next
<1>3. QED
  BY <1>1, <1>2, PTL DEF Spec
-----------------------------------------------------------------------------
(* The ceiling of requests *)

\* An entry as late as every other is put in its place at the end.
LEMMA AppendIsInsert ==
  ASSUME NEW S, Timed(S), NEW w \in Seq(S), NEW e \in S, Ascending(w),
         \A i \in DOMAIN w : w[i].at <= e.at
  PROVE  Append(w, e) = Insert(w, e)
<1>1. /\ Len(w) \in Nat /\ DOMAIN w = 1 .. Len(w) /\ e.at \in Nat
      /\ \A i \in 1 .. Len(w) : w[i].at \in Nat
  BY LenProperties, ElementOfSeq DEF Timed
<1> DEFINE v == Insert(w, e)
           u == Append(w, e)
<1>2. v \in Seq(S) /\ Len(v) = Len(w) + 1
  BY InsertAscends
<1>3. PICK k \in 0 .. Len(w) :
        /\ \A i \in 1 .. k : v[i] = w[i] /\ w[i].at <= e.at
        /\ v[k + 1] = e
        /\ \A i \in k + 1 .. Len(w) : v[i + 1] = w[i] /\ w[i].at > e.at
  BY InsertAscends
<1>4. /\ u \in Seq(S) /\ Len(u) = Len(w) + 1 /\ u[Len(w) + 1] = e
      /\ \A i \in 1 .. Len(w) : u[i] = w[i]
  BY AppendProperties
<1> HIDE DEF v, u
<1>5. k = Len(w)
  <2>1. ASSUME k < Len(w) PROVE FALSE
    <3>1. Len(w) \in k + 1 .. Len(w) /\ Len(w) \in 1 .. Len(w)
      BY <1>1, <2>1
    <3>2. w[Len(w)].at > e.at
      BY <1>3, <3>1
    <3>3. w[Len(w)].at <= e.at /\ w[Len(w)].at \in Nat
      BY <1>1, <3>1
    <3>4. QED
      BY <1>1, <3>2, <3>3
  <2>2. Len(w) \in Nat
    BY <1>1
  <2>3. k = Len(w) \/ k < Len(w)
    BY <2>2
  <2>4. QED
    BY <2>1, <2>3
<1>6. \A i \in 1 .. Len(u) : u[i] = v[i]
  <2> SUFFICES ASSUME NEW i \in 1 .. Len(w) + 1 PROVE u[i] = v[i]
    BY <1>4
  <2>1. i \in 1 .. Len(w) \/ i = Len(w) + 1
    BY <1>1
  <2>2. QED
    BY <1>3, <1>4, <1>5, <2>1
<1>7. u = v
  BY <1>2, <1>4, <1>6, SeqEqual
<1>8. QED
  BY <1>7 DEF u, v

\* The front that is lost may be nothing: then the window is what it was.
LEMMA NothingCut ==
  ASSUME NEW S, NEW w \in Seq(S), NEW v \in Seq(S), NEW k \in 0 .. Len(w),
         Cut(w, v, k), Len(v) >= Len(w)
  PROVE  v = w
<1>1. Len(w) \in Nat /\ Len(v) \in Nat
  BY LenProperties
<1>2. k = 0 /\ Len(v) = Len(w) /\ \A i \in 1 .. Len(v) : v[i] = w[i]
  BY <1>1 DEF Cut
<1>3. QED
  BY <1>2, SeqEqual

\* An entry that is stored: the window is sorted and counts it, and has no
\* later entries than before.
LEMMA StoreLater ==
  ASSUME NEW S, Timed(S), NEW w \in Seq(S), NEW e \in S, Ascending(w),
         limiter = "local" => \A i \in DOMAIN w : w[i].at <= e.at
  PROVE  /\ Store(w, e) \in Seq(S) /\ Len(Store(w, e)) = Len(w) + 1
         /\ Ascending(Store(w, e))
         /\ \A t \in Int :
              Len(Later(Store(w, e), t)) = Len(Later(w, t)) + IF e.at > t THEN 1 ELSE 0
         /\ \A b \in Nat : e.at <= b /\ (\A i \in DOMAIN w : w[i].at <= b) =>
              \A i \in DOMAIN Store(w, e) : Store(w, e)[i].at <= b
<1> DEFINE v == Insert(w, e)
<1>1. Store(w, e) = v
  BY AppendIsInsert DEF Store
<1>2. v \in Seq(S) /\ Len(v) = Len(w) + 1 /\ Ascending(v)
  BY InsertAscends
<1>3. \A t \in Int : Len(Later(v, t)) = Len(Later(w, t)) + IF e.at > t THEN 1 ELSE 0
  BY InsertLater
<1>4. PICK k \in 0 .. Len(w) :
        /\ \A i \in 1 .. k : v[i] = w[i] /\ w[i].at <= e.at
        /\ v[k + 1] = e
        /\ \A i \in k + 1 .. Len(w) : v[i + 1] = w[i] /\ w[i].at > e.at
  BY InsertAscends
<1>5. Len(w) \in Nat /\ DOMAIN w = 1 .. Len(w) /\ DOMAIN v = 1 .. Len(w) + 1
  BY <1>2, LenProperties
<1> HIDE DEF v
<1>6. ASSUME NEW b \in Nat, e.at <= b, \A i \in DOMAIN w : w[i].at <= b, NEW i \in DOMAIN v
      PROVE  v[i].at <= b
  <2>1. i \in 1 .. k \/ i = k + 1 \/ (i - 1 \in k + 1 .. Len(w) /\ (i - 1) + 1 = i)
    BY <1>5
  <2>2. CASE i \in 1 .. k
    <3>1. v[i] = w[i] /\ i \in DOMAIN w
      BY <1>4, <1>5, <2>2
    <3>2. QED
      BY <1>6, <3>1
  <2>3. CASE i = k + 1
    BY <1>4, <1>6, <2>3
  <2>4. CASE i - 1 \in k + 1 .. Len(w) /\ (i - 1) + 1 = i
    <3>1. v[i] = w[i - 1] /\ i - 1 \in DOMAIN w
      BY <1>4, <1>5, <2>4
    <3>2. QED
      BY <1>6, <3>1
  <2>5. QED
    BY <2>1, <2>2, <2>3, <2>4
<1>7. QED
  BY <1>1, <1>2, <1>3, <1>6

\* What a step knows of the window and of the times it works with.
LEMMA WindowTyped ==
  ASSUME TypeOK
  PROVE  /\ rpm \in Seq(RpmEntry) /\ admitted \in Seq(RpmEntry) /\ Timed(RpmEntry)
         /\ now \in Nat /\ Earliest \in Nat /\ Window \in Nat \ {0}
         /\ uncounted \in Nat /\ RpmLimit[limiter] \in Nat /\ limiter \in Limiters
         /\ \A r \in Requests : req[r].at \in Nat
         /\ admitted # <<>> => Last(admitted).at \in Nat
<1>1. /\ rpm \in Seq(RpmEntry) /\ admitted \in Seq(RpmEntry) /\ now \in Nat
      /\ uncounted \in 0 .. MaxUncounted /\ limiter \in Limiters
      /\ \A r \in Requests : req[r].at \in Nat
  BY DEF TypeOK, RpmEntry
<1>2. Timed(RpmEntry)
  BY EntriesTimed
<1>3. Window \in Nat \ {0} /\ RpmLimit[limiter] \in Nat /\ MaxUncounted \in Nat
  BY <1>1, LimitsAssumption
<1>4. Earliest \in Nat
  BY <1>1 DEF Earliest
<1>5. admitted # <<>> => Last(admitted).at \in Nat
  <2> SUFFICES ASSUME admitted # <<>> PROVE Last(admitted).at \in Nat
    OBVIOUS
  <2>1. Len(admitted) \in 1 .. Len(admitted)
    BY <1>1, EmptySeq
  <2>2. admitted[Len(admitted)] \in RpmEntry
    BY <1>1, <2>1, ElementOfSeq
  <2>3. QED
    BY <2>2 DEF Last, RpmEntry
<1>6. QED
  BY <1>1, <1>2, <1>3, <1>4, <1>5

\* A step that leaves both windows alone, while time goes on.
LEMMA WindowKept ==
  ASSUME TypeOK, TypeOK', WindowInv, UNCHANGED <<limiter, rpm, admitted, uncounted>>,
         Earliest' >= Earliest,
         \A r \in Requests : req'[r].stage = "rpm" => req'[r].at <= now'
  PROVE  WindowInv'
<1>1. /\ Earliest \in Nat /\ Window \in Nat \ {0}
      /\ rpm \in Seq(RpmEntry) /\ admitted \in Seq(RpmEntry) /\ Timed(RpmEntry)
  BY WindowTyped
<1>2. Earliest' \in Nat
  <2>1. now' \in Nat /\ \A r \in Requests : req'[r].at \in Nat
    BY DEF TypeOK
  <2>2. QED
    BY <2>1 DEF Earliest
<1>3. InOrder'
  <2>1. ASSUME limiter = "local", NEW w \in {rpm, admitted}, NEW i \in DOMAIN w
        PROVE  w[i].at <= Earliest'
    <3>1. w[i].at <= Earliest
      BY <2>1 DEF WindowInv, InOrder
    <3>2. w \in Seq(RpmEntry)
      BY <1>1
    <3>3. w[i].at \in Nat
      BY <1>1, <3>2, LenProperties, ElementOfSeq DEF Timed
    <3>4. QED
      BY <1>1, <1>2, <3>1, <3>3
  <2>2. Ascending(rpm)' /\ Ascending(admitted)'
    BY DEF WindowInv, InOrder, Ascending
  <2>3. QED
    BY <2>1, <2>2 DEF InOrder
<1>4. Counted'
  <2> SUFFICES ASSUME NEW t \in Int, Recent(t)'
               PROVE  Len(Later(admitted', t)) <= Len(Later(rpm', t)) + uncounted'
    BY DEF Counted
  <2>1. Recent(t)
    <3>1. limiter = "local" => t >= Earliest' - Window
      BY DEF Recent
    <3>2. admitted # <<>> => t >= Last(admitted).at - Window
      BY DEF Recent
    <3>3. ASSUME limiter = "local" PROVE t >= Earliest - Window
      <4>1. t >= Earliest' - Window
        BY <3>1, <3>3
      <4>2. Earliest \in Int /\ Earliest' \in Int /\ Window \in Int
        BY <1>1, <1>2
      <4>3. \A a, b, c, x \in Int : x >= a - c /\ a >= b => x >= b - c
        OBVIOUS
      <4>4. Earliest' >= Earliest
        OBVIOUS
      <4>5. QED
        BY <4>1, <4>2, <4>3, <4>4, Zenon
    <3>4. QED
      BY <3>2, <3>3 DEF Recent
  <2>2. QED
    BY <2>1 DEF WindowInv, Counted
<1>5. QED
  BY <1>3, <1>4 DEF WindowInv, RpmCeiling

\* A request that is let in, here or at the other instance, and is counted in the
\* window or among those that Redis did not hear of.
LEMMA Admission ==
  ASSUME TypeOK, TypeOK', WindowInv, NEW at \in Nat, Admit(at), limiter' = limiter,
         limiter = "local" => Earliest = at /\ at <= Earliest',
         \A r \in Requests : req'[r].stage = "rpm" => req'[r].at <= now',
         \/ /\ Len(Expire(rpm, at)) < RpmLimit[limiter]
            /\ rpm' = Store(Expire(rpm, at), [at |-> at])
            /\ uncounted' = uncounted
         \/ /\ limiter # "local"
            /\ rpm' = rpm /\ uncounted' = uncounted + 1
  PROVE  WindowInv'
<1> DEFINE w == Expire(rpm, at)
           e == [at |-> at]
           n == Last(admitted').at
<1>1. /\ rpm \in Seq(RpmEntry) /\ admitted \in Seq(RpmEntry) /\ Timed(RpmEntry)
      /\ now \in Nat /\ Earliest \in Nat /\ Window \in Nat \ {0}
      /\ uncounted \in Nat /\ RpmLimit[limiter] \in Nat
      /\ admitted # <<>> => Last(admitted).at \in Nat
  BY WindowTyped
<1>2. e \in RpmEntry /\ e.at = at
  BY DEF RpmEntry
<1>3. Ascending(rpm) /\ Ascending(admitted)
  BY DEF WindowInv, InOrder
<1>4. /\ admitted' \in Seq(RpmEntry) /\ Ascending(admitted)' /\ admitted' # <<>>
      /\ n >= at
      /\ admitted # <<>> => n >= Last(admitted).at
      /\ Len(admitted') = Len(Later(admitted', n - Window))
      /\ \A t \in Int : t >= n - Window =>
           Len(Later(admitted', t)) = Len(Later(admitted, t)) + IF at > t THEN 1 ELSE 0
      /\ \A b \in Nat : at <= b /\ (\A i \in DOMAIN admitted : admitted[i].at <= b) =>
           \A i \in DOMAIN admitted' : admitted'[i].at <= b
  BY <1>1, <1>3, AdmitWindow
<1>5. n \in Nat /\ Earliest' \in Nat
  <2>1. Len(admitted') \in 1 .. Len(admitted')
    BY <1>4, EmptySeq
  <2>2. admitted'[Len(admitted')] \in RpmEntry
    BY <1>4, <2>1, ElementOfSeq
  <2>3. n \in Nat
    BY <2>2 DEF Last, RpmEntry
  <2>4. now' \in Nat /\ \A r \in Requests : req'[r].at \in Nat
    BY DEF TypeOK
  <2>5. QED
    BY <2>3, <2>4 DEF Earliest
<1> HIDE DEF e, n
<1>6. w \in Seq(RpmEntry)
  BY <1>1, ExpireCuts
<1>7. PICK k \in 0 .. Len(rpm) : Cut(rpm, w, k) /\ \A i \in 1 .. k : rpm[i].at <= at - Window
  BY <1>1, ExpireCuts
<1> HIDE DEF w
<1>8. \A t \in Int : t >= n - Window => Len(Later(w, t)) = Len(Later(rpm, t))
  <2> SUFFICES ASSUME NEW t \in Int, t >= n - Window
               PROVE  Len(Later(w, t)) = Len(Later(rpm, t))
    OBVIOUS
  <2>1. \A i \in 1 .. k : rpm[i].at <= t
    <3> SUFFICES ASSUME NEW i \in 1 .. k PROVE rpm[i].at <= t
      OBVIOUS
    <3>1. i \in 1 .. Len(rpm)
      BY <1>1, LenProperties
    <3>2. rpm[i].at \in Nat
      BY <1>1, <3>1, ElementOfSeq DEF Timed
    <3>3. rpm[i].at <= at - Window /\ n >= at
      BY <1>4, <1>7
    <3>4. QED
      BY <1>1, <1>5, <3>2, <3>3
  <2>2. QED
    BY <1>1, <1>3, <1>6, <1>7, <2>1, CutLater
<1>9. Ascending(w)
  <2>1. \A i \in 1 .. k : rpm[i].at <= at - Window
    BY <1>7
  <2>2. at - Window \in Int
    BY <1>1
  <2>3. QED
    BY <1>1, <1>3, <1>6, <1>7, <2>1, <2>2, CutLater
<1>10. \A i \in DOMAIN w : \E j \in DOMAIN rpm : w[i] = rpm[j]
  <2> SUFFICES ASSUME NEW i \in 1 .. Len(w) PROVE \E j \in DOMAIN rpm : w[i] = rpm[j]
    BY <1>6, LenProperties
  <2>1. Len(w) = Len(rpm) - k /\ w[i] = rpm[k + i]
    BY <1>7 DEF Cut
  <2>2. k + i \in 1 .. Len(rpm) /\ DOMAIN rpm = 1 .. Len(rpm)
    BY <1>1, <2>1, LenProperties
  <2>3. QED
    BY <2>1, <2>2
<1>11. limiter = "local" => \A i \in DOMAIN w : w[i].at <= at
  BY <1>10 DEF WindowInv, InOrder
<1>12. /\ rpm' \in Seq(RpmEntry) /\ Ascending(rpm') /\ Len(rpm') <= RpmLimit[limiter]
       /\ limiter = "local" => \A i \in DOMAIN rpm' : rpm'[i].at <= at
       /\ uncounted' \in Nat
       /\ \A t \in Int : t >= n - Window =>
            Len(Later(rpm', t)) + uncounted'
              >= Len(Later(rpm, t)) + uncounted + IF at > t THEN 1 ELSE 0
  <2>1. CASE /\ Len(w) < RpmLimit[limiter]
             /\ rpm' = Store(w, e)
             /\ uncounted' = uncounted
    <3>1. /\ Store(w, e) \in Seq(RpmEntry) /\ Len(Store(w, e)) = Len(w) + 1
          /\ Ascending(Store(w, e))
          /\ \A t \in Int :
               Len(Later(Store(w, e), t)) = Len(Later(w, t)) + IF at > t THEN 1 ELSE 0
          /\ \A b \in Nat : at <= b /\ (\A i \in DOMAIN w : w[i].at <= b) =>
               \A i \in DOMAIN Store(w, e) : Store(w, e)[i].at <= b
      <4>1. limiter = "local" => \A i \in DOMAIN w : w[i].at <= e.at
        BY <1>2, <1>11
      <4>2. /\ Store(w, e) \in Seq(RpmEntry) /\ Len(Store(w, e)) = Len(w) + 1
            /\ Ascending(Store(w, e))
            /\ \A t \in Int :
                 Len(Later(Store(w, e), t)) = Len(Later(w, t)) + IF e.at > t THEN 1 ELSE 0
            /\ \A b \in Nat : e.at <= b /\ (\A i \in DOMAIN w : w[i].at <= b) =>
                 \A i \in DOMAIN Store(w, e) : Store(w, e)[i].at <= b
        BY <1>1, <1>2, <1>6, <1>9, <4>1, StoreLater
      <4>3. QED
        BY <1>2, <4>2
    <3>2. Len(w) \in Nat
      BY <1>6, LenProperties
    <3>3. Len(rpm') <= RpmLimit[limiter]
      BY <1>1, <2>1, <3>1, <3>2
    <3>4. limiter = "local" => \A i \in DOMAIN rpm' : rpm'[i].at <= at
      BY <1>11, <2>1, <3>1
    <3>5. ASSUME NEW t \in Int, t >= n - Window
          PROVE  Len(Later(rpm', t)) + uncounted'
                   >= Len(Later(rpm, t)) + uncounted + IF at > t THEN 1 ELSE 0
      <4>1. Len(Later(rpm', t)) = Len(Later(rpm, t)) + IF at > t THEN 1 ELSE 0
        BY <1>8, <2>1, <3>1, <3>5
      <4>2. Len(Later(rpm, t)) \in Nat
        BY <1>1, <1>3, LaterFewer
      <4>3. QED
        BY <1>1, <2>1, <4>1, <4>2
    <3>6. QED
      BY <1>1, <2>1, <3>1, <3>3, <3>4, <3>5
  <2>2. CASE limiter # "local" /\ rpm' = rpm /\ uncounted' = uncounted + 1
    <3>1. ASSUME NEW t \in Int
          PROVE  Len(Later(rpm', t)) + uncounted'
                   >= Len(Later(rpm, t)) + uncounted + IF at > t THEN 1 ELSE 0
      <4>1. Len(Later(rpm, t)) \in Nat
        BY <1>1, <1>3, LaterFewer
      <4>2. QED
        BY <1>1, <2>2, <4>1
    <3>2. Len(rpm') <= RpmLimit[limiter]
      BY <2>2 DEF WindowInv
    <3>3. QED
      BY <1>1, <1>3, <2>2, <3>1, <3>2
  <2>3. QED
    BY <2>1, <2>2 DEF w, e
<1>13. \A t \in Int : t >= n - Window /\ (limiter = "local" => t >= Earliest - Window) =>
         Len(Later(admitted', t)) <= Len(Later(rpm', t)) + uncounted'
  <2> SUFFICES ASSUME NEW t \in Int, t >= n - Window, limiter = "local" => t >= Earliest - Window
               PROVE  Len(Later(admitted', t)) <= Len(Later(rpm', t)) + uncounted'
    OBVIOUS
  <2>1. Recent(t)
    BY <1>1, <1>4, <1>5 DEF Recent
  <2>2. Len(Later(admitted, t)) <= Len(Later(rpm, t)) + uncounted
    BY <2>1 DEF WindowInv, Counted
  <2>3. Len(Later(admitted, t)) \in Nat /\ Len(Later(rpm, t)) \in Nat
    BY <1>1, <1>3, LaterFewer
  <2>4. Len(Later(admitted', t)) = Len(Later(admitted, t)) + IF at > t THEN 1 ELSE 0
    BY <1>4
  <2>5. Len(Later(rpm', t)) + uncounted'
          >= Len(Later(rpm, t)) + uncounted + IF at > t THEN 1 ELSE 0
    BY <1>12
  <2>6. Len(Later(rpm', t)) \in Nat
    BY <1>1, <1>12, LaterFewer
  <2>7. QED
    BY <1>1, <1>12, <2>2, <2>3, <2>4, <2>5, <2>6
<1>14. InOrder'
  <2>1. ASSUME limiter = "local"
        PROVE  /\ \A i \in DOMAIN rpm' : rpm'[i].at <= Earliest'
               /\ \A i \in DOMAIN admitted' : admitted'[i].at <= Earliest'
    <3>1. \A i \in DOMAIN admitted : admitted[i].at <= at
      BY <2>1 DEF WindowInv, InOrder
    <3>2. at <= at
      OBVIOUS
    <3>3. \A i \in DOMAIN admitted' : admitted'[i].at <= at
      BY <1>4, <3>1, <3>2
    <3>4. \A i \in DOMAIN rpm' : rpm'[i].at <= at
      BY <1>12, <2>1
    <3>5. \A i \in DOMAIN rpm' : rpm'[i].at \in Nat
      BY <1>1, <1>12, LenProperties, ElementOfSeq DEF Timed
    <3>6. \A i \in DOMAIN admitted' : admitted'[i].at \in Nat
      BY <1>1, <1>4, LenProperties, ElementOfSeq DEF Timed
    <3>7. QED
      BY <1>5, <2>1, <3>3, <3>4, <3>5, <3>6
  <2>2. Ascending(rpm)'
    BY <1>12 DEF Ascending
  <2>3. QED
    BY <1>4, <2>1, <2>2 DEF InOrder
<1>15. Counted'
  <2> SUFFICES ASSUME NEW t \in Int, Recent(t)'
               PROVE  Len(Later(admitted', t)) <= Len(Later(rpm', t)) + uncounted'
    BY DEF Counted
  <2>1. t >= n - Window
    BY <1>4 DEF Recent, n
  <2>2. limiter = "local" => t >= Earliest - Window
    <3>1. limiter = "local" => t >= Earliest' - Window
      BY DEF Recent
    <3>2. QED
      BY <1>1, <1>5, <3>1
  <2>3. QED
    BY <1>13, <2>1, <2>2
<1>16. RpmCeiling'
  <2>1. n - Window \in Int /\ n - Window >= n - Window
    BY <1>1, <1>5
  <2>2. limiter = "local" => n - Window >= Earliest - Window
    BY <1>1, <1>4, <1>5
  <2>3. Len(admitted') <= Len(Later(rpm', n - Window)) + uncounted'
    BY <1>4, <1>13, <2>1, <2>2
  <2>4. Len(Later(rpm', n - Window)) \in Nat /\ Len(Later(rpm', n - Window)) <= Len(rpm')
    BY <1>1, <1>12, <2>1, LaterFewer
  <2>5. Len(rpm') \in Nat /\ Len(admitted') \in Nat
    BY <1>4, <1>12, LenProperties
  <2>6. Len(rpm') <= RpmLimit[limiter] /\ uncounted' \in Nat
    BY <1>12
  <2>8. Len(admitted') <= RpmLimit[limiter] + uncounted'
    BY <1>1, <2>3, <2>4, <2>5, <2>6
  <2>7. QED
    BY <2>8 DEF RpmCeiling
<1>17. QED
  BY <1>12, <1>14, <1>15, <1>16 DEF WindowInv

\* A refusal drops nothing from the window: it was full before.
LEMMA FullIsKept ==
  ASSUME TypeOK, WindowInv, NEW at \in Nat, Len(Expire(rpm, at)) >= RpmLimit[limiter]
  PROVE  Expire(rpm, at) = rpm
<1>1. rpm \in Seq(RpmEntry) /\ Timed(RpmEntry) /\ RpmLimit[limiter] \in Nat
  BY WindowTyped
<1>2. Expire(rpm, at) \in Seq(RpmEntry) /\ \E k \in 0 .. Len(rpm) : Cut(rpm, Expire(rpm, at), k)
  BY <1>1, ExpireCuts
<1>3. Len(rpm) <= RpmLimit[limiter]
  BY DEF WindowInv
<1>4. Len(rpm) \in Nat /\ Len(Expire(rpm, at)) \in Nat
  BY <1>1, <1>2, LenProperties
<1>5. Len(Expire(rpm, at)) >= Len(rpm)
  BY <1>1, <1>3, <1>4
<1>6. QED
  BY <1>1, <1>2, <1>5, NothingCut

\* The local window as the pruner leaves it.
LEMMA WindowDrained ==
  ASSUME TypeOK, TypeOK', WindowInv, guard = Nobody, Drained,
         UNCHANGED <<now, limiter, req, guard, admitted, uncounted>>
  PROVE  WindowInv'
<1>1. /\ rpm \in Seq(RpmEntry) /\ admitted \in Seq(RpmEntry) /\ Timed(RpmEntry)
      /\ now \in Nat /\ Window \in Nat \ {0} /\ RpmLimit[limiter] \in Nat
  BY WindowTyped
<1>2. Earliest = now /\ Earliest' = now
  BY RequestsAssumption DEF Earliest
<1>3. /\ Ascending(rpm) /\ Ascending(admitted)
      /\ \A r \in Requests : req[r].stage = "rpm" => req[r].at <= now
  BY DEF WindowInv, InOrder
<1>4. CASE limiter # "local"
  <2>1. rpm' = rpm
    BY <1>4 DEF Drained
  <2>2. now >= now
    BY <1>1
  <2>3. QED
    BY <1>2, <1>3, <2>1, <2>2, WindowKept
<1>5. CASE limiter = "local"
  <2> DEFINE v == Expire(rpm, now)
  <2>1. rpm' = v
    BY <1>5 DEF Drained, Expire
  <2>2. v \in Seq(RpmEntry)
    BY <1>1, ExpireCuts
  <2>3. PICK k \in 0 .. Len(rpm) : Cut(rpm, v, k) /\ \A i \in 1 .. k : rpm[i].at <= now - Window
    BY <1>1, ExpireCuts
  <2> HIDE DEF v
  <2>4. /\ Len(rpm) \in Nat /\ Len(v) \in Nat
        /\ DOMAIN rpm = 1 .. Len(rpm) /\ DOMAIN v = 1 .. Len(v)
        /\ Len(v) = Len(rpm) - k /\ \A i \in 1 .. Len(v) : v[i] = rpm[k + i]
    BY <1>1, <2>2, <2>3, LenProperties DEF Cut
  <2>5. \A t \in Int : t >= now - Window => Ascending(v) /\ Len(Later(v, t)) = Len(Later(rpm, t))
    <3> SUFFICES ASSUME NEW t \in Int, t >= now - Window
                 PROVE  Ascending(v) /\ Len(Later(v, t)) = Len(Later(rpm, t))
      OBVIOUS
    <3>1. \A i \in 1 .. k : rpm[i].at <= t
      <4> SUFFICES ASSUME NEW i \in 1 .. k PROVE rpm[i].at <= t
        OBVIOUS
      <4>1. i \in 1 .. Len(rpm)
        BY <2>4
      <4>2. rpm[i].at \in Nat
        BY <1>1, <4>1, ElementOfSeq DEF Timed
      <4>3. rpm[i].at <= now - Window
        BY <2>3
      <4>4. QED
        BY <1>1, <4>2, <4>3
    <3>2. QED
      BY <1>1, <1>3, <2>2, <2>3, <3>1, CutLater
  <2>6. Ascending(v)
    <3>1. now - Window \in Int /\ now - Window >= now - Window
      BY <1>1
    <3>2. QED
      BY <2>5, <3>1
  <2>7. \A i \in DOMAIN v : v[i].at <= now
    <3> SUFFICES ASSUME NEW i \in 1 .. Len(v) PROVE v[i].at <= now
      BY <2>4
    <3>1. k + i \in 1 .. Len(rpm)
      BY <2>4
    <3>2. rpm[k + i].at <= now
      BY <1>2, <1>5, <2>4, <3>1 DEF WindowInv, InOrder
    <3>3. QED
      BY <2>4, <3>2
  <2>8. InOrder'
    <3>1. \A i \in DOMAIN admitted : admitted[i].at <= now
      BY <1>2, <1>5 DEF WindowInv, InOrder
    <3>2. QED
      BY <1>2, <1>3, <2>1, <2>6, <2>7, <3>1 DEF InOrder, Ascending
  <2>9. Counted'
    <3> SUFFICES ASSUME NEW t \in Int, Recent(t)'
                 PROVE  Len(Later(admitted', t)) <= Len(Later(rpm', t)) + uncounted'
      BY DEF Counted
    <3>1. Recent(t) /\ t >= now - Window
      BY <1>2, <1>5 DEF Recent
    <3>2. Len(Later(admitted, t)) <= Len(Later(rpm, t)) + uncounted
      BY <3>1 DEF WindowInv, Counted
    <3>3. Len(Later(v, t)) = Len(Later(rpm, t))
      BY <2>5, <3>1
    <3>4. QED
      BY <2>1, <3>2, <3>3
  <2>10. Len(rpm') <= RpmLimit[limiter]
    <3>1. Len(rpm) <= RpmLimit[limiter]
      BY DEF WindowInv
    <3>2. QED
      BY <1>1, <2>1, <2>4, <3>1
  <2>11. QED
    BY <2>8, <2>9, <2>10 DEF WindowInv, RpmCeiling
<1>6. QED
  BY <1>4, <1>5

\* No request can be checked at a time before the one it is checked at.
LEMMA EarliestIsPast ==
  ASSUME TypeOK, WindowInv
  PROVE  Earliest \in Nat /\ Earliest <= now
<1>1. now \in Nat /\ Earliest \in Nat
  BY WindowTyped
<1>2. \A r \in Requests : req[r].stage = "rpm" => req[r].at <= now
  BY DEF WindowInv, InOrder
<1>3. QED
  BY <1>1, <1>2 DEF Earliest

\* A request that is refused, and one that goes on to the backend.
LEMMA Leaves ==
  ASSUME req \in [Requests -> Record0], NEW r \in Requests
  PROVE  /\ \A o, n : Refuse(r, o, n) =>
              /\ guard' = Nobody /\ req'[r].stage = "refused"
              /\ \A s \in Requests : s # r => req'[s] = req[s]
         /\ PassTpm(r) =>
              /\ guard' = guard /\ req'[r].stage = "running"
              /\ \A s \in Requests : s # r => req'[s] = req[s]
         /\ \A stage \in Stages : req' = [req EXCEPT ![r] = Now(stage)] =>
              /\ req'[r].stage = stage
              /\ \A s \in Requests : s # r => req'[s] = req[s]
<1>1. ASSUME NEW o, NEW n, Refuse(r, o, n)
      PROVE  /\ guard' = Nobody /\ req'[r].stage = "refused"
             /\ \A s \in Requests : s # r => req'[s] = req[s]
  BY <1>1 DEF Refuse, Record0
<1>2. ASSUME PassTpm(r)
      PROVE  /\ guard' = guard /\ req'[r].stage = "running"
             /\ \A s \in Requests : s # r => req'[s] = req[s]
  BY <1>2 DEF PassTpm, Idle, Record0
<1>3. ASSUME NEW stage \in Stages, req' = [req EXCEPT ![r] = Now(stage)]
      PROVE  /\ req'[r].stage = stage
             /\ \A s \in Requests : s # r => req'[s] = req[s]
  BY <1>3 DEF Now, Idle, Record0
<1>4. QED
  BY <1>1, <1>2, <1>3

\* A step after which a request is not at its check.
LEMMA OutOfCheck ==
  ASSUME TypeOK, TypeOK', WindowInv, NEW r \in Requests,
         UNCHANGED <<now, limiter, rpm, admitted, uncounted>>,
         req'[r].stage # "rpm", \A s \in Requests : s # r => req'[s] = req[s],
         \/ guard = r /\ guard' \in {guard, Nobody}
         \/ guard' = guard /\ req[r].stage # "rpm"
  PROVE  WindowInv'
<1>0. /\ now \in Nat /\ Earliest \in Nat /\ Earliest <= now
      /\ \A s \in Requests : req[s].stage = "rpm" => req[s].at <= now
      /\ guard \in Requests \cup Neighbours \cup {Nobody} /\ Nobody \notin Requests
  BY WindowTyped, EarliestIsPast, RequestsAssumption DEF WindowInv, InOrder, TypeOK
<1>1. \A s \in Requests : req'[s].stage = "rpm" => req'[s].at <= now'
  BY <1>0
<1>2. Earliest' = now \/ Earliest' = Earliest
  <2>1. CASE guard = r
    BY <1>0, <2>1 DEF Earliest
  <2>2. CASE guard # r
    BY <1>0, <2>2 DEF Earliest
  <2>3. QED
    BY <2>1, <2>2
<1>3. Earliest' >= Earliest
  BY <1>0, <1>2
<1>4. QED
  BY <1>1, <1>3, WindowKept

\* No step lets more requests in than the windows count.
LEMMA WindowStep ==
  ASSUME TypeOK, TypeOK', WindowInv, Next
  PROVE  WindowInv'
<1>0. /\ now \in Nat /\ Earliest \in Nat /\ Earliest <= now
      /\ \A r \in Requests : req[r].at \in Nat
      /\ \A r \in Requests : req[r].stage = "rpm" => req[r].at <= now
      /\ guard \in Requests \cup Neighbours \cup {Nobody} /\ Nobody \notin Requests
      /\ req \in [Requests -> Record0]
      /\ now <= now
  <2>1. now \in Nat /\ \A r \in Requests : req[r].at \in Nat
    BY WindowTyped
  <2>2. now <= now
    BY <2>1
  <2>3. QED
    BY <2>1, <2>2, EarliestIsPast, RequestsAssumption DEF WindowInv, InOrder, TypeOK, Record0
<1>g. \A r \in Requests : req[r].stage \in {"rpm", "tpm", "running"} => guard = r
  BY DEF TypeOK
<1>1. ASSUME NEW r \in Requests, Arrive(r) \/ Unblock(r) PROVE WindowInv'
  <2>1. UNCHANGED <<now, limiter, rpm, admitted, uncounted>>
    BY <1>1 DEF Arrive, Unblock
  <2>2. CASE guard = Nobody
    <3>1. guard' = r /\ req' = [req EXCEPT ![r].stage = "rpm", ![r].at = now]
      BY <1>1, <2>2 DEF Arrive, Unblock, Enter
    <3>2. req'[r].stage = "rpm" /\ req'[r].at = now /\ \A s \in Requests : s # r => req'[s] = req[s]
      BY <1>0, <3>1 DEF Record0
    <3>3. Earliest' = now
      BY <1>0, <2>1, <3>1, <3>2 DEF Earliest
    <3>4. \A s \in Requests : req'[s].stage = "rpm" => req'[s].at <= now'
      BY <1>0, <2>1, <3>2
    <3>5. QED
      BY <1>0, <2>1, <3>3, <3>4, WindowKept
  <2>3. CASE guard # Nobody
    <3>1. Arrive(r) /\ guard' = guard /\ req' = [req EXCEPT ![r].stage = "blocked"]
      BY <1>1, <2>3 DEF Arrive, Unblock
    <3>2. req'[r].stage = "blocked" /\ \A s \in Requests : s # r => req'[s] = req[s]
      BY <1>0, <3>1 DEF Record0
    <3>3. req[r].stage \in {"idle", "refused"}
      BY <3>1 DEF Arrive
    <3>4. Earliest' = Earliest
      BY <1>0, <2>1, <2>3, <3>1, <3>2, <3>3 DEF Earliest
    <3>5. \A s \in Requests : req'[s].stage = "rpm" => req'[s].at <= now'
      BY <1>0, <2>1, <3>2
    <3>6. Earliest' >= Earliest
      BY <1>0, <3>4
    <3>7. QED
      BY <2>1, <3>5, <3>6, WindowKept
  <2>4. QED
    BY <2>2, <2>3
<1>3. ASSUME NEW r \in Requests, CheckRpm(r) PROVE WindowInv'
  <2> DEFINE at == req[r].at
             w  == Expire(rpm, at)
  <2>1. guard = r /\ req[r].stage = "rpm" /\ UNCHANGED <<now, limiter, uncounted>>
    BY <1>3, <1>g DEF CheckRpm, Checks
  <2>2. CASE Len(w) >= RpmLimit[limiter]
    <3>1. Refuse(r, Oldest(w, at), RetryAfter(Oldest(w, at), at)) /\ rpm' = w /\ UNCHANGED admitted
      BY <1>3, <2>2 DEF CheckRpm
    <3>2. w = rpm
      BY <1>0, <2>2, FullIsKept
    <3>3. guard' = Nobody /\ req'[r].stage = "refused" /\ \A s \in Requests : s # r => req'[s] = req[s]
      BY <1>0, <3>1, Leaves
    <3>4. UNCHANGED <<now, limiter, rpm, admitted, uncounted>>
      BY <2>1, <3>1, <3>2
    <3>5. req'[r].stage # "rpm" /\ guard' \in {guard, Nobody}
      BY <3>3
    <3>6. QED
      BY OutOfCheck, <2>1, <3>3, <3>4, <3>5
  <2>3. CASE ~(Len(w) >= RpmLimit[limiter])
    <3>1. PassRpm(r) /\ rpm' = Store(w, [at |-> at]) /\ Admit(at)
      BY <1>3, <2>3 DEF CheckRpm
    <3>2. guard' = guard /\ req'[r].stage = "tpm" /\ \A s \in Requests : s # r => req'[s] = req[s]
      BY <1>0, <3>1 DEF PassRpm, Record0
    <3>3. Earliest = at /\ Earliest' = now
      BY <1>0, <2>1, <3>2 DEF Earliest
    <3>4. \A s \in Requests : req'[s].stage = "rpm" => req'[s].at <= now'
      BY <1>0, <2>1, <3>2
    <3>5. Len(w) < RpmLimit[limiter]
      <4>1. RpmLimit[limiter] \in Nat /\ rpm \in Seq(RpmEntry) /\ Timed(RpmEntry)
        BY WindowTyped
      <4>2. w \in Seq(RpmEntry)
        BY <1>0, <4>1, ExpireCuts
      <4>3. Len(w) \in Nat
        BY <4>2, LenProperties
      <4> HIDE DEF w
      <4>4. QED
        BY <2>3, <4>1, <4>3
    <3>6. at \in Nat /\ at <= Earliest'
      BY <1>0, <2>1, <3>3
    <3>7. QED
      BY <2>1, <3>1, <3>3, <3>4, <3>5, <3>6, Admission
  <2>4. QED
    BY <2>2, <2>3
<1>4. ASSUME NEW r \in Requests, CheckTpm(r) PROVE WindowInv'
  <2>1. guard = r /\ req[r].stage = "tpm" /\ UNCHANGED <<now, limiter, rpm, admitted, uncounted>>
    BY <1>4, <1>g DEF CheckTpm, Checks
  <2>2. \/ \E o, n : Refuse(r, o, n)
        \/ PassTpm(r)
    BY <1>4 DEF CheckTpm
  <2>3. /\ req'[r].stage # "rpm" /\ \A s \in Requests : s # r => req'[s] = req[s]
        /\ guard' \in {guard, Nobody}
    BY <1>0, <2>2, Leaves
  <2>4. QED
    BY OutOfCheck, <2>1, <2>3
<1>5. ASSUME NEW r \in Requests, CheckFails(r) PROVE WindowInv'
  <2>1. /\ guard = r /\ limiter # "local" /\ UNCHANGED <<now, limiter, rpm>>
        /\ req[r].stage \in {"rpm", "tpm"}
    BY <1>5, <1>g DEF CheckFails, Checking
  <2>2. CASE limiter = "closed" \/ req[r].stage # "rpm"
    <3>1. UNCHANGED <<uncounted, admitted>> /\ ((\E o, n : Refuse(r, o, n)) \/ PassTpm(r))
      BY <1>5, <2>2 DEF CheckFails
    <3>2. /\ req'[r].stage # "rpm" /\ \A s \in Requests : s # r => req'[s] = req[s]
          /\ guard' \in {guard, Nobody}
      BY <1>0, <3>1, Leaves
    <3>3. UNCHANGED <<now, limiter, rpm, admitted, uncounted>>
      BY <2>1, <3>1
    <3>4. QED
      BY OutOfCheck, <2>1, <3>2, <3>3
  <2>3. CASE limiter # "closed" /\ req[r].stage = "rpm"
    <3>1. uncounted' = uncounted + 1 /\ PassRpm(r) /\ Admit(req[r].at)
      BY <1>5, <2>3 DEF CheckFails
    <3>2. req'[r].stage = "tpm" /\ \A s \in Requests : s # r => req'[s] = req[s]
      BY <1>0, <3>1 DEF PassRpm, Record0
    <3>3. \A s \in Requests : req'[s].stage = "rpm" => req'[s].at <= now'
      BY <1>0, <2>1, <3>2
    <3>4. req[r].at \in Nat
      BY <1>0
    <3>5. QED
      BY <2>1, <3>1, <3>3, <3>4, Admission
  <2>4. QED
    BY <2>2, <2>3
<1>6. ASSUME NEW r \in Requests, Answer(r) PROVE WindowInv'
  <2>1. guard = r /\ UNCHANGED <<now, limiter, rpm, admitted, uncounted>>
    BY <1>6, <1>g DEF Answer
  <2>2. /\ req'[r].stage # "rpm" /\ \A s \in Requests : s # r => req'[s] = req[s]
        /\ guard' \in {guard, Nobody}
    <3>1. PICK stage \in {"idle", "streaming", "recording"} :
            /\ req' = [req EXCEPT ![r] = Now(stage)]
            /\ guard' = IF stage = "recording" THEN guard ELSE Nobody
      BY <1>6 DEF Answer
    <3>2. stage \in Stages
      BY DEF Stages
    <3>3. QED
      BY <1>0, <3>1, <3>2, Leaves
  <2>3. QED
    BY OutOfCheck, <2>1, <2>2
<1>7. ASSUME NEW r \in Requests, StreamEnds(r) PROVE WindowInv'
  <2>1. /\ UNCHANGED <<now, limiter, rpm, admitted, uncounted, guard>>
        /\ req[r].stage # "rpm"
    BY <1>7 DEF StreamEnds
  <2>2. req'[r].stage # "rpm" /\ \A s \in Requests : s # r => req'[s] = req[s]
    BY <1>0, <1>7 DEF StreamEnds, Now, Idle, Record0
  <2>3. QED
    BY OutOfCheck, <2>1, <2>2
<1>8. ASSUME NEW r \in Requests, Record(r) PROVE WindowInv'
  <2>1. /\ UNCHANGED <<now, limiter, rpm, admitted, uncounted>>
        /\ req[r].stage = "recording" /\ req' = [req EXCEPT ![r] = Idle]
        /\ guard' = IF guard = r THEN Nobody ELSE guard
    BY <1>8 DEF Record
  <2>2. req'[r].stage # "rpm" /\ \A s \in Requests : s # r => req'[s] = req[s]
    BY <1>0, <2>1 DEF Idle, Record0
  <2>3. QED
    BY OutOfCheck, <2>1, <2>2
<1>9. ASSUME UNCHANGED <<limiter, rpm, guard, req, uncounted, admitted>>,
             now' \in Nat, now' >= now
      PROVE  WindowInv'
  <2>1. \A s \in Requests : req'[s].stage = "rpm" => req'[s].at <= now'
    <3>1. ASSUME NEW s \in Requests, req[s].stage = "rpm" PROVE req[s].at <= now'
      <4>1. req[s].at <= now /\ req[s].at \in Nat
        BY <1>0, <3>1
      <4>2. QED
        BY <1>0, <1>9, <4>1
    <3>2. QED
      BY <1>9, <3>1
  <2>2. Earliest' >= Earliest
    <3>1. Earliest' = Earliest \/ (Earliest = now /\ Earliest' = now')
      BY <1>9 DEF Earliest
    <3>2. QED
      BY <1>0, <1>9, <3>1
  <2>3. QED
    BY <1>9, <2>1, <2>2, WindowKept
<1>10. CASE RecordRedis
  BY <1>0, <1>9, <1>10 DEF RecordRedis
<1>11. CASE Tick
  BY <1>0, <1>9, <1>11 DEF Tick
<1>12. CASE Prune
  <2>1. UNCHANGED <<now, limiter, guard, req, uncounted, admitted>>
    BY <1>12 DEF Prune
  <2>2. CASE guard = Nobody
    BY <1>12, <2>1, <2>2, WindowDrained DEF Prune
  <2>3. CASE guard # Nobody
    BY <1>0, <1>9, <1>12, <2>1, <2>3 DEF Prune
  <2>4. QED
    BY <2>2, <2>3
<1>13. CASE UnblockPruner
  BY <1>13, WindowDrained DEF UnblockPruner
<1>14. CASE OtherInstance
  <2> DEFINE at == now - Skew
             w  == Trim(rpm, at)
  <2>1. at \in Nat
    BY LimitsAssumption DEF TypeOK
  <2>2. limiter # "local" /\ w = Expire(rpm, at) /\ UNCHANGED <<now, limiter, guard, req, uncounted>>
    BY <1>14 DEF OtherInstance, Expire
  <2>3. CASE Len(w) >= RpmLimit[limiter]
    <3>1. rpm' = w /\ UNCHANGED admitted
      BY <1>14, <2>3 DEF OtherInstance
    <3>2. w = rpm
      BY <2>1, <2>2, <2>3, FullIsKept
    <3>3. QED
      BY <1>0, <1>9, <2>2, <3>1, <3>2
  <2>4. CASE ~(Len(w) >= RpmLimit[limiter])
    <3>1. rpm' = Insert(w, [at |-> at]) /\ Admit(at)
      BY <1>14, <2>4 DEF OtherInstance
    <3>2. Len(w) < RpmLimit[limiter]
      <4>1. RpmLimit[limiter] \in Nat /\ rpm \in Seq(RpmEntry) /\ Timed(RpmEntry)
        BY WindowTyped
      <4>2. w \in Seq(RpmEntry)
        BY <2>1, <2>2, <4>1, ExpireCuts
      <4>3. Len(w) \in Nat
        BY <4>2, LenProperties
      <4> HIDE DEF w
      <4>4. QED
        BY <2>4, <4>1, <4>3
    <3>3. rpm' = Store(w, [at |-> at])
      BY <2>2, <3>1 DEF Store
    <3>4. \A s \in Requests : req'[s].stage = "rpm" => req'[s].at <= now'
      BY <1>0, <2>2
    <3> HIDE DEF at, w
    <3>5. QED
      BY <2>1, <2>2, <3>1, <3>2, <3>3, <3>4, Admission
  <2>5. QED
    BY <2>3, <2>4
<1>15. ASSUME NEW n \in Neighbours, Visit(n) \/ UnblockVisit(n) \/ Leave(n) PROVE WindowInv'
  <2>1. UNCHANGED <<now, limiter, rpm, req, uncounted, admitted>>
    BY <1>15 DEF Visit, UnblockVisit, Leave
  <2>2. guard' = guard \/ (guard \notin Requests /\ guard' \notin Requests)
    BY <1>15, RequestsAssumption, NeighboursAssumption DEF Visit, UnblockVisit, Leave, Hold
  <2>3. Earliest' = Earliest
    BY <2>1, <2>2 DEF Earliest
  <2>4. Earliest' >= Earliest /\ \A s \in Requests : req'[s].stage = "rpm" => req'[s].at <= now'
    BY <1>0, <2>1, <2>3
  <2>5. QED
    BY <2>1, <2>4, WindowKept
<1>16. QED
  BY <1>1, <1>3, <1>4, <1>5, <1>6, <1>7, <1>8, <1>10, <1>11, <1>12, <1>13, <1>14, <1>15
     DEF Next

\* The ceiling on requests per minute: however requests, answers, failures of Redis
\* and clocks interleave, no span of a window lets in more requests than the limit,
\* but for those let in unchecked because Redis failed.
THEOREM CeilingHolds == Spec => []RpmCeiling
<1>1. Init => WindowInv
  <2> SUFFICES ASSUME Init PROVE WindowInv
    OBVIOUS
  <2>1. /\ now \in Nat /\ rpm = <<>> /\ admitted = <<>> /\ uncounted = 0
        /\ \A r \in Requests : req[r].stage = "idle"
        /\ RpmLimit[limiter] \in Nat
    BY LimitsAssumption, LimitersAssumption DEF Init, Idle
  <2>2. Len(<<>>) = 0 /\ DOMAIN <<>> = {}
    OBVIOUS
  <2>3. InOrder
    BY <2>1, <2>2 DEF InOrder, Ascending
  <2>4. Counted
    <3>1. ASSUME NEW t \in Int PROVE Len(Later(<<>>, t)) = 0
      <4>1. <<>> \in Seq(RpmEntry) /\ Ascending(<<>>) /\ Timed(RpmEntry)
        BY <2>2, EntriesTimed DEF Ascending
      <4>2. Len(Later(<<>>, t)) \in Nat /\ Len(Later(<<>>, t)) <= Len(<<>>)
        BY <4>1, LaterFewer
      <4>3. QED
        BY <2>2, <4>2
    <3>2. QED
      BY <2>1 DEF Counted
  <2>5. QED
    BY <2>1, <2>2, <2>3, <2>4 DEF WindowInv, RpmCeiling
<1>2. TypeOK /\ TypeOK' /\ WindowInv /\ [Next]_vars => WindowInv'
  <2>1. TypeOK /\ TypeOK' /\ WindowInv /\ UNCHANGED vars => WindowInv'
    <3> SUFFICES ASSUME TypeOK, TypeOK', WindowInv, UNCHANGED vars PROVE WindowInv'
      OBVIOUS
    <3>1. Earliest' = Earliest
      BY DEF vars, Earliest
    <3>2. QED
      BY <3>1 DEF vars, WindowInv, InOrder, Ascending, Counted, Recent, RpmCeiling
  <2>2. QED
    BY <2>1, WindowStep
<1>3. Spec => []TypeOK
  BY TypeCorrect
<1>4. WindowInv => RpmCeiling
  BY DEF WindowInv
<1>5. QED
  BY <1>1, <1>2, <1>3, <1>4, PTL DEF Spec
-----------------------------------------------------------------------------
(* The bound on tokens *)

\* f adds up the tokens of the first entries of w.
Sums(w, f) ==
  f = [i \in 0 .. Len(w) |-> IF i = 0 THEN 0 ELSE f[i - 1] + w[i].tokens]

\* Such a function exists for the first n entries.
SumsUpTo(w, n, f) ==
  f = [i \in 0 .. n |-> IF i = 0 THEN 0 ELSE f[i - 1] + w[i].tokens]

\* The sums of the first entries of a window exist as a function: the least prefix
\* for which they did not would follow one for which they do.
LEMMA SumsExist ==
  ASSUME NEW w, Len(w) \in Nat
  PROVE  \E f : Sums(w, f)
<1> DEFINE Bad == {n \in Nat : n <= Len(w) /\ ~\E f : SumsUpTo(w, n, f)}
<1>1. ASSUME Bad # {} PROVE FALSE
  <2>1. PICK n \in Bad : \A m \in Bad : n <= m
    BY <1>1, Least
  <2>2. CASE n = 0
    <3> DEFINE f == [i \in 0 .. 0 |-> 0]
    <3>1. f = [i \in 0 .. 0 |-> IF i = 0 THEN 0 ELSE f[i - 1] + w[i].tokens]
      OBVIOUS
    <3>2. QED
      BY <2>1, <2>2, <3>1 DEF SumsUpTo
  <2>3. CASE n # 0
    <3>1. n - 1 \in Nat /\ n - 1 <= Len(w) /\ n - 1 \notin Bad
      BY <2>1, <2>3
    <3>2. PICK f : SumsUpTo(w, n - 1, f)
      BY <3>1
    <3> DEFINE g == [i \in 0 .. n |-> IF i = n THEN f[n - 1] + w[n].tokens ELSE f[i]]
    <3>3. ASSUME NEW i \in 0 .. n
          PROVE  g[i] = IF i = 0 THEN 0 ELSE g[i - 1] + w[i].tokens
      <4>1. CASE i = n
        <5>1. n - 1 \in 0 .. n /\ n - 1 # n /\ i # 0
          BY <2>3, <3>1, <4>1
        <5>2. g[n - 1] = f[n - 1]
          BY <5>1
        <5>3. QED
          BY <4>1, <5>1, <5>2
      <4>2. CASE i # n
        <5>1. i \in 0 .. n - 1 /\ g[i] = f[i]
          BY <3>1, <4>2
        <5>2. f[i] = IF i = 0 THEN 0 ELSE f[i - 1] + w[i].tokens
          BY <3>2, <5>1 DEF SumsUpTo
        <5>3. i # 0 => i - 1 \in 0 .. n /\ i - 1 # n
          BY <5>1, <3>1
        <5>4. i # 0 => g[i - 1] = f[i - 1]
          BY <5>3
        <5>5. QED
          BY <5>1, <5>2, <5>4
      <4>3. QED
        BY <4>1, <4>2
    <3>4. g = [i \in 0 .. n |-> IF i = 0 THEN 0 ELSE g[i - 1] + w[i].tokens]
      <4>1. g = [i \in 0 .. n |-> g[i]]
        OBVIOUS
      <4> HIDE DEF g
      <4>2. QED
        BY <3>3, <4>1
    <3>5. QED
      BY <2>1, <3>4 DEF SumsUpTo
  <2>4. QED
    BY <2>2, <2>3
<1>2. Len(w) \notin Bad /\ Len(w) <= Len(w)
  BY <1>1
<1>3. QED
  BY <1>2 DEF Sums, SumsUpTo

\* The tokens in a window are the last of its sums, and these are numbers.
LEMMA TokensAreSums ==
  ASSUME NEW w \in Seq(TpmEntry)
  PROVE  \E f : /\ TokensIn(w) = f[Len(w)]
                /\ f[0] = 0
                /\ \A i \in 1 .. Len(w) : f[i] = f[i - 1] + w[i].tokens
                /\ \A i \in 0 .. Len(w) : f[i] \in Nat
<1>1. Len(w) \in Nat /\ \A i \in 1 .. Len(w) : w[i].tokens \in Nat
  <2>1. \A i \in 1 .. Len(w) : w[i] \in TpmEntry
    BY ElementOfSeq
  <2>2. QED
    BY <2>1, LenProperties, LimitsAssumption DEF TpmEntry
<1> DEFINE f == CHOOSE f : Sums(w, f)
<1>2. Sums(w, f)
  BY <1>1, SumsExist
<1>3. TokensIn(w) = f[Len(w)]
  BY DEF TokensIn, Sums
<1> HIDE DEF f
<1>4. f[0] = 0 /\ \A i \in 1 .. Len(w) : f[i] = f[i - 1] + w[i].tokens
  <2>1. \A i \in 0 .. Len(w) : f[i] = IF i = 0 THEN 0 ELSE f[i - 1] + w[i].tokens
    BY <1>2 DEF Sums
  <2>2. 0 \in 0 .. Len(w)
    BY <1>1
  <2>3. QED
    BY <1>1, <2>1, <2>2
<1>5. \A i \in 0 .. Len(w) : f[i] \in Nat
  <2> DEFINE Bad == {i \in 0 .. Len(w) : f[i] \notin Nat}
  <2>1. ASSUME Bad # {} PROVE FALSE
    <3>0. Bad \in SUBSET Nat
      BY <1>1
    <3>1. PICK n \in Bad : \A m \in Bad : n <= m
      <4> HIDE DEF Bad
      <4>1. QED
        BY <2>1, <3>0, Least
    <3>2. n # 0 /\ n \in 1 .. Len(w) /\ n - 1 \in 0 .. Len(w)
      BY <1>1, <1>4, <3>1
    <3>3. n - 1 \notin Bad
      BY <3>1, <3>2
    <3>4. f[n - 1] \in Nat /\ f[n] = f[n - 1] + w[n].tokens /\ w[n].tokens \in Nat
      BY <1>1, <1>4, <3>2, <3>3
    <3>5. QED
      BY <3>1, <3>4
  <2>2. QED
    BY <2>1
<1>6. QED
  BY <1>3, <1>4, <1>5

\* One more entry brings its tokens.
LEMMA TokensAppend ==
  ASSUME NEW w \in Seq(TpmEntry), NEW e \in TpmEntry
  PROVE  TokensIn(w) \in Nat /\ TokensIn(Append(w, e)) = TokensIn(w) + e.tokens
<1> DEFINE v == Append(w, e)
<1>1. /\ v \in Seq(TpmEntry) /\ Len(v) = Len(w) + 1 /\ v[Len(w) + 1] = e
      /\ \A i \in 1 .. Len(w) : v[i] = w[i]
      /\ Len(w) \in Nat
  BY AppendProperties, LenProperties
<1> HIDE DEF v
<1>2. PICK f : /\ TokensIn(w) = f[Len(w)]
               /\ f[0] = 0
               /\ \A i \in 1 .. Len(w) : f[i] = f[i - 1] + w[i].tokens
               /\ \A i \in 0 .. Len(w) : f[i] \in Nat
  BY TokensAreSums
<1>3. PICK g : /\ TokensIn(v) = g[Len(v)]
               /\ g[0] = 0
               /\ \A i \in 1 .. Len(v) : g[i] = g[i - 1] + v[i].tokens
               /\ \A i \in 0 .. Len(v) : g[i] \in Nat
  BY <1>1, TokensAreSums
<1>4. \A i \in 0 .. Len(w) : g[i] = f[i]
  <2> DEFINE Bad == {i \in 0 .. Len(w) : g[i] # f[i]}
  <2>1. ASSUME Bad # {} PROVE FALSE
    <3>0. Bad \in SUBSET Nat
      BY <1>1
    <3>1. PICK n \in Bad : \A m \in Bad : n <= m
      <4> HIDE DEF Bad
      <4>1. QED
        BY <2>1, <3>0, Least
    <3>2. n # 0 /\ n \in 1 .. Len(w) /\ n - 1 \in 0 .. Len(w)
      BY <1>1, <1>2, <1>3, <3>1
    <3>3. n - 1 \notin Bad
      BY <3>1, <3>2
    <3>4. n \in 1 .. Len(v) /\ v[n] = w[n] /\ g[n - 1] = f[n - 1]
      BY <1>1, <3>2, <3>3
    <3>5. QED
      BY <1>2, <1>3, <3>1, <3>2, <3>4
  <2>2. QED
    BY <2>1
<1>5. Len(v) \in 1 .. Len(v) /\ Len(v) - 1 = Len(w) /\ Len(w) \in 0 .. Len(w)
  BY <1>1
<1>6. g[Len(v)] = f[Len(w)] + e.tokens
  BY <1>1, <1>3, <1>4, <1>5
<1>7. QED
  BY <1>2, <1>3, <1>5, <1>6 DEF v

\* A window that lost its front has no more tokens than before.
LEMMA TokensCut ==
  ASSUME NEW w \in Seq(TpmEntry), NEW v \in Seq(TpmEntry),
         NEW k \in 0 .. Len(w), Cut(w, v, k)
  PROVE  TokensIn(v) \in Nat /\ TokensIn(w) \in Nat /\ TokensIn(v) <= TokensIn(w)
<1>1. /\ Len(w) \in Nat /\ Len(v) = Len(w) - k /\ Len(v) \in Nat
      /\ \A i \in 1 .. Len(v) : v[i] = w[k + i]
  BY LenProperties DEF Cut
<1>2. \A i \in 1 .. Len(v) : v[i].tokens \in Nat
  <2>1. \A i \in 1 .. Len(v) : v[i] \in TpmEntry
    BY ElementOfSeq
  <2>2. QED
    BY <2>1, LimitsAssumption DEF TpmEntry
<1>3. PICK f : /\ TokensIn(w) = f[Len(w)]
               /\ f[0] = 0
               /\ \A i \in 1 .. Len(w) : f[i] = f[i - 1] + w[i].tokens
               /\ \A i \in 0 .. Len(w) : f[i] \in Nat
  BY TokensAreSums
<1>4. PICK g : /\ TokensIn(v) = g[Len(v)]
               /\ g[0] = 0
               /\ \A i \in 1 .. Len(v) : g[i] = g[i - 1] + v[i].tokens
               /\ \A i \in 0 .. Len(v) : g[i] \in Nat
  BY TokensAreSums
<1>5. \A i \in 0 .. Len(v) : g[i] <= f[k + i]
  <2> DEFINE Bad == {i \in 0 .. Len(v) : ~(g[i] <= f[k + i])}
  <2>1. ASSUME Bad # {} PROVE FALSE
    <3>0. Bad \in SUBSET Nat
      BY <1>1
    <3>1. PICK n \in Bad : \A m \in Bad : n <= m
      <4> HIDE DEF Bad
      <4>1. QED
        BY <2>1, <3>0, Least
    <3>2. CASE n = 0
      <4>1. k + n = k /\ f[k] \in Nat
        BY <1>1, <1>3, <3>2
      <4>2. QED
        BY <1>4, <3>1, <3>2, <4>1
    <3>3. CASE n # 0
      <4>1. n \in 1 .. Len(v) /\ n - 1 \in 0 .. Len(v) /\ n - 1 \notin Bad
        BY <1>1, <3>1, <3>3
      <4>2. g[n - 1] <= f[k + (n - 1)]
        BY <4>1
      <4>3. k + n \in 1 .. Len(w) /\ (k + n) - 1 = k + (n - 1) /\ k + (n - 1) \in 0 .. Len(w)
        BY <1>1, <4>1
      <4>4. f[k + n] = f[k + (n - 1)] + v[n].tokens
        BY <1>1, <1>3, <4>1, <4>3
      <4>5. g[n] = g[n - 1] + v[n].tokens
        BY <1>4, <4>1
      <4>6. f[k + (n - 1)] \in Nat /\ g[n - 1] \in Nat /\ v[n].tokens \in Nat
        BY <1>2, <1>3, <1>4, <4>1, <4>3
      <4>7. g[n] <= f[k + n]
        BY <4>2, <4>4, <4>5, <4>6
      <4>8. QED
        BY <3>1, <4>7
    <3>4. QED
      BY <3>2, <3>3
  <2>2. QED
    BY <2>1
<1>6. Len(v) \in 0 .. Len(v) /\ k + Len(v) = Len(w) /\ Len(w) \in 0 .. Len(w)
  BY <1>1
<1>7. QED
  BY <1>3, <1>4, <1>5, <1>6

\* What is left of the window of tokens has no more of them.
LEMMA TokensExpire ==
  ASSUME TypeOK, NEW at \in Nat
  PROVE  /\ Expire(tpm, at) \in Seq(TpmEntry)
         /\ TokensIn(Expire(tpm, at)) \in Nat /\ TokensIn(tpm) \in Nat
         /\ TokensIn(Expire(tpm, at)) <= TokensIn(tpm)
<1>1. tpm \in Seq(TpmEntry) /\ Timed(TpmEntry)
  BY EntriesTimed DEF TypeOK, TpmEntry
<1>2. /\ Expire(tpm, at) \in Seq(TpmEntry)
      /\ \E k \in 0 .. Len(tpm) : Cut(tpm, Expire(tpm, at), k)
  BY <1>1, ExpireCuts
<1>3. QED
  BY <1>1, <1>2, TokensCut

\* A finite set of numbers has a greatest.
LEMMA MaxIsGreatest ==
  ASSUME NEW S \in SUBSET Nat, S # {}, IsFiniteSet(S)
  PROVE  Max(S) \in S /\ \A y \in S : y <= Max(S)
<1> DEFINE Over == {{y \in S : y > x} : x \in S}
<1>1. IsWellFoundedOn(StrictSubsetOrdering(S), FiniteSubsetsOf(S))
  BY FS_StrictSubsetOrderingWellFounded
<1>2. Over \subseteq FiniteSubsetsOf(S)
  <2>1. ASSUME NEW x \in S
        PROVE  {y \in S : y > x} \in SUBSET S /\ IsFiniteSet({y \in S : y > x})
    <3> DEFINE T == {y \in S : y > x}
    <3>1. T \in SUBSET S
      OBVIOUS
    <3> HIDE DEF T
    <3>2. IsFiniteSet(T)
      BY <3>1, FS_Subset
    <3>3. QED
      BY <3>1, <3>2 DEF T
  <2>2. QED
    BY <2>1 DEF FiniteSubsetsOf
<1>3. PICK b \in Over : \A c \in Over : <<c, b>> \notin StrictSubsetOrdering(S)
  <2>1. Over # {}
    OBVIOUS
  <2>2. QED
    BY <1>1, <1>2, <2>1, WFMin
<1>4. PICK x \in S : b = {y \in S : y > x}
  OBVIOUS
<1>5. ASSUME NEW y \in S, y > x PROVE FALSE
  <2> DEFINE c == {z \in S : z > y}
  <2>1. c \in Over /\ y \in b /\ y \notin c
    <3>1. c \in Over
      BY Zenon
    <3>2. y \in b
      BY <1>4, <1>5
    <3>3. ~(y > y)
      OBVIOUS
    <3>4. y \notin c
      BY <3>3
    <3>5. QED
      BY <3>1, <3>2, <3>4
  <2>3. c \subseteq b
    <3> SUFFICES ASSUME NEW z \in c PROVE z \in b
      OBVIOUS
    <3>1. z \in S /\ z > y /\ z \in Nat /\ y \in Nat /\ x \in Nat
      OBVIOUS
    <3>2. z > x
      BY <1>5, <3>1
    <3>3. QED
      BY <1>4, <3>1, <3>2
  <2>2. <<c, b>> \in StrictSubsetOrdering(S)
    BY <1>4, <2>1, <2>3 DEF StrictSubsetOrdering
  <2>4. QED
    BY <1>3, <2>1, <2>2
<1>6. x \in S /\ \A y \in S : x >= y
  BY <1>5
<1>7. Max(S) \in S /\ \A y \in S : Max(S) >= y
  BY <1>6 DEF Max
<1>8. QED
  BY <1>7

\* What is known of the spenders.
LEMMA SpendingFinite ==
  /\ IsFiniteSet(Spending) /\ Cardinality(Spending) \in Nat
  /\ Cardinality(Requests) \in Nat /\ Cardinality(Spending) <= Cardinality(Requests)
  /\ Max(Tokens) \in Nat /\ \A n \in Tokens : n <= Max(Tokens)
<1>1. Spending \in SUBSET Requests
  BY DEF Spending
<1>2. /\ IsFiniteSet(Spending) /\ Cardinality(Spending) \in Nat
      /\ Cardinality(Requests) \in Nat /\ Cardinality(Spending) <= Cardinality(Requests)
  BY <1>1, RequestsAssumption, FS_Subset, FS_CardinalityType
<1>3. Max(Tokens) \in Tokens /\ \A n \in Tokens : n <= Max(Tokens)
  BY LimitsAssumption, MaxIsGreatest
<1>4. QED
  BY <1>2, <1>3, LimitsAssumption

\* A product with a bounded factor.
LEMMA Times ==
  ASSUME NEW m \in Nat, NEW c \in Nat, NEW d \in Nat, c <= d
  PROVE  m * c \in Nat /\ m * d \in Nat /\ m * c <= m * d /\ m * (c + 1) = m * c + m
OBVIOUS

\* A step that adds no token and no request that may bring some.
LEMMA TokensKept ==
  ASSUME TypeOK, TypeOK', TokensInv, limiter' = limiter, records' = records,
         TokensIn(tpm') \in Nat, TokensIn(tpm) \in Nat, TokensIn(tpm') <= TokensIn(tpm),
         Spending' \subseteq Spending
  PROVE  TokensInv'
<1> DEFINE m == Max(Tokens)
           c == Cardinality(Spending)
           d == Cardinality(Spending')
           n == Cardinality(Requests)
<1>1. c \in Nat /\ n \in Nat /\ m \in Nat /\ IsFiniteSet(Spending)
  BY SpendingFinite
<1>2. d \in Nat /\ d <= c
  <2>1. Spending' \in SUBSET Spending
    OBVIOUS
  <2>2. QED
    BY <1>1, <2>1, FS_Subset, FS_CardinalityType
<1>3. TpmLimit \in Nat
  BY LimitsAssumption
<1>4. ASSUME limiter = "local", TpmLimit > 0
      PROVE  TokensIn(tpm') + m * d <= TpmLimit - 1 + m * n
  <2>1. TokensIn(tpm) + m * c <= TpmLimit - 1 + m * n
    BY <1>4 DEF TokensInv
  <2> HIDE DEF m, c, d, n
  <2>2. m * d \in Nat /\ m * c \in Nat /\ m * d <= m * c
    BY <1>1, <1>2, Times
  <2>3. m * n \in Nat
    BY <1>1
  <2>4. QED
    BY <1>3, <2>1, <2>2, <2>3
<1>5. limiter = "local" => records' = <<>>
  BY DEF TokensInv
<1>6. QED
  BY <1>4, <1>5 DEF TokensInv

\* No step takes the window over its bound.
LEMMA TokensStep ==
  ASSUME TypeOK, TypeOK', TokensInv, Next
  PROVE  TokensInv'
<1> DEFINE m == Max(Tokens)
           n == Cardinality(Requests)
<1>0. /\ now \in Nat /\ \A r \in Requests : req[r].at \in Nat
      /\ req \in [Requests -> Record0]
      /\ tpm \in Seq(TpmEntry) /\ TokensIn(tpm) \in Nat /\ TokensIn(tpm) <= TokensIn(tpm)
      /\ m \in Nat /\ n \in Nat /\ TpmLimit \in Nat
  <2>1. now \in Nat /\ (\A r \in Requests : req[r].at \in Nat) /\ tpm \in Seq(TpmEntry)
        /\ req \in [Requests -> Record0]
    BY DEF TypeOK, TpmEntry, Record0
  <2>2. TokensIn(tpm) \in Nat
    BY <2>1, TokensExpire
  <2>3. TokensIn(tpm) <= TokensIn(tpm)
    BY <2>2
  <2>4. QED
    BY <2>1, <2>2, <2>3, SpendingFinite, LimitsAssumption
\* A step of a request that does not become a spender.
<1>1. ASSUME NEW r \in Requests, \A s \in Requests : s # r => req'[s] = req[s],
             \/ req'[r].stage \notin {"running", "streaming", "recording"}
             \/ req[r].stage \in {"running", "streaming", "recording"}
      PROVE  Spending' \subseteq Spending
  BY <1>1 DEF Spending
<1>2. ASSUME NEW r \in Requests, Arrive(r) \/ Unblock(r) \/ CheckRpm(r) PROVE TokensInv'
  <2>1. UNCHANGED <<limiter, tpm, records>>
    BY <1>2 DEF Arrive, Unblock, CheckRpm
  <2>2. /\ req'[r].stage \in {"rpm", "blocked", "refused", "tpm"}
        /\ \A s \in Requests : s # r => req'[s] = req[s]
    <3>1. CASE Arrive(r) \/ Unblock(r)
      BY <1>0, <3>1 DEF Arrive, Unblock, Enter, Record0
    <3>2. CASE CheckRpm(r)
      <4>1. (\E o, k : Refuse(r, o, k)) \/ PassRpm(r)
        BY <3>2 DEF CheckRpm
      <4>2. CASE \E o, k : Refuse(r, o, k)
        BY <1>0, <4>2, Leaves
      <4>3. CASE PassRpm(r)
        BY <1>0, <4>3 DEF PassRpm, Record0
      <4>4. QED
        BY <4>1, <4>2, <4>3
    <3>3. QED
      BY <1>2, <3>1, <3>2
  <2>3. Spending' \subseteq Spending
    BY <2>2, <1>1
  <2>4. QED
    BY <1>0, <2>1, <2>3, TokensKept
<1>3. ASSUME NEW r \in Requests, CheckTpm(r) PROVE TokensInv'
  <2> DEFINE at == req[r].at
             w  == Expire(tpm, at)
  <2>1. UNCHANGED <<limiter, records>> /\ tpm' = w
    BY <1>3 DEF CheckTpm
  <2>2. TokensIn(w) \in Nat /\ TokensIn(w) <= TokensIn(tpm)
    BY <1>0, TokensExpire
  <2>3. CASE TokensIn(w) >= TpmLimit
    <3>1. \E o, k : Refuse(r, o, k)
      BY <1>3, <2>3 DEF CheckTpm
    <3>2. req'[r].stage = "refused" /\ \A s \in Requests : s # r => req'[s] = req[s]
      BY <1>0, <3>1, Leaves
    <3>3. Spending' \subseteq Spending
      BY <3>2, <1>1
    <3>4. QED
      BY <1>0, <2>1, <2>2, <3>3, TokensKept
  <2>4. CASE ~(TokensIn(w) >= TpmLimit)
    <3> DEFINE d == Cardinality(Spending')
    <3>1. d \in Nat /\ d <= n
      <4>1. Spending' \in SUBSET Requests
        BY DEF Spending
      <4>2. QED
        BY <4>1, RequestsAssumption, FS_Subset, FS_CardinalityType
    <3>2. TokensIn(tpm') + m * d <= TpmLimit - 1 + m * n
      <4>1. TokensIn(w) <= TpmLimit - 1
        BY <1>0, <2>2, <2>4
      <4> HIDE DEF w, d, m, n
      <4>2. m * d \in Nat /\ m * n \in Nat /\ m * d <= m * n
        BY <1>0, <3>1, Times
      <4>3. QED
        BY <1>0, <2>1, <2>2, <4>1, <4>2
    <3>3. limiter = "local" => records' = <<>>
      BY <2>1 DEF TokensInv
    <3>4. QED
      BY <2>1, <3>2, <3>3 DEF TokensInv
  <2>5. QED
    BY <2>3, <2>4
<1>4. ASSUME NEW r \in Requests, CheckFails(r) PROVE TokensInv'
  BY <1>4 DEF CheckFails, TokensInv
<1>5. ASSUME NEW r \in Requests, Answer(r) PROVE TokensInv'
  <2>1. UNCHANGED <<limiter, tpm, records>> /\ req[r].stage = "running"
    BY <1>5 DEF Answer
  <2>2. \A s \in Requests : s # r => req'[s] = req[s]
    BY <1>0, <1>5 DEF Answer
  <2>3. Spending' \subseteq Spending
    BY <2>1, <2>2, <1>1
  <2>4. QED
    BY <1>0, <2>1, <2>3, TokensKept
<1>6. ASSUME NEW r \in Requests, StreamEnds(r) PROVE TokensInv'
  <2>1. UNCHANGED <<limiter, tpm, records>> /\ req[r].stage = "streaming"
    BY <1>6 DEF StreamEnds
  <2>2. \A s \in Requests : s # r => req'[s] = req[s]
    BY <1>0, <1>6 DEF StreamEnds
  <2>3. Spending' \subseteq Spending
    BY <2>1, <2>2, <1>1
  <2>4. QED
    BY <1>0, <2>1, <2>3, TokensKept
<1>7. ASSUME NEW r \in Requests, Record(r) PROVE TokensInv'
  <2>1. req[r].stage = "recording" /\ req' = [req EXCEPT ![r] = Idle] /\ limiter' = limiter
    BY <1>7 DEF Record
  <2>2. CASE limiter # "local"
    BY <2>1, <2>2 DEF TokensInv
  <2>3. CASE limiter = "local"
    <3> DEFINE w == Expire(tpm, req[r].at)
               c == Cardinality(Spending)
    <3>1. PICK k \in Tokens : tpm' = Append(w, [at |-> req[r].at, tokens |-> k])
      BY <1>7, <2>3 DEF Record, Expire
    <3>2. records' = <<>>
      BY <1>7, <2>3 DEF Record, TokensInv
    <3>3. w \in Seq(TpmEntry) /\ TokensIn(w) \in Nat /\ TokensIn(w) <= TokensIn(tpm)
      BY <1>0, TokensExpire
    <3> HIDE DEF w
    <3>4. k \in Nat /\ k <= m
      BY SpendingFinite, LimitsAssumption
    <3>5. TokensIn(tpm') = TokensIn(w) + k
      <4>1. [at |-> req[r].at, tokens |-> k] \in TpmEntry
        BY <1>0 DEF TpmEntry
      <4>2. QED
        BY <3>1, <3>3, <4>1, TokensAppend
    <3>6. Spending' = Spending \ {r} /\ r \in Spending
      BY <1>0, <2>1 DEF Spending, Idle, Record0
    <3>7. Cardinality(Spending') = c - 1 /\ c - 1 \in Nat
      <4>1. IsFiniteSet(Spending) /\ c \in Nat
        BY SpendingFinite
      <4>2. Cardinality(Spending \ {r}) = c - 1 /\ IsFiniteSet(Spending \ {r})
        BY <3>6, <4>1, FS_RemoveElement
      <4>3. Cardinality(Spending \ {r}) \in Nat
        BY <4>2, FS_CardinalityType
      <4>4. QED
        BY <3>6, <4>2, <4>3
    <3>8. ASSUME TpmLimit > 0
          PROVE  TokensIn(tpm') + m * Cardinality(Spending') <= TpmLimit - 1 + m * n
      <4>1. TokensIn(tpm) + m * c <= TpmLimit - 1 + m * n
        BY <2>3, <3>8 DEF TokensInv
      <4> DEFINE b == c - 1
      <4>2. c = b + 1 /\ b \in Nat
        BY <3>7, SpendingFinite
      <4> HIDE DEF b, c, m, n
      <4>3. b <= b
        BY <4>2
      <4>4. m * b \in Nat /\ m * (b + 1) = m * b + m
        BY <1>0, <4>2, <4>3, Times
      <4>5. m * n \in Nat
        BY <1>0
      <4>6. Cardinality(Spending') = b
        BY <3>7 DEF b
      <4>7. TokensIn(tpm) + (m * b + m) <= TpmLimit - 1 + m * n
        BY <4>1, <4>2, <4>4
      <4>8. TokensIn(w) + k + m * b <= TpmLimit - 1 + m * n
        BY <1>0, <3>3, <3>4, <4>4, <4>5, <4>7
      <4>9. QED
        BY <3>5, <4>6, <4>8
    <3>9. QED
      BY <2>1, <2>3, <3>2, <3>8 DEF TokensInv
  <2>4. QED
    BY <2>2, <2>3
<1>8. CASE RecordRedis
  <2>1. CASE limiter = "local"
    <3>1. DOMAIN records = {}
      BY <2>1 DEF TokensInv
    <3>2. QED
      BY <1>8, <3>1 DEF RecordRedis
  <2>2. CASE limiter # "local"
    BY <1>8, <2>2 DEF RecordRedis, TokensInv
  <2>3. QED
    BY <2>1, <2>2
<1>9. CASE OtherInstance
  BY <1>9 DEF OtherInstance, TokensInv
<1>10. CASE Prune \/ UnblockPruner
  <2>1. UNCHANGED <<limiter, records, req>>
    BY <1>10 DEF Prune, UnblockPruner
  <2>2. tpm' = tpm \/ tpm' = Expire(tpm, now)
    BY <1>10 DEF Prune, UnblockPruner, Drained, Expire
  <2>3. TokensIn(tpm') \in Nat /\ TokensIn(tpm') <= TokensIn(tpm)
    BY <1>0, <2>2, TokensExpire
  <2>4. Spending' \subseteq Spending
    BY <2>1 DEF Spending
  <2>5. QED
    BY <1>0, <2>1, <2>3, <2>4, TokensKept
<1>11. CASE Tick
  <2>1. UNCHANGED <<limiter, records, req, tpm>>
    BY <1>11 DEF Tick
  <2>2. Spending' \subseteq Spending
    BY <2>1 DEF Spending
  <2>3. QED
    BY <1>0, <2>1, <2>2, TokensKept
<1>12. ASSUME NEW k \in Neighbours, Visit(k) \/ UnblockVisit(k) \/ Leave(k) PROVE TokensInv'
  <2>1. UNCHANGED <<limiter, records, req, tpm>>
    BY <1>12 DEF Visit, UnblockVisit, Leave
  <2>2. Spending' \subseteq Spending
    BY <2>1 DEF Spending
  <2>3. QED
    BY <1>0, <2>1, <2>2, TokensKept
<1>13. QED
  BY <1>2, <1>3, <1>4, <1>5, <1>6, <1>7, <1>8, <1>9, <1>10, <1>11, <1>12 DEF Next

\* The bound on tokens: the local window of tokens goes over its limit by what the
\* requests in flight were still spending, and no more.
THEOREM TokensHold == Spec => []TokensBounded
<1>1. Init => TokensInv
  <2> SUFFICES ASSUME Init PROVE TokensInv
    OBVIOUS
  <2>1. tpm = <<>> /\ records = <<>> /\ Spending = {}
    BY DEF Init, Idle, Spending
  <2>2. TokensIn(tpm) = 0
    <3>1. <<>> \in Seq(TpmEntry) /\ Len(<<>>) = 0
      OBVIOUS
    <3>2. \E f : TokensIn(<<>>) = f[Len(<<>>)] /\ f[0] = 0
      BY <3>1, TokensAreSums
    <3>3. QED
      BY <2>1, <3>1, <3>2
  <2>3. Cardinality(Spending) = 0
    BY <2>1, FS_EmptySet
  <2>4. Max(Tokens) \in Nat /\ Cardinality(Requests) \in Nat /\ TpmLimit \in Nat
    BY SpendingFinite, LimitsAssumption
  <2>5. Max(Tokens) * 0 = 0 /\ Max(Tokens) * Cardinality(Requests) \in Nat
    BY <2>4
  <2>6. TpmLimit > 0 =>
          TokensIn(tpm) + Max(Tokens) * Cardinality(Spending)
            <= TpmLimit - 1 + Max(Tokens) * Cardinality(Requests)
    BY <2>2, <2>3, <2>4, <2>5
  <2>7. QED
    BY <2>1, <2>6 DEF TokensInv
<1>2. TypeOK /\ TypeOK' /\ TokensInv /\ [Next]_vars => TokensInv'
  <2>1. TypeOK /\ TypeOK' /\ TokensInv /\ UNCHANGED vars => TokensInv'
    BY DEF vars, TokensInv, Spending
  <2>2. QED
    BY <2>1, TokensStep
<1>3. TypeOK /\ TokensInv => TokensBounded
  <2> SUFFICES ASSUME TypeOK, TokensInv, limiter = "local", TpmLimit > 0
               PROVE  TokensIn(tpm) <= TpmLimit - 1 + Max(Tokens) * Cardinality(Requests)
    BY DEF TokensBounded
  <2>1. /\ Max(Tokens) \in Nat /\ Cardinality(Requests) \in Nat /\ Cardinality(Spending) \in Nat
        /\ TpmLimit \in Nat
    BY SpendingFinite, LimitsAssumption
  <2>2. Max(Tokens) * Cardinality(Requests) \in Nat /\ Max(Tokens) * Cardinality(Spending) \in Nat
    BY <2>1
  <2>3. now \in Nat
    BY DEF TypeOK
  <2>4. TokensIn(tpm) \in Nat
    BY <2>3, TokensExpire
  <2>5. QED
    BY <2>1, <2>2, <2>4 DEF TokensInv
<1>4. QED
  BY <1>1, <1>2, <1>3, TypeCorrect, PTL DEF Spec
-----------------------------------------------------------------------------
(* Refusals on account of one entry *)

\* The time of a request's return is a number.
LEMMA ReturnType ==
  ASSUME req \in [Requests -> Record0], NEW r \in Requests
  PROVE  Return(r) \in Nat
<1>1. req[r].at \in Nat /\ req[r].told \in Nat /\ Second \in Nat
  BY LimitsAssumption DEF Record0
<1>2. \A a, b, c \in Nat : a + b * c \in Nat
  OBVIOUS
<1>3. req[r].at + req[r].told * Second \in Nat
  BY <1>1, <1>2
<1>4. QED
  BY <1>1, <1>3 DEF Return

\* The part of the invariant that is about one request.
Returns(r) ==
  /\ req[r].times <= 2
  /\ req[r].times > 0 => req[r].stage \in {"refused", "blocked", "rpm", "tpm"}
  /\ req[r].times > 0 /\ req[r].stage = "blocked" => now >= Return(r)
  /\ req[r].times = 1 => Return(r) + Second > req[r].blame + Window
  /\ req[r].times = 2 => Return(r) > req[r].blame + Window

\* A step of one request that keeps its part.
LEMMA OthersReturn ==
  ASSUME RefusalInv, NEW r \in Requests, Returns(r)', now' = now,
         \A s \in Requests : s # r => req'[s] = req[s]
  PROVE  RefusalInv'
<1> SUFFICES ASSUME NEW s \in Requests PROVE Returns(s)'
  BY DEF RefusalInv, Returns
<1>1. CASE s = r
  BY <1>1
<1>2. CASE s # r
  <2>1. Returns(s) /\ req'[s] = req[s]
    BY <1>2 DEF RefusalInv, Returns
  <2>2. QED
    BY <2>1 DEF Returns, Return
<1>3. QED
  BY <1>1, <1>2

\* A request that is over, or let through, has no refusals in a row.
LEMMA OverReturns ==
  ASSUME TypeOK, TypeOK', NEW r \in Requests, req'[r].times = 0
  PROVE  Returns(r)'
BY DEF Returns

\* A request that is refused on account of an entry that is no older than the
\* window, and told a time less than a second short of the one it leaves.
LEMMA RefusedReturns ==
  ASSUME TypeOK, RefusalInv, NEW r \in Requests, req[r].stage \in {"rpm", "tpm"},
         NEW oldest \in Nat, NEW told \in Nat, Refuse(r, oldest, told), now' = now,
         req[r].at <= oldest + Window,
         req[r].at + told * Second + Second > oldest + Window,
         told * Second >= Second
  PROVE  RefusalInv'
<1> DEFINE at    == req[r].at
           d     == told * Second
           times == req[r].times
<1>1. /\ at \in Nat /\ times \in Nat /\ req[r].blame \in Nat /\ req[r].told \in Nat
      /\ Window \in Nat /\ Second \in Nat \ {0} /\ d \in Nat
      /\ req \in [Requests -> Record0]
  <2>1. req \in [Requests -> Record0] /\ Window \in Nat /\ Second \in Nat \ {0}
    BY LimitsAssumption DEF TypeOK, Record0
  <2>2. \A a, b \in Nat : a * b \in Nat
    OBVIOUS
  <2>3. d \in Nat
    BY <2>1, <2>2
  <2>4. QED
    BY <2>1, <2>3 DEF Record0
<1>2. /\ req'[r].stage = "refused" /\ req'[r].at = at /\ req'[r].told = told
      /\ req'[r].blame = oldest
      /\ req'[r].times = IF req[r].blame = oldest THEN times + 1 ELSE 1
      /\ \A s \in Requests : s # r => req'[s] = req[s]
  BY <1>1 DEF Refuse, Record0
<1>3. /\ times <= 2
      /\ times = 1 => at + Second > req[r].blame + Window
      /\ times = 2 => at > req[r].blame + Window
  BY DEF RefusalInv, Return
<1>4. Return(r)' = at + d
  BY <1>2 DEF Return
<1> HIDE DEF at, d, times
<1>5. /\ at <= oldest + Window /\ at + d + Second > oldest + Window /\ d >= Second
  BY DEF at, d
<1>6. Returns(r)'
  <2>1. CASE req[r].blame = oldest /\ times = 1
    <3>1. req'[r].times = 2
      BY <1>2, <2>1
    <3>2. at + d > oldest + Window
      BY <1>1, <1>3, <1>5, <2>1
    <3>3. QED
      BY <1>2, <1>4, <3>1, <3>2 DEF Returns
  <2>2. CASE req[r].blame = oldest /\ times = 2
    BY <1>1, <1>3, <1>5, <2>2
  <2>3. CASE req[r].blame # oldest \/ times = 0
    <3>1. req'[r].times = 1
      BY <1>1, <1>2, <2>3
    <3>2. QED
      BY <1>2, <1>4, <1>5, <3>1 DEF Returns
  <2>4. QED
    BY <1>1, <1>3, <2>1, <2>2, <2>3
<1>7. QED
  BY <1>2, <1>6, OthersReturn

\* The entry a refusal goes by is no older than the window.
LEMMA OldestIsFresh ==
  ASSUME NEW S, Timed(S), NEW w \in Seq(S), NEW at \in Nat
  PROVE  /\ Oldest(Expire(w, at), at) \in Nat
         /\ at <= Oldest(Expire(w, at), at) + Window
<1> DEFINE v == Expire(w, at)
<1>1. v \in Seq(S) /\ (v # <<>> => v[1].at >= at - Window)
  BY ExpireCuts
<1>2. Window \in Nat
  BY LimitsAssumption
<1> HIDE DEF v
<1>3. Oldest(v, at) \in Nat
  BY <1>1, OldestType
<1>4. CASE v = <<>>
  BY <1>2, <1>4 DEF Oldest, v
<1>5. CASE v # <<>>
  <2>1. Oldest(v, at) = v[1].at
    <3>1. Head(v) = v[1]
      BY <1>1, <1>5, HeadTailProperties
    <3>2. QED
      BY <1>5, <3>1 DEF Oldest
  <2>2. QED
    BY <1>1, <1>2, <1>3, <1>5, <2>1 DEF v
<1>6. QED
  BY <1>3, <1>4, <1>5 DEF v

\* No step makes a third refusal in a row.
LEMMA RefusalStep ==
  ASSUME TypeOK, TypeOK', RefusalInv, Next
  PROVE  RefusalInv'
<1>0. /\ now \in Nat /\ req \in [Requests -> Record0]
      /\ rpm \in Seq(RpmEntry) /\ tpm \in Seq(TpmEntry) /\ Timed(RpmEntry) /\ Timed(TpmEntry)
      /\ \A r \in Requests : req[r].at \in Nat /\ req[r].told \in Nat /\ req[r].times \in Nat
                             /\ req[r].blame \in Nat
      /\ Second \in Nat \ {0} /\ Window \in Nat /\ Window >= Second
  BY EntriesTimed, LimitsAssumption DEF TypeOK, Record0, RpmEntry, TpmEntry
<1>r. \A r \in Requests : Returns(r)
  BY DEF RefusalInv, Returns
<1>1. ASSUME NEW r \in Requests, Enter(r), now' = now, req[r].times > 0 => now >= Return(r)
      PROVE  RefusalInv'
  <2>1. /\ req'[r].stage = "rpm" /\ req'[r].at = now /\ req'[r].times = req[r].times
        /\ req'[r].blame = req[r].blame
        /\ \A s \in Requests : s # r => req'[s] = req[s]
    BY <1>0, <1>1 DEF Enter, Record0
  <2>2. Return(r)' = now
    BY <2>1 DEF Return
  <2>3. Return(r) \in Nat
    BY <1>0, ReturnType
  <2>4. Returns(r)'
    <3>1. req[r].times > 0 => now >= Return(r)
      BY <1>1
    <3>2. QED
      BY <1>0, <1>r, <2>1, <2>2, <2>3, <3>1 DEF Returns
  <2>5. QED
    BY <1>1, <2>1, <2>4, OthersReturn
<1>2. ASSUME NEW r \in Requests, Arrive(r) PROVE RefusalInv'
  <2>1. now' = now /\ (req[r].times > 0 => req[r].stage = "refused" /\ now >= Return(r))
    BY <1>r, <1>2 DEF Arrive, Returns, Return
  <2>2. CASE guard = Nobody
    BY <1>1, <1>2, <2>1, <2>2 DEF Arrive
  <2>3. CASE guard # Nobody
    <3>1. req' = [req EXCEPT ![r].stage = "blocked"]
      BY <1>2, <2>3 DEF Arrive
    <3>2. /\ req'[r].stage = "blocked" /\ req'[r].at = req[r].at /\ req'[r].times = req[r].times
          /\ req'[r].blame = req[r].blame /\ req'[r].told = req[r].told
          /\ \A s \in Requests : s # r => req'[s] = req[s]
      BY <1>0, <3>1 DEF Record0
    <3>3. req[r].times > 0 => Return(r)' = Return(r)
      BY <2>1, <3>2 DEF Return
    <3>4. Returns(r)'
      BY <1>0, <1>r, <2>1, <3>2, <3>3 DEF Returns
    <3>5. QED
      BY <2>1, <3>2, <3>4, OthersReturn
  <2>4. QED
    BY <2>2, <2>3
<1>3. ASSUME NEW r \in Requests, Unblock(r) PROVE RefusalInv'
  <2>1. req[r].times > 0 => now >= Return(r)
    BY <1>r, <1>3 DEF Unblock, Returns
  <2>2. QED
    BY <1>1, <1>3, <2>1 DEF Unblock
\* A refusal by a window.
<1>4. ASSUME NEW S, Timed(S), NEW w \in Seq(S), NEW r \in Requests, now' = now,
             req[r].stage \in {"rpm", "tpm"},
             Refuse(r, Oldest(Expire(w, req[r].at), req[r].at),
                       RetryAfter(Oldest(Expire(w, req[r].at), req[r].at), req[r].at))
      PROVE  RefusalInv'
  <2> DEFINE at     == req[r].at
             oldest == Oldest(Expire(w, at), at)
             told   == RetryAfter(oldest, at)
  <2>1. at \in Nat
    BY <1>0
  <2>2. oldest \in Nat /\ at <= oldest + Window
    BY <1>4, <2>1, OldestIsFresh
  <2> HIDE DEF at, oldest
  <2>3. /\ told \in Nat \ {0}
        /\ at + told * Second + Second > oldest + Window
        /\ told * Second >= Second
    BY <2>1, <2>2, Told
  <2>4. Refuse(r, oldest, told)
    BY <1>4 DEF at, oldest
  <2> HIDE DEF told
  <2>5. QED
    BY <1>4, <2>2, <2>3, <2>4, RefusedReturns DEF at
<1>5. ASSUME NEW r \in Requests, PassTpm(r), now' = now PROVE RefusalInv'
  <2>1. req'[r].times = 0 /\ \A s \in Requests : s # r => req'[s] = req[s]
    BY <1>0, <1>5 DEF PassTpm, Idle, Record0
  <2>2. QED
    BY <1>5, <2>1, OverReturns, OthersReturn
<1>6. ASSUME NEW r \in Requests, PassRpm(r), req[r].stage = "rpm", now' = now PROVE RefusalInv'
  <2>1. /\ req'[r].stage = "tpm" /\ req'[r].at = req[r].at /\ req'[r].times = req[r].times
        /\ req'[r].blame = req[r].blame
        /\ \A s \in Requests : s # r => req'[s] = req[s]
    BY <1>0, <1>6 DEF PassRpm, Record0
  <2>2. Return(r)' = Return(r)
    BY <1>6, <2>1 DEF Return
  <2>3. Returns(r)'
    BY <1>r, <2>1, <2>2 DEF Returns
  <2>4. QED
    BY <1>6, <2>1, <2>3, OthersReturn
<1>7. ASSUME NEW r \in Requests, CheckRpm(r) PROVE RefusalInv'
  <2>1. req[r].stage = "rpm" /\ now' = now
    BY <1>7 DEF CheckRpm, Checks
  <2>2. CASE Refuse(r, Oldest(Expire(rpm, req[r].at), req[r].at),
                       RetryAfter(Oldest(Expire(rpm, req[r].at), req[r].at), req[r].at))
    BY <1>0, <1>4, <2>1, <2>2
  <2>3. CASE PassRpm(r)
    BY <1>6, <2>1, <2>3
  <2>4. QED
    BY <1>7, <2>2, <2>3 DEF CheckRpm
<1>8. ASSUME NEW r \in Requests, CheckTpm(r) PROVE RefusalInv'
  <2>1. req[r].stage = "tpm" /\ now' = now
    BY <1>8 DEF CheckTpm, Checks
  <2>2. CASE Refuse(r, Oldest(Expire(tpm, req[r].at), req[r].at),
                       RetryAfter(Oldest(Expire(tpm, req[r].at), req[r].at), req[r].at))
    BY <1>0, <1>4, <2>1, <2>2
  <2>3. CASE PassTpm(r)
    BY <1>5, <2>1, <2>3
  <2>4. QED
    BY <1>8, <2>2, <2>3 DEF CheckTpm
<1>9. ASSUME NEW r \in Requests, CheckFails(r) PROVE RefusalInv'
  <2>1. req[r].stage \in {"rpm", "tpm"} /\ now' = now
    BY <1>9 DEF CheckFails, Checking
  <2>2. CASE limiter = "closed"
    <3> DEFINE told == Window \div Second
    <3>1. Refuse(r, req[r].at, told)
      BY <1>9, <2>2 DEF CheckFails
    <3>2. told \in Nat /\ told * Second <= Window /\ Window < told * Second + Second
      BY <1>0, Seconds
    <3> HIDE DEF told
    <3>3. told # 0
      BY <1>0, <3>2
    <3>4. told * Second >= Second
      <4>1. \A a \in Nat : a # 0 => a * Second >= 1 * Second
        BY <1>0
      <4>2. QED
        BY <1>0, <3>2, <3>3, <4>1
    <3>5. req[r].at \in Nat /\ told * Second \in Nat
      BY <1>0, <3>2
    <3>6. req[r].at <= req[r].at + Window
          /\ req[r].at + told * Second + Second > req[r].at + Window
      BY <1>0, <3>2, <3>5
    <3>7. QED
      BY <2>1, <3>1, <3>2, <3>4, <3>5, <3>6, RefusedReturns
  <2>3. CASE limiter # "closed"
    <3>1. (req[r].stage = "rpm" /\ PassRpm(r)) \/ PassTpm(r)
      BY <1>9, <2>3 DEF CheckFails
    <3>2. QED
      BY <1>5, <1>6, <2>1, <3>1
  <2>4. QED
    BY <2>2, <2>3
\* A request that is over.
<1>10. ASSUME NEW r \in Requests, now' = now,
              req' = [req EXCEPT ![r] = Idle] \/ \E stage \in Stages : req' = [req EXCEPT ![r] = Now(stage)]
       PROVE  RefusalInv'
  <2>1. req'[r].times = 0 /\ \A s \in Requests : s # r => req'[s] = req[s]
    <3>1. CASE req' = [req EXCEPT ![r] = Idle]
      BY <1>0, <3>1 DEF Idle, Record0
    <3>2. ASSUME NEW stage \in Stages, req' = [req EXCEPT ![r] = Now(stage)]
          PROVE  req'[r].times = 0 /\ \A s \in Requests : s # r => req'[s] = req[s]
      BY <1>0, <3>2, NowType
    <3>3. QED
      BY <1>10, <3>1, <3>2
  <2>2. QED
    BY <1>10, <2>1, OverReturns, OthersReturn
<1>11. ASSUME NEW r \in Requests, Answer(r) \/ StreamEnds(r) \/ Record(r) PROVE RefusalInv'
  <2>1. CASE Record(r)
    BY <1>10, <2>1 DEF Record
  <2>2. CASE Answer(r) \/ StreamEnds(r)
    <3>1. now' = now /\ \E stage \in Stages : req' = [req EXCEPT ![r] = Now(stage)]
      BY <2>2 DEF Answer, StreamEnds, Stages
    <3>2. QED
      BY <1>10, <3>1
  <2>3. QED
    BY <1>11, <2>1, <2>2
<1>12. CASE \/ RecordRedis \/ OtherInstance \/ Prune \/ UnblockPruner
            \/ \E n \in Neighbours : Visit(n) \/ UnblockVisit(n) \/ Leave(n)
  <2>1. now' = now /\ req' = req
    BY <1>12 DEF RecordRedis, OtherInstance, Prune, UnblockPruner, Visit, UnblockVisit, Leave
  <2>2. QED
    BY <2>1 DEF RefusalInv, Return
<1>13. CASE Tick
  <2>1. now' = now + 1 /\ req' = req
    BY <1>13 DEF Tick
  <2>2. ASSUME NEW r \in Requests PROVE Returns(r)'
    <3>0. Return(r) \in Nat
      BY <1>0, ReturnType
    <3>1. Return(r)' = Return(r) /\ Return(r) \in Nat
      BY <2>1, <3>0 DEF Return
    <3>2. QED
      BY <1>0, <1>r, <2>1, <3>1 DEF Returns
  <2>3. QED
    BY <2>2 DEF RefusalInv, Returns
<1>14. QED
  BY <1>2, <1>3, <1>7, <1>8, <1>9, <1>11, <1>12, <1>13 DEF Next

\* Retry-After is enough: a client that waits as long as it is told is refused twice
\* at most on account of one entry.
THEOREM RefusalsHold == Spec => []RefusedTwiceAtMost
<1>1. Init => RefusalInv
  BY DEF Init, Idle, RefusalInv
<1>2. TypeOK /\ TypeOK' /\ RefusalInv /\ [Next]_vars => RefusalInv'
  <2>1. RefusalInv /\ UNCHANGED vars => RefusalInv'
    BY DEF vars, RefusalInv, Return
  <2>2. QED
    BY <2>1, RefusalStep
<1>3. RefusalInv => RefusedTwiceAtMost
  BY DEF RefusalInv, RefusedTwiceAtMost
<1>4. QED
  BY <1>1, <1>2, <1>3, TypeCorrect, PTL DEF Spec
=============================================================================

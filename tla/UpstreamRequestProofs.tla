------------------------ MODULE UpstreamRequestProofs ------------------------
(***************************************************************************)
(* For a chain of any length and any number of retries: the loops of the   *)
(* clients inside the chain implement the chain, no backend completes the  *)
(* same request twice, and the loops come to an end.                       *)
(***************************************************************************)
EXTENDS UpstreamRequest, FiniteSetTheorems, TLAPS

\* A completion there is, or may yet be.
Live == {"received", "completed"}

\* What has not been tried is unknown to its backend, and what was tried before
\* at the same backend is over: it never arrived, or was refused in passing.
Untried ==
  \A b \in Backends, a \in Attempts :
    b > index \/ (b = index /\ a > attempt) => server[b][a] = "unknown"

Settled ==
  /\ \A a \in Attempts : a < attempt => server[index][a] \in {"unknown", "transient"}
  /\ stage = "send"  => server[index][attempt] = "unknown"
  /\ stage = "sleep" => server[index][attempt] \in {"unknown", "transient"}

OneLive ==
  \A b \in Backends, a1 \in Attempts, a2 \in Attempts :
    server[b][a1] \in Live /\ server[b][a2] \in Live => a1 = a2

LostWhenLeft ==
  \A b \in Backends, a \in Attempts : b < index /\ server[b][a] \in Live => b \in lost

\* A client that sleeps has an attempt left.
Sleeping == stage = "sleep" => attempt < MaxRetries

RequestInv == TypeOK /\ Untried /\ Settled /\ OneLive /\ LostWhenLeft /\ Sleeping

Inside == UNCHANGED <<index, last_error, outcome>>

-----------------------------------------------------------------------------
(* What each kind of step does to the chain *)

\* The steps after which the client is still at the same attempt, or the next.
Keeps ==
  \/ Send \/ Wake \/ Drop
  \/ \E b \in Backends, a \in Attempts : Process(b, a)

\* A step of the client that leaves what it waits for or sleeps over.
Leaves == ConnectFails \/ GiveUp \/ Decode \/ DecodeFails \/ Reject

\* The steps of a request, one by one.
LEMMA NextSteps == [Next]_vars => Keeps \/ Leaves \/ UNCHANGED vars
  BY DEF Next, Client, Keeps, Leaves

\* A client that leaves an attempt retries, has succeeded or has failed.
LEMMA LeavesSteps ==
  ASSUME Leaves
  PROVE  /\ UNCHANGED <<transport, server>>
         /\ \/ /\ Retry /\ attempt < MaxRetries /\ lost' = lost
               /\ \/ stage = "send"
                  \/ stage = "wait" /\ server[index][attempt] = "transient"
            \/ Succeed /\ lost' = lost /\ stage = "wait"
            \/ \E e \in Chain!Errors :
                 /\ Fail(e)
                 /\ stage \in {"send", "wait"}
                 /\ \/ lost' = lost \cup {index}
                    \/ /\ lost' = lost
                       /\ stage = "send" \/ server[index][attempt] \notin Live
<1> USE DEF Chain!Errors, Live
<1>1. CASE ConnectFails
  BY <1>1 DEF ConnectFails, AttemptsLeft
<1>2. CASE GiveUp
  BY <1>2 DEF GiveUp
<1>3. CASE Decode
  BY <1>3 DEF Decode
<1>4. CASE DecodeFails
  BY <1>4 DEF DecodeFails
<1>5. CASE Reject
  BY <1>5 DEF Reject, AttemptsLeft
<1>6. QED
  BY <1>1, <1>2, <1>3, <1>4, <1>5 DEF Leaves

-----------------------------------------------------------------------------
(* Type correctness *)

\* Every reachable state is well typed; above all the loop of a client never
\* comes to its unreachable end.
THEOREM TypeCorrect == Spec => []TypeOK
<1> DEFINE I == TypeOK /\ Sleeping
<1> USE LengthAssumption, MaxRetriesAssumption DEF Backends, Attempts
<1>1. Init => I
  BY DEF Init, TypeOK, Sleeping, Chain!Init, Chain!Pending, Chain!Outcome
<1>2. I /\ [Next]_vars => I'
  <2> SUFFICES ASSUME I, [Next]_vars PROVE I'
    OBVIOUS
  <2>1. CASE Send
    BY <2>1 DEF Send, TypeOK, Sleeping
  <2>2. CASE Wake
    BY <2>2 DEF Wake, TypeOK, Sleeping
  <2>3. CASE Drop
    BY <2>3 DEF Drop, TypeOK, Sleeping
  <2>4. ASSUME NEW b \in Backends, NEW a \in Attempts, Process(b, a) PROVE I'
    BY <2>4 DEF Process, TypeOK, Sleeping, Answers
  <2>5. CASE Leaves
    <3>1. UNCHANGED <<transport, server>> /\ lost' \subseteq Backends
      BY <2>5, LeavesSteps DEF TypeOK
    <3>2. CASE Retry /\ attempt < MaxRetries /\ stage # "done"
      BY <3>1, <3>2 DEF Retry, TypeOK, Sleeping
    <3>3. CASE Succeed /\ stage # "done"
      BY <3>1, <3>3
      DEF Succeed, TypeOK, Sleeping, Chain!Return, Chain!Outcome, Chain!Pending
    <3>4. ASSUME NEW e \in Chain!Errors, Fail(e), stage # "done" PROVE I'
      <4>1. CASE Advance(e) /\ index < Length
        BY <3>1, <3>4, <4>1 DEF Advance, TypeOK, Sleeping, Chain!Outcome
      <4>2. CASE /\ Chain!Return(e, Chain!should_fallback(e))
                 /\ stage' = "done"
                 /\ UNCHANGED attempt
        <5>1. Chain!should_fallback(e) \in BOOLEAN
          BY DEF Chain!should_fallback
        <5>2. outcome' = [result |-> e, exhausted |-> Chain!should_fallback(e)]
              /\ UNCHANGED <<index, last_error>>
          BY <4>2 DEF Chain!Return
        <5>3. outcome' \in Chain!Outcome /\ outcome' # Chain!Pending
          BY <5>1, <5>2 DEF Chain!Outcome, Chain!Pending, Chain!Errors
        <5>4. QED
          BY <3>1, <4>2, <5>2, <5>3 DEF TypeOK, Sleeping
      <4>3. QED
        BY <3>4, <4>1, <4>2 DEF Fail
    <3>5. stage # "done"
      BY <2>5 DEF Leaves, ConnectFails, GiveUp, Decode, DecodeFails, Reject
    <3>6. QED
      BY <2>5, <3>2, <3>3, <3>4, <3>5, LeavesSteps
  <2>6. CASE UNCHANGED vars
    BY <2>6 DEF vars, TypeOK, Sleeping
  <2>7. QED
    BY <2>1, <2>2, <2>3, <2>4, <2>5, <2>6, NextSteps DEF Keeps
<1>3. I => TypeOK
  OBVIOUS
<1>4. QED
  BY <1>1, <1>2, <1>3, PTL DEF Spec

-----------------------------------------------------------------------------
(* The chain *)

\* The loops inside the chain are one step of it, or none: what is true of the
\* chain alone is true of the chain with its clients and backends.
THEOREM RequestImplementsChain == Spec => ChainSpec
<1> USE LengthAssumption DEF Chain!chainVars, Chain!Pending, TypeOK
<1>1. Init => Chain!Init
  BY DEF Init
<1>2. TypeOK /\ [Next]_vars => [Chain!Next]_Chain!chainVars
  <2> SUFFICES ASSUME TypeOK, [Next]_vars PROVE [Chain!Next]_Chain!chainVars
    OBVIOUS
  <2>1. CASE Keeps
    BY <2>1 DEF Keeps, Send, Wake, Drop, Process
  <2>2. CASE Leaves
    <3>1. outcome = Chain!Pending
      BY <2>2 DEF Leaves, ConnectFails, GiveUp, Decode, DecodeFails, Reject
    <3>2. CASE Retry
      BY <3>2 DEF Retry
    <3>3. CASE Succeed
      BY <3>1, <3>3 DEF Succeed, Chain!Next, Chain!Succeed
    <3>4. ASSUME NEW e \in Chain!Errors, Fail(e) PROVE Chain!Next
      <4>1. CASE Chain!should_fallback(e) /\ index < Length
        BY <3>1, <3>4, <4>1 DEF Fail, Advance, Chain!Next, Chain!FallBack
      <4>2. CASE Chain!should_fallback(e) /\ ~(index < Length)
        <5>1. index = Length
          BY <4>2 DEF Backends
        <5>2. Chain!Return(e, TRUE)
          BY <3>4, <4>2 DEF Fail, Chain!should_fallback
        <5>3. QED
          BY <3>1, <4>2, <5>1, <5>2 DEF Chain!Next, Chain!Exhaust
      <4>3. CASE ~Chain!should_fallback(e)
        <5>1. Chain!Return(e, FALSE)
          BY <3>4, <4>3 DEF Fail, Chain!should_fallback
        <5>2. QED
          BY <3>1, <4>3, <5>1 DEF Chain!Next, Chain!Stop
      <4>4. QED
        BY <4>1, <4>2, <4>3
    <3>5. QED
      BY <2>2, <3>2, <3>3, <3>4, LeavesSteps
  <2>3. CASE UNCHANGED vars
    BY <2>3 DEF vars
  <2>4. QED
    BY <2>1, <2>2, <2>3, NextSteps
<1>3. QED
  BY <1>1, <1>2, TypeCorrect, PTL DEF Spec, ChainSpec, Chain!Spec

\* A chain is said to be exhausted only when its last backend has failed, and no
\* backend is tried after one that refused the request.
THEOREM ChainExhausted == Spec => []Chain!ExhaustedMeansAll
<1> USE LengthAssumption
    DEF Chain!ExhaustedMeansAll, Chain!Outcome, Chain!Pending, Chain!Errors
<1>1. Chain!Init => Chain!ExhaustedMeansAll
  BY DEF Chain!Init
<1>2. Chain!ExhaustedMeansAll /\ [Chain!Next]_Chain!chainVars => Chain!ExhaustedMeansAll'
  <2> SUFFICES ASSUME Chain!ExhaustedMeansAll, [Chain!Next]_Chain!chainVars
               PROVE  Chain!ExhaustedMeansAll'
    OBVIOUS
  <2>1. CASE Chain!Succeed
    BY <2>1 DEF Chain!Succeed, Chain!Return
  <2>2. CASE Chain!Stop
    BY <2>2 DEF Chain!Stop, Chain!Return
  <2>3. CASE Chain!FallBack
    BY <2>3 DEF Chain!FallBack, Chain!should_fallback
  <2>4. CASE Chain!Exhaust
    <3>1. PICK e \in Chain!Errors :
            Chain!should_fallback(e) /\ Chain!Return(e, TRUE)
      BY <2>4 DEF Chain!Exhaust
    <3>2. e # "refused"
      BY <3>1 DEF Chain!should_fallback
    <3>3. outcome' = [result |-> e, exhausted |-> TRUE] /\ UNCHANGED <<index, last_error>>
      BY <3>1 DEF Chain!Return
    <3>4. QED
      BY <2>4, <3>2, <3>3 DEF Chain!Exhaust
  <2>5. CASE UNCHANGED Chain!chainVars
    BY <2>5 DEF Chain!chainVars
  <2>6. QED
    BY <2>1, <2>2, <2>3, <2>4, <2>5 DEF Chain!Next
<1>3. QED
  BY <1>1, <1>2, RequestImplementsChain, PTL DEF ChainSpec, Chain!Spec

-----------------------------------------------------------------------------
(* Completions *)

\* A request starts with nothing tried.
LEMMA RequestInit == Init => RequestInv
<1> SUFFICES ASSUME Init PROVE RequestInv
  OBVIOUS
<1> USE LengthAssumption, MaxRetriesAssumption DEF Init, Backends, Attempts, Chain!Init
<1>1. TypeOK
  BY DEF TypeOK, Chain!Pending, Chain!Outcome
<1>2. QED
  BY <1>1 DEF RequestInv, Untried, Settled, OneLive, LostWhenLeft, Sleeping, Live

\* A client that goes on to the next backend has nothing under way at the one it
\* leaves but what it has lost.
LEMMA AdvanceKeeps ==
  ASSUME RequestInv, NEW e, Advance(e), index < Length, server' = server,
         \/ lost' = lost \cup {index}
         \/ lost' = lost /\ server[index][attempt] \notin Live
  PROVE  Untried' /\ Settled' /\ OneLive' /\ LostWhenLeft' /\ Sleeping'
<1> USE LengthAssumption, MaxRetriesAssumption
    DEF RequestInv, TypeOK, Backends, Attempts, Advance
<1>1. index' = index + 1 /\ attempt' = 0 /\ stage' = "send" /\ index' \in Backends
  OBVIOUS
<1>2. Untried'
  BY <1>1 DEF Untried
<1>3. Settled'
  BY <1>1 DEF Untried, Settled
<1>4. OneLive'
  BY DEF OneLive
<1>5. LostWhenLeft'
  <2> SUFFICES ASSUME NEW b \in Backends, NEW a \in Attempts,
                      b < index', server[b][a] \in Live
               PROVE  b \in lost'
    BY DEF LostWhenLeft
  <2>1. CASE b < index
    BY <2>1 DEF LostWhenLeft
  <2>2. CASE b = index
    <3>1. a = attempt
      BY <2>2 DEF Untried, Settled, Live
    <3>2. QED
      BY <2>2, <3>1
  <2>3. QED
    BY <1>1, <2>1, <2>2
<1>6. Sleeping'
  BY <1>1 DEF Sleeping
<1>7. QED
  BY <1>2, <1>3, <1>4, <1>5, <1>6

\* Every step preserves the invariant.
LEMMA RequestInductive == RequestInv /\ TypeOK' /\ [Next]_vars => RequestInv'
<1> SUFFICES ASSUME RequestInv, TypeOK', [Next]_vars PROVE RequestInv'
  OBVIOUS
<1> USE LengthAssumption, MaxRetriesAssumption DEF RequestInv, TypeOK, Backends, Attempts
<1>1. CASE Send
  <2>1. /\ stage = "send" /\ stage' = "wait" /\ UNCHANGED <<index, attempt, lost>>
        /\ server' = [server EXCEPT ![index][attempt] = "received"]
    BY <1>1 DEF Send
  <2>2. Untried'
    BY <2>1 DEF Untried
  <2>3. Settled'
    BY <2>1 DEF Settled
  <2>4. OneLive'
    BY <2>1 DEF Untried, Settled, OneLive, Live
  <2>5. LostWhenLeft' /\ Sleeping'
    BY <2>1 DEF LostWhenLeft, Sleeping
  <2>6. QED
    BY <2>2, <2>3, <2>4, <2>5
<1>2. CASE Wake
  <2>1. /\ stage = "sleep" /\ stage' = "send" /\ attempt' = attempt + 1
        /\ UNCHANGED <<index, server, lost>>
    BY <1>2 DEF Wake
  <2>2. Untried' /\ OneLive' /\ LostWhenLeft' /\ Sleeping'
    BY <2>1 DEF Untried, OneLive, LostWhenLeft, Sleeping
  <2>3. Settled'
    BY <2>1 DEF Untried, Settled, Sleeping
  <2>4. QED
    BY <2>2, <2>3
<1>3. CASE Drop
  BY <1>3 DEF Drop, Untried, Settled, OneLive, LostWhenLeft, Sleeping
<1>4. ASSUME NEW b \in Backends, NEW a \in Attempts, Process(b, a) PROVE RequestInv'
  <2>1. PICK answer \in Answers :
          /\ server[b][a] = "received"
          /\ server' = [server EXCEPT ![b][a] = answer]
          /\ UNCHANGED <<index, attempt, stage, lost>>
    BY <1>4 DEF Process
  <2>2. Untried' /\ Sleeping'
    BY <2>1 DEF Untried, Sleeping
  <2>3. Settled'
    BY <2>1 DEF Settled
  <2>4. OneLive'
    BY <2>1 DEF OneLive, Live
  <2>5. LostWhenLeft'
    BY <2>1 DEF LostWhenLeft, Live
  <2>6. QED
    BY <2>2, <2>3, <2>4, <2>5
<1>5. CASE Leaves
  <2>1. CASE /\ Retry /\ attempt < MaxRetries /\ lost' = lost
             /\ \/ stage = "send"
                \/ stage = "wait" /\ server[index][attempt] = "transient"
    <3>1. /\ stage' = "sleep" /\ UNCHANGED <<index, attempt, lost, server>>
      BY <1>5, <2>1, LeavesSteps DEF Retry
    <3>2. Settled'
      BY <2>1, <3>1 DEF Settled
    <3>3. Untried' /\ OneLive' /\ LostWhenLeft' /\ Sleeping'
      BY <2>1, <3>1 DEF Untried, OneLive, LostWhenLeft, Sleeping
    <3>4. QED
      BY <3>2, <3>3
  <2>2. ASSUME stage' = "done", UNCHANGED <<index, attempt, server>>,
               lost \subseteq lost'
        PROVE  RequestInv'
    BY <2>2 DEF Untried, Settled, OneLive, LostWhenLeft, Sleeping
  <2>3. CASE Succeed /\ lost' = lost /\ stage = "wait"
    BY <1>5, <2>2, <2>3, LeavesSteps DEF Succeed, Chain!Return
  <2>4. ASSUME NEW e \in Chain!Errors, Fail(e),
               \/ lost' = lost \cup {index}
               \/ lost' = lost /\ server[index][attempt] \notin Live
        PROVE  RequestInv'
    <3>1. server' = server
      BY <1>5, LeavesSteps
    <3>2. CASE Advance(e) /\ index < Length
      BY <2>4, <3>1, <3>2, AdvanceKeeps
    <3>3. CASE Chain!Return(e, Chain!should_fallback(e)) /\ stage' = "done" /\ UNCHANGED attempt
      BY <2>2, <2>4, <3>1, <3>3 DEF Chain!Return
    <3>4. QED
      BY <2>4, <3>2, <3>3 DEF Fail
  <2>5. ASSUME stage = "send" PROVE server[index][attempt] \notin Live
    BY <2>5 DEF Settled, Live
  <2>6. QED
    BY <1>5, <2>1, <2>3, <2>4, <2>5, LeavesSteps
<1>6. CASE UNCHANGED vars
  BY <1>6 DEF vars, Untried, Settled, OneLive, LostWhenLeft, Sleeping
<1>7. QED
  BY <1>1, <1>2, <1>3, <1>4, <1>5, <1>6, NextSteps DEF Keeps

\* The invariant holds throughout.
LEMMA RequestAlways == Spec => []RequestInv
  BY RequestInit, RequestInductive, TypeCorrect, PTL DEF Spec

\* No backend completes the same request twice, though it may answer long after
\* its client has given up: only what a status has settled is retried.
THEOREM CompletedAtMostOnce == Spec => []CompletedOnce
<1>1. RequestInv => CompletedOnce
  <2> SUFFICES ASSUME RequestInv, NEW b \in Backends
               PROVE  Cardinality(Completed(b)) <= 1
    BY DEF CompletedOnce
  <2>1. CASE Completed(b) = {}
    BY <2>1, FS_EmptySet
  <2>2. CASE Completed(b) # {}
    <3>1. PICK a \in Attempts : server[b][a] = "completed"
      BY <2>2 DEF Completed
    <3>2. Completed(b) = {a}
      BY <3>1 DEF Completed, RequestInv, OneLive, Live
    <3>3. QED
      BY <3>2, FS_Singleton
  <2>3. QED
    BY <2>1, <2>2
<1>2. QED
  BY <1>1, RequestAlways, PTL

\* A second backend completes a request only after the answer of the first went
\* unread or could not be decoded.
THEOREM CompletedTwiceOnlyIfLost == Spec => []TwiceOnlyIfLost
<1>1. RequestInv => TwiceOnlyIfLost
  BY DEF RequestInv, LostWhenLeft, TwiceOnlyIfLost, Completed, Live
<1>2. QED
  BY <1>1, RequestAlways, PTL

-----------------------------------------------------------------------------
(* Termination *)

\* How often the loops of the clients may still move: at each attempt that is
\* left at each backend that is left they send, wait and sleep.
Rank(s) == CASE s = "send"  -> 3
             [] s = "wait"  -> 2
             [] s = "sleep" -> 1
             [] OTHER       -> 0

AttemptsToGo(i, a) == (Length - i) * (MaxRetries + 1) + (MaxRetries - a)

MovesLeft == 4 * AttemptsToGo(index, attempt) + Rank(stage)

\* What the next attempt, and the first one at the next backend, leave to go.
LEMMA AttemptsCount ==
  ASSUME NEW i \in Backends, NEW a \in Attempts
  PROVE  /\ AttemptsToGo(i, a) \in Nat
         /\ a + 1 \in Attempts => AttemptsToGo(i, a + 1) = AttemptsToGo(i, a) - 1
         /\ i + 1 \in Backends => AttemptsToGo(i + 1, 0) < AttemptsToGo(i, a)
<1> USE LengthAssumption, MaxRetriesAssumption DEF Backends, Attempts
<1> DEFINE n == Length - i
           w == MaxRetries + 1
           p == n * w
<1>1. n \in Nat /\ w \in Nat /\ p \in Nat
  OBVIOUS
<1>2. AttemptsToGo(i, a) = p + (MaxRetries - a)
  BY DEF AttemptsToGo
<1>3. ASSUME a + 1 \in Attempts
      PROVE  AttemptsToGo(i, a + 1) = p + (MaxRetries - (a + 1))
  BY DEF AttemptsToGo
<1>4. ASSUME i + 1 \in Backends
      PROVE  AttemptsToGo(i + 1, 0) = p - w + MaxRetries
  <2>1. (Length - (i + 1)) * w = p - w
    <3>1. Length - (i + 1) = n - 1 /\ n \in Int /\ w \in Int
      OBVIOUS
    <3> HIDE DEF n, w
    <3>2. (n - 1) * w = n * w - w
      BY <3>1
    <3>3. QED BY <3>1, <3>2 DEF w
  <2>2. AttemptsToGo(i + 1, 0) = (Length - (i + 1)) * w + (MaxRetries - 0)
    BY DEF AttemptsToGo
  <2> HIDE DEF p, w
  <2>3. QED BY <1>1, <2>1, <2>2
<1>5. a \in Nat /\ MaxRetries \in Nat /\ a <= MaxRetries /\ w = MaxRetries + 1
  OBVIOUS
<1> HIDE DEF n, w, p
<1>6. QED BY <1>1, <1>2, <1>3, <1>4, <1>5

\* The safety part of Ends, for a chain of any length and any number of retries:
\* every step of the loops, and a client that hangs up, leaves fewer moves, and
\* no answer of a backend gives one back.
THEOREM RequestDescends ==
  Spec => [][/\ MovesLeft \in Nat
             /\ Client \/ Drop => MovesLeft' < MovesLeft
             /\ MovesLeft' <= MovesLeft]_vars
<1>1. ASSUME TypeOK, TypeOK', [Next]_vars
      PROVE  /\ MovesLeft \in Nat
             /\ Client \/ Drop => MovesLeft' < MovesLeft
             /\ MovesLeft' <= MovesLeft
  <2> DEFINE n == AttemptsToGo(index, attempt)
             m == AttemptsToGo(index', attempt')
  <2>1. index \in Backends /\ attempt \in Attempts /\ index' \in Backends /\ attempt' \in Attempts
    BY <1>1 DEF TypeOK
  <2>2. n \in Nat /\ m \in Nat /\ Rank(stage) \in 0 .. 3 /\ Rank(stage') \in 0 .. 3
    <3>1. \A s : Rank(s) \in 0 .. 3
      BY DEF Rank
    <3>2. QED BY <2>1, <3>1, AttemptsCount
  <2>3. MovesLeft = 4 * n + Rank(stage) /\ MovesLeft' = 4 * m + Rank(stage')
    BY DEF MovesLeft
  <2> HIDE DEF n, m
  <2>4. MovesLeft \in Nat
    BY <2>2, <2>3
  <2>5. ASSUME \/ m = n /\ Rank(stage') < Rank(stage)
               \/ m < n /\ (Rank(stage) > 0 \/ m + 1 < n)
        PROVE  MovesLeft' < MovesLeft
    BY <2>2, <2>3, <2>5
  <2>6. ASSUME Client \/ Drop
        PROVE  MovesLeft' < MovesLeft
    <3>1. CASE Send \/ Drop
      <4>1. m = n /\ Rank(stage') < Rank(stage)
        BY <3>1 DEF Send, Drop, Rank, m, n
      <4>2. QED BY <2>5, <4>1
    <3>2. CASE Wake
      <4>1. m = n - 1 /\ Rank(stage) > 0
        BY <2>1, <3>2, AttemptsCount DEF Wake, Rank, m, n
      <4>2. QED BY <2>2, <2>5, <4>1
    <3>3. CASE Leaves
      <4>1. Rank(stage) > 1
        BY <3>3 DEF Leaves, ConnectFails, GiveUp, Decode, DecodeFails, Reject, Rank
      <4>2. CASE Retry \/ Succeed
        <5>1. m = n /\ Rank(stage') < 2
          BY <4>2 DEF Retry, Succeed, Chain!Return, Rank, m, n
        <5>2. QED BY <2>2, <2>5, <4>1, <5>1
      <4>3. ASSUME NEW e \in Chain!Errors, Fail(e)
            PROVE  MovesLeft' < MovesLeft
        <5>1. CASE Advance(e)
          <6>1. m < n
            BY <2>1, <5>1, AttemptsCount DEF Advance, m, n
          <6>2. QED BY <2>5, <4>1, <2>2, <6>1
        <5>2. CASE Chain!Return(e, Chain!should_fallback(e)) /\ stage' = "done" /\ UNCHANGED attempt
          <6>1. m = n /\ Rank(stage') = 0
            BY <5>2 DEF Chain!Return, Rank, m, n
          <6>2. QED BY <2>2, <2>5, <4>1, <6>1
        <5>3. QED BY <4>3, <5>1, <5>2 DEF Fail
      <4>4. QED BY <3>3, <4>2, <4>3, LeavesSteps
    <3>4. QED BY <2>6, <3>1, <3>2, <3>3 DEF Client, Leaves
  <2>7. ASSUME ~(Client \/ Drop)
        PROVE  MovesLeft' = MovesLeft
    <3>1. UNCHANGED <<index, attempt, stage>>
      BY <1>1, <2>7 DEF Next, Process, vars
    <3>2. QED BY <3>1 DEF MovesLeft
  <2>8. MovesLeft' <= MovesLeft
    <3>1. MovesLeft' \in Nat
      BY <2>2, <2>3
    <3>2. QED BY <2>4, <2>6, <2>7, <3>1
  <2>9. QED BY <2>4, <2>6, <2>8
<1>2. QED
  BY <1>1, TypeCorrect, PTL DEF Spec
=============================================================================

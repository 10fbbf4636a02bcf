-------------------------- MODULE WebhookQueueProofs --------------------------
(***************************************************************************)
(* What WebhookQueue's run checks on two rows, proved for any number of    *)
(* rows, permits, retries and faults and for every lease that outlives the *)
(* deadline of a POST; and the measure by which every event gets on until  *)
(* it is settled.                                                          *)
(***************************************************************************)
EXTENDS WebhookQueue, TLAPS

\* The pause before a retry is a number of ticks.
LEMMA BackoffType == \A n \in Nat : Backoff(n) \in Nat
  BY DEF Backoff

\* Every variable keeps its type: rows, tasks and timers stay in range.
THEOREM TypeCorrect == Spec => []TypeOK
<1> USE NoDeliveryAssumption, RetriesAssumption, LeaseAssumption
        DEF TypeOK, Busy, Statuses, Phases
<1>1. Init => TypeOK
  BY DEF Init
<1>2. TypeOK /\ [Next]_vars => TypeOK'
  <2> SUFFICES ASSUME TypeOK, [Next]_vars PROVE TypeOK'
    OBVIOUS
  <2> USE DEF vars, rowVars, taskVars, netVars
  <2>1. ASSUME NEW d \in Deliveries, Enqueue(d) PROVE TypeOK'
    BY <2>1 DEF Enqueue
  <2>2. ASSUME NEW d \in Deliveries, ServeLate(d) PROVE TypeOK'
    BY <2>2 DEF ServeLate
  <2>3. ASSUME NEW w \in Workers, NEW d \in Deliveries, Claim(w, d)
        PROVE TypeOK'
    BY <2>3 DEF Claim, Oldest, Due
  <2>4. ASSUME NEW w \in Workers, Serve(w) \/ Answer(w) \/ Miss(w)
        PROVE TypeOK'
    BY <2>4 DEF Serve, Answer, Miss
  <2>5. ASSUME NEW w \in Workers,
               Ack(w) \/ ScheduleRetry(w) \/ DeadLetter(w) \/ WriteFails(w)
        PROVE TypeOK'
    BY <2>5, BackoffType
    DEF Ack, ScheduleRetry, DeadLetter, WriteFails, WriteOutcome, Release
  <2>6. CASE Reclaim
    BY <2>6 DEF Reclaim
  <2>7. CASE Tick
    BY <2>7 DEF Tick
  <2>8. CASE Crash
    BY <2>8 DEF Crash
  <2>9. CASE UNCHANGED vars
    BY <2>9
  <2>10. QED
    BY <2>1, <2>2, <2>3, <2>4, <2>5, <2>6, <2>7, <2>8, <2>9 DEF Next, Deliver
<1>3. QED
  BY <1>1, <1>2, PTL DEF Spec

(***************************************************************************)
(* TaskOwnsRow is inductive together with the types.  A claim needs a      *)
(* pending row, which no task holds; a row is taken back only when its     *)
(* lease has run out, and then left =< leaseLeft < 0 rules out a task; and *)
(* time moves lease and deadline together.                                 *)
(***************************************************************************)
LEMMA TaskOwnsRowInductive ==
  TypeOK /\ TaskOwnsRow /\ [Next]_vars => TaskOwnsRow'
<1> USE NoDeliveryAssumption, LeaseAssumption DEF TypeOK, TaskOwnsRow, Busy
<1> SUFFICES ASSUME TypeOK, TaskOwnsRow, [Next]_vars PROVE TaskOwnsRow'
  OBVIOUS
<1> USE DEF vars, rowVars, taskVars, netVars
<1>1. ASSUME NEW d \in Deliveries, Enqueue(d) PROVE TaskOwnsRow'
  BY <1>1 DEF Enqueue
<1>2. ASSUME NEW d \in Deliveries, ServeLate(d) PROVE TaskOwnsRow'
  BY <1>2 DEF ServeLate
<1>3. ASSUME NEW w \in Workers, NEW d \in Deliveries, Claim(w, d)
      PROVE TaskOwnsRow'
  <2>1. \A x \in Workers : Busy(x) => job[x] # d
    BY <1>3 DEF Claim, Oldest, Due
  <2>2. QED
    BY <1>3, <2>1 DEF Claim
<1>4. ASSUME NEW w \in Workers, Serve(w) \/ Answer(w) \/ Miss(w)
      PROVE TaskOwnsRow'
  BY <1>4 DEF Serve, Answer, Miss
<1>5. ASSUME NEW w \in Workers,
             Ack(w) \/ ScheduleRetry(w) \/ DeadLetter(w) \/ WriteFails(w)
      PROVE TaskOwnsRow'
  BY <1>5 DEF Ack, ScheduleRetry, DeadLetter, WriteFails, WriteOutcome, Release
<1>6. CASE Reclaim
  <2>1. \A w \in Workers : Busy(w) => ~Expired(job[w])
    BY DEF Expired
  <2>2. QED
    BY <1>6, <2>1 DEF Reclaim
<1>7. CASE Tick
  BY <1>7 DEF Tick
<1>8. CASE Crash
  BY <1>8 DEF Crash
<1>9. CASE UNCHANGED vars
  BY <1>9
<1>10. QED
  BY <1>1, <1>2, <1>3, <1>4, <1>5, <1>6, <1>7, <1>8, <1>9 DEF Next, Deliver

\* A task that writes an outcome still owns the row it writes to.
THEOREM LeaseProtectsTask == Spec => []TaskOwnsRow
<1>1. Init => TaskOwnsRow
  BY DEF Init, TaskOwnsRow, Busy
<1>2. QED
  BY <1>1, TypeCorrect, TaskOwnsRowInductive, PTL DEF Spec

\* A settled row never changes again: the only writers are tasks, and a task's
\* row is in processing.
THEOREM SettledStays == Spec => SettledForGood
<1> DEFINE Kept == \A d \in Deliveries : status[d] \in Settled =>
                     status'[d] = status[d] /\ attempts'[d] = attempts[d]
<1>1. TypeOK /\ TaskOwnsRow /\ [Next]_vars => [Kept]_vars
  <2> SUFFICES ASSUME TypeOK, TaskOwnsRow, Next PROVE Kept
    OBVIOUS
  <2> USE DEF TypeOK, Settled, Statuses, vars, rowVars, taskVars, netVars
  <2>1. ASSUME NEW w \in Workers, NEW d \in Deliveries, Claim(w, d) PROVE Kept
    BY <2>1 DEF Claim, Oldest, Due
  <2>2. ASSUME NEW w \in Workers,
               Ack(w) \/ ScheduleRetry(w) \/ DeadLetter(w) \/ WriteFails(w)
        PROVE Kept
    BY <2>2 DEF TaskOwnsRow, Busy, Ack, ScheduleRetry, DeadLetter, WriteFails,
                WriteOutcome, Release
  <2>3. ASSUME NEW w \in Workers, Serve(w) \/ Answer(w) \/ Miss(w) PROVE Kept
    BY <2>3 DEF Serve, Answer, Miss
  <2>4. ASSUME NEW d \in Deliveries, Enqueue(d) \/ ServeLate(d) PROVE Kept
    BY <2>4 DEF Enqueue, ServeLate
  <2>5. CASE Reclaim \/ Tick \/ Crash
    BY <2>5 DEF Reclaim, Expired, Tick, Crash
  <2>6. QED
    BY <2>1, <2>2, <2>3, <2>4, <2>5 DEF Next, Deliver
<1>2. QED
  BY <1>1, TypeCorrect, LeaseProtectsTask, PTL DEF Spec, SettledForGood

(***************************************************************************)
(* AttemptsBounded needs to know where an attempt beyond the budget can    *)
(* be: a row that waits, or that no task holds, has lost an attempt to     *)
(* each fault and has at most max_retries besides.                         *)
(***************************************************************************)
Held(d) == \E w \in Workers : Busy(w) /\ job[w] = d

AttemptsInv ==
  \A d \in Deliveries :
    /\ attempts[d] <= MaxRetries + 1 + faults
    /\ status[d] = "absent" => attempts[d] = 0
    /\ status[d] = "pending" => attempts[d] <= MaxRetries + faults
    /\ status[d] = "processing" /\ ~Held(d) => attempts[d] <= MaxRetries + faults
    /\ status[d] = "dead_letter" => attempts[d] > MaxRetries

\* A step keeps the count of attempts bounded.
LEMMA AttemptsInductive ==
  TypeOK /\ TaskOwnsRow /\ AttemptsInv /\ [Next]_vars => AttemptsInv'
<1> USE NoDeliveryAssumption, RetriesAssumption, LeaseAssumption
        DEF TypeOK, AttemptsInv, Held, Busy
<1> SUFFICES ASSUME TypeOK, TaskOwnsRow, AttemptsInv, [Next]_vars
             PROVE  AttemptsInv'
  OBVIOUS
<1> USE DEF vars, rowVars, taskVars, netVars
<1>1. ASSUME NEW d \in Deliveries, Enqueue(d) PROVE AttemptsInv'
  BY <1>1 DEF Enqueue
<1>2. ASSUME NEW d \in Deliveries, ServeLate(d) PROVE AttemptsInv'
  BY <1>2 DEF ServeLate
<1>3. ASSUME NEW w \in Workers, NEW d \in Deliveries, Claim(w, d)
      PROVE AttemptsInv'
  BY <1>3 DEF Claim, Oldest, Due
<1>4. ASSUME NEW w \in Workers, Serve(w) \/ Answer(w) \/ Miss(w)
      PROVE AttemptsInv'
  BY <1>4 DEF Serve, Answer, Miss
<1>5. ASSUME NEW w \in Workers, Ack(w) \/ ScheduleRetry(w) \/ DeadLetter(w)
      PROVE AttemptsInv'
  <2>1. /\ job[w] \in Deliveries
        /\ attempts[job[w]] = attemptNo[w]
        /\ \A d \in Deliveries \ {job[w]} : Held(d) => Held(d)'
    BY <1>5 DEF TaskOwnsRow, Ack, ScheduleRetry, DeadLetter, WriteOutcome, Release
  <2>2. QED
    BY <1>5, <2>1 DEF Ack, ScheduleRetry, DeadLetter, WriteOutcome, Release
<1>6. ASSUME NEW w \in Workers, WriteFails(w) PROVE AttemptsInv'
  BY <1>6 DEF WriteFails, Release
<1>7. CASE Reclaim
  <2>1. \A d \in Deliveries : Expired(d) => ~Held(d)
    BY DEF Expired, TaskOwnsRow
  <2>2. QED
    BY <1>7, <2>1 DEF Reclaim, Expired
<1>8. CASE Tick
  BY <1>8 DEF Tick
<1>9. CASE Crash
  BY <1>9 DEF Crash
<1>10. CASE UNCHANGED vars
  BY <1>10
<1>11. QED
  BY <1>1, <1>2, <1>3, <1>4, <1>5, <1>6, <1>7, <1>8, <1>9, <1>10
  DEF Next, Deliver

\* No event is sent more often than its budget and the faults together allow.
THEOREM AttemptsStayBounded == Spec => []AttemptsBounded
<1>1. Init => AttemptsInv
  <2>1. Init => faults = 0 /\ \A d \in Deliveries :
                              attempts[d] = 0 /\ status[d] = "absent"
    BY DEF Init
  <2>2. 0 <= MaxRetries + 1 + 0
    BY RetriesAssumption
  <2>3. QED
    BY <2>1, <2>2 DEF AttemptsInv
<1>2. AttemptsInv => AttemptsBounded
  BY DEF AttemptsInv, AttemptsBounded
<1>3. QED
  BY <1>1, <1>2, TypeCorrect, LeaseProtectsTask, AttemptsInductive, PTL DEF Spec

(***************************************************************************)
(* NoPhantomDelivery: a copy a task has sent and the endpoint has not yet  *)
(* processed is covered by the attempt the task's claim counted.           *)
(***************************************************************************)
CopiesInv ==
  /\ \A d \in Deliveries :
       /\ seen[d] + late[d] <= attempts[d]
       /\ status[d] = "delivered" => seen[d] > 0
  /\ \A w \in Workers :
       /\ phase[w] = "sending" =>
            seen[job[w]] + late[job[w]] < attempts[job[w]]
       /\ phase[w] \in {"served", "ok"} => seen[job[w]] > 0

\* A step keeps the copies an endpoint has processed within the attempts.
LEMMA CopiesInductive ==
  TypeOK /\ TaskOwnsRow /\ CopiesInv /\ [Next]_vars => CopiesInv'
<1> USE NoDeliveryAssumption, LeaseAssumption DEF TypeOK, CopiesInv, Busy
<1> SUFFICES ASSUME TypeOK, TaskOwnsRow, CopiesInv, [Next]_vars
             PROVE  CopiesInv'
  OBVIOUS
<1> USE DEF vars, rowVars, taskVars, netVars
<1>1. ASSUME NEW d \in Deliveries, Enqueue(d) PROVE CopiesInv'
  BY <1>1 DEF Enqueue
<1>2. ASSUME NEW d \in Deliveries, ServeLate(d) PROVE CopiesInv'
  BY <1>2 DEF ServeLate
<1>3. ASSUME NEW w \in Workers, NEW d \in Deliveries, Claim(w, d)
      PROVE CopiesInv'
  BY <1>3 DEF Claim, Oldest, Due
<1>4. ASSUME NEW w \in Workers, Serve(w) \/ Answer(w) \/ Miss(w)
      PROVE CopiesInv'
  <2>1. \A x \in Workers : Busy(x) /\ job[x] = job[w] => x = w
    BY <1>4 DEF TaskOwnsRow, Serve, Answer, Miss
  <2>2. job[w] \in Deliveries
    BY <1>4 DEF Serve, Answer, Miss
  <2>3. CASE Serve(w)
    BY <2>1, <2>2, <2>3 DEF Serve
  <2>4. CASE Answer(w)
    BY <2>4 DEF Answer
  <2>5. CASE Miss(w)
    BY <2>1, <2>2, <2>5 DEF Miss
  <2>6. QED
    BY <1>4, <2>3, <2>4, <2>5
<1>5. ASSUME NEW w \in Workers,
             Ack(w) \/ ScheduleRetry(w) \/ DeadLetter(w) \/ WriteFails(w)
      PROVE CopiesInv'
  BY <1>5 DEF Ack, ScheduleRetry, DeadLetter, WriteFails, WriteOutcome, Release
<1>6. CASE Reclaim
  BY <1>6 DEF Reclaim, Expired
<1>7. CASE Tick
  BY <1>7 DEF Tick
<1>8. CASE Crash
  BY <1>8 DEF Crash
<1>9. CASE UNCHANGED vars
  BY <1>9
<1>10. QED
  BY <1>1, <1>2, <1>3, <1>4, <1>5, <1>6, <1>7, <1>8, <1>9 DEF Next, Deliver

\* Only what the endpoint has processed is marked delivered, and it never
\* processes more copies than attempts were made.
THEOREM NoPhantoms == Spec => []NoPhantomDelivery
<1>1. Init => CopiesInv
  BY DEF Init, CopiesInv, Busy
<1>2. CopiesInv => NoPhantomDelivery
  BY DEF CopiesInv, NoPhantomDelivery
<1>3. QED
  BY <1>1, <1>2, TypeCorrect, LeaseProtectsTask, CopiesInductive, PTL DEF Spec

-----------------------------------------------------------------------------
(* Refinement: every step of the queue is a step of WebhookDelivery or none. *)

\* A step of the queue is a step of what it promises, or none.
LEMMA StepKeepsPromise ==
  TypeOK /\ TaskOwnsRow /\ AttemptsInv /\ CopiesInv /\ [Next]_vars
    => [Promise!Next]_(Promise!avars)
<1> USE NoDeliveryAssumption, RetriesAssumption
    DEF TypeOK, Statuses, Busy, Debt, Promise!avars
<1> SUFFICES ASSUME TypeOK, TaskOwnsRow, AttemptsInv, CopiesInv, [Next]_vars
             PROVE  [Promise!Next]_(Promise!avars)
  OBVIOUS
<1> USE DEF vars, rowVars, taskVars, netVars
<1>1. ASSUME NEW d \in Deliveries, Enqueue(d) PROVE Promise!Accept(d)
  BY <1>1 DEF Enqueue, Promise!Accept
<1>2. ASSUME NEW d \in Deliveries, ServeLate(d) PROVE Promise!Process(d)
  BY <1>2 DEF ServeLate, Promise!Process, CopiesInv
<1>3. ASSUME NEW w \in Workers, NEW d \in Deliveries, Claim(w, d)
      PROVE Promise!Send(d)
  BY <1>3 DEF Claim, Oldest, Due, Promise!Send
<1>4. ASSUME NEW w \in Workers, NEW d \in Deliveries, job[w] = d, Serve(w)
      PROVE  Promise!Process(d)
  <2>1. seen[d] < attempts[d]
    BY <1>4 DEF Serve, CopiesInv
  <2>2. QED
    BY <1>4, <2>1 DEF Serve, Promise!Process
<1>5. ASSUME NEW w \in Workers, Answer(w) \/ Miss(w) \/ WriteFails(w)
      PROVE UNCHANGED Promise!avars
  BY <1>5 DEF Answer, Miss, WriteFails
<1>6. ASSUME NEW w \in Workers, NEW d \in Deliveries, job[w] = d, Ack(w)
      PROVE  Promise!Finish(d)
  <2>1. status[d] = "processing" /\ seen[d] > 0
    BY <1>6 DEF Ack, TaskOwnsRow, CopiesInv
  <2>2. QED
    BY <1>6, <2>1 DEF Ack, WriteOutcome, Promise!Finish
<1>7. ASSUME NEW w \in Workers, ScheduleRetry(w)
      PROVE UNCHANGED Promise!avars
  <2>1. job[w] \in Deliveries /\ status[job[w]] = "processing"
    BY <1>7 DEF ScheduleRetry, TaskOwnsRow
  <2>2. QED
    BY <1>7, <2>1 DEF ScheduleRetry, WriteOutcome
<1>8. ASSUME NEW w \in Workers, NEW d \in Deliveries, job[w] = d, DeadLetter(w)
      PROVE  Promise!Abandon(d)
  <2>1. status[d] = "processing" /\ attempts[d] = attemptNo[w]
    BY <1>8 DEF DeadLetter, TaskOwnsRow
  <2>2. QED
    BY <1>8, <2>1 DEF DeadLetter, WriteOutcome, Promise!Abandon
<1>9. CASE Reclaim \/ Tick \/ Crash \/ UNCHANGED vars
  BY <1>9 DEF Reclaim, Expired, Tick, Crash
<1>10. ASSUME NEW w \in Workers, Serve(w) \/ Ack(w) \/ DeadLetter(w)
       PROVE  \E d \in Deliveries : job[w] = d
  BY <1>10 DEF Serve, Ack, DeadLetter
<1>11. ASSUME NEW w \in Workers, Deliver(w)
       PROVE  Promise!Next \/ UNCHANGED Promise!avars
  <2>1. CASE \E d \in Deliveries : Claim(w, d)
    BY <1>3, <2>1 DEF Promise!Next
  <2>2. CASE Serve(w) \/ Ack(w) \/ DeadLetter(w)
    <3>1. PICK d \in Deliveries : job[w] = d
      BY <1>10, <2>2
    <3>2. Promise!Process(d) \/ Promise!Finish(d) \/ Promise!Abandon(d)
      BY <1>4, <1>6, <1>8, <2>2, <3>1
    <3>3. QED
      BY <3>2 DEF Promise!Next
  <2>3. CASE Answer(w) \/ Miss(w) \/ WriteFails(w) \/ ScheduleRetry(w)
    BY <1>5, <1>7, <2>3
  <2>4. QED
    BY <1>11, <2>1, <2>2, <2>3 DEF Deliver
<1>12. QED
  BY <1>1, <1>2, <1>9, <1>11 DEF Next, Promise!Next

\* The queue implements the at-least-once promise it makes to the endpoints.
THEOREM Refinement == Spec => PromiseKept
<1>1. Init => Promise!Init
  BY DEF Init, Promise!Init, Debt
<1>2. Init => AttemptsInv /\ CopiesInv
  BY RetriesAssumption DEF Init, AttemptsInv, CopiesInv, Held, Busy
<1>3. QED
  BY <1>1, <1>2, TypeCorrect, LeaseProtectsTask, AttemptsInductive,
     CopiesInductive, StepKeepsPromise, PTL
  DEF Spec, PromiseKept, Promise!Spec
-----------------------------------------------------------------------------
(* Termination *)

\* The longest pause before a retry, and what one send may still bring: the
\* claim, three moves of its task, the seconds of its lease, the reclaim and
\* the pause.
LongestPause == 16
MovesPerSend == Lease + LongestPause + 6

SendsToGo(n) == (MaxRetries + 1 + MaxFaults - n) * MovesPerSend

TaskIn(d, p) == \E w \in Workers : job[w] = d /\ phase[w] = p

TaskMoves(d) == CASE TaskIn(d, "sending") -> 3
                  [] TaskIn(d, "served")  -> 2
                  [] TaskIn(d, "ok") \/ TaskIn(d, "failed") -> 1
                  [] OTHER -> 0

\* What may still happen to a row in its status, before it is sent once more.
RowMoves(d) == CASE status[d] = "absent"     -> 2
                 [] status[d] = "pending"    -> retryIn[d] + 1
                 [] status[d] = "processing" ->
                      LongestPause + 3 + leaseLeft[d] + TaskMoves(d)
                 [] OTHER -> 0

MovesLeft(d) == SendsToGo(attempts[d]) + RowMoves(d)

\* A row that only time gets on: it pauses, or its lease runs.
Waits(d) == \/ status[d] = "pending" /\ retryIn[d] > 0
            \/ status[d] = "processing" /\ leaseLeft[d] >= 0

\* The step moves the row on, or the task that holds it, or its clock.
MovesOn(d) == \/ status'[d] # status[d]
              \/ \E w \in Workers : job[w] = d /\ phase'[w] # phase[w]
              \/ Tick /\ Waits(d)

\* A pause is short, and only a pending row pauses.
PauseInv == \A d \in Deliveries :
              /\ retryIn[d] <= LongestPause
              /\ status[d] # "pending" => retryIn[d] = 0

RowDescends(d) == /\ MovesLeft(d) \in Nat
                  /\ MovesLeft(d)' <= MovesLeft(d)
                  /\ MovesOn(d) => MovesLeft(d)' < MovesLeft(d)
\* A pause starts at no more than the longest one, by the failed row alone.
LEMMA PauseInductive ==
  TypeOK /\ TaskOwnsRow /\ PauseInv /\ [Next]_vars => PauseInv'
<1> USE DEF TypeOK, PauseInv, LongestPause
<1> SUFFICES ASSUME TypeOK, TaskOwnsRow, PauseInv, [Next]_vars PROVE PauseInv'
  OBVIOUS
<1> USE DEF vars, rowVars, taskVars, netVars
<1>1. ASSUME NEW w \in Workers, ScheduleRetry(w) PROVE PauseInv'
  <2>1. Backoff(attemptNo[w]) \in 0 .. 16 /\ job[w] \in Deliveries
    BY <1>1 DEF Backoff, ScheduleRetry, Busy
  <2>2. QED BY <1>1, <2>1 DEF ScheduleRetry, WriteOutcome
<1>2. ASSUME NEW w \in Workers, Ack(w) \/ DeadLetter(w) PROVE PauseInv'
  <2>1. job[w] \in Deliveries /\ status[job[w]] = "processing"
    BY <1>2 DEF Ack, DeadLetter, Busy, TaskOwnsRow
  <2>2. \A d \in Deliveries : retryIn'[d] = retryIn[d] /\ (d # job[w] => status'[d] = status[d])
    BY <1>2, <2>1 DEF Ack, DeadLetter, WriteOutcome
  <2>3. QED BY <1>2, <2>1, <2>2 DEF Ack, DeadLetter, WriteOutcome
<1>3. ASSUME NEW w \in Workers, NEW d \in Deliveries, Claim(w, d) PROVE PauseInv'
  BY <1>3 DEF Claim, Oldest, Due
<1>4. ASSUME NEW d \in Deliveries, Enqueue(d) PROVE PauseInv'
  BY <1>4 DEF Enqueue
<1>5. CASE Reclaim \/ Tick
  BY <1>5 DEF Reclaim, Expired, Tick
<1>6. ASSUME UNCHANGED rowVars PROVE PauseInv'
  BY <1>6
<1>7. QED
  BY <1>1, <1>2, <1>3, <1>4, <1>5, <1>6
  DEF Next, Deliver, Serve, Answer, Miss, WriteFails, ServeLate, Crash

\* What one more send leaves to go.
LEMMA SendsCount ==
  ASSUME NEW n \in Nat, n <= MaxRetries + 1 + MaxFaults
  PROVE  /\ SendsToGo(n) \in Nat
         /\ SendsToGo(n + 1) = SendsToGo(n) - MovesPerSend
<1> DEFINE k == MaxRetries + 1 + MaxFaults - n
           m == MovesPerSend
<1>1. k \in Nat /\ m \in Nat
  BY RetriesAssumption, LeaseAssumption DEF MovesPerSend, LongestPause
<1>2. SendsToGo(n) = k * m
  BY DEF SendsToGo
<1>3. SendsToGo(n + 1) = (k - 1) * m
  <2>1. MaxRetries + 1 + MaxFaults - (n + 1) = k - 1
    BY RetriesAssumption
  <2>2. SendsToGo(n + 1) = (MaxRetries + 1 + MaxFaults - (n + 1)) * m
    BY DEF SendsToGo
  <2> HIDE DEF k, m
  <2>3. QED BY <2>1, <2>2
<1> HIDE DEF k, m
<1>4. k * m \in Nat /\ (k - 1) * m = k * m - m
  BY <1>1
<1>5. QED BY <1>2, <1>3, <1>4 DEF m

\* The tasks of other rows are of no concern to a row.
LEMMA OtherTasks ==
  ASSUME NEW d,
         \A w \in Workers : job[w] = d \/ job'[w] = d => job'[w] = job[w] /\ phase'[w] = phase[w]
  PROVE  TaskMoves(d)' = TaskMoves(d)
BY DEF TaskMoves, TaskIn

\* A task that holds a row has it to itself, so its phase says what it may
\* still do, and what another phase would leave to do.
LEMMA OwnTask ==
  ASSUME TypeOK, TaskOwnsRow, NEW w \in Workers, Busy(w), NEW d, job[w] = d,
         \A x \in Workers : x # w => job'[x] = job[x] /\ phase'[x] = phase[x]
  PROVE  /\ phase[w] = "sending" => TaskMoves(d) = 3
         /\ phase[w] = "served" => TaskMoves(d) = 2
         /\ phase[w] \in {"ok", "failed"} => TaskMoves(d) = 1
         /\ job'[w] = d /\ phase'[w] = "served" => TaskMoves(d)' = 2
         /\ job'[w] = d /\ phase'[w] \in {"ok", "failed"} => TaskMoves(d)' = 1
         /\ job'[w] # d => TaskMoves(d)' = 0
<1>1. \A x \in Workers : job[x] = d => x = w
  BY DEF TypeOK, TaskOwnsRow, Busy
<1>2. \A x \in Workers : job'[x] = d => x = w
  BY <1>1
<1>3. QED BY <1>1, <1>2 DEF TaskMoves, TaskIn

\* Every step leaves a row no more to go through, and less when it moves it on.
LEMMA RowStep ==
  ASSUME TypeOK, TypeOK', TaskOwnsRow, TaskOwnsRow', AttemptsInv, AttemptsInv',
         PauseInv, PauseInv', [Next]_vars, NEW d \in Deliveries
  PROVE  RowDescends(d)
<1> USE NoDeliveryAssumption, RetriesAssumption, LeaseAssumption
<1> DEFINE t == TaskMoves(d)
           u == TaskMoves(d)'
           r == RowMoves(d)
           s == RowMoves(d)'
           Same == UNCHANGED <<attempts[d], status[d], retryIn[d], leaseLeft[d]>>
           Moves == \E w \in Workers : job[w] = d /\ phase'[w] # phase[w]
<1>1. t \in 0 .. 3 /\ u \in 0 .. 3
  BY DEF TaskMoves
<1>2. /\ r \in Nat
      /\ status[d] = "absent"  => r = 2
      /\ status[d] = "pending" => r = retryIn[d] + 1
      /\ status[d] = "processing" => r = LongestPause + 3 + leaseLeft[d] + t
      /\ status[d] \in Settled => r = 0
  BY <1>1 DEF RowMoves, TypeOK, LongestPause, Statuses, Settled
<1>3. /\ s \in Nat
      /\ status'[d] = "absent"  => s = 2
      /\ status'[d] = "pending" => s = retryIn'[d] + 1
      /\ status'[d] = "processing" => s = LongestPause + 3 + leaseLeft'[d] + u
      /\ status'[d] \in Settled => s = 0
  BY <1>1 DEF RowMoves, TypeOK, LongestPause, Statuses, Settled
<1>4. /\ retryIn[d] \in Nat /\ retryIn'[d] \in Nat /\ retryIn'[d] <= LongestPause
      /\ leaseLeft[d] \in -1 .. Lease /\ leaseLeft'[d] \in -1 .. Lease
      /\ status[d] \in Statuses /\ status'[d] \in Statuses
      /\ status[d] # "pending" => retryIn[d] = 0
      /\ status'[d] # "pending" => retryIn'[d] = 0
  BY DEF TypeOK, PauseInv
<1>5. /\ attempts[d] \in Nat /\ attempts[d] <= MaxRetries + 1 + MaxFaults
      /\ attempts'[d] \in Nat /\ attempts'[d] <= MaxRetries + 1 + MaxFaults
  BY DEF TypeOK, AttemptsInv
<1>6. /\ SendsToGo(attempts[d]) \in Nat
      /\ SendsToGo(attempts'[d]) \in Nat
      /\ SendsToGo(attempts[d] + 1) = SendsToGo(attempts[d]) - MovesPerSend
  BY <1>5, SendsCount
<1>7. /\ MovesLeft(d)  = SendsToGo(attempts[d]) + r
      /\ MovesLeft(d)' = SendsToGo(attempts'[d]) + s
      /\ MovesLeft(d) \in Nat
  BY <1>2, <1>6 DEF MovesLeft
<1> HIDE DEF t, u, r, s
<1>8. ASSUME attempts'[d] = attempts[d],
             s < r \/ (s <= r /\ ~MovesOn(d))
      PROVE  RowDescends(d)
  BY <1>2, <1>3, <1>6, <1>7, <1>8 DEF RowDescends
<1>9. CASE Tick
  <2>1. u = t
    BY <1>9, OtherTasks DEF Tick, t, u
  <2>2. ~Moves /\ status'[d] = status[d] /\ attempts'[d] = attempts[d]
    BY <1>9 DEF Tick
  <2>3. /\ retryIn'[d] = IF retryIn[d] > 0 THEN retryIn[d] - 1 ELSE 0
        /\ leaseLeft'[d] = IF status[d] = "processing" /\ leaseLeft[d] >= 0
                           THEN leaseLeft[d] - 1 ELSE leaseLeft[d]
    BY <1>9 DEF Tick
  <2>4. s <= r /\ (Waits(d) => s < r)
    BY <1>1, <1>2, <1>3, <1>4, <2>1, <2>2, <2>3 DEF Waits, Statuses, Settled, LongestPause
  <2>5. QED BY <1>2, <1>3, <1>8, <2>2, <2>4 DEF MovesOn
<1>10. ASSUME ~Tick, Same, u = t, ~Moves
       PROVE  RowDescends(d)
  <2>1. s = r
    BY <1>2, <1>3, <1>4, <1>10 DEF Statuses, Settled
  <2>2. QED BY <1>2, <1>8, <1>10, <2>1 DEF MovesOn
<1>11. ASSUME ~Tick, NEW w \in Workers, job[w] # d, job'[w] # d, Same,
              \A x \in Workers : x # w => job'[x] = job[x] /\ phase'[x] = phase[x]
       PROVE  RowDescends(d)
  <2>1. u = t /\ ~Moves
    BY <1>11, OtherTasks DEF t, u
  <2>2. QED BY <1>10, <1>11, <2>1
<1>12. ASSUME ~Tick, UNCHANGED <<rowVars, taskVars>>
       PROVE  RowDescends(d)
  BY <1>10, <1>12, OtherTasks DEF rowVars, taskVars, t, u
<1>13. ASSUME ~Tick, NEW e \in Deliveries, Enqueue(e) PROVE RowDescends(d)
  <2>1. u = t /\ ~Moves /\ attempts'[d] = attempts[d] /\ UNCHANGED <<retryIn, leaseLeft>>
    BY <1>13, OtherTasks DEF Enqueue, taskVars, t, u
  <2>2. CASE e = d
    <3>1. status[d] = "absent" /\ status'[d] = "pending"
      BY <1>13, <2>2 DEF Enqueue, TypeOK
    <3>2. s < r
      BY <1>2, <1>3, <1>4, <2>1, <3>1
    <3>3. QED BY <1>8, <2>1, <3>2
  <2>3. CASE e # d
    BY <1>10, <1>13, <2>1, <2>3 DEF Enqueue, TypeOK
  <2>4. QED BY <2>2, <2>3
<1>14. ASSUME ~Tick, NEW w \in Workers, NEW e \in Deliveries, Claim(w, e) PROVE RowDescends(d)
  <2>1. CASE e = d
    <3>1. /\ status[d] = "pending" /\ status'[d] = "processing"
          /\ attempts'[d] = attempts[d] + 1
          /\ leaseLeft'[d] = Lease
      BY <1>14, <2>1 DEF Claim, Oldest, Due, TypeOK
    <3>2. s <= LongestPause + 3 + Lease + 3 /\ r > 0
      BY <1>1, <1>2, <1>3, <1>4, <3>1 DEF LongestPause
    <3>3. SendsToGo(attempts'[d]) = SendsToGo(attempts[d]) - MovesPerSend
      BY <1>6, <3>1
    <3>4. QED
      BY <1>2, <1>3, <1>6, <1>7, <3>2, <3>3 DEF RowDescends, MovesPerSend, LongestPause
  <2>2. CASE e # d
    BY <1>11, <1>14, <2>2 DEF Claim, TypeOK, Busy
  <2>3. QED BY <2>1, <2>2
<1>15. ASSUME ~Tick, NEW w \in Workers, Busy(w), UNCHANGED <<rowVars, job>>,
              \/ phase[w] = "sending" /\ phase'[w] \in {"served", "failed"}
              \/ phase[w] = "served" /\ phase'[w] \in {"ok", "failed"},
              \A x \in Workers : x # w => phase'[x] = phase[x]
       PROVE  RowDescends(d)
  <2>1. CASE job[w] = d
    <3>1. u < t
      BY <1>15, <2>1, OwnTask DEF t, u
    <3>2. status[d] = "processing"
      BY <1>15, <2>1 DEF TaskOwnsRow
    <3>3. s < r
      BY <1>1, <1>2, <1>3, <1>4, <1>15, <3>1, <3>2 DEF rowVars, LongestPause
    <3>4. QED BY <1>8, <1>15, <3>3 DEF rowVars
  <2>2. CASE job[w] # d
    BY <1>11, <1>15, <2>2 DEF rowVars
  <2>3. QED BY <2>1, <2>2
<1>16. ASSUME ~Tick, NEW w \in Workers, Serve(w) \/ Answer(w) \/ Miss(w) PROVE RowDescends(d)
  BY <1>15, <1>16 DEF Serve, Answer, Miss, Busy, rowVars, TypeOK
<1>17. ASSUME ~Tick, NEW w \in Workers,
              Ack(w) \/ ScheduleRetry(w) \/ DeadLetter(w) \/ WriteFails(w)
       PROVE  RowDescends(d)
  <2> DEFINE e == job[w]
  <2>1. /\ Busy(w) /\ phase[w] \in {"ok", "failed"}
        /\ e \in Deliveries /\ job'[w] = NoDelivery
        /\ \A x \in Workers : x # w => job'[x] = job[x] /\ phase'[x] = phase[x]
        /\ attempts' = attempts /\ leaseLeft' = leaseLeft
    BY <1>17 DEF Ack, ScheduleRetry, DeadLetter, WriteFails, WriteOutcome, Release, TypeOK, Busy, rowVars
  <2>2. CASE e = d
    <3>1. t = 1 /\ u = 0
      BY <2>1, <2>2, OwnTask DEF t, u
    <3>2. status[d] = "processing" /\ leaseLeft[d] >= 0
      BY <2>1, <2>2 DEF TaskOwnsRow, TypeOK
    <3>3. status'[d] \in {"processing", "pending"} \cup Settled
      BY <1>17, <2>2, <3>2
      DEF Ack, ScheduleRetry, DeadLetter, WriteFails, WriteOutcome, TypeOK, Settled, rowVars
    <3>4. s < r
      BY <1>2, <1>3, <1>4, <2>1, <3>1, <3>2, <3>3 DEF LongestPause, Settled
    <3>5. QED BY <1>8, <2>1, <3>4
  <2>3. CASE e # d
    <3>1. Same
      BY <1>17, <2>1, <2>3
      DEF Ack, ScheduleRetry, DeadLetter, WriteFails, WriteOutcome, TypeOK, rowVars
    <3>2. QED BY <1>11, <1>17, <2>1, <2>3, <3>1
  <2>4. QED BY <2>2, <2>3
<1>18. ASSUME ~Tick, Reclaim PROVE RowDescends(d)
  <2>1. u = t /\ ~Moves /\ UNCHANGED <<attempts, retryIn, leaseLeft>>
    BY <1>18, OtherTasks DEF Reclaim, taskVars, t, u
  <2>2. CASE Expired(d)
    <3>1. status[d] = "processing" /\ status'[d] = "pending"
      BY <1>18, <2>2 DEF Reclaim, Expired
    <3>2. s < r
      BY <1>1, <1>2, <1>3, <1>4, <2>1, <3>1 DEF LongestPause
    <3>3. QED BY <1>8, <2>1, <3>2
  <2>3. CASE ~Expired(d)
    BY <1>10, <1>18, <2>1, <2>3 DEF Reclaim
  <2>4. QED BY <2>2, <2>3
<1>19. ASSUME ~Tick, Crash PROVE RowDescends(d)
  <2>1. UNCHANGED rowVars /\ \A w \in Workers : job'[w] = NoDelivery
    BY <1>19 DEF Crash
  <2>2. u = 0
    BY <2>1 DEF u, TaskMoves, TaskIn
  <2>3. CASE \E w \in Workers : job[w] = d
    <3>1. PICK w \in Workers : job[w] = d
      BY <2>3
    <3>2. Busy(w) /\ status[d] = "processing"
      BY <3>1 DEF TypeOK, TaskOwnsRow
    <3>3. t > 0
      <4>1. phase[w] \in {"sending", "served", "ok", "failed"}
        BY <3>2 DEF TypeOK, Phases, Busy
      <4>2. QED BY <3>1, <4>1 DEF t, TaskMoves, TaskIn
    <3>4. s < r
      BY <1>1, <1>2, <1>3, <1>4, <2>1, <2>2, <3>2, <3>3 DEF rowVars, LongestPause
    <3>5. QED BY <1>8, <2>1, <3>4 DEF rowVars
  <2>4. CASE \A w \in Workers : job[w] # d
    <3>1. t = 0
      BY <2>4 DEF t, TaskMoves, TaskIn
    <3>2. QED BY <1>10, <1>19, <2>1, <2>2, <2>4, <3>1 DEF rowVars
  <2>5. QED BY <2>3, <2>4
<1>20. ASSUME ~Tick, NEW e \in Deliveries, ServeLate(e) PROVE RowDescends(d)
  BY <1>12, <1>20 DEF ServeLate
<1>21. ASSUME ~Tick, UNCHANGED vars PROVE RowDescends(d)
  BY <1>12, <1>21 DEF vars
<1>22. QED
  BY <1>9, <1>13, <1>14, <1>16, <1>17, <1>18, <1>19, <1>20, <1>21 DEF Next, Deliver

\* The safety part of EventuallySettled, for any number of rows, permits and
\* faults: an event has so many moves left, no step of any row or task gives it
\* one more, and each of its own, and each second it waits, takes one away.
THEOREM EventsDescend == Spec => [][\A d \in Deliveries : RowDescends(d)]_vars
<1> DEFINE Inv == TypeOK /\ TaskOwnsRow /\ AttemptsInv /\ PauseInv
<1>1. Init => Inv
  BY RetriesAssumption, LeaseAssumption, NoDeliveryAssumption
  DEF Init, TypeOK, TaskOwnsRow, AttemptsInv, PauseInv, Held, Busy, Statuses, Phases, LongestPause
<1>2. Inv /\ TypeOK' /\ [Next]_vars => Inv'
  BY TaskOwnsRowInductive, AttemptsInductive, PauseInductive
<1>3. Inv /\ Inv' /\ [Next]_vars => \A d \in Deliveries : RowDescends(d)
  BY RowStep
<1>4. QED
  BY <1>1, <1>2, <1>3, TypeCorrect, PTL DEF Spec
=============================================================================

-------------------------- MODULE BatchEngineProofs --------------------------
(***************************************************************************)
(* The safety of the job queue for every set of jobs, items and workers    *)
(* and any number of retries and faults, with either kind of worker; and   *)
(* of the engine in front of it.  The engine only does to the queue what   *)
(* the queue allows, so what is proved of the queue holds behind it, and   *)
(* it forgets no cancelled job.                                            *)
(***************************************************************************)
EXTENDS BatchEngine, FiniteSetTheorems, TLAPS

\* The parts of the inductive invariant that no property states: items exist
\* when their job does, and a job that a worker has seen complete stays so
\* until that worker says so.
ItemsFollowJob ==
  \A i \in Items : item[i] = "absent" <=> job[JobOf[i]] = "absent"

SeenComplete ==
  \A w \in Workers : phase[w] = "completing" =>
    \A i \in ItemsOf(JobOf[held[w]]) : item[i] \in TerminalItem

QueueInv ==
  /\ TypeOK
  /\ WorkerOwnsItem
  /\ ItemsFollowJob
  /\ SeenComplete
  /\ CompletedMeansDone

-----------------------------------------------------------------------------
(* Tallies *)

\* A tally consists of natural numbers.
LEMMA TallyType ==
  ASSUME NEW j \in Jobs
  PROVE  Tally(j) \in [Outcomes -> Nat]
<1>1. ASSUME NEW s \in Outcomes
      PROVE  Cardinality({i \in ItemsOf(j) : item[i] = s}) \in Nat
  <2>1. IsFiniteSet({i \in ItemsOf(j) : item[i] = s})
    BY ItemsAssumption, FS_Subset DEF ItemsOf
  <2>2. QED BY <2>1, FS_CardinalityType
<1>2. QED BY <1>1 DEF Tally

\* A step that leaves the items of a job alone leaves its tally alone.
LEMMA TallyKept ==
  ASSUME NEW j \in Jobs, \A i \in ItemsOf(j) : item'[i] = item[i]
  PROVE  Tally(j)' = Tally(j)
<1>1. ASSUME NEW s \in Outcomes
      PROVE  {i \in ItemsOf(j) : item'[i] = s} = {i \in ItemsOf(j) : item[i] = s}
  OBVIOUS
<1>2. QED BY <1>1 DEF Tally, ItemsOf

-----------------------------------------------------------------------------
(* Type correctness *)

\* Every reachable state is well typed.
THEOREM TypeCorrect == Spec => []TypeOK
<1> USE JobOfAssumption, RetriesAssumption DEF TypeOK, Phases, JobStatuses, ItemStatuses
<1>1. Init => TypeOK
  BY DEF Init, MaxAttempts
<1>2. TypeOK /\ [Next]_vars => TypeOK'
  <2> SUFFICES ASSUME TypeOK, [Next]_vars PROVE TypeOK'
    OBVIOUS
  <2> USE DEF jobVars, itemVars, workerVars
  <2>1. ASSUME NEW j \in Jobs, Submit(j) PROVE TypeOK'
    BY <2>1 DEF Submit
  <2>2. ASSUME NEW j \in Jobs, Cancel(j) PROVE TypeOK'
    BY <2>2 DEF Cancel, CancelledTo, CancelItems
  <2>3. ASSUME NEW j \in Jobs, CancelHalf(j) PROVE TypeOK'
    BY <2>3 DEF CancelHalf
  <2>4. ASSUME NEW w \in Workers, NEW i \in Items, Claim(w, i) PROVE TypeOK'
    BY <2>4 DEF Claim, Lease, MaxAttempts
  <2>5. ASSUME NEW i \in Items, ClaimHalf(i) PROVE TypeOK'
    BY <2>5 DEF ClaimHalf, Lease, MaxAttempts
  <2>6. ASSUME NEW w \in Workers,
               CompleteItem(w) \/ ScheduleRetry(w) \/ FailItem(w) \/ DeadLetter(w)
        PROVE  TypeOK'
    <3>1. CASE CompleteItem(w)
      BY <3>1 DEF CompleteItem, Record, Continue, Working
    <3>2. CASE ScheduleRetry(w)
      BY <3>2 DEF ScheduleRetry, Record, Continue, Working
    <3>3. CASE FailItem(w)
      BY <3>3 DEF FailItem, Record, Continue, Working
    <3>4. CASE DeadLetter(w)
      <4>1. phase[w] # "idle"
        BY <3>4 DEF DeadLetter
      <4>2. QED
        BY <3>4, <4>1 DEF DeadLetter, Continue
    <3>5. QED
      BY <2>6, <3>1, <3>2, <3>3, <3>4
  <2>7. ASSUME NEW w \in Workers, Check(w) PROVE TypeOK'
    BY <2>7 DEF Check, Continue, Leave
  <2>8. ASSUME NEW w \in Workers, CompleteBatch(w) PROVE TypeOK'
    <3>1. held[w] \in Items /\ JobOf[held[w]] \in Jobs
      BY <2>8 DEF CompleteBatch
    <3>2. Tally(JobOf[held[w]]) \in [Outcomes -> Nat]
      BY <3>1, TallyType
    <3>3. QED
      BY <2>8, <3>1, <3>2 DEF CompleteBatch, Leave
  <2>9. ASSUME NEW i \in Items, RetryFallsDue(i) PROVE TypeOK'
    BY <2>9 DEF RetryFallsDue
  <2>10. CASE Reclaim
    BY <2>10 DEF Reclaim
  <2>11. CASE Crash
    BY <2>11 DEF Crash
  <2>12. CASE UNCHANGED vars
    BY <2>12 DEF vars
  <2>13. QED
    BY <2>1, <2>2, <2>3, <2>4, <2>5, <2>6, <2>7, <2>8, <2>9, <2>10, <2>11, <2>12
    DEF Next, Work
<1>3. QED
  BY <1>1, <1>2, PTL DEF Spec

-----------------------------------------------------------------------------
(* The queue's invariant *)

\* The invariant holds of an empty queue.
LEMMA QueueInit == Init => QueueInv
<1> SUFFICES ASSUME Init PROVE QueueInv
  OBVIOUS
<1>1. TypeOK
  BY RetriesAssumption
  DEF Init, TypeOK, Phases, JobStatuses, ItemStatuses, MaxAttempts
<1>2. WorkerOwnsItem /\ SeenComplete
  BY DEF Init, WorkerOwnsItem, Working, SeenComplete
<1>3. ItemsFollowJob /\ CompletedMeansDone
  BY JobOfAssumption DEF Init, ItemsFollowJob, CompletedMeansDone
<1>4. QED
  BY <1>1, <1>2, <1>3 DEF QueueInv

\* An outcome is written by id, and yet only into an item of the worker's own:
\* a cancel takes pending items, a reclaim takes those nobody works on.
LEMMA OwnershipKept ==
  ASSUME TypeOK, WorkerOwnsItem, ItemsFollowJob, [Next]_vars
  PROVE  WorkerOwnsItem'
<1> USE JobOfAssumption DEF TypeOK, WorkerOwnsItem, Working
<1> USE DEF jobVars, itemVars, workerVars
<1>1. ASSUME NEW j \in Jobs, Submit(j) PROVE WorkerOwnsItem'
  <2>1. \A w \in Workers : Working(w) => JobOf[held[w]] # j
    BY <1>1 DEF Submit, ItemsFollowJob
  <2>2. QED
    BY <1>1, <2>1 DEF Submit
<1>2. ASSUME NEW j \in Jobs, Cancel(j) \/ CancelHalf(j) PROVE WorkerOwnsItem'
  <2>1. \A w \in Workers : Working(w) => item'[held[w]] = "processing"
    BY <1>2 DEF Cancel, CancelHalf, CancelItems
  <2>2. QED
    BY <1>2, <2>1 DEF Cancel, CancelHalf
<1>3. ASSUME NEW w \in Workers, NEW i \in Items, Claim(w, i) PROVE WorkerOwnsItem'
  <2>1. \A x \in Workers : Working(x) => held[x] # i
    BY <1>3 DEF Claim, Lease, Claimable
  <2>2. QED
    BY <1>3, <2>1 DEF Claim, Lease
<1>4. ASSUME NEW i \in Items, ClaimHalf(i) PROVE WorkerOwnsItem'
  <2>1. \A x \in Workers : Working(x) => held[x] # i
    BY <1>4 DEF ClaimHalf, Lease, Claimable
  <2>2. QED
    BY <1>4, <2>1 DEF ClaimHalf, Lease
<1>5. ASSUME NEW w \in Workers,
             CompleteItem(w) \/ ScheduleRetry(w) \/ FailItem(w)
      PROVE  WorkerOwnsItem'
  BY <1>5 DEF CompleteItem, ScheduleRetry, FailItem, Record, Continue
<1>6. ASSUME NEW w \in Workers, DeadLetter(w) \/ Check(w) \/ CompleteBatch(w)
      PROVE  WorkerOwnsItem'
  BY <1>6 DEF DeadLetter, Check, CompleteBatch, Continue, Leave
<1>7. ASSUME NEW i \in Items, RetryFallsDue(i) PROVE WorkerOwnsItem'
  BY <1>7 DEF RetryFallsDue
<1>8. CASE Reclaim
  <2>1. \A w \in Workers : Working(w) => held[w] \notin Abandoned
    BY DEF Abandoned
  <2>2. QED
    BY <1>8, <2>1 DEF Reclaim
<1>9. CASE Crash
  BY <1>9 DEF Crash
<1>10. CASE UNCHANGED vars
  BY <1>10 DEF vars
<1>11. QED
  BY <1>1, <1>2, <1>3, <1>4, <1>5, <1>6, <1>7, <1>8, <1>9, <1>10 DEF Next, Work

\* Terminal items keep their status, and items come and go with their job.
LEMMA TerminalKept ==
  ASSUME TypeOK, WorkerOwnsItem, ItemsFollowJob, SeenComplete, [Next]_vars
  PROVE  /\ \A i \in Items : item[i] \in TerminalItem => item'[i] = item[i]
         /\ ItemsFollowJob'
<1> DEFINE Kept == /\ \A i \in Items : item[i] \in TerminalItem => item'[i] = item[i]
                   /\ ItemsFollowJob'
<1> SUFFICES Kept
  OBVIOUS
<1> USE JobOfAssumption DEF TypeOK, ItemsFollowJob, TerminalItem
<1> USE DEF jobVars, itemVars, workerVars
<1>1. ASSUME NEW j \in Jobs, Submit(j) PROVE Kept
  BY <1>1 DEF Submit
<1>2. ASSUME NEW j \in Jobs, Cancel(j) \/ CancelHalf(j) PROVE Kept
  BY <1>2 DEF Cancel, CancelHalf, CancelItems, CancelledTo, Open
<1>3. ASSUME NEW w \in Workers, NEW i \in Items, Claim(w, i) PROVE Kept
  BY <1>3 DEF Claim, Lease, Claimable, Open
<1>4. ASSUME NEW i \in Items, ClaimHalf(i) PROVE Kept
  BY <1>4 DEF ClaimHalf, Lease, Claimable, Open
<1>5. ASSUME NEW w \in Workers,
             CompleteItem(w) \/ ScheduleRetry(w) \/ FailItem(w)
      PROVE  Kept
  <2>1. Working(w) /\ held[w] \in Items /\ item[held[w]] = "processing"
    BY <1>5 DEF CompleteItem, ScheduleRetry, FailItem, Record, WorkerOwnsItem, Working
  <2>2. QED
    BY <1>5, <2>1 DEF CompleteItem, ScheduleRetry, FailItem, Record
<1>6. ASSUME NEW w \in Workers, DeadLetter(w) \/ Check(w) PROVE Kept
  BY <1>6 DEF DeadLetter, Check
<1>7. ASSUME NEW w \in Workers, CompleteBatch(w) PROVE Kept
  <2>1. held[w] \in Items
    BY <1>7 DEF CompleteBatch
  <2>2. item[held[w]] \in TerminalItem
    BY <1>7, <2>1 DEF CompleteBatch, SeenComplete, ItemsOf
  <2>3. job[JobOf[held[w]]] # "absent"
    BY <2>1, <2>2
  <2>4. QED
    BY <1>7, <2>1, <2>3 DEF CompleteBatch
<1>8. ASSUME NEW i \in Items, RetryFallsDue(i) PROVE Kept
  BY <1>8 DEF RetryFallsDue
<1>9. CASE Reclaim
  BY <1>9 DEF Reclaim, Abandoned
<1>10. CASE Crash
  BY <1>10 DEF Crash
<1>11. CASE UNCHANGED vars
  BY <1>11 DEF vars
<1>12. QED
  BY <1>1, <1>2, <1>3, <1>4, <1>5, <1>6, <1>7, <1>8, <1>9, <1>10, <1>11 DEF Next, Work

\* A worker is about to complete a job only if it has seen it complete.
LEMMA SeenBefore ==
  ASSUME TypeOK, SeenComplete, [Next]_vars,
         NEW w \in Workers, phase'[w] = "completing"
  PROVE  /\ held'[w] = held[w]
         /\ held[w] \in Items
         /\ \A i \in ItemsOf(JobOf[held[w]]) : item[i] \in TerminalItem
<1> DEFINE Seen == \A i \in ItemsOf(JobOf[held[w]]) : item[i] \in TerminalItem
<1> USE DEF TypeOK, SeenComplete, jobVars, itemVars, workerVars
<1>1. CASE phase'[w] = phase[w] /\ held'[w] = held[w]
  BY <1>1
<1>2. ASSUME NEW x \in Workers, Check(x) PROVE held'[w] = held[w] /\ held[w] \in Items /\ Seen
  BY <1>2 DEF Check, IsBatchComplete, Continue, Leave
<1>3. ASSUME NEW x \in Workers, CompleteBatch(x)
      PROVE  phase'[w] = phase[w] /\ held'[w] = held[w]
  BY <1>3 DEF CompleteBatch, Leave
<1>4. ASSUME NEW x \in Workers,
             CompleteItem(x) \/ ScheduleRetry(x) \/ FailItem(x) \/ DeadLetter(x)
      PROVE  phase'[w] = phase[w] /\ held'[w] = held[w]
  BY <1>4 DEF CompleteItem, ScheduleRetry, FailItem, DeadLetter, Continue
<1>5. ASSUME NEW x \in Workers, NEW i \in Items, Claim(x, i)
      PROVE  phase'[w] = phase[w] /\ held'[w] = held[w]
  BY <1>5 DEF Claim
<1>6. ASSUME \/ \E j \in Jobs : Submit(j) \/ Cancel(j) \/ CancelHalf(j)
             \/ \E i \in Items : ClaimHalf(i) \/ RetryFallsDue(i)
             \/ Reclaim \/ UNCHANGED vars
      PROVE  phase'[w] = phase[w] /\ held'[w] = held[w]
  BY <1>6 DEF Submit, Cancel, CancelHalf, ClaimHalf, RetryFallsDue, Reclaim, vars
<1>7. ~Crash
  BY DEF Crash
<1>8. QED
  BY <1>1, <1>2, <1>3, <1>4, <1>5, <1>6, <1>7 DEF Next, Work

\* A job is completed only by a worker that has seen it complete, with the
\* counts of that moment.
LEMMA CompletedBefore ==
  ASSUME TypeOK, SeenComplete, CompletedMeansDone, [Next]_vars,
         NEW j \in Jobs, job'[j] = "completed"
  PROVE  /\ \A i \in ItemsOf(j) : item[i] \in TerminalItem
         /\ counts'[j] = Tally(j)
<1> DEFINE Done == /\ \A i \in ItemsOf(j) : item[i] \in TerminalItem
                   /\ counts'[j] = Tally(j)
<1> USE DEF jobVars, itemVars, workerVars
<1>1. CASE job'[j] = job[j] /\ counts'[j] = counts[j]
  BY <1>1 DEF CompletedMeansDone
<1>2. ASSUME NEW w \in Workers, CompleteBatch(w) PROVE Done
  <2>1. CASE JobOf[held[w]] = j
    BY <1>2, <2>1 DEF CompleteBatch, SeenComplete, TypeOK
  <2>2. CASE JobOf[held[w]] # j
    BY <1>1, <1>2, <2>2 DEF CompleteBatch, TypeOK
  <2>3. QED BY <2>1, <2>2
<1>3. ASSUME NEW k \in Jobs, Submit(k) \/ Cancel(k) \/ CancelHalf(k)
      PROVE  job'[j] = job[j] /\ counts'[j] = counts[j]
  BY <1>3 DEF Submit, Cancel, CancelHalf, CancelledTo, TypeOK
<1>4. ASSUME NEW w \in Workers, NEW i \in Items, Claim(w, i)
      PROVE  job'[j] = job[j] /\ counts'[j] = counts[j]
  BY <1>4, JobOfAssumption DEF Claim, TypeOK
<1>5. ASSUME \/ \E w \in Workers : \/ CompleteItem(w) \/ ScheduleRetry(w)
                                   \/ FailItem(w) \/ DeadLetter(w) \/ Check(w)
             \/ \E i \in Items : ClaimHalf(i) \/ RetryFallsDue(i)
             \/ Reclaim \/ Crash \/ UNCHANGED vars
      PROVE  job'[j] = job[j] /\ counts'[j] = counts[j]
  BY <1>5 DEF CompleteItem, ScheduleRetry, FailItem, DeadLetter, Check, ClaimHalf,
              RetryFallsDue, Reclaim, Crash, vars
<1>6. QED
  BY <1>1, <1>2, <1>3, <1>4, <1>5 DEF Next, Work

\* Every step keeps the invariant.
LEMMA QueueInductive == QueueInv /\ TypeOK' /\ [Next]_vars => QueueInv'
<1> SUFFICES ASSUME QueueInv, TypeOK', [Next]_vars PROVE QueueInv'
  OBVIOUS
<1> USE DEF QueueInv
<1>1. WorkerOwnsItem'
  BY OwnershipKept
<1>2. /\ \A i \in Items : item[i] \in TerminalItem => item'[i] = item[i]
      /\ ItemsFollowJob'
  BY TerminalKept
<1>3. SeenComplete'
  <2> SUFFICES ASSUME NEW w \in Workers, phase'[w] = "completing",
                      NEW i \in ItemsOf(JobOf[held'[w]])
               PROVE  item'[i] \in TerminalItem
    BY DEF SeenComplete, ItemsOf, TerminalItem
  <2>1. item[i] \in TerminalItem
    BY SeenBefore
  <2>2. QED
    BY <1>2, <2>1 DEF ItemsOf
<1>4. CompletedMeansDone'
  <2> SUFFICES ASSUME NEW j \in Jobs, job'[j] = "completed"
               PROVE  /\ \A i \in ItemsOf(j) : item'[i] \in TerminalItem
                      /\ counts'[j] = Tally(j)'
    BY DEF CompletedMeansDone, ItemsOf, TerminalItem
  <2>1. /\ \A i \in ItemsOf(j) : item[i] \in TerminalItem
        /\ counts'[j] = Tally(j)
    BY CompletedBefore
  <2>2. \A i \in ItemsOf(j) : item'[i] = item[i]
    BY <1>2, <2>1 DEF ItemsOf
  <2>3. Tally(j)' = Tally(j)
    BY <2>2, TallyKept
  <2>4. QED
    BY <2>1, <2>2, <2>3
<1>5. QED
  BY <1>1, <1>2, <1>3, <1>4

\* The invariant holds throughout.
LEMMA QueueAlways == Spec => []QueueInv
  BY QueueInit, TypeCorrect, QueueInductive, PTL DEF Spec

-----------------------------------------------------------------------------
(* Somebody sees the end of a job *)

\* A worker that has yet to ask whether the job is complete, or to say so.
Sees(w, j) == phase[w] \in {"failed", "checking", "completing"} /\ JobOf[held[w]] = j

\* is_batch_complete is asked by whoever wrote the last outcome, and by nobody
\* after: as long as the last outcome of an open job is in the row, a worker is on
\* its way to complete it, or a crash has taken the worker.
SomeoneWillSee ==
  \A j \in Jobs :
    /\ job[j] \in Open
    /\ ItemsOf(j) # {}
    /\ \A i \in ItemsOf(j) : item[i] \in TerminalItem
    => j \in orphaned \/ \E w \in Workers : Sees(w, j)

\* A step keeps it for a job whose status and items it leaves, if it leaves the
\* workers that see the job.
LEMMA SeersStay ==
  ASSUME SomeoneWillSee, NEW j \in Jobs, job'[j] \in Open, job[j] \in Open, ItemsOf(j) # {},
         \A i \in ItemsOf(j) : item[i] \in TerminalItem,
         orphaned \subseteq orphaned',
         \A w \in Workers : Sees(w, j) => Sees(w, j)'
  PROVE  j \in orphaned' \/ \E w \in Workers : Sees(w, j)'
  BY DEF SomeoneWillSee

\* No step leaves the end of a job unseen.
LEMMA SeenStep ==
  ASSUME TypeOK, WorkerOwnsItem, SomeoneWillSee, [Next]_vars
  PROVE  SomeoneWillSee'
<1> SUFFICES ASSUME NEW j \in Jobs, job'[j] \in Open, ItemsOf(j) # {},
                    \A i \in ItemsOf(j) : item'[i] \in TerminalItem
             PROVE  j \in orphaned' \/ \E w \in Workers : Sees(w, j)'
  BY DEF SomeoneWillSee, ItemsOf, Open, TerminalItem
<1> DEFINE Seen == j \in orphaned' \/ \E w \in Workers : Sees(w, j)'
<1> USE JobOfAssumption DEF TypeOK, jobVars, itemVars, workerVars
<1>1. PICK k \in Items : JobOf[k] = j
  BY DEF ItemsOf
\* The job was open, its items were as they are, and whoever saw it does still.
<1>2. ASSUME job[j] \in Open, \A i \in ItemsOf(j) : item'[i] = item[i],
             orphaned \subseteq orphaned', \A w \in Workers : Sees(w, j) => Sees(w, j)'
      PROVE  Seen
  BY <1>2, SeersStay
<1>3. ASSUME NEW l \in Jobs, Submit(l) PROVE Seen
  <2>1. l # j
    BY <1>1, <1>3 DEF Submit, TerminalItem, ItemsOf
  <2>2. job'[j] = job[j] /\ \A i \in ItemsOf(j) : item'[i] = item[i]
    BY <1>3, <2>1 DEF Submit, ItemsOf
  <2>3. QED
    BY <1>2, <1>3, <2>2 DEF Submit, Sees
<1>4. ASSUME NEW l \in Jobs, Cancel(l) \/ CancelHalf(l) PROVE Seen
  <2>1. l # j
    BY <1>4 DEF Cancel, CancelHalf, CancelledTo, Open
  <2>2. job'[j] = job[j] /\ \A i \in ItemsOf(j) : item'[i] = item[i]
    BY <1>4, <2>1 DEF Cancel, CancelHalf, CancelItems, ItemsOf
  <2>3. QED
    BY <1>2, <1>4, <2>2 DEF Cancel, CancelHalf, Sees
<1>5. ASSUME NEW w \in Workers, NEW i \in Items, Claim(w, i) PROVE Seen
  <2>1. JobOf[i] # j
    BY <1>5 DEF Claim, Lease, ItemsOf, TerminalItem
  <2>2. job'[j] = job[j] /\ \A x \in ItemsOf(j) : item'[x] = item[x]
    BY <1>5, <2>1 DEF Claim, Lease, ItemsOf
  <2>3. \A x \in Workers : Sees(x, j) => Sees(x, j)'
    BY <1>5 DEF Claim, Sees
  <2>4. QED
    BY <1>2, <1>5, <2>2, <2>3 DEF Claim
<1>6. ASSUME NEW i \in Items, ClaimHalf(i) PROVE Seen
  <2>1. JobOf[i] # j
    BY <1>6 DEF ClaimHalf, Lease, ItemsOf, TerminalItem
  <2>2. job'[j] = job[j] /\ \A x \in ItemsOf(j) : item'[x] = item[x]
    BY <1>6, <2>1 DEF ClaimHalf, Lease, ItemsOf
  <2>3. QED
    BY <1>2, <1>6, <2>2 DEF ClaimHalf, Sees
\* The worker that writes the last outcome sees the job from then on.
<1>7. ASSUME NEW w \in Workers, CompleteItem(w) \/ FailItem(w) \/ ScheduleRetry(w)
      PROVE  Seen
  <2>1. CASE JobOf[held[w]] = j
    BY <1>7, <2>1 DEF CompleteItem, FailItem, ScheduleRetry, Record, Continue, Working, Sees
  <2>2. CASE JobOf[held[w]] # j
    <3>1. job'[j] = job[j] /\ \A x \in ItemsOf(j) : item'[x] = item[x]
      BY <1>7, <2>2 DEF CompleteItem, FailItem, ScheduleRetry, Record, ItemsOf
    <3>2. \A x \in Workers : Sees(x, j) => Sees(x, j)'
      BY <1>7, <2>2 DEF CompleteItem, FailItem, ScheduleRetry, Continue, Sees
    <3>3. QED
      BY <1>2, <1>7, <3>1, <3>2 DEF CompleteItem, FailItem, ScheduleRetry
  <2>3. QED
    BY <2>1, <2>2
<1>8. ASSUME NEW w \in Workers, DeadLetter(w) PROVE Seen
  <2>1. \A x \in Workers : Sees(x, j) => Sees(x, j)'
    BY <1>8 DEF DeadLetter, Continue, Sees
  <2>2. QED
    BY <1>2, <1>8, <2>1 DEF DeadLetter
\* Who asks is told that the job is complete.
<1>9. ASSUME NEW w \in Workers, Check(w) PROVE Seen
  <2>1. \A x \in Workers : Sees(x, j) => Sees(x, j)'
    BY <1>9 DEF Check, Continue, Leave, IsBatchComplete, Sees
  <2>2. QED
    BY <1>2, <1>9, <2>1 DEF Check
<1>10. ASSUME NEW w \in Workers, CompleteBatch(w) PROVE Seen
  <2>1. JobOf[held[w]] # j
    BY <1>10 DEF CompleteBatch, Open
  <2>2. job'[j] = job[j]
    BY <1>10, <2>1 DEF CompleteBatch
  <2>3. \A x \in Workers : Sees(x, j) => Sees(x, j)'
    BY <1>10, <2>1 DEF CompleteBatch, Leave, Sees
  <2>4. QED
    BY <1>2, <1>10, <2>2, <2>3 DEF CompleteBatch
<1>11. ASSUME NEW i \in Items, RetryFallsDue(i) PROVE Seen
  BY <1>2, <1>11 DEF RetryFallsDue, Sees
<1>12. CASE Reclaim
  <2>1. \A x \in ItemsOf(j) : item'[x] = item[x]
    BY <1>12 DEF Reclaim, TerminalItem, ItemsOf
  <2>2. QED
    BY <1>2, <1>12, <2>1 DEF Reclaim, Sees
<1>13. CASE Crash
  BY <1>13 DEF Crash
<1>14. CASE UNCHANGED vars
  BY <1>2, <1>14 DEF vars, Sees
<1>15. QED
  BY <1>3, <1>4, <1>5, <1>6, <1>7, <1>8, <1>9, <1>10, <1>11, <1>12, <1>13, <1>14
  DEF Next, Work

-----------------------------------------------------------------------------
(* How often an item is sent *)

\* An item that may be claimed, at once or when its lease has been reclaimed.
Resendable(i) == item[i] \in {"absent", "pending"} \/ i \in Abandoned

AttemptsInv ==
  FailFirst => \A i \in Items :
    /\ attempts[i] <= MaxRetries + 1 + faults
    /\ Resendable(i) => attempts[i] <= MaxRetries + faults

\* An item is sent once, again for each of its retries, and once more for each crash
\* and each failed claim, also when several workers were at work: a worker that
\* gives up fails the item before it copies it.  The bound of the model on claims
\* then cuts nothing off.
AttemptsBounded ==
  FailFirst => \A i \in Items :
    /\ attempts[i] <= MaxRetries + 1 + faults
    /\ Claimable(i) => attempts[i] < MaxAttempts

\* A step that does not count attempts, and makes nothing claimable.
LEMMA AttemptsKept ==
  ASSUME AttemptsInv, attempts' = attempts, faults' = faults,
         \A i \in Items : Resendable(i)' => Resendable(i)
  PROVE  AttemptsInv'
  BY DEF AttemptsInv

\* Every step keeps the bound on attempts.
LEMMA AttemptsStep ==
  ASSUME TypeOK, WorkerOwnsItem, ItemsFollowJob, AttemptsInv, [Next]_vars
  PROVE  AttemptsInv'
<1> USE RetriesAssumption, JobOfAssumption DEF TypeOK, jobVars, itemVars, workerVars
<1>0. \A i \in Items : attempts[i] \in Nat /\ faults \in Nat
  BY DEF MaxAttempts
<1>1. ASSUME NEW j \in Jobs, Submit(j) PROVE AttemptsInv'
  <2>1. \A i \in Items : JobOf[i] = j => item[i] = "absent"
    BY <1>1 DEF Submit, ItemsFollowJob
  <2>2. \A i \in Items : Resendable(i)' => Resendable(i)
    BY <1>1, <2>1 DEF Submit, Resendable, Abandoned, Working
  <2>3. QED
    BY <1>1, <2>2, AttemptsKept DEF Submit
<1>2. ASSUME NEW j \in Jobs, Cancel(j) PROVE AttemptsInv'
  <2>1. \A i \in Items : Resendable(i)' => Resendable(i)
    BY <1>2 DEF Cancel, CancelItems, Resendable, Abandoned, Working
  <2>2. QED
    BY <1>2, <2>1, AttemptsKept DEF Cancel
<1>3. ASSUME NEW j \in Jobs, CancelHalf(j) PROVE AttemptsInv'
  BY <1>0, <1>3 DEF CancelHalf, AttemptsInv, Resendable, Abandoned, Working
\* A claim adds one attempt to an item that may have one more.
<1>4. ASSUME NEW w \in Workers, NEW i \in Items, Claim(w, i) PROVE AttemptsInv'
  <2>1. Resendable(i)
    BY <1>4 DEF Claim, Lease, Claimable, Resendable
  <2>2. ~Resendable(i)'
    BY <1>4 DEF Claim, Lease, Resendable, Abandoned, Working
  <2>3. \A x \in Items : x # i /\ Resendable(x)' => Resendable(x)
    BY <1>4 DEF Claim, Lease, Resendable, Abandoned, Working
  <2>4. attempts' = [attempts EXCEPT ![i] = @ + 1] /\ faults' = faults
    BY <1>4 DEF Claim, Lease
  <2>5. QED
    BY <1>0, <2>1, <2>2, <2>3, <2>4 DEF AttemptsInv
<1>5. ASSUME NEW i \in Items, ClaimHalf(i) PROVE AttemptsInv'
  <2>1. Resendable(i)
    BY <1>5 DEF ClaimHalf, Lease, Claimable, Resendable
  <2>2. \A x \in Items : x # i /\ Resendable(x)' => Resendable(x)
    BY <1>5 DEF ClaimHalf, Lease, Resendable, Abandoned, Working
  <2>3. attempts' = [attempts EXCEPT ![i] = @ + 1] /\ faults' = faults + 1
    BY <1>5 DEF ClaimHalf, Lease
  <2>4. QED
    BY <1>0, <2>1, <2>2, <2>3 DEF AttemptsInv
\* An outcome takes the item out of processing before its worker stops working on it.
<1>6. ASSUME NEW w \in Workers, CompleteItem(w) \/ FailItem(w) PROVE AttemptsInv'
  <2>1. \A i \in Items : Resendable(i)' => Resendable(i)
    BY <1>6 DEF CompleteItem, FailItem, Record, Continue, Resendable, Abandoned, Working
  <2>2. QED
    BY <1>6, <2>1, AttemptsKept DEF CompleteItem, FailItem
<1>7. ASSUME NEW w \in Workers, ScheduleRetry(w) PROVE AttemptsInv'
  <2>1. \A i \in Items : i # held[w] /\ Resendable(i)' => Resendable(i)
    BY <1>7 DEF ScheduleRetry, Record, Continue, Resendable, Abandoned, Working
  <2>2. attempts[held[w]] <= MaxRetries /\ attempts' = attempts /\ faults' = faults
    BY <1>7 DEF ScheduleRetry
  <2>3. held[w] \in Items
    BY <1>7 DEF ScheduleRetry, Record, Working
  <2>4. QED
    BY <1>0, <2>1, <2>2, <2>3 DEF AttemptsInv
\* Who gives up has failed the item already.
<1>8. ASSUME FailFirst, NEW w \in Workers, DeadLetter(w) PROVE AttemptsInv'
  <2>1. \A i \in Items : Resendable(i)' => Resendable(i)
    BY <1>8 DEF DeadLetter, Continue, Resendable, Abandoned, Working
  <2>2. QED
    BY <1>8, <2>1, AttemptsKept DEF DeadLetter
<1>9. ASSUME NEW w \in Workers, Check(w) \/ CompleteBatch(w) PROVE AttemptsInv'
  <2>1. \A i \in Items : Resendable(i)' => Resendable(i)
    BY <1>9 DEF Check, CompleteBatch, Continue, Leave, Resendable, Abandoned, Working
  <2>2. QED
    BY <1>9, <2>1, AttemptsKept DEF Check, CompleteBatch
<1>10. ASSUME NEW i \in Items, RetryFallsDue(i) PROVE AttemptsInv'
  BY <1>10, AttemptsKept DEF RetryFallsDue, Resendable, Abandoned, Working
<1>11. CASE Reclaim
  <2>1. \A i \in Items : Resendable(i)' => Resendable(i)
    BY <1>11 DEF Reclaim, Resendable, Abandoned, Working
  <2>2. QED
    BY <1>11, <2>1, AttemptsKept DEF Reclaim
\* Every item may be sent once more than before the crash, not more.
<1>12. CASE Crash
  BY <1>0, <1>12 DEF Crash, AttemptsInv, Resendable
<1>13. CASE UNCHANGED vars
  BY <1>13, AttemptsKept DEF vars, Resendable, Abandoned, Working
<1>14. QED
  <2>1. CASE ~FailFirst
    BY <2>1 DEF AttemptsInv
  <2>2. QED
    BY <1>1, <1>2, <1>3, <1>4, <1>5, <1>6, <1>7, <1>8, <1>9, <1>10, <1>11, <1>12, <1>13,
       <2>1
    DEF Next, Work

-----------------------------------------------------------------------------
(* The results *)

\* A worker that writes an outcome still owns the item it writes to.
THEOREM WorkersOwnTheirItems == Spec => []WorkerOwnsItem
<1>1. QueueInv => WorkerOwnsItem
  BY DEF QueueInv
<1>2. QED
  BY <1>1, QueueAlways, PTL

\* The row of a completed job tells the truth about finished items.
THEOREM CompletedJobsAreDone == Spec => []CompletedMeansDone
<1>1. QueueInv => CompletedMeansDone
  BY DEF QueueInv
<1>2. QED
  BY <1>1, QueueAlways, PTL

\* No cancel, late reclaim or other worker changes an item's result.
THEOREM ResultsStay == Spec => ResultsAreFinal
<1>1. QueueInv /\ [Next]_vars =>
        [\A i \in Items : item[i] \in TerminalItem => item'[i] = item[i]]_vars
  BY TerminalKept DEF QueueInv
<1>2. QED
  BY <1>1, QueueAlways, PTL DEF Spec, ResultsAreFinal

\* After a cancel the job is never opened again and nothing of it is sent.
THEOREM CancelStops == Spec => CancelStopsWork
<1> DEFINE Stopped == \A i \in Items : job[JobOf[i]] \notin Open \cup {"absent"} =>
                        job'[JobOf[i]] \notin Open /\ attempts'[i] = attempts[i]
<1>1. TypeOK /\ [Next]_vars =>
        [\A i \in Items : job[JobOf[i]] \notin Open \cup {"absent"} =>
           /\ job'[JobOf[i]] \notin Open
           /\ attempts'[i] = attempts[i]]_vars
  <2> SUFFICES ASSUME TypeOK, Next PROVE Stopped
    OBVIOUS
  <2> USE JobOfAssumption DEF TypeOK, Open, jobVars, itemVars, workerVars
  <2>1. ASSUME NEW j \in Jobs, Submit(j) \/ Cancel(j) \/ CancelHalf(j) PROVE Stopped
    BY <2>1 DEF Submit, Cancel, CancelHalf, CancelledTo
  <2>2. ASSUME NEW w \in Workers, NEW i \in Items, Claim(w, i) PROVE Stopped
    BY <2>2 DEF Claim, Lease, Claimable
  <2>3. ASSUME NEW i \in Items, ClaimHalf(i) PROVE Stopped
    BY <2>3 DEF ClaimHalf, Lease, Claimable
  <2>4. ASSUME NEW w \in Workers, CompleteBatch(w) PROVE Stopped
    BY <2>4 DEF CompleteBatch
  <2>5. ASSUME \/ \E w \in Workers : \/ CompleteItem(w) \/ ScheduleRetry(w)
                                     \/ FailItem(w) \/ DeadLetter(w) \/ Check(w)
               \/ \E i \in Items : RetryFallsDue(i)
               \/ Reclaim \/ Crash
        PROVE  Stopped
    BY <2>5 DEF CompleteItem, ScheduleRetry, FailItem, DeadLetter, Check,
                RetryFallsDue, Reclaim, Crash
  <2>6. QED
    BY <2>1, <2>2, <2>3, <2>4, <2>5 DEF Next, Work
<1>2. QED
  BY <1>1, TypeCorrect, PTL DEF Spec, CancelStopsWork

\* An ended job takes on no work, and only work at hand when it was cancelled may
\* still change its status, to completed: the queue knows no other way out.
THEOREM EndIsFinal == Spec => EndedIsFinal
<1> DEFINE Stays(j) == /\ \A w \in Workers : AtWork(w, j)' => AtWork(w, j)
                       /\ \/ job'[j] = job[j]
                          \/ job'[j] = "completed" /\ \E w \in Workers : AtWork(w, j)
<1>1. TypeOK /\ [Next]_vars =>
        [\A j \in Jobs : job[j] \in TerminalJob =>
           /\ \A w \in Workers : AtWork(w, j)' => AtWork(w, j)
           /\ \/ job'[j] = job[j]
              \/ job'[j] = "completed" /\ \E w \in Workers : AtWork(w, j)]_vars
  <2> SUFFICES ASSUME TypeOK, Next, NEW j \in Jobs, job[j] \in TerminalJob PROVE Stays(j)
    OBVIOUS
  <2> USE JobOfAssumption DEF TypeOK, Open, TerminalJob, AtWork, jobVars, itemVars, workerVars
  <2>1. ASSUME NEW k \in Jobs, Submit(k) \/ Cancel(k) \/ CancelHalf(k) PROVE Stays(j)
    BY <2>1 DEF Submit, Cancel, CancelHalf, CancelledTo
  <2>2. ASSUME NEW x \in Workers, NEW i \in Items, Claim(x, i) PROVE Stays(j)
    <3>1. JobOf[i] # j
      BY <2>2 DEF Claim, Lease, Claimable
    <3>2. job'[j] = job[j]
      BY <2>2, <3>1 DEF Claim
    <3>3. \A w \in Workers : AtWork(w, j)' => AtWork(w, j)
      BY <2>2, <3>1 DEF Claim
    <3>4. QED
      BY <3>2, <3>3
  <2>3. ASSUME NEW x \in Workers,
               CompleteItem(x) \/ ScheduleRetry(x) \/ FailItem(x) \/ DeadLetter(x)
        PROVE  Stays(j)
    BY <2>3 DEF CompleteItem, ScheduleRetry, FailItem, DeadLetter, Record, Working, Continue
  <2>4. ASSUME NEW x \in Workers, Check(x) PROVE Stays(j)
    BY <2>4 DEF Check, Continue, Leave
  <2>5. ASSUME NEW x \in Workers, CompleteBatch(x) PROVE Stays(j)
    <3>1. \A w \in Workers : AtWork(w, j)' => AtWork(w, j)
      BY <2>5 DEF CompleteBatch, Leave
    <3>2. CASE JobOf[held[x]] = j
      BY <2>5, <3>1, <3>2 DEF CompleteBatch
    <3>3. CASE JobOf[held[x]] # j
      BY <2>5, <3>1, <3>3 DEF CompleteBatch
    <3>4. QED
      BY <3>2, <3>3
  <2>6. ASSUME \/ \E i \in Items : ClaimHalf(i) \/ RetryFallsDue(i)
               \/ Reclaim \/ Crash
        PROVE  Stays(j)
    BY <2>6 DEF ClaimHalf, RetryFallsDue, Reclaim, Crash
  <2>7. QED
    BY <2>1, <2>2, <2>3, <2>4, <2>5, <2>6 DEF Next, Work
<1>2. QED
  BY <1>1, TypeCorrect, PTL DEF Spec, EndedIsFinal

\* Between the last outcome and complete_batch somebody is always on the way, but for
\* a crash: what EventuallyCompleted rests on.
THEOREM LastOutcomeIsSeen == Spec => []SomeoneWillSee
<1>1. Init => SomeoneWillSee
  BY DEF Init, SomeoneWillSee, Open
<1>2. QueueInv /\ SomeoneWillSee /\ [Next]_vars => SomeoneWillSee'
  BY SeenStep DEF QueueInv
<1>3. QED
  BY <1>1, <1>2, QueueAlways, PTL DEF Spec

\* Retries, crashes and failed claims bound how often an item is sent.
THEOREM SentRarely == Spec => []AttemptsBounded
<1>1. Init => AttemptsInv
  BY RetriesAssumption DEF Init, AttemptsInv
<1>2. QueueInv /\ AttemptsInv /\ [Next]_vars => AttemptsInv'
  BY AttemptsStep DEF QueueInv
<1>3. TypeOK /\ AttemptsInv => AttemptsBounded
  BY RetriesAssumption DEF AttemptsInv, AttemptsBounded, TypeOK, MaxAttempts, Claimable, Resendable
<1>4. QED
  BY <1>1, <1>2, <1>3, TypeCorrect, QueueAlways, PTL DEF Spec

-----------------------------------------------------------------------------
(* The engine in front of the queue *)

\* The job queue behind the engine is the job queue: every call of the engine is
\* one of its operations, or leaves it alone.
THEOREM EngineImplementsQueue == EngineSpec => Spec
<1>1. EngineInit => Init
  BY DEF EngineInit
<1>2. [EngineNext]_evars => [Next]_vars
  <2> SUFFICES ASSUME [EngineNext]_evars PROVE [Next]_vars
    OBVIOUS
  <2>1. ASSUME NEW c \in Callers, NEW j \in Jobs,
               EngineSubmit(c, j) \/ EngineCancel(c, j) \/ CancelAgain(c, j)
        PROVE  [Next]_vars
    BY <2>1 DEF EngineSubmit, EngineCancel, CancelAgain, Next
  <2>2. ASSUME NEW c \in Callers, NEW u \in Urls,
               Enqueue(c, u) \/ EnqueueFails(c, u)
        PROVE  [Next]_vars
    BY <2>2 DEF Enqueue, EnqueueFails
  <2>3. ASSUME NEW c \in Callers, HangUp(c) PROVE [Next]_vars
    BY <2>3 DEF HangUp
  <2>4. ASSUME NEW j \in Jobs, CancelFails(j) PROVE [Next]_vars
    BY <2>4 DEF CancelFails, Next
  <2>5. CASE EngineCrash
    BY <2>5 DEF EngineCrash, Next
  <2>6. CASE WorkerNext
    BY <2>6 DEF WorkerNext, Next
  <2>7. CASE UNCHANGED evars
    BY <2>7 DEF evars
  <2>8. QED
    BY <2>1, <2>2, <2>3, <2>4, <2>5, <2>6, <2>7 DEF EngineNext
<1>3. QED
  BY <1>1, <1>2, PTL DEF EngineSpec, Spec

-----------------------------------------------------------------------------
(* The types of the engine *)

\* What handlers have yet to enqueue are deliveries.
LEMMA PendingType ==
  ASSUME EngineTypeOK, NEW cs \in SUBSET Callers
  PROVE  Pending(cs) \subseteq Deliveries
<1>1. ASSUME NEW c \in cs, call[c] # NoCall, NEW u \in call[c].urls
      PROVE  Delivery(call[c].event, call[c].job, u) \in Deliveries
  <2>1. call[c] \in [event : EventKinds, job : Jobs, urls : SUBSET Urls]
    BY <1>1 DEF EngineTypeOK, Calls
  <2>2. QED
    BY <1>1, <2>1 DEF Delivery, Deliveries
<1>2. QED
  BY <1>1 DEF Pending

\* A step of the engine keeps the types, if its step of the queue does.
LEMMA EngineTypeStep == EngineTypeOK /\ TypeOK' /\ [EngineNext]_evars => EngineTypeOK'
<1> SUFFICES ASSUME EngineTypeOK, TypeOK', [EngineNext]_evars PROVE EngineTypeOK'
  OBVIOUS
<1>1. told \subseteq Deliveries /\ lost \subseteq Deliveries
      /\ call \in [Callers -> Calls] /\ NoCall \in Calls
  BY DEF EngineTypeOK, Calls
<1>2. ASSUME NEW c \in Callers, NEW j \in Jobs, NEW e \in EventKinds, Fire(c, e, j)
      PROVE  call' \in [Callers -> Calls]
  <2>1. [event |-> e, job |-> j, urls |-> UrlsFor(e)] \in Calls
    BY DEF UrlsFor, Urls, Calls
  <2>2. QED
    BY <1>1, <1>2, <2>1 DEF Fire
<1>3. ASSUME NEW c \in Callers, NEW j \in Jobs,
             EngineSubmit(c, j) \/ EngineCancel(c, j) \/ CancelAgain(c, j)
      PROVE  EngineTypeOK'
  <2>1. call' \in [Callers -> Calls]
    BY <1>1, <1>2, <1>3 DEF EngineSubmit, EngineCancel, CancelAgain, EventKinds
  <2>2. QED
    BY <1>1, <1>3, <2>1 DEF EngineTypeOK, EngineSubmit, EngineCancel, CancelAgain
<1>4. ASSUME NEW c \in Callers, NEW u \in Urls, call[c] # NoCall
      PROVE  /\ Delivery(call[c].event, call[c].job, u) \in Deliveries
             /\ Rest(c, u) => call' \in [Callers -> Calls]
  <2>1. call[c] \in [event : EventKinds, job : Jobs, urls : SUBSET Urls]
    BY <1>1, <1>4 DEF Calls
  <2>2. [call[c] EXCEPT !.urls = call[c].urls \ {u}] \in Calls
    BY <2>1 DEF Calls
  <2>3. Rest(c, u) => call' \in [Callers -> Calls]
    BY <1>1, <2>2 DEF Rest
  <2>4. QED
    BY <2>1, <2>3 DEF Delivery, Deliveries
<1>5. ASSUME NEW c \in Callers, NEW u \in Urls, Enqueue(c, u) \/ EnqueueFails(c, u)
      PROVE  EngineTypeOK'
  <2>1. call[c] # NoCall /\ Rest(c, u)
    BY <1>5 DEF Enqueue, EnqueueFails, NextUrl
  <2>2. call' \in [Callers -> Calls] /\ Delivery(call[c].event, call[c].job, u) \in Deliveries
    BY <1>4, <2>1
  <2>3. told' \subseteq Deliveries /\ lost' \subseteq Deliveries
    BY <1>1, <1>5, <2>2 DEF Enqueue, EnqueueFails, Deliver, GiveUp
  <2>4. QED
    BY <2>2, <2>3 DEF EngineTypeOK
<1>6. ASSUME NEW cs \in SUBSET Callers, Cut(cs) PROVE EngineTypeOK'
  <2>1. lost' \subseteq Deliveries
    BY <1>1, <1>6, PendingType DEF Cut, GiveUp
  <2>2. call' \in [Callers -> Calls]
    BY <1>1, <1>6 DEF Cut
  <2>3. QED
    BY <1>1, <1>6, <2>1, <2>2 DEF EngineTypeOK, Cut
<1>7. ASSUME NEW j \in Jobs, CancelFails(j) PROVE EngineTypeOK'
  BY <1>1, <1>7 DEF EngineTypeOK, CancelFails, GiveUp, Delivery, Deliveries, EventKinds
<1>8. ASSUME NEW c \in Callers, HangUp(c) PROVE EngineTypeOK'
  BY <1>6, <1>8 DEF HangUp
<1>9. CASE EngineCrash
  BY <1>6, <1>9 DEF EngineCrash
<1>10. CASE UNCHANGED engineVars
  BY <1>1, <1>10 DEF EngineTypeOK, engineVars
<1>11. QED
  BY <1>3, <1>5, <1>7, <1>8, <1>9, <1>10 DEF EngineNext, evars

-----------------------------------------------------------------------------
(* Nothing is forgotten *)

\* What has been announced, was given up or is still to be enqueued.
Owed == told \cup lost \cup Pending(Callers)

\* A handler's deliveries are owed while it has them to enqueue.
LEMMA PendingIsOwed ==
  ASSUME NEW c \in Callers, call[c] # NoCall, NEW u \in call[c].urls
  PROVE  Delivery(call[c].event, call[c].job, u) \in Pending(Callers)
  BY DEF Pending

\* What is owed stays owed if it does for the handlers that changed.
LEMMA OthersOwe ==
  ASSUME told \cup lost \subseteq told' \cup lost',
         \A c \in Callers : call[c] # NoCall =>
           \/ call'[c] = call[c]
           \/ \A u \in call[c].urls : Delivery(call[c].event, call[c].job, u) \in Owed'
  PROVE  Owed \subseteq Owed'
<1>1. ASSUME NEW d \in Pending(Callers) PROVE d \in Owed'
  <2>1. PICK c \in Callers : call[c] # NoCall /\
          \E u \in call[c].urls : d = Delivery(call[c].event, call[c].job, u)
    BY <1>1 DEF Pending
  <2>2. PICK u \in call[c].urls : d = Delivery(call[c].event, call[c].job, u)
    BY <2>1
  <2>3. CASE call'[c] = call[c]
    <3>1. d \in {Delivery(call'[c].event, call'[c].job, v) : v \in call'[c].urls}
      BY <2>2, <2>3
    <3>2. d \in Pending(Callers)'
      BY <2>1, <2>3, <3>1 DEF Pending, Delivery
    <3>3. QED
      BY <3>2 DEF Owed
  <2>4. CASE call'[c] # call[c]
    BY <2>1, <2>2, <2>4
  <2>5. QED
    BY <2>3, <2>4
<1>2. QED
  BY <1>1 DEF Owed

\* The one URL a handler is done with is told or given up, the rest it still has.
LEMMA RestOwes ==
  ASSUME EngineTypeOK, NEW c \in Callers, NEW u \in call[c].urls, call[c] # NoCall, Rest(c, u),
         told \cup lost \cup {Delivery(call[c].event, call[c].job, u)} \subseteq told' \cup lost'
  PROVE  Owed \subseteq Owed'
<1> DEFINE urls == call[c].urls \ {u}
           cut  == [call[c] EXCEPT !.urls = urls]
<1>1. call \in [Callers -> Calls]
  BY DEF EngineTypeOK
<1>2. call[c] \in [event : EventKinds, job : Jobs, urls : SUBSET Urls]
  BY <1>1 DEF Calls
<1>3. call' = [call EXCEPT ![c] = IF urls = {} THEN NoCall ELSE cut]
  BY DEF Rest
<1>4. \A d \in Callers : d # c => call'[d] = call[d]
  BY <1>1, <1>3
<1>5. ASSUME NEW v \in call[c].urls
      PROVE  Delivery(call[c].event, call[c].job, v) \in Owed'
  <2>1. CASE v = u
    BY <2>1 DEF Owed
  <2>2. CASE v # u
    <3>1. v \in urls /\ call'[c] = cut
      BY <1>1, <1>3, <1>5, <2>2
    <3>2. cut.event = call[c].event /\ cut.job = call[c].job /\ cut.urls = urls
      BY <1>2
    <3>3. "job" \in DOMAIN cut /\ "job" \notin DOMAIN NoCall
      BY <1>2 DEF NoCall
    <3>4. cut # NoCall
      BY <3>3
    <3>5. Delivery(call'[c].event, call'[c].job, v) \in Pending(Callers)'
      <4>1. call'[c] # NoCall /\ v \in call'[c].urls
        BY <3>1, <3>2, <3>4
      <4>2. QED
        BY <4>1 DEF Pending, Delivery
    <3>6. call'[c].event = call[c].event /\ call'[c].job = call[c].job
      BY <3>1, <3>2
    <3>7. QED
      BY <3>5, <3>6 DEF Owed, Delivery
  <2>3. QED
    BY <2>1, <2>2
<1>6. QED
  BY <1>4, <1>5, OthersOwe

\* No step of the engine forgets a delivery.
LEMMA OwedStays ==
  ASSUME EngineTypeOK, [EngineNext]_evars
  PROVE  Owed \subseteq Owed'
<1>1. call \in [Callers -> Calls]
  BY DEF EngineTypeOK
<1>2. ASSUME NEW c \in Callers, NEW e, NEW j, Fire(c, e, j), call[c] = NoCall, UNCHANGED <<told, lost>>
      PROVE  Owed \subseteq Owed'
  <2>1. \A d \in Callers : call[d] # NoCall => call'[d] = call[d]
    BY <1>1, <1>2 DEF Fire
  <2>2. QED
    BY <1>2, <2>1, OthersOwe
<1>3. ASSUME NEW c \in Callers, NEW j \in Jobs,
             EngineSubmit(c, j) \/ EngineCancel(c, j) \/ CancelAgain(c, j)
      PROVE  Owed \subseteq Owed'
  <2>1. CASE \E e \in EventKinds : Fire(c, e, j)
    BY <1>2, <1>3, <2>1 DEF EngineSubmit, EngineCancel, CancelAgain
  <2>2. CASE UNCHANGED call
    BY <1>3, <2>2, OthersOwe DEF EngineSubmit, EngineCancel, CancelAgain
  <2>3. QED
    BY <1>3, <2>1, <2>2 DEF EngineSubmit, EngineCancel, CancelAgain, EventKinds
<1>4. ASSUME NEW c \in Callers, NEW u \in Urls, Enqueue(c, u) PROVE Owed \subseteq Owed'
  BY <1>4, RestOwes DEF Enqueue, NextUrl, Deliver
<1>5. ASSUME NEW c \in Callers, NEW u \in Urls, EnqueueFails(c, u) PROVE Owed \subseteq Owed'
  BY <1>5, RestOwes DEF EnqueueFails, NextUrl, GiveUp
<1>6. ASSUME NEW cs \in SUBSET Callers, Cut(cs) PROVE Owed \subseteq Owed'
  <2>1. \A c \in Callers : c \notin cs => call'[c] = call[c]
    BY <1>6 DEF Cut
  <2>2. \A c \in cs : call[c] # NoCall =>
          \A u \in call[c].urls : Delivery(call[c].event, call[c].job, u) \in Owed'
    BY <1>6 DEF Cut, GiveUp, Pending, Owed
  <2>3. told \cup lost \subseteq told' \cup lost'
    BY <1>6 DEF Cut, GiveUp
  <2>4. QED
    BY <2>1, <2>2, <2>3, OthersOwe
<1>7. ASSUME NEW j \in Jobs, CancelFails(j) PROVE Owed \subseteq Owed'
  BY <1>7, OthersOwe DEF CancelFails, GiveUp
<1>8. CASE UNCHANGED engineVars
  BY <1>8, OthersOwe DEF engineVars
<1>9. QED
  <2>1. ASSUME NEW c \in Callers, HangUp(c) PROVE Owed \subseteq Owed'
    BY <1>6, <2>1 DEF HangUp
  <2>2. CASE EngineCrash
    BY <1>6, <2>2 DEF EngineCrash
  <2>3. QED
    BY <1>3, <1>4, <1>5, <1>7, <1>8, <2>1, <2>2 DEF EngineNext, evars

\* The workers' side cancels no job.
LEMMA WorkersCancelNothing ==
  ASSUME TypeOK, WorkerNext \/ Crash, NEW j \in Jobs, job'[j] = "cancelled"
  PROVE  job[j] = "cancelled"
<1> USE JobOfAssumption DEF TypeOK, jobVars, itemVars, workerVars
<1>1. ASSUME NEW w \in Workers, NEW i \in Items, Claim(w, i) PROVE job[j] = "cancelled"
  BY <1>1 DEF Claim
<1>2. ASSUME NEW w \in Workers, CompleteBatch(w) PROVE job[j] = "cancelled"
  BY <1>2 DEF CompleteBatch
<1>3. ASSUME \/ \E w \in Workers : \/ CompleteItem(w) \/ ScheduleRetry(w)
                                   \/ FailItem(w) \/ DeadLetter(w) \/ Check(w)
             \/ \E i \in Items : ClaimHalf(i) \/ RetryFallsDue(i)
             \/ Reclaim \/ Crash
      PROVE  job[j] = "cancelled"
  BY <1>3 DEF CompleteItem, ScheduleRetry, FailItem, DeadLetter, Check, ClaimHalf,
              RetryFallsDue, Reclaim, Crash
<1>4. QED
  BY <1>1, <1>2, <1>3 DEF WorkerNext, Work

\* Whoever cancels a job owes the announcements to every URL.
LEMMA CancelOwes ==
  ASSUME TypeOK, EngineTypeOK, [EngineNext]_evars, NEW j \in Jobs, NEW u \in Urls,
         job'[j] = "cancelled", job[j] # "cancelled"
  PROVE  Delivery("batch.cancelled", j, u) \in Owed'
<1> DEFINE Told == Delivery("batch.cancelled", j, u) \in Owed'
<1> USE DEF jobVars, itemVars, workerVars, vars
<1>1. ASSUME NEW c \in Callers, NEW k \in Jobs, EngineCancel(c, k) PROVE Told
  <2>1. k = j /\ call \in [Callers -> Calls]
    BY <1>1 DEF EngineCancel, Cancel, TypeOK, EngineTypeOK
  <2>2. call'[c] = [event |-> "batch.cancelled", job |-> j, urls |-> Urls]
    BY <1>1, <2>1 DEF EngineCancel, Fire, UrlsFor
  <2>3. "job" \in DOMAIN call'[c] /\ "job" \notin DOMAIN NoCall
    BY <2>2 DEF NoCall
  <2>4. call'[c] # NoCall /\ u \in call'[c].urls
    BY <2>2, <2>3
  <2>5. Delivery(call'[c].event, call'[c].job, u) \in Pending(Callers)'
    BY <2>4 DEF Pending, Delivery
  <2>6. QED
    BY <2>2, <2>5 DEF Owed, Delivery
<1>2. ASSUME NEW k \in Jobs, CancelFails(k) PROVE Told
  <2>1. k = j
    BY <1>2 DEF CancelFails, CancelHalf, TypeOK
  <2>2. QED
    BY <1>2, <2>1 DEF CancelFails, GiveUp, Owed
<1>3. ASSUME NEW c \in Callers, NEW k \in Jobs, EngineSubmit(c, k) \/ CancelAgain(c, k)
      PROVE  Told
  BY <1>3 DEF EngineSubmit, Submit, CancelAgain, TypeOK
<1>4. ASSUME \/ \E c \in Callers, v \in Urls : Enqueue(c, v) \/ EnqueueFails(c, v)
             \/ \E c \in Callers : HangUp(c)
             \/ UNCHANGED evars
      PROVE  Told
  BY <1>4 DEF Enqueue, EnqueueFails, HangUp, evars
<1>5. CASE WorkerNext \/ Crash
  BY <1>5, WorkersCancelNothing
<1>6. QED
  BY <1>1, <1>2, <1>3, <1>4, <1>5 DEF EngineNext, EngineCrash

\* A step of the engine forgets no cancelled job.
LEMMA NothingForgottenStep ==
  ASSUME TypeOK, EngineTypeOK, NothingForgotten, [EngineNext]_evars
  PROVE  NothingForgotten'
<1> SUFFICES ASSUME NEW j \in Jobs, job'[j] = "cancelled", NEW u \in Urls
             PROVE  Delivery("batch.cancelled", j, u) \in Owed'
  BY DEF NothingForgotten, Owed, Delivery
<1>1. CASE job[j] = "cancelled"
  BY <1>1, OwedStays DEF NothingForgotten, Owed
<1>2. CASE job[j] # "cancelled"
  BY <1>2, CancelOwes
<1>3. QED
  BY <1>1, <1>2

-----------------------------------------------------------------------------
(* The results *)

\* Every reachable state of the engine is well typed.
THEOREM EngineTypeCorrect == EngineSpec => []EngineTypeOK
<1>1. EngineInit /\ TypeOK => EngineTypeOK
  BY DEF EngineInit, EngineTypeOK, Calls
<1>2. QED
  BY <1>1, EngineTypeStep, EngineImplementsQueue, TypeCorrect, PTL DEF EngineSpec

\* The commit of a cancel and its announcements are transactions of their own, and
\* yet no announcement is dropped between them without a failure or a hang-up.
THEOREM NoCancelForgotten == EngineSpec => []NothingForgotten
<1>1. EngineInit => NothingForgotten
  BY DEF EngineInit, Init, NothingForgotten
<1>2. EngineTypeOK /\ NothingForgotten /\ [EngineNext]_evars => NothingForgotten'
  BY NothingForgottenStep DEF EngineTypeOK
<1>3. QED
  BY <1>1, <1>2, EngineTypeCorrect, PTL DEF EngineSpec

\* What is proved of the queue is true behind the engine.
THEOREM EngineKeepsQueue ==
  EngineSpec => /\ []WorkerOwnsItem /\ []CompletedMeansDone /\ []SomeoneWillSee
                /\ []AttemptsBounded /\ ResultsAreFinal /\ CancelStopsWork
                /\ EndedIsFinal
  BY EngineImplementsQueue, WorkersOwnTheirItems, CompletedJobsAreDone, LastOutcomeIsSeen,
     SentRarely, ResultsStay, CancelStops, EndIsFinal, PTL
=============================================================================

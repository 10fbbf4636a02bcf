------------------------------ MODULE BatchQueue ------------------------------
(***************************************************************************)
(* The SQLite job queue (crates/batch_engine/src/queue/sqlite.rs) and the  *)
(* engine in front of it (engine.rs).                                      *)
(*                                                                         *)
(* A job is a row of batch_job, its items are rows of batch_item.  submit  *)
(* inserts both in one transaction; every other method is one or two       *)
(* statements under the connection's mutex and outside any transaction.    *)
(* Items are changed by id: neither the status nor the lease of the row is *)
(* looked at.                                                              *)
(*                                                                         *)
(* The repository ships no worker.  The ones here do what the JobQueue     *)
(* trait asks of its callers, in the order the design of the engine gives: *)
(* claim_next_item, one outcome before the lease expires, then             *)
(* is_batch_complete and, if it says so, complete_batch.  The process may  *)
(* crash between any two calls.                                            *)
(***************************************************************************)
EXTENDS Integers, FiniteSets

CONSTANTS
  Jobs, Items,     \* batch_job and batch_item rows that may be submitted
  JobOf,           \* JobOf[i]: the item's batch_id
  Workers,
  NoItem,          \* what an idle worker holds
  MaxRetries,      \* max_retries of every item
  MaxFaults,       \* bound: crashes and failed statements in a behaviour
  FailFirst        \* a worker that gives up calls fail_item before dead_letter

ASSUME JobOfAssumption == JobOf \in [Items -> Jobs] /\ NoItem \notin Items
ASSUME ItemsAssumption == IsFiniteSet(Items)
ASSUME RetriesAssumption == MaxRetries \in Nat /\ MaxFaults \in Nat
ASSUME FailFirstAssumption == FailFirst \in BOOLEAN

VARIABLES
  job,         \* job[j]: the status of the job, "absent" before submit
  native,      \* the jobs with execution_mode 'native', left to their provider
  counts,      \* counts[j]: succeeded, failed and cancelled of the job's row
  item,        \* item[i]: the status of the item
  waiting,     \* waiting[i]: next_retry_at is still ahead
  attempts,    \* attempts[i]
  dead,        \* the items with a row in batch_dead_letter
  phase,       \* phase[w]: the call worker w makes next
  held,        \* held[w]: the item it works on
  orphaned,    \* jobs a crash caught between the last outcome and complete_batch
  faults       \* crashes and failed statements so far

jobVars    == <<job, native, counts>>
itemVars   == <<item, waiting, attempts, dead>>
workerVars == <<phase, held>>
vars == <<jobVars, itemVars, workerVars, orphaned, faults>>

JobStatuses  == {"absent", "queued", "processing", "cancelling", "cancelled",
                 "completed"}
Open         == {"queued", "processing"}
TerminalJob  == {"cancelled", "completed"}
ItemStatuses == {"absent", "pending", "processing", "succeeded", "failed",
                 "cancelled"}
TerminalItem == {"succeeded", "failed", "cancelled"}
Outcomes     == {"succeeded", "failed", "cancelled"}
Phases       == {"idle", "holding", "failed", "checking", "completing"}

ItemsOf(j) == {i \in Items : JobOf[i] = j}
Tally(j)   == [s \in Outcomes |-> Cardinality({i \in ItemsOf(j) : item[i] = s})]

\* The worker holds the item and has not recorded an outcome yet.
Working(w) == phase[w] = "holding"

\* The bound on claims; it never binds while FailFirst holds.
MaxAttempts == MaxRetries + MaxFaults + 1

Init ==
  /\ job      = [j \in Jobs |-> "absent"]
  /\ native   = {}
  /\ counts   = [j \in Jobs |-> [s \in Outcomes |-> 0]]
  /\ item     = [i \in Items |-> "absent"]
  /\ waiting  = [i \in Items |-> FALSE]
  /\ attempts = [i \in Items |-> 0]
  /\ dead     = {}
  /\ phase    = [w \in Workers |-> "idle"]
  /\ held     = [w \in Workers |-> NoItem]
  /\ orphaned = {}
  /\ faults   = 0

-----------------------------------------------------------------------------
(* The client's side: submit and cancel *)

\* submit: one transaction for the job, with the mode it is to be run in, and
\* all of its items.
Submit(j) ==
  /\ job[j] = "absent"
  /\ job'  = [job EXCEPT ![j] = "queued"]
  /\ native' \in {native, native \cup {j}}
  /\ item' = [i \in Items |-> IF JobOf[i] = j THEN "pending" ELSE item[i]]
  /\ UNCHANGED <<counts, waiting, attempts, dead, workerVars, orphaned, faults>>

\* The status cancel gives a job: a second cancel ends the cancelling.
CancelledTo(s) == IF s = "processing" THEN "cancelling" ELSE "cancelled"

\* Mutant: every item of the job is cancelled, whatever its status.
CancelItemsAll(j) ==
  item' = [i \in Items |-> IF JobOf[i] = j THEN "cancelled" ELSE item[i]]

CancelItems(j) ==
  item' = [i \in Items |-> IF JobOf[i] = j /\ item[i] = "pending"
                           THEN "cancelled" ELSE item[i]]

\* Mutant: the job is not looked at before it is cancelled.
CancelEnded(j) ==
  /\ job[j] # "absent"
  /\ job' = [job EXCEPT ![j] = CancelledTo(job[j])]
  /\ IF CancelledTo(job[j]) = "cancelled" THEN CancelItems(j) ELSE UNCHANGED item
  /\ UNCHANGED <<native, counts, waiting, attempts, dead, workerVars, orphaned, faults>>

Cancel(j) ==
  /\ job[j] \in Open \cup {"cancelling"}
  /\ job' = [job EXCEPT ![j] = CancelledTo(job[j])]
  /\ IF CancelledTo(job[j]) = "cancelled" THEN CancelItems(j) ELSE UNCHANGED item
  /\ UNCHANGED <<native, counts, waiting, attempts, dead, workerVars, orphaned, faults>>

\* The first statement of cancel is written and the second one fails.
CancelHalf(j) ==
  /\ faults < MaxFaults
  /\ faults' = faults + 1
  /\ job[j] \in {"queued", "cancelling"}
  /\ job' = [job EXCEPT ![j] = "cancelled"]
  /\ UNCHANGED <<native, counts, itemVars, workerVars, orphaned>>

-----------------------------------------------------------------------------
(* The worker's side *)

\* The sub-select of claim_next_item.  Its ORDER BY (priority, created_at) is
\* left open: any of the claimable items may come first.  The items of native
\* jobs are nobody's to claim.

\* Mutant: the status of the job is not looked at.
ClaimableAnyJob(i) == item[i] = "pending" /\ ~waiting[i] /\ JobOf[i] \notin native

Claimable(i) ==
  /\ item[i] = "pending"
  /\ ~waiting[i]
  /\ job[JobOf[i]] \in Open
  /\ JobOf[i] \notin native

Lease(i) ==
  /\ Claimable(i)
  /\ attempts[i] < MaxAttempts
  /\ item'     = [item EXCEPT ![i] = "processing"]
  /\ attempts' = [attempts EXCEPT ![i] = @ + 1]

\* claim_next_item: the item's lease, then the parent's status if still queued.
Claim(w, i) ==
  /\ phase[w] = "idle"
  /\ Lease(i)
  /\ job'   = [job EXCEPT ![JobOf[i]] = IF @ = "queued" THEN "processing" ELSE @]
  /\ phase' = [phase EXCEPT ![w] = "holding"]
  /\ held'  = [held EXCEPT ![w] = i]
  /\ UNCHANGED <<native, counts, waiting, dead, orphaned, faults>>

\* The second statement of claim_next_item fails: the worker gets an error and
\* the item keeps its lease.
ClaimHalf(i) ==
  /\ faults < MaxFaults
  /\ faults' = faults + 1
  /\ Lease(i)
  /\ UNCHANGED <<jobVars, waiting, dead, workerVars, orphaned>>

\* Items are written by id.
Record(w, s) ==
  /\ Working(w)
  /\ item' = [item EXCEPT ![held[w]] = s]

Continue(w, p) == phase' = [phase EXCEPT ![w] = p] /\ UNCHANGED held

CompleteItem(w) ==
  /\ Record(w, "succeeded")
  /\ Continue(w, "checking")
  /\ UNCHANGED <<jobVars, waiting, attempts, dead, orphaned, faults>>

\* A worker retries while the item has retries left, and gives up after.
ScheduleRetry(w) ==
  /\ Record(w, "pending")
  /\ attempts[held[w]] <= MaxRetries
  /\ waiting' = [waiting EXCEPT ![held[w]] = TRUE]
  /\ Continue(w, "checking")
  /\ UNCHANGED <<jobVars, attempts, dead, orphaned, faults>>

FailItem(w) ==
  /\ FailFirst
  /\ Record(w, "failed")
  /\ Continue(w, "failed")
  /\ UNCHANGED <<jobVars, waiting, attempts, dead, orphaned, faults>>

\* dead_letter copies the row; the row itself stays as it is.
DeadLetter(w) ==
  /\ phase[w] = (IF FailFirst THEN "failed" ELSE "holding")
  /\ dead' = dead \cup {held[w]}
  /\ Continue(w, "checking")
  /\ UNCHANGED <<jobVars, item, waiting, attempts, orphaned, faults>>

Leave(w) == /\ phase' = [phase EXCEPT ![w] = "idle"]
            /\ held'  = [held EXCEPT ![w] = NoItem]

\* Mutant: an item in processing does not keep its job open.
IsBatchCompleteEarly(j) == \A i \in ItemsOf(j) : item[i] # "pending"

\* Mutant: a failed item is taken for unfinished work.
IsBatchCompleteStrict(j) ==
  \A i \in ItemsOf(j) : item[i] \in TerminalItem \ {"failed"}

IsBatchComplete(j) == \A i \in ItemsOf(j) : item[i] \in TerminalItem

Check(w) ==
  /\ phase[w] = "checking"
  /\ IF IsBatchComplete(JobOf[held[w]]) THEN Continue(w, "completing") ELSE Leave(w)
  /\ UNCHANGED <<jobVars, itemVars, orphaned, faults>>

\* complete_batch tallies the items and overwrites the job's status.
CompleteBatch(w) ==
  /\ phase[w] = "completing"
  /\ LET j == JobOf[held[w]] IN
       /\ job'    = [job EXCEPT ![j] = "completed"]
       /\ counts' = [counts EXCEPT ![j] = Tally(j)]
  /\ Leave(w)
  /\ UNCHANGED <<native, itemVars, orphaned, faults>>

-----------------------------------------------------------------------------
(* Time, leases and crashes *)

RetryFallsDue(i) ==
  /\ waiting[i]
  /\ waiting' = [waiting EXCEPT ![i] = FALSE]
  /\ UNCHANGED <<jobVars, item, attempts, dead, workerVars, orphaned, faults>>

\* Mutant: leases end while their workers still work.
AbandonedAny == {i \in Items : item[i] = "processing"}

\* The items whose lease may have expired: a worker that is still at work
\* beats its lease, as the trait demands.
Abandoned == {i \in Items : item[i] = "processing" /\
                            \A w \in Workers : ~(Working(w) /\ held[w] = i)}

\* reclaim_expired_leases: one UPDATE over the items whose lease has expired.
Reclaim ==
  \E expired \in SUBSET Abandoned :
    /\ expired # {}
    /\ item' = [i \in Items |-> IF i \in expired THEN "pending" ELSE item[i]]
    /\ UNCHANGED <<jobVars, waiting, attempts, dead, workerVars, orphaned, faults>>

Crash ==
  /\ faults < MaxFaults
  /\ faults' = faults + 1
  /\ \E w \in Workers : phase[w] # "idle"
  /\ orphaned' = orphaned \cup
       {j \in Jobs : job[j] \in Open /\ \A i \in ItemsOf(j) : item[i] \in TerminalItem}
  /\ phase' = [w \in Workers |-> "idle"]
  /\ held'  = [w \in Workers |-> NoItem]
  /\ UNCHANGED <<jobVars, itemVars>>

-----------------------------------------------------------------------------
Work(w) == \/ CompleteItem(w) \/ ScheduleRetry(w) \/ FailItem(w) \/ DeadLetter(w)
           \/ Check(w) \/ CompleteBatch(w)

Next == \/ \E j \in Jobs : Submit(j) \/ Cancel(j) \/ CancelHalf(j)
        \/ \E w \in Workers : Work(w) \/ \E i \in Items : Claim(w, i)
        \/ \E i \in Items : ClaimHalf(i) \/ RetryFallsDue(i)
        \/ Reclaim
        \/ Crash

Spec == Init /\ [][Next]_vars

\* Workers keep claiming and finish what they hold, delays pass, and reclaim
\* is called again and again.
Fairness ==
  /\ WF_vars(\E w \in Workers, i \in Items : Claim(w, i))
  /\ WF_vars(Reclaim)
  /\ \A w \in Workers : WF_vars(Work(w))
  /\ \A i \in Items : WF_vars(RetryFallsDue(i))

FairSpec == Spec /\ Fairness

-----------------------------------------------------------------------------
(* Properties *)

\* Every variable has the type its column or its field has.
TypeOK ==
  /\ job      \in [Jobs -> JobStatuses]
  /\ native   \subseteq Jobs
  /\ counts   \in [Jobs -> [Outcomes -> Nat]]
  /\ item     \in [Items -> ItemStatuses]
  /\ waiting  \in [Items -> BOOLEAN]
  /\ attempts \in [Items -> 0 .. MaxAttempts]
  /\ dead     \subseteq Items
  /\ phase    \in [Workers -> Phases]
  /\ held     \in [Workers -> Items \cup {NoItem}]
  /\ \A w \in Workers : phase[w] = "idle" <=> held[w] = NoItem
  /\ orphaned \subseteq Jobs
  /\ faults   \in 0 .. MaxFaults

\* Outcomes are written by id, so the item must still be the worker's: it is
\* in processing, no other worker works on it, and neither a cancel nor a
\* reclaim has touched it in between.
WorkerOwnsItem ==
  \A w \in Workers : Working(w) =>
    /\ item[held[w]] = "processing"
    /\ \A x \in Workers : Working(x) /\ held[x] = held[w] => x = w

\* A completed job has nothing left to do and its row tells the truth: every
\* item is terminal and the counts are those of the items, whoever finished
\* after is_batch_complete was read and whatever cancel did meanwhile.
CompletedMeansDone ==
  \A j \in Jobs : job[j] = "completed" =>
    /\ \A i \in ItemsOf(j) : item[i] \in TerminalItem
    /\ counts[j] = Tally(j)

\* A result is final: cancels, late reclaims and other workers never change an
\* item that has succeeded, failed or been cancelled.
ResultsAreFinal ==
  [][\A i \in Items : item[i] \in TerminalItem => item'[i] = item[i]]_vars

\* Once cancel has been answered the job is never opened again and none of
\* its items is sent upstream again, not even by a retry or a reclaim.
CancelStopsWork ==
  [][\A i \in Items : job[JobOf[i]] \notin Open \cup {"absent"} =>
       /\ job'[JobOf[i]] \notin Open
       /\ attempts'[i] = attempts[i]]_vars

\* The worker has claimed an item of the job and is not done with it.
AtWork(w, j) == phase[w] # "idle" /\ JobOf[held[w]] = j

\* A terminal status has no further transitions, but for work that was at hand
\* when the job was cancelled: complete_batch does not look at the status, and
\* makes a cancelled job a completed one.  No worker starts on an ended job,
\* whatever is retried, reclaimed or half claimed, so when those at work are
\* done, the status is final.
EndedIsFinal ==
  [][\A j \in Jobs : job[j] \in TerminalJob =>
       /\ \A w \in Workers : AtWork(w, j)' => AtWork(w, j)
       /\ \/ job'[j] = job[j]
          \/ job'[j] = "completed" /\ \E w \in Workers : AtWork(w, j)]_vars

\* A submitted job that is the workers' to run is completed unless someone
\* cancels it or a crash comes between its last outcome and complete_batch: when
\* the last items finish together, one of their workers sees it, and a crash any
\* earlier is made good.  Native jobs are never claimed.
EventuallyCompleted ==
  \A j \in Jobs : job[j] = "queued" /\ j \notin native ~>
    job[j] \in {"completed", "cancelling", "cancelled"} \/ j \in orphaned
=============================================================================

----------------------------- MODULE WebhookQueue -----------------------------
(***************************************************************************)
(* The durable webhook queue and its dispatcher                            *)
(* (crates/batch_engine/src/webhook/{sqlite,dispatcher}.rs).               *)
(*                                                                         *)
(* A delivery is a row of webhook_delivery.  The dispatcher polls the      *)
(* table, takes one of max_concurrent permits, claims the oldest row that  *)
(* is due and spawns deliver(), which POSTs the payload and then writes    *)
(* the outcome back BY ID ONLY: ack, schedule_retry and dead_letter check  *)
(* neither the row's status nor its lease.  What keeps a late writer from  *)
(* overwriting a newer one is time: the client gives up on a POST well     *)
(* before the lease of the row expires.                                    *)
(*                                                                         *)
(* Time is relative: leaseLeft, retryIn and left count the seconds until   *)
(* lease_expires_at, next_retry_at and the deadline of a POST; Tick        *)
(* decrements them.  The process may crash at any moment and lose every    *)
(* task; the table survives.                                               *)
(***************************************************************************)
EXTENDS Integers

CONSTANTS
  Deliveries,      \* the rows that may be enqueued
  Workers,         \* the permits of the dispatcher's semaphore
  NoDelivery,      \* what an idle permit works on
  MaxRetries,      \* max_retries of every row
  Lease,           \* seconds a claim lasts
  DeliverBound,    \* seconds from a claim to the outcome's write, at most
  MaxFaults        \* bound: crashes and failed outcome writes in a behaviour

ASSUME NoDeliveryAssumption == NoDelivery \notin Deliveries
ASSUME RetriesAssumption == MaxRetries \in Nat /\ MaxFaults \in Nat
\* async_main/mod.rs gives the client 10 s to connect and 30 s to answer, and
\* SQLite gives up on a locked database after 5 s; the lease lasts 60 s.
ASSUME LeaseAssumption ==
  Lease \in Nat /\ DeliverBound \in Nat /\ DeliverBound <= Lease
\* LeasedDelivery carries attempts as a u8 that never wraps.
ASSUME AttemptsAssumption == MaxRetries + MaxFaults + 1 < 256

VARIABLES
  status,      \* status[d]: the row's status, "absent" before it is enqueued
  created,     \* created[d]: rank of created_at, equal for rows of one second
  attempts,    \* attempts[d]
  leaseLeft,   \* leaseLeft[d]: until lease_expires_at, -1 once it has passed
  retryIn,     \* retryIn[d]: until next_retry_at
  phase,       \* phase[w]: how far the deliver() task of permit w is
  job,         \* job[w]: the delivery that task holds
  attemptNo,   \* attemptNo[w]: the attempts value its claim returned
  left,        \* left[w]: until that task's deadline
  late,        \* late[d]: copies given up on that may still reach the endpoint
  seen,        \* seen[d]: copies the endpoint has processed
  faults       \* crashes and failed writes so far

rowVars  == <<status, created, attempts, leaseLeft, retryIn>>
taskVars == <<phase, job, attemptNo, left>>
netVars  == <<late, seen>>
vars == <<rowVars, taskVars, netVars, faults>>

Statuses == {"absent", "pending", "processing", "delivered", "dead_letter"}
Settled  == {"delivered", "dead_letter"}
Phases   == {"idle", "sending", "served", "ok", "failed"}

Busy(w) == phase[w] # "idle"

\* Seconds until the retry after attempt n: 1 << n.min(4).
Backoff(n) == <<1, 2, 4, 8, 16>>[IF n < 4 THEN n + 1 ELSE 5]

Init ==
  /\ status    = [d \in Deliveries |-> "absent"]
  /\ created   = [d \in Deliveries |-> 0]
  /\ attempts  = [d \in Deliveries |-> 0]
  /\ leaseLeft = [d \in Deliveries |-> 0]
  /\ retryIn   = [d \in Deliveries |-> 0]
  /\ phase     = [w \in Workers |-> "idle"]
  /\ job       = [w \in Workers |-> NoDelivery]
  /\ attemptNo = [w \in Workers |-> 0]
  /\ left      = [w \in Workers |-> 0]
  /\ late      = [d \in Deliveries |-> 0]
  /\ seen      = [d \in Deliveries |-> 0]
  /\ faults    = 0

-----------------------------------------------------------------------------
(* The queue *)

\* fire_webhook inserts a row; rows of one second share their created_at.
Enqueue(d) ==
  /\ status[d] = "absent"
  /\ status' = [status EXCEPT ![d] = "pending"]
  /\ \E c \in {created[e] : e \in Deliveries} \cup {created[e] + 1 : e \in Deliveries} :
       /\ \A e \in Deliveries : created[e] <= c
       /\ (\A e \in Deliveries : status[e] = "absent") => c = 0
       /\ created' = [created EXCEPT ![d] = c]
  /\ UNCHANGED <<attempts, leaseLeft, retryIn, taskVars, netVars, faults>>

Due(d) == status[d] = "pending" /\ retryIn[d] = 0

\* The sub-select of claim_next: a due row with the least created_at.
Oldest(d) == Due(d) /\ \A e \in Deliveries : Due(e) => created[d] <= created[e]

\* poll_interval.tick(): a free permit, claim_next, and the spawned task.
Claim(w, d) ==
  /\ ~Busy(w)
  /\ Oldest(d)
  /\ status'    = [status EXCEPT ![d] = "processing"]
  /\ attempts'  = [attempts EXCEPT ![d] = @ + 1]
  /\ leaseLeft' = [leaseLeft EXCEPT ![d] = Lease]
  /\ phase'     = [phase EXCEPT ![w] = "sending"]
  /\ job'       = [job EXCEPT ![w] = d]
  /\ attemptNo' = [attemptNo EXCEPT ![w] = attempts[d] + 1]
  /\ left'      = [left EXCEPT ![w] = DeliverBound]
  /\ UNCHANGED <<created, retryIn, netVars, faults>>

\* Mutant: every row in processing is taken back, leased or not.
ExpiredUnchecked(d) == status[d] = "processing"

\* Mutant: the wrong status is looked for, so nothing is ever taken back.
ExpiredPending(d) == status[d] = "pending" /\ leaseLeft[d] < 0

Expired(d) == status[d] = "processing" /\ leaseLeft[d] < 0

\* reclaim_expired_leases: one UPDATE over every expired row.
Reclaim ==
  /\ \E d \in Deliveries : Expired(d)
  /\ status' = [d \in Deliveries |->
                  IF Expired(d) THEN "pending" ELSE status[d]]
  /\ UNCHANGED <<created, attempts, leaseLeft, retryIn, taskVars, netVars, faults>>

-----------------------------------------------------------------------------
(* The POST of a task, and the network *)

\* The endpoint processes the copy the task sent.
Serve(w) ==
  /\ phase[w] = "sending"
  /\ phase' = [phase EXCEPT ![w] = "served"]
  /\ seen'  = [seen EXCEPT ![job[w]] = @ + 1]
  /\ UNCHANGED <<rowVars, job, attemptNo, left, late, faults>>

\* A 2xx answer arrives.
Answer(w) ==
  /\ phase[w] = "served"
  /\ phase' = [phase EXCEPT ![w] = "ok"]
  /\ UNCHANGED <<rowVars, job, attemptNo, left, netVars, faults>>

\* No 2xx answer: a refusal, a broken connection or the read timeout.  A copy
\* that has not been processed yet may still arrive.
Miss(w) ==
  /\ phase[w] \in {"sending", "served"}
  /\ late'  = IF phase[w] = "sending"
              THEN [late EXCEPT ![job[w]] = @ + 1] ELSE late
  /\ phase' = [phase EXCEPT ![w] = "failed"]
  /\ UNCHANGED <<rowVars, job, attemptNo, left, seen, faults>>

ServeLate(d) ==
  /\ late[d] > 0
  /\ late' = [late EXCEPT ![d] = @ - 1]
  /\ seen' = [seen EXCEPT ![d] = @ + 1]
  /\ UNCHANGED <<rowVars, taskVars, faults>>

-----------------------------------------------------------------------------
(* The outcome's write *)

Release(w) ==
  /\ phase'     = [phase EXCEPT ![w] = "idle"]
  /\ job'       = [job EXCEPT ![w] = NoDelivery]
  /\ attemptNo' = [attemptNo EXCEPT ![w] = 0]
  /\ left'      = [left EXCEPT ![w] = 0]

WriteOutcome(w, s) ==
  /\ status' = [status EXCEPT ![job[w]] = s]
  /\ Release(w)
  /\ UNCHANGED <<created, attempts, leaseLeft, netVars, faults>>

\* Mutant: any response counts as success.
AckAny(w) == /\ phase[w] \in {"ok", "failed"}
             /\ WriteOutcome(w, "delivered")
             /\ UNCHANGED retryIn

Ack(w) == /\ phase[w] = "ok"
          /\ WriteOutcome(w, "delivered")
          /\ UNCHANGED retryIn

\* Mutant: one retry too many.
RetryOnceMore(w) ==
  /\ phase[w] = "failed"
  /\ attemptNo[w] <= MaxRetries + 1
  /\ WriteOutcome(w, "pending")
  /\ retryIn' = [retryIn EXCEPT ![job[w]] = Backoff(attemptNo[w])]

ScheduleRetry(w) ==
  /\ phase[w] = "failed"
  /\ attemptNo[w] <= MaxRetries
  /\ WriteOutcome(w, "pending")
  /\ retryIn' = [retryIn EXCEPT ![job[w]] = Backoff(attemptNo[w])]

\* Mutant: the last retry is not made.
DeadLetterEarly(w) ==
  /\ phase[w] = "failed"
  /\ attemptNo[w] >= MaxRetries
  /\ WriteOutcome(w, "dead_letter")
  /\ UNCHANGED retryIn

DeadLetter(w) ==
  /\ phase[w] = "failed"
  /\ attemptNo[w] > MaxRetries
  /\ WriteOutcome(w, "dead_letter")
  /\ UNCHANGED retryIn

\* The write fails (database locked): deliver() logs it and ends; the row
\* stays "processing" until its lease expires.
WriteFails(w) ==
  /\ phase[w] \in {"ok", "failed"}
  /\ faults < MaxFaults
  /\ faults' = faults + 1
  /\ Release(w)
  /\ UNCHANGED <<rowVars, netVars>>

-----------------------------------------------------------------------------
(* Time and crashes *)

\* Mutant: a POST without a timeout.
TickNoTimeout ==
  /\ leaseLeft' = [d \in Deliveries |->
       IF status[d] = "processing" /\ leaseLeft[d] >= 0
       THEN leaseLeft[d] - 1 ELSE leaseLeft[d]]
  /\ retryIn' = [d \in Deliveries |->
       IF retryIn[d] > 0 THEN retryIn[d] - 1 ELSE 0]
  /\ left' = [w \in Workers |-> IF left[w] > 0 THEN left[w] - 1 ELSE 0]
  /\ UNCHANGED <<status, created, attempts, phase, job, attemptNo, netVars, faults>>

\* A second passes, unless a task is at its deadline and must end first.
Tick ==
  /\ \A w \in Workers : Busy(w) => left[w] > 0
  /\ leaseLeft' = [d \in Deliveries |->
       IF status[d] = "processing" /\ leaseLeft[d] >= 0
       THEN leaseLeft[d] - 1 ELSE leaseLeft[d]]
  /\ retryIn' = [d \in Deliveries |->
       IF retryIn[d] > 0 THEN retryIn[d] - 1 ELSE 0]
  /\ left' = [w \in Workers |-> IF left[w] > 0 THEN left[w] - 1 ELSE 0]
  /\ UNCHANGED <<status, created, attempts, phase, job, attemptNo, netVars, faults>>

\* The process dies and restarts: tasks are gone, their unprocessed copies
\* may still arrive, and the rows keep their leases.
Crash ==
  /\ faults < MaxFaults
  /\ faults' = faults + 1
  /\ late' = [d \in Deliveries |->
       IF \E w \in Workers : job[w] = d /\ phase[w] = "sending"
       THEN late[d] + 1 ELSE late[d]]
  /\ phase'     = [w \in Workers |-> "idle"]
  /\ job'       = [w \in Workers |-> NoDelivery]
  /\ attemptNo' = [w \in Workers |-> 0]
  /\ left'      = [w \in Workers |-> 0]
  /\ UNCHANGED <<rowVars, seen>>

-----------------------------------------------------------------------------
Deliver(w) == \/ (\E d \in Deliveries : Claim(w, d))
              \/ Serve(w) \/ Answer(w) \/ Miss(w)
              \/ Ack(w) \/ ScheduleRetry(w) \/ DeadLetter(w) \/ WriteFails(w)

Next == \/ \E d \in Deliveries : Enqueue(d) \/ ServeLate(d)
        \/ \E w \in Workers : Deliver(w)
        \/ Reclaim
        \/ Tick
        \/ Crash

Spec == Init /\ [][Next]_vars

\* The loop keeps polling and reclaiming, time passes, and a spawned task runs
\* on: its POST ends (the read timeout at the latest) and its write is made.
\* Nothing is assumed of the endpoint, and no fault ever has to happen.
Fairness ==
  /\ WF_vars(Tick)
  /\ WF_vars(Reclaim)
  /\ WF_vars(\E w \in Workers, d \in Deliveries : Claim(w, d))
  /\ \A w \in Workers :
       WF_vars(Miss(w)) /\ WF_vars(Ack(w) \/ ScheduleRetry(w) \/ DeadLetter(w))

FairSpec == Spec /\ Fairness

-----------------------------------------------------------------------------
(* Properties *)

\* Every variable has the type its column or its field has.
TypeOK ==
  /\ status    \in [Deliveries -> Statuses]
  /\ created   \in [Deliveries -> Nat]
  /\ attempts  \in [Deliveries -> Nat]
  /\ leaseLeft \in [Deliveries -> -1 .. Lease]
  /\ retryIn   \in [Deliveries -> Nat]
  /\ phase     \in [Workers -> Phases]
  /\ job       \in [Workers -> Deliveries \cup {NoDelivery}]
  /\ \A w \in Workers : Busy(w) <=> job[w] \in Deliveries
  /\ attemptNo \in [Workers -> Nat]
  /\ left      \in [Workers -> 0 .. DeliverBound]
  /\ late      \in [Deliveries -> Nat]
  /\ seen      \in [Deliveries -> Nat]
  /\ faults    \in 0 .. MaxFaults

\* The outcome of a deliver() task is written without looking at the row, so
\* the row must still be that task's when it is written: a live task's row is
\* in processing, under an unexpired lease, at the attempt the task carries,
\* and no other task works on it.
TaskOwnsRow ==
  \A w \in Workers : Busy(w) =>
    /\ status[job[w]] = "processing"
    /\ attempts[job[w]] = attemptNo[w]
    /\ left[w] <= leaseLeft[job[w]]
    /\ \A x \in Workers : Busy(x) /\ job[x] = job[w] => x = w

\* claim_next never caps attempts: only deliver() does, when it writes the
\* outcome.  So the first send and max_retries retries may be exceeded, but by
\* no more than one send per crash or failed write.
AttemptsBounded ==
  \A d \in Deliveries :
    /\ attempts[d] <= MaxRetries + 1 + faults
    /\ status[d] = "dead_letter" => attempts[d] > MaxRetries

\* A row marked delivered was processed by its endpoint, and the endpoint
\* never processes more copies than attempts were made: duplicates come from
\* retries and from nothing else.
NoPhantomDelivery ==
  \A d \in Deliveries :
    /\ status[d] = "delivered" => seen[d] > 0
    /\ seen[d] + late[d] <= attempts[d]

\* A settled row never changes again: no late writer reopens a delivered
\* event, revives a dead letter or turns one into the other.
SettledForGood ==
  [][\A d \in Deliveries : status[d] \in Settled =>
       status'[d] = status[d] /\ attempts'[d] = attempts[d]]_vars

\* Whatever crashes, locked databases and silent endpoints do, every event
\* that was enqueued is delivered or dead-lettered in the end.
EventuallySettled ==
  \A d \in Deliveries : status[d] = "pending" ~> status[d] \in Settled

\* The queue keeps the promise of WebhookDelivery.
Debt == [d \in Deliveries |->
           IF status[d] = "absent" THEN "none"
           ELSE IF status[d] = "delivered" THEN "done"
           ELSE IF status[d] = "dead_letter" THEN "abandoned"
           ELSE "owed"]

Promise == INSTANCE WebhookDelivery WITH debt <- Debt, sent <- attempts

PromiseKept == Promise!Spec
=============================================================================

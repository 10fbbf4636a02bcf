----------------------------- MODULE RateLimiter -----------------------------
(***************************************************************************)
(* The requests of one virtual key, from the guard on its entry            *)
(* (validate_auth) through the sliding windows of its requests and tokens  *)
(* (RateLimitState in crates/proxy/src/admin/keys.rs, or Redis, shared     *)
(* with other instances: crates/proxy/src/ratelimit.rs) to the record of   *)
(* the tokens they used.                                                   *)
(*                                                                         *)
(* The guard is the write lock of the key's DashMap shard.  A request      *)
(* holds it until its response has begun, over every await; one that finds *)
(* it taken does not yield but blocks the runtime thread that polls it, and *)
(* so do requests of other keys in the shard and the admin handlers.       *)
(* The windows of the limiter that is consulted are modelled, the others   *)
(* nothing reads.  Both limits are set; everything else authentication     *)
(* checks is in VirtualKey.                                                *)
(***************************************************************************)
EXTENDS Integers, SequencesExt

CONSTANTS
  Requests,        \* requests the key has at a time
  Neighbours,      \* other tasks that want the guard: requests of other keys in
                   \* the shard, which keep it as long, and admin handlers
  Threads,         \* worker threads of the runtime
  Limiters,        \* where the windows are and what a failing Redis means
  RpmLimit,        \* requests in a window, for each limiter
  TpmLimit,
  Window,          \* 60 seconds
  Second,          \* one second
  Tokens,          \* numbers of tokens an answer may have
  Skew,            \* how far the clock of the other instance is behind
  MaxUncounted,    \* bound: requests let in because Redis fails
  MaxTime          \* bound: the clock, for each limiter

Nobody == "nobody"

ASSUME RequestsAssumption ==
  IsFiniteSet(Requests) /\ Nobody \notin Requests /\ Threads \in Nat \ {0}
ASSUME NeighboursAssumption ==
  /\ IsFiniteSet(Neighbours) /\ Nobody \notin Neighbours
  /\ Neighbours \cap Requests = {}
ASSUME LimitersAssumption == Limiters \subseteq {"local", "open", "closed"}
ASSUME LimitsAssumption ==
  /\ RpmLimit \in [Limiters -> Nat] /\ TpmLimit \in Nat
  /\ Tokens \subseteq Nat /\ IsFiniteSet(Tokens) /\ Tokens # {}
  /\ Second \in Nat \ {0} /\ Window \in Nat /\ Window >= Second
  /\ Skew \in Nat /\ MaxUncounted \in Nat /\ MaxTime \in [Limiters -> Nat]

VARIABLES
  now,             \* the clock of this instance
  limiter,         \* "local", or Redis with its fail policy
  rpm,             \* the window of requests: [at]
  tpm,             \* the window of tokens: [at, tokens]
  records,         \* records of tokens on their way to Redis
  guard,           \* the request or neighbour that holds the guard
  req,             \* the requests
  pruner,          \* the background task: "idle" or "blocked" on the guard
  visits,          \* the neighbours: to come, blocked on the guard, or come to it
  uncounted,       \* requests let in because Redis failed
  admitted         \* the times at which requests were let in, over all instances,
                   \* within the window that ends with the newest: [at]

vars == <<now, limiter, rpm, tpm, records, guard, req, pruner, visits, uncounted, admitted>>

Stages   == {"idle", "blocked", "rpm", "tpm", "running", "streaming",
             "recording", "refused"}
Checking == {"rpm", "tpm"}

Visits   == {"away", "blocked", "come"}

Idle     == [stage |-> "idle", at |-> 0, told |-> 0, blame |-> 0, times |-> 0]

Init ==
  /\ now = Window + Skew
  /\ limiter \in Limiters
  /\ rpm = <<>> /\ tpm = <<>> /\ records = <<>>
  /\ guard = Nobody
  /\ req = [r \in Requests |-> Idle]
  /\ pruner = "idle"
  /\ visits = [n \in Neighbours |-> "away"]
  /\ uncounted = 0
  /\ admitted = <<>>

-----------------------------------------------------------------------------
(* The windows *)

\* What is left of a window that is emptied from its front up to an entry in fresh.
FromFirst(w, fresh) == SubSeq(w, Min(fresh \cup {Len(w) + 1}), Len(w))

\* The entries after a time, in a window that is sorted.
Later(w, t) == FromFirst(w, {i \in DOMAIN w : w[i].at > t})

\* The local windows lose their front while it is older than the window.
Drain(w, at) == FromFirst(w, {i \in DOMAIN w : w[i].at >= at - Window})

\* Mutant: Redis drops nothing but its oldest entry.
TrimOne(w, at) == IF w = <<>> THEN w ELSE Tail(w)

\* Redis loses every entry as old as the window or older.
Trim(w, at) == Later(w, at - Window)

Expire(w, at) == IF limiter = "local" THEN Drain(w, at) ELSE Trim(w, at)

\* Redis keeps its entries sorted by their time.
Insert(w, e) ==
  LET later == Later(w, e.at)
  IN SubSeq(w, 1, Len(w) - Len(later)) \o <<e>> \o later

Store(w, e) == IF limiter = "local" THEN Append(w, e) ELSE Insert(w, e)

Oldest(w, at) == IF w = <<>> THEN at ELSE Head(w).at

TokensIn(w) ==
  LET upto[i \in 0 .. Len(w)] == IF i = 0 THEN 0 ELSE upto[i - 1] + w[i].tokens
  IN upto[Len(w)]

\* Mutant: no minimum.
RetryAtOnce(oldest, at) == Max({oldest + Window - at, 0}) \div Second

\* Whole seconds until the oldest entry leaves, and one at least.
RetryAfter(oldest, at) == Max({Max({oldest + Window - at, 0}) \div Second, 1})

\* A request is let in at the time it read.
Admit(at) ==
  LET all == Insert(admitted, [at |-> at])
  IN admitted' = Later(all, Last(all).at - Window)

-----------------------------------------------------------------------------
(* Requests *)

\* The threads that are taken: by all the tasks blocked on the guard, the key's
\* requests and the others, and by what does not await between two steps.
Taken ==
  Cardinality({r \in Requests : \/ req[r].stage \in {"blocked", "recording"}
                                \/ limiter = "local" /\ req[r].stage \in Checking})
  + Cardinality({n \in Neighbours : visits[n] = "blocked"})
  + (IF pruner = "blocked" THEN 1 ELSE 0)

\* A task that can go on is polled only if a thread is free.
Polled == Taken < Threads

\* With the guard in hand the request reads the clock, once for both checks.
Enter(r) ==
  /\ guard' = r
  /\ req' = [req EXCEPT ![r].stage = "rpm", ![r].at = now]

\* A request comes for the first time, or again after the time it was told.
Arrive(r) ==
  /\ \/ req[r].stage = "idle"
     \/ req[r].stage = "refused" /\ now >= req[r].at + req[r].told * Second
  /\ Polled
  /\ IF guard = Nobody THEN Enter(r)
     ELSE req' = [req EXCEPT ![r].stage = "blocked"] /\ UNCHANGED guard
  /\ UNCHANGED <<now, limiter, rpm, tpm, records, pruner, visits, uncounted, admitted>>

Unblock(r) ==
  /\ req[r].stage = "blocked" /\ guard = Nobody
  /\ Enter(r)
  /\ UNCHANGED <<now, limiter, rpm, tpm, records, pruner, visits, uncounted, admitted>>

\* 429 with Retry-After; "times" counts refusals in a row on account of the
\* same entry.
Refuse(r, oldest, told) ==
  /\ guard' = Nobody
  /\ req' = [req EXCEPT ![r].stage = "refused", ![r].told = told, ![r].blame = oldest,
                        ![r].times = IF req[r].blame = oldest THEN @ + 1 ELSE 1]

\* The request goes on to the check of its tokens, and from there to the backend.
PassRpm(r) ==
  /\ req' = [req EXCEPT ![r].stage = "tpm"]
  /\ UNCHANGED guard

PassTpm(r) ==
  /\ req' = [req EXCEPT ![r] = [Idle EXCEPT !.stage = "running"]]
  /\ UNCHANGED guard

\* A request that is over, or goes on from now on.
Now(stage) == [Idle EXCEPT !.stage = stage, !.at = IF stage = "recording" THEN now ELSE 0]

\* The answer of Redis needs a thread to arrive at.
Checks(r, stage) == req[r].stage = stage /\ (limiter # "local" => Polled)

CheckRpm(r) ==
  LET at == req[r].at
      w  == Expire(rpm, at)
  IN /\ Checks(r, "rpm")
     /\ IF Len(w) >= RpmLimit[limiter]
        THEN /\ Refuse(r, Oldest(w, at), RetryAfter(Oldest(w, at), at))
             /\ rpm' = w
             /\ UNCHANGED admitted
        ELSE /\ PassRpm(r)
             /\ rpm' = Store(w, [at |-> at])
             /\ Admit(at)
     /\ UNCHANGED <<now, limiter, tpm, records, pruner, visits, uncounted>>

\* Mutant: the tokens may reach the limit.
CheckTpmLate(r) ==
  LET at == req[r].at
      w  == Expire(tpm, at)
  IN /\ Checks(r, "tpm")
     /\ IF TokensIn(w) > TpmLimit
        THEN Refuse(r, Oldest(w, at), RetryAfter(Oldest(w, at), at))
        ELSE PassTpm(r)
     /\ tpm' = w
     /\ UNCHANGED <<now, limiter, rpm, records, pruner, visits, uncounted, admitted>>

CheckTpm(r) ==
  LET at == req[r].at
      w  == Expire(tpm, at)
  IN /\ Checks(r, "tpm")
     /\ IF TokensIn(w) >= TpmLimit
        THEN Refuse(r, Oldest(w, at), RetryAfter(Oldest(w, at), at))
        ELSE PassTpm(r)
     /\ tpm' = w
     /\ UNCHANGED <<now, limiter, rpm, records, pruner, visits, uncounted, admitted>>

\* Redis does not answer: the open policy lets the request pass, uncounted, the
\* closed one refuses it for a minute.
CheckFails(r) ==
  /\ limiter # "local" /\ req[r].stage \in Checking /\ Polled
  /\ IF limiter = "closed"
     THEN Refuse(r, req[r].at, Window \div Second) /\ UNCHANGED <<uncounted, admitted>>
     ELSE IF req[r].stage = "rpm"
          THEN /\ uncounted < MaxUncounted
               /\ uncounted' = uncounted + 1
               /\ PassRpm(r)
               /\ Admit(req[r].at)
          ELSE PassTpm(r) /\ UNCHANGED <<uncounted, admitted>>
  /\ UNCHANGED <<now, limiter, rpm, tpm, records, pruner, visits>>

\* Mutant: an answer leaves the guard taken.
AnswerKeepsGuard(r) ==
  /\ req[r].stage = "running" /\ Polled
  /\ \E stage \in {"idle", "streaming", "recording"} :
       req' = [req EXCEPT ![r] = Now(stage)]
  /\ UNCHANGED <<now, limiter, guard, rpm, tpm, records, pruner, visits, uncounted, admitted>>

\* The backend has answered: in full, with a stream that goes on in a task of
\* its own, or with an error; or the client has hung up.  A full answer's tokens
\* are recorded at the time read here, before the guard is dropped.
Answer(r) ==
  /\ req[r].stage = "running" /\ Polled
  /\ \E stage \in {"idle", "streaming", "recording"} :
       /\ req' = [req EXCEPT ![r] = Now(stage)]
       /\ guard' = IF stage = "recording" THEN guard ELSE Nobody
  /\ UNCHANGED <<now, limiter, rpm, tpm, records, pruner, visits, uncounted, admitted>>

\* The stream ends, with a count of tokens or without.
StreamEnds(r) ==
  /\ req[r].stage = "streaming" /\ Polled
  /\ \E stage \in {"idle", "recording"} :
       req' = [req EXCEPT ![r] = Now(stage)]
  /\ UNCHANGED <<now, limiter, guard, rpm, tpm, records, pruner, visits, uncounted, admitted>>

\* The tokens are written to the local window, or handed to a task that writes
\* them to Redis.
Record(r) ==
  /\ req[r].stage = "recording"
  /\ \E n \in Tokens :
       LET entry == [at |-> req[r].at, tokens |-> n] IN
       IF limiter = "local"
       THEN tpm' = Append(Drain(tpm, req[r].at), entry) /\ UNCHANGED records
       ELSE records' = Insert(records, entry) /\ UNCHANGED tpm
  /\ req' = [req EXCEPT ![r] = Idle]
  /\ guard' = IF guard = r THEN Nobody ELSE guard
  /\ UNCHANGED <<now, limiter, rpm, pruner, visits, uncounted, admitted>>

\* Redis takes a record late, or never.
RecordRedis ==
  /\ Polled
  /\ \E i \in DOMAIN records :
       /\ records' = RemoveAt(records, i)
       /\ tpm' = Insert(tpm, records[i]) \/ UNCHANGED tpm
  /\ UNCHANGED <<now, limiter, rpm, guard, req, pruner, visits, uncounted, admitted>>

-----------------------------------------------------------------------------
(* The rest of the world *)

\* Another instance, whose clock is behind, checks a request of the same key.
OtherInstance ==
  /\ limiter # "local"
  /\ LET at == now - Skew
         w  == Trim(rpm, at)
     IN IF Len(w) >= RpmLimit[limiter] THEN rpm' = w /\ UNCHANGED admitted
        ELSE rpm' = Insert(w, [at |-> at]) /\ Admit(at)
  /\ UNCHANGED <<now, limiter, tpm, records, guard, req, pruner, visits, uncounted>>

\* Every five minutes the pruner drains the local windows under the guards.
Drained ==
  IF limiter = "local" THEN rpm' = Drain(rpm, now) /\ tpm' = Drain(tpm, now)
  ELSE UNCHANGED <<rpm, tpm>>

Prune ==
  /\ pruner = "idle" /\ Polled
  /\ IF guard = Nobody THEN Drained /\ UNCHANGED pruner
     ELSE pruner' = "blocked" /\ UNCHANGED <<rpm, tpm>>
  /\ UNCHANGED <<now, limiter, records, guard, req, visits, uncounted, admitted>>

UnblockPruner ==
  /\ pruner = "blocked" /\ guard = Nobody
  /\ Drained
  /\ pruner' = "idle"
  /\ UNCHANGED <<now, limiter, records, guard, req, visits, uncounted, admitted>>

\* A neighbour has the guard, over its own response or for one call of the map.
Hold(n) ==
  /\ guard' = n
  /\ visits' = [visits EXCEPT ![n] = "come"]

Visit(n) ==
  /\ visits[n] = "away" /\ Polled
  /\ IF guard = Nobody THEN Hold(n)
     ELSE visits' = [visits EXCEPT ![n] = "blocked"] /\ UNCHANGED guard
  /\ UNCHANGED <<now, limiter, rpm, tpm, records, req, pruner, uncounted, admitted>>

UnblockVisit(n) ==
  /\ visits[n] = "blocked" /\ guard = Nobody
  /\ Hold(n)
  /\ UNCHANGED <<now, limiter, rpm, tpm, records, req, pruner, uncounted, admitted>>

Leave(n) ==
  /\ guard = n /\ Polled
  /\ guard' = Nobody
  /\ UNCHANGED <<now, limiter, rpm, tpm, records, req, pruner, visits, uncounted, admitted>>

Tick ==
  /\ now < MaxTime[limiter]
  /\ now' = now + 1
  /\ UNCHANGED <<limiter, rpm, tpm, records, guard, req, pruner, visits, uncounted, admitted>>

-----------------------------------------------------------------------------
Next ==
  \/ \E r \in Requests : \/ Arrive(r) \/ Unblock(r) \/ CheckRpm(r) \/ CheckTpm(r)
                         \/ CheckFails(r) \/ Answer(r) \/ StreamEnds(r) \/ Record(r)
  \/ \E n \in Neighbours : Visit(n) \/ UnblockVisit(n) \/ Leave(n)
  \/ RecordRedis \/ OtherInstance \/ Prune \/ UnblockPruner \/ Tick

Spec == Init /\ [][Next]_vars

\* Threads run, Redis and the backends answer in time or are given up (all have
\* timeouts), and a lock that is free is taken.  Each neighbour comes once, so
\* nobody waits for ever because the lock prefers others.
Fairness ==
  /\ \A r \in Requests : WF_vars(Unblock(r) \/ CheckRpm(r) \/ CheckTpm(r)
                                 \/ Answer(r) \/ Record(r))
  /\ \A n \in Neighbours : WF_vars(UnblockVisit(n) \/ Leave(n))
  /\ WF_vars(UnblockPruner)

FairSpec == Spec /\ Fairness

-----------------------------------------------------------------------------
(* Properties *)

\* Every variable has the type its field has; the guard's holder, and no other
\* request, is between the checks and its answer.
TypeOK ==
  /\ now \in Nat /\ now >= Window + Skew
  /\ limiter \in Limiters
  /\ rpm \in Seq([at : Nat]) /\ tpm \in Seq([at : Nat, tokens : Tokens])
  /\ records \in Seq([at : Nat, tokens : Tokens])
  /\ guard \in Requests \cup Neighbours \cup {Nobody}
  /\ req \in [Requests -> [stage : Stages, at : Nat, told : Nat, blame : Nat, times : Nat]]
  /\ pruner \in {"idle", "blocked"}
  /\ visits \in [Neighbours -> Visits]
  /\ uncounted \in 0 .. MaxUncounted
  /\ admitted \in Seq([at : Nat])
  /\ \A r \in Requests : req[r].stage \in {"rpm", "tpm", "running"} => guard = r

\* "A limit of 10 RPM allows exactly 10 requests per window": of the window that
\* ends with the newest request let in, whichever instance let them in and by
\* whichever clock; with the open policy also those let in while Redis failed.
RpmCeiling ==
  Len(admitted) <= RpmLimit[limiter] + uncounted

\* check_tpm looks before the answer and record_tpm writes after it; still the
\* tokens in the window exceed the limit by no more than what the requests in
\* flight at the last admission may use.
TokensBounded ==
  limiter = "local" /\ TpmLimit > 0 =>
    TokensIn(tpm) <= TpmLimit - 1 + Max(Tokens) * Cardinality(Requests)

\* A client that comes back when it was told is refused at most twice on account
\* of the same entry, although the seconds it is told are rounded down.
RefusedTwiceAtMost == \A r \in Requests : req[r].times <= 2

\* Every request is answered: none waits for ever on the guard of its key, nor,
\* with that guard in hand, for a thread that those who wait for it have taken.
Waiting(r) == req[r].stage \in {"blocked", "rpm", "tpm", "running"}

Answered == \A r \in Requests : []<>~Waiting(r)
=============================================================================

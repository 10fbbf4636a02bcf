------------------------------ MODULE VirtualKey ------------------------------
(***************************************************************************)
(* One virtual key of the proxy: its row in virtual_api_key, its entry in  *)
(* the in-memory map that authenticates requests, the requests that use    *)
(* it and the administrators that change it                                *)
(* (crates/proxy/src: server/middleware/auth.rs, admin/keys.rs,            *)
(* admin/routes/keys.rs, admin/db/keys.rs, cost/mod.rs, cost/db.rs).       *)
(*                                                                         *)
(* Every administrative operation changes the row first and the entry in a *)
(* second step.  A request reads and resets the budget period of the entry *)
(* under the map's write guard, and keeps that guard until its handler     *)
(* returns; its cost is added to the row alone, by a task of its own that  *)
(* runs later.  That a period has begun reaches the row only through the   *)
(* cost of the very request that noticed it (mark).                        *)
(*                                                                         *)
(* Money is counted in whole units, and time in budget periods: a key's    *)
(* budget is for one period (periodic) or for its lifetime.  Rate limits   *)
(* and roles, checked in between, and spend alerts, sent afterwards, touch *)
(* none of this and are left out.                                          *)
(***************************************************************************)
EXTENDS Integers

CONSTANTS
  Requests,        \* requests that present the key
  Admins,          \* administrators
  Budgets,         \* the values of max_budget_usd
  NoLimit,         \* max_budget_usd = None
  Expiries,        \* the values of expires_at; one after MaxNow never comes
  Costs,           \* what a request may cost
  MaxNow,          \* bound: the last period
  MaxFaults        \* bound: restarts and failed statements in a behaviour

ASSUME NoLimitAssumption == NoLimit \notin Nat
ASSUME BudgetsAssumption == Budgets # {} /\ Budgets \subseteq Nat \cup {NoLimit}
ASSUME NumbersAssumption ==
  /\ Expiries # {} /\ Expiries \subseteq Nat
  /\ Costs \subseteq Nat
  /\ MaxNow \in Nat /\ MaxFaults \in Nat

VARIABLES
  now,         \* the current period
  row,         \* the row of virtual_api_key
  present,     \* the map has an entry for the key
  entry,       \* that entry: VirtualKeyMeta
  phase,       \* phase[r]: how far request r is
  mark,        \* mark[r]: VirtualKeyContext.period_reset
  cost,        \* cost[r]: what record_cost computed
  op,          \* op[a]: what administrator a still has to do to the entry
  admitted,    \* history: admitted[r]: the period request r was admitted in
  total,       \* history: what was recorded in all
  before,      \* history: before[p]: what was recorded before period p began
  faults       \* restarts and failed statements so far

reqVars  == <<phase, mark, cost>>
history  == <<admitted, total, before>>
vars == <<now, row, present, entry, reqVars, op, history, faults>>

Periods == 0 .. MaxNow
NoStart == -1
Limits  == [budget : Budgets, periodic : BOOLEAN, expiry : Expiries]
Spends  == [budget : Budgets, periodic : BOOLEAN, expiry : Expiries,
            start : Periods \cup {NoStart}, spend : Nat]
Rows    == [state : {"absent", "active", "revoked"}, key : Spends]
Phases  == {"new", "evicting", "inside", "open", "recording", "blocked", "done"}
Idle    == [kind |-> "none"]
Ops     == {Idle} \cup [kind : {"creating", "updating"}, limits : Limits]
                  \cup {[kind |-> "revoking"]}

\* A fresh key with these limits whose first period starts at s.
Fresh(l, s) == [budget |-> l.budget, periodic |-> l.periodic,
                expiry |-> l.expiry, start |-> s, spend |-> 0]

\* What row and entry hold before there is a key.
NoKey == Fresh(CHOOSE l \in Limits : TRUE, NoStart)

\* What was recorded since period s began; since ever, if s is no period.
RecordedSince(s) == IF s = NoStart THEN total ELSE total - before[s]

\* next.run(request).await happens under the entry's write guard.
GuardFree == \A r \in Requests : phase[r] # "inside"

Init ==
  /\ now = 0
  /\ row = [state |-> "absent", key |-> NoKey]
  /\ present = FALSE
  /\ entry   = NoKey
  /\ phase   = [r \in Requests |-> "new"]
  /\ mark    = [r \in Requests |-> NoStart]
  /\ cost    = [r \in Requests |-> 0]
  /\ op      = [a \in Admins |-> Idle]
  /\ admitted = [r \in Requests |-> 0]
  /\ total   = 0
  /\ before  = [p \in Periods |-> 0]
  /\ faults  = 0

-----------------------------------------------------------------------------
(* Authentication *)

Expired(k) == now >= k.expiry

\* check_and_reset_period: a new period begins, or the first one does.
PeriodOver(k) == k.periodic /\ (k.start = NoStart \/ now > k.start)

RolledOver(k) ==
  IF PeriodOver(k) THEN [k EXCEPT !.start = now, !.spend = 0] ELSE k

\* Mutant: the spend is compared before the period is rolled over.
CheckedUnreset == entry

\* The entry as validate_auth leaves it; keys without a budget are not reset.
Checked == IF entry.budget = NoLimit THEN entry ELSE RolledOver(entry)

OverBudget(k) == k.budget # NoLimit /\ k.spend >= k.budget

Lookup(r) == phase[r] = "new" /\ GuardFree /\ present

\* An expired key is refused; its guard is dropped before it is evicted.
RefuseExpired(r) ==
  /\ Lookup(r)
  /\ Expired(entry)
  /\ phase' = [phase EXCEPT ![r] = "evicting"]
  /\ UNCHANGED <<now, row, present, entry, mark, cost, op, history, faults>>

Evict(r) ==
  /\ phase[r] = "evicting"
  /\ GuardFree
  /\ present' = FALSE
  /\ phase' = [phase EXCEPT ![r] = "done"]
  /\ UNCHANGED <<now, row, entry, mark, cost, op, history, faults>>

\* 429 budget_exceeded; the reset, if there was one, stays in the entry.
RefuseOverBudget(r) ==
  /\ Lookup(r)
  /\ ~Expired(entry)
  /\ OverBudget(Checked)
  /\ entry' = Checked
  /\ phase' = [phase EXCEPT ![r] = "blocked"]
  /\ UNCHANGED <<now, row, present, mark, cost, op, history, faults>>

Admit(r) ==
  /\ Lookup(r)
  /\ ~Expired(entry)
  /\ ~OverBudget(Checked)
  /\ entry' = Checked
  /\ mark'  = [mark EXCEPT ![r] =
       IF entry.budget # NoLimit /\ PeriodOver(entry) THEN now ELSE NoStart]
  /\ phase' = [phase EXCEPT ![r] = "inside"]
  /\ admitted' = [admitted EXCEPT ![r] = now]
  /\ UNCHANGED <<now, row, present, cost, op, total, before, faults>>

-----------------------------------------------------------------------------
(* The cost of a request *)

\* A streaming handler returns its response and frees the guard; the stream
\* goes on in a task of its own.
Respond(r) ==
  /\ phase[r] = "inside"
  /\ phase' = [phase EXCEPT ![r] = "open"]
  /\ UNCHANGED <<now, row, present, entry, mark, cost, op, history, faults>>

\* A request is over and its VirtualKeyContext is dropped.
Drop(r) == /\ phase' = [phase EXCEPT ![r] = "done"]
           /\ mark'  = [mark EXCEPT ![r] = NoStart]
           /\ cost'  = [cost EXCEPT ![r] = 0]
           /\ admitted' = [admitted EXCEPT ![r] = 0]

\* record_cost: a request with a cost spawns a task that records it.
Price(r) ==
  /\ phase[r] \in {"inside", "open"}
  /\ \E c \in Costs \ {0} : cost' = [cost EXCEPT ![r] = c]
  /\ phase' = [phase EXCEPT ![r] = "recording"]
  /\ UNCHANGED <<now, row, present, entry, mark, op, history, faults>>

\* A request without a cost, a failed one say, records nothing, and the mark it
\* carries is lost with it.
FinishFree(r) ==
  /\ phase[r] \in {"inside", "open"}
  /\ 0 \in Costs
  /\ Drop(r)
  /\ UNCHANGED <<now, row, present, entry, op, total, before, faults>>

\* Mutant: reset_period_spend writes the new period but not the zero.
ResetKeepingSpend(k, m) == [k EXCEPT !.start = m]

\* reset_period_spend
Reset(k, m) == [k EXCEPT !.start = m, !.spend = 0]

\* The task record_cost spawned: reset_period_spend if the request carries a
\* mark, and accumulate_spend.  Either statement may fail: a failed reset is
\* logged and the cost is added all the same.
Record(r) ==
  /\ phase[r] = "recording"
  /\ \E resetFails, addFails \in BOOLEAN :
       /\ resetFails => mark[r] # NoStart
       /\ resetFails \/ addFails => faults < MaxFaults
       /\ faults' = IF resetFails \/ addFails THEN faults + 1 ELSE faults
       /\ LET k    == IF mark[r] # NoStart /\ ~resetFails
                      THEN Reset(row.key, mark[r]) ELSE row.key
              paid == [k EXCEPT !.spend = @ + cost[r]]
          IN IF addFails
             THEN row' = [row EXCEPT !.key = k] /\ UNCHANGED total
             ELSE /\ row'   = [row EXCEPT !.key = paid]
                  /\ total' = total + cost[r]
  /\ Drop(r)
  /\ UNCHANGED <<now, present, entry, op, before>>

-----------------------------------------------------------------------------
(* Administration: first the row, then the entry *)

CreateRow(a) ==
  /\ op[a] = Idle
  /\ row.state = "absent"
  /\ \E l \in Limits :
       /\ row' = [state |-> "active",
                  key |-> Fresh(l, IF l.periodic THEN now ELSE NoStart)]
       /\ op'  = [op EXCEPT ![a] = [kind |-> "creating", limits |-> l]]
  /\ UNCHANGED <<now, present, entry, reqVars, history, faults>>

\* virtual_keys.insert, with a period_start whatever the duration
CreateEntry(a) ==
  /\ op[a].kind = "creating"
  /\ GuardFree
  /\ present' = TRUE
  /\ entry'   = Fresh(op[a].limits, now)
  /\ op' = [op EXCEPT ![a] = Idle]
  /\ UNCHANGED <<now, row, reqVars, history, faults>>

\* update_virtual_key: absent fields are cleared; a duration resets the period.
WithLimits(k, l) ==
  [k EXCEPT !.budget = l.budget, !.periodic = l.periodic, !.expiry = l.expiry,
            !.start = IF l.periodic THEN NoStart ELSE @,
            !.spend = IF l.periodic THEN 0 ELSE @]

UpdateRow(a) ==
  /\ op[a] = Idle
  /\ row.state = "active"
  /\ \E l \in Limits :
       /\ row' = [row EXCEPT !.key = WithLimits(@, l)]
       /\ op'  = [op EXCEPT ![a] = [kind |-> "updating", limits |-> l]]
  /\ UNCHANGED <<now, present, entry, reqVars, history, faults>>

\* Mutant: the entry is put back even if it is gone.
UpdateEntryAnyway(a) ==
  /\ op[a].kind = "updating"
  /\ GuardFree
  /\ entry' = WithLimits(entry, op[a].limits)
  /\ present' = TRUE
  /\ op' = [op EXCEPT ![a] = Idle]
  /\ UNCHANGED <<now, row, reqVars, history, faults>>

\* and_modify: an entry that is gone stays gone, and a duration that the
\* update clears in the row stays in the entry.
UpdateEntry(a) ==
  /\ op[a].kind = "updating"
  /\ GuardFree
  /\ entry' = IF present
              THEN [WithLimits(entry, op[a].limits) EXCEPT
                      !.periodic = op[a].limits.periodic \/ entry.periodic]
              ELSE entry
  /\ op' = [op EXCEPT ![a] = Idle]
  /\ UNCHANGED <<now, row, present, reqVars, history, faults>>

RevokeRow(a) ==
  /\ op[a] = Idle
  /\ row.state = "active"
  /\ row' = [row EXCEPT !.state = "revoked"]
  /\ op'  = [op EXCEPT ![a] = [kind |-> "revoking"]]
  /\ UNCHANGED <<now, present, entry, reqVars, history, faults>>

RevokeEntry(a) ==
  /\ op[a].kind = "revoking"
  /\ GuardFree
  /\ present' = FALSE
  /\ op' = [op EXCEPT ![a] = Idle]
  /\ UNCHANGED <<now, row, entry, reqVars, history, faults>>

-----------------------------------------------------------------------------
(* Time, the pruner and restarts *)

NextPeriod ==
  /\ now < MaxNow
  /\ now' = now + 1
  /\ before' = [before EXCEPT ![now + 1] = total]
  /\ UNCHANGED <<row, present, entry, reqVars, op, admitted, total, faults>>

\* The pruner's retain drops an expired entry.
Prune ==
  /\ present /\ Expired(entry) /\ GuardFree
  /\ present' = FALSE
  /\ UNCHANGED <<now, row, entry, reqVars, op, history, faults>>

\* The process restarts: requests, tasks and half-done operations are gone,
\* and load_virtual_keys reads the row.
Restart ==
  /\ faults < MaxFaults
  /\ faults' = faults + 1
  /\ phase' = [r \in Requests |->
                 IF phase[r] \in {"new", "blocked"} THEN phase[r] ELSE "done"]
  /\ mark'  = [r \in Requests |-> NoStart]
  /\ cost'  = [r \in Requests |-> 0]
  /\ admitted' = [r \in Requests |-> 0]
  /\ op'    = [a \in Admins |-> Idle]
  /\ present' = (row.state = "active" /\ ~Expired(row.key))
  /\ entry'   = row.key
  /\ UNCHANGED <<now, row, total, before>>

-----------------------------------------------------------------------------
Serve(r) == \/ RefuseExpired(r) \/ Evict(r) \/ RefuseOverBudget(r) \/ Admit(r)
            \/ Respond(r) \/ Price(r) \/ FinishFree(r) \/ Record(r)

Administer(a) == \/ CreateRow(a) \/ CreateEntry(a)
                 \/ UpdateRow(a) \/ UpdateEntry(a)
                 \/ RevokeRow(a) \/ RevokeEntry(a)

Next == \/ \E r \in Requests : Serve(r)
        \/ \E a \in Admins : Administer(a)
        \/ NextPeriod
        \/ Prune
        \/ Restart

Spec == Init /\ [][Next]_vars

-----------------------------------------------------------------------------
(* Properties *)

\* Every variable has the type its column or its field has.
TypeOK ==
  /\ now     \in Periods
  /\ row     \in Rows
  /\ present \in BOOLEAN
  /\ entry   \in Spends
  /\ phase   \in [Requests -> Phases]
  /\ mark    \in [Requests -> Periods \cup {NoStart}]
  /\ cost    \in [Requests -> Nat]
  /\ op      \in [Admins -> Ops]
  /\ admitted \in [Requests -> Periods]
  /\ total   \in Nat
  /\ before  \in [Periods -> Nat]
  /\ faults  \in 0 .. MaxFaults

\* Neither copy of the key claims a period that has not begun, nor more spend
\* for its period than was recorded since that period began: late costs, lost
\* marks, failed resets and restarts only ever make a key look cheaper.
SpendNotOverstated ==
  \A k \in {row.key, entry} :
    k.start <= now /\ k.spend <= RecordedSince(k.start)

\* A request is refused for the budget only if the key has really spent it: in
\* the current period if its budget is periodic, in its lifetime otherwise.
BlockedOnlyWhenSpent ==
  [][\A r \in Requests : phase'[r] = "blocked" /\ phase[r] = "new" =>
       RecordedSince(IF entry.periodic THEN now ELSE NoStart) >= entry.budget]_vars

\* The entry of a revoked key never comes back once it is gone, whatever
\* update, eviction or restart was under way; only a create_key that has not
\* answered yet can still insert it.
RevokedStaysOut ==
  [][row.state = "revoked" /\ ~present /\ (\A a \in Admins : op[a].kind # "creating")
       => ~present']_vars

\* max_budget_usd is what a key may spend in a period: no request is admitted
\* once the recorded spend of the current period has reached it.
BudgetEnforced ==
  [][\A r \in Requests :
       phase[r] = "new" /\ phase'[r] = "inside" /\ entry.budget # NoLimit =>
         RecordedSince(IF entry.periodic THEN now ELSE NoStart) < entry.budget]_vars
=============================================================================

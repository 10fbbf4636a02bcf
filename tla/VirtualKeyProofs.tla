--------------------------- MODULE VirtualKeyProofs ---------------------------
(***************************************************************************)
(* The safety of VirtualKey for every set of requests, administrators,     *)
(* budgets and costs, and for any number of periods and faults.            *)
(***************************************************************************)
EXTENDS VirtualKey, TLAPS

\* A number no larger than this one may stand in either copy of the key.
Honest(k) == k.start <= now /\ k.spend <= RecordedSince(k.start)

\* SpendNotOverstated is not inductive alone: a mark that is still under way
\* may start a period of the row, so it must not lie ahead either, and nothing
\* was recorded before a period that was not recorded at all.
LedgerInv ==
  /\ TypeOK
  /\ Honest(row.key)
  /\ Honest(entry)
  /\ \A r \in Requests : mark[r] <= now
  /\ \A p \in Periods : before[p] <= total

-----------------------------------------------------------------------------
(* The operators on keys *)

\* A fresh key with legal limits has the type of a key.
LEMMA FreshType ==
  ASSUME NEW l \in Limits, NEW s \in Periods \cup {NoStart}
  PROVE  Fresh(l, s) \in Spends /\ Fresh(l, s).start = s /\ Fresh(l, s).spend = 0
BY DEF Fresh, Spends, Limits

\* There are limits to begin with.
LEMMA NoKeyType == NoKey \in Spends /\ NoKey.start = NoStart /\ NoKey.spend = 0
<1>1. Limits # {}
  <2>1. PICK b \in Budgets, e \in Expiries : TRUE
    BY BudgetsAssumption, NumbersAssumption
  <2>2. [budget |-> b, periodic |-> TRUE, expiry |-> e] \in Limits
    BY DEF Limits
  <2> QED BY <2>2
<1>2. (CHOOSE l \in Limits : TRUE) \in Limits
  BY <1>1
<1> QED BY <1>2, FreshType DEF NoKey

\* Rolling a key over keeps its type and its honesty, and leaves a periodic
\* key in the current period.
LEMMA RolledOverHonest ==
  ASSUME TypeOK, NEW k \in Spends, Honest(k),
         \A p \in Periods : before[p] <= total
  PROVE  /\ RolledOver(k) \in Spends
         /\ Honest(RolledOver(k))
         /\ RolledOver(k).budget = k.budget
         /\ k.periodic => RolledOver(k).start = now
<1>1. now \in Nat /\ now \in Periods /\ total \in Nat /\ before \in [Periods -> Nat]
  BY NumbersAssumption DEF TypeOK, Periods
<1>2. CASE PeriodOver(k)
  <2>1. RolledOver(k) = [budget |-> k.budget, periodic |-> k.periodic,
                         expiry |-> k.expiry, start |-> now, spend |-> 0]
    BY <1>2 DEF RolledOver, Spends
  <2>2. /\ RolledOver(k) \in Spends
        /\ RolledOver(k).start = now /\ RolledOver(k).spend = 0
        /\ RolledOver(k).budget = k.budget
    BY <2>1, <1>1 DEF Spends
  <2>3. 0 <= RecordedSince(now)
    BY <1>1 DEF RecordedSince, NoStart
  <2> QED BY <1>1, <2>2, <2>3 DEF Honest
<1>3. CASE ~PeriodOver(k)
  <2>1. RolledOver(k) = k
    BY <1>3 DEF RolledOver
  <2>2. k.periodic => k.start = now
    BY <1>1, <1>3 DEF PeriodOver, Honest, Spends, Periods, NoStart
  <2> QED BY <2>1, <2>2
<1> QED BY <1>2, <1>3

\* The same of the entry validate_auth leaves behind.
LEMMA CheckedHonest ==
  ASSUME LedgerInv
  PROVE  /\ Checked \in Spends
         /\ Honest(Checked)
         /\ Checked.budget = entry.budget
         /\ entry.periodic /\ entry.budget # NoLimit => Checked.start = now
<1>1. entry \in Spends /\ Honest(entry)
  BY DEF LedgerInv, TypeOK
<1> QED BY <1>1, RolledOverHonest DEF Checked, LedgerInv

\* New limits keep a key's type, and its spend or nothing of it.
LEMMA WithLimitsType ==
  ASSUME NEW k \in Spends, NEW l \in Limits
  PROVE  /\ WithLimits(k, l) \in Spends
         /\ \/ WithLimits(k, l).start = NoStart /\ WithLimits(k, l).spend = 0
            \/ WithLimits(k, l).start = k.start /\ WithLimits(k, l).spend = k.spend
BY DEF WithLimits, Spends, Limits

\* An operation that still has to reach the entry carries legal limits.
LEMMA OpLimits ==
  ASSUME TypeOK, NEW a \in Admins, op[a].kind \in {"creating", "updating"}
  PROVE  op[a].limits \in Limits
BY DEF TypeOK, Ops, Idle

-----------------------------------------------------------------------------
(* The invariant *)

\* The initial state satisfies the invariant.
LEMMA LedgerInit == Init => LedgerInv
<1> SUFFICES ASSUME Init PROVE LedgerInv
  OBVIOUS
<1> USE NumbersAssumption
<1>1. NoKey \in Spends /\ NoKey.start = NoStart /\ NoKey.spend = 0
  BY NoKeyType
<1>2. TypeOK
  <2>1. row \in Rows /\ entry \in Spends
    BY <1>1 DEF Init, Rows
  <2>2. now \in Periods /\ admitted \in [Requests -> Periods]
    BY DEF Init, Periods
  <2>3. before \in [Periods -> Nat] /\ total \in Nat /\ faults \in 0 .. MaxFaults
    BY DEF Init
  <2>4. mark \in [Requests -> Periods \cup {NoStart}] /\ cost \in [Requests -> Nat]
    BY DEF Init
  <2>5. phase \in [Requests -> Phases] /\ op \in [Admins -> Ops]
    BY DEF Init, Phases, Ops
  <2>6. present \in BOOLEAN
    BY DEF Init
  <2> QED BY <2>1, <2>2, <2>3, <2>4, <2>5, <2>6 DEF TypeOK
<1>3. Honest(NoKey)
  BY <1>1 DEF Init, Honest, RecordedSince, NoStart
<1>4. row.key = NoKey /\ entry = NoKey
  BY DEF Init
<1>5. \A r \in Requests : mark[r] <= now
  <2>1. now = 0 /\ \A r \in Requests : mark[r] = -1
    BY DEF Init, NoStart
  <2>2. -1 <= 0
    BY SMT
  <2> QED BY <2>1, <2>2
<1>6. \A p \in Periods : before[p] <= total
  BY DEF Init
<1> QED BY <1>2, <1>3, <1>4, <1>5, <1>6 DEF LedgerInv

\* Every step of a request preserves the invariant.
LEMMA LedgerServe ==
  ASSUME LedgerInv, NEW r \in Requests, Serve(r)
  PROVE  LedgerInv'
<1> USE NumbersAssumption DEF LedgerInv
<1>a. UNCHANGED <<now, before>>
  BY DEF Serve, RefuseExpired, Evict, RefuseOverBudget, Admit, Respond, Price,
         FinishFree, Record, history
<1>1. CASE RefuseExpired(r)
  <2>1. TypeOK'
    BY <1>1 DEF RefuseExpired, history, TypeOK, Phases
  <2> QED BY <1>1, <2>1 DEF RefuseExpired, history, Honest, RecordedSince
<1>2. CASE Evict(r)
  <2>1. TypeOK'
    BY <1>2 DEF Evict, history, TypeOK, Phases
  <2> QED BY <1>2, <2>1 DEF Evict, history, Honest, RecordedSince
<1>3. CASE RefuseOverBudget(r)
  <2>1. Checked \in Spends /\ Honest(Checked)
    BY CheckedHonest
  <2>2. TypeOK'
    BY <1>3, <2>1 DEF RefuseOverBudget, history, TypeOK, Phases
  <2>3. entry' = Checked /\ UNCHANGED <<now, row, mark, total, before>>
    BY <1>3 DEF RefuseOverBudget, history
  <2> QED BY <2>1, <2>2, <2>3 DEF Honest, RecordedSince
<1>4. CASE Admit(r)
  <2>1. Checked \in Spends /\ Honest(Checked)
    BY CheckedHonest
  <2>2. entry' = Checked /\ UNCHANGED <<now, row, total, before>>
    BY <1>4 DEF Admit
  <2>3. TypeOK'
    BY <1>4, <2>1 DEF Admit, TypeOK, Phases
  <2>4. \A x \in Requests : mark'[x] <= now
    BY <1>4 DEF Admit, TypeOK, Periods, NoStart
  <2> QED BY <2>1, <2>2, <2>3, <2>4 DEF Honest, RecordedSince
<1>5. CASE Respond(r)
  <2>1. TypeOK'
    BY <1>5 DEF Respond, history, TypeOK, Phases
  <2> QED BY <1>5, <2>1 DEF Respond, history, Honest, RecordedSince
<1>6. CASE Price(r)
  <2>1. TypeOK'
    BY <1>6 DEF Price, history, TypeOK, Phases
  <2> QED BY <1>6, <2>1 DEF Price, history, Honest, RecordedSince
<1>7. CASE FinishFree(r)
  <2>1. TypeOK'
    BY <1>7 DEF FinishFree, Drop, TypeOK, Phases, Periods
  <2>2. \A x \in Requests : mark'[x] <= now
    BY <1>7 DEF FinishFree, Drop, TypeOK, Periods, NoStart
  <2> QED BY <1>7, <2>1, <2>2 DEF FinishFree, Honest, RecordedSince
<1>8. CASE Record(r)
  <2>1. PICK resetFails \in BOOLEAN, addFails \in BOOLEAN :
          LET k == IF mark[r] # NoStart /\ ~resetFails
                   THEN Reset(row.key, mark[r]) ELSE row.key
              paid == [k EXCEPT !.spend = @ + cost[r]]
          IN /\ resetFails \/ addFails => faults < MaxFaults
             /\ faults' = IF resetFails \/ addFails THEN faults + 1 ELSE faults
             /\ IF addFails
                THEN row' = [row EXCEPT !.key = k] /\ UNCHANGED total
                ELSE /\ row'   = [row EXCEPT !.key = paid]
                     /\ total' = total + cost[r]
    BY <1>8 DEF Record
  <2> DEFINE k == IF mark[r] # NoStart /\ ~resetFails
                  THEN Reset(row.key, mark[r]) ELSE row.key
             paid == [k EXCEPT !.spend = @ + cost[r]]
  <2>2. row.key \in Spends /\ Honest(row.key) /\ cost[r] \in Nat /\ total \in Nat
        /\ mark[r] \in Periods \cup {NoStart} /\ mark[r] <= now
    BY DEF TypeOK, Rows
  <2>3. k \in Spends /\ Honest(k)
    <3>1. CASE mark[r] # NoStart /\ ~resetFails
      <4>1. k \in Spends /\ k.start = mark[r] /\ k.spend = 0
        BY <3>1, <2>2 DEF Reset, Spends
      <4>2. mark[r] \in Periods /\ before[mark[r]] <= total /\ before[mark[r]] \in Nat
        BY <3>1, <2>2 DEF TypeOK
      <4> QED BY <4>1, <4>2, <2>2, <3>1 DEF Honest, RecordedSince
    <3>2. CASE ~(mark[r] # NoStart /\ ~resetFails)
      BY <3>2, <2>2
    <3> QED BY <3>1, <3>2
  <2>4. paid \in Spends /\ paid.start = k.start /\ paid.spend = k.spend + cost[r]
    BY <2>2, <2>3 DEF Spends
  <2>5. total' \in Nat /\ total <= total' /\ total' <= total + cost[r]
    BY <2>1, <2>2
  <2>6. Honest(row.key)' /\ row' \in Rows
    <3>1. CASE addFails
      <4>1. row' = [row EXCEPT !.key = k] /\ total' = total
        BY <3>1, <2>1
      <4>2. row' \in Rows /\ row'.key = k
        BY <4>1, <2>3 DEF TypeOK, Rows
      <4> QED BY <4>1, <4>2, <2>3, <1>a DEF Honest, RecordedSince
    <3>2. CASE ~addFails
      <4>1. row' = [row EXCEPT !.key = paid] /\ total' = total + cost[r]
        BY <3>2, <2>1
      <4>2. row' \in Rows /\ row'.key = paid
        BY <4>1, <2>4 DEF TypeOK, Rows
      <4>3. paid.start <= now /\ paid.spend <= RecordedSince(paid.start) + cost[r]
        <5>1. k.spend \in Nat /\ k.start \in Periods \cup {NoStart}
          BY <2>3 DEF Spends
        <5>2. RecordedSince(k.start) \in Int
          BY <5>1, <2>2 DEF RecordedSince, TypeOK
        <5> QED BY <2>2, <2>3, <2>4, <5>1, <5>2 DEF Honest
      <4>4. \A s \in Periods \cup {NoStart} :
               RecordedSince(s)' = RecordedSince(s) + cost[r]
        <5>1. \A s \in Periods : before[s] \in Nat /\ before'[s] = before[s]
          BY <1>a DEF TypeOK
        <5> QED BY <4>1, <2>2, <5>1 DEF RecordedSince
      <4>5. row'.key.start \in Periods \cup {NoStart}
        BY <4>2, <2>4 DEF Spends
      <4> QED BY <4>2, <4>3, <4>4, <4>5, <1>a DEF Honest
    <3> QED BY <3>1, <3>2
  <2>7. UNCHANGED <<now, present, entry, op, before>>
    BY <1>8 DEF Record
  <2>8. \A x \in Requests : mark'[x] <= now
    BY <1>8 DEF Record, Drop, TypeOK, Periods, NoStart
  <2>9. faults' \in 0 .. MaxFaults
    BY <2>1 DEF TypeOK
  <2>10. TypeOK'
    <3>1. /\ phase' \in [Requests -> Phases]
          /\ mark' \in [Requests -> Periods \cup {NoStart}]
          /\ cost' \in [Requests -> Nat]
          /\ admitted' \in [Requests -> Periods]
      BY <1>8 DEF Record, Drop, TypeOK, Phases, Periods
    <3> QED BY <3>1, <2>5, <2>6, <2>7, <2>9 DEF TypeOK
  <2>11. Honest(entry)'
    <3>1. entry.start \in Periods \cup {NoStart} /\ entry.spend \in Nat
      BY DEF TypeOK, Spends
    <3>2. RecordedSince(entry.start) <= RecordedSince(entry.start)'
      BY <3>1, <2>2, <2>5, <2>7 DEF RecordedSince, TypeOK
    <3>3. RecordedSince(entry.start) \in Int /\ RecordedSince(entry.start)' \in Int
      BY <3>1, <2>2, <2>5, <2>7 DEF RecordedSince, TypeOK
    <3> QED BY <3>1, <3>2, <3>3, <2>7 DEF Honest
  <2>12. \A p \in Periods : before'[p] <= total'
    BY <2>5, <2>7 DEF TypeOK
  <2> QED BY <2>6, <2>7, <2>8, <2>10, <2>11, <2>12
<1> QED BY <1>1, <1>2, <1>3, <1>4, <1>5, <1>6, <1>7, <1>8 DEF Serve

\* Every step of an administrator preserves the invariant.
LEMMA LedgerAdminister ==
  ASSUME LedgerInv, NEW a \in Admins, Administer(a)
  PROVE  LedgerInv'
<1> USE NumbersAssumption DEF LedgerInv
<1>a. UNCHANGED <<now, phase, mark, cost, admitted, total, before, faults>>
  BY DEF Administer, CreateRow, CreateEntry, UpdateRow, UpdateEntry, RevokeRow,
         RevokeEntry, reqVars, history
<1>b. /\ now \in Nat /\ now \in Periods /\ total \in Nat
      /\ before \in [Periods -> Nat] /\ before[now] <= total
      /\ NoStart \notin Periods
  BY DEF TypeOK, Periods, NoStart
<1>c. \A k \in Spends : k.start \in {now, NoStart} /\ k.spend = 0 => Honest(k)
  BY <1>b DEF Honest, RecordedSince, NoStart
<1>d. ASSUME row' \in Rows, present' \in BOOLEAN, entry' \in Spends,
             op' \in [Admins -> Ops], Honest(row.key)', Honest(entry)'
      PROVE  LedgerInv'
  BY <1>a, <1>d DEF TypeOK
<1>e. /\ row \in Rows /\ row.key \in Spends /\ entry \in Spends
      /\ present \in BOOLEAN /\ op \in [Admins -> Ops] /\ Idle \in Ops
  BY DEF TypeOK, Rows, Ops
<1>1. CASE CreateRow(a)
  <2>1. PICK l \in Limits :
          /\ row' = [state |-> "active",
                     key |-> Fresh(l, IF l.periodic THEN now ELSE NoStart)]
          /\ op'  = [op EXCEPT ![a] = [kind |-> "creating", limits |-> l]]
    BY <1>1 DEF CreateRow
  <2> DEFINE k == Fresh(l, IF l.periodic THEN now ELSE NoStart)
  <2>2. k \in Spends /\ k.start \in {now, NoStart} /\ k.spend = 0
    BY <1>b, FreshType
  <2>3. row' \in Rows /\ row'.key = k
    BY <2>1, <2>2 DEF Rows
  <2>4. Honest(k)
    BY <1>c, <2>2
  <2>5. Honest(row.key)'
    BY <1>a, <2>3, <2>4 DEF Honest, RecordedSince
  <2>6. op' \in [Admins -> Ops]
    BY <1>e, <2>1 DEF Ops
  <2> QED BY <1>1, <1>a, <1>d, <1>e, <2>3, <2>5, <2>6
          DEF CreateRow, Honest, RecordedSince
<1>2. CASE CreateEntry(a)
  <2>1. op[a].limits \in Limits
    BY <1>2, OpLimits DEF CreateEntry
  <2>2. /\ entry' = Fresh(op[a].limits, now) /\ entry' \in Spends
        /\ entry'.start = now /\ entry'.spend = 0
    BY <1>2, <1>b, <2>1, FreshType DEF CreateEntry
  <2>3. Honest(entry)'
    BY <1>a, <1>c, <2>2 DEF Honest, RecordedSince
  <2>4. op' \in [Admins -> Ops] /\ present' \in BOOLEAN /\ row' = row
    BY <1>2, <1>e DEF CreateEntry
  <2> QED BY <1>a, <1>d, <1>e, <2>2, <2>3, <2>4 DEF Honest, RecordedSince
<1>3. CASE UpdateRow(a)
  <2>1. PICK l \in Limits :
          /\ row' = [row EXCEPT !.key = WithLimits(@, l)]
          /\ op'  = [op EXCEPT ![a] = [kind |-> "updating", limits |-> l]]
    BY <1>3 DEF UpdateRow
  <2> DEFINE k == WithLimits(row.key, l)
  <2>2. /\ k \in Spends
        /\ \/ k.start = NoStart /\ k.spend = 0
           \/ k.start = row.key.start /\ k.spend = row.key.spend
    BY <1>e, WithLimitsType
  <2>3. Honest(k)
    BY <1>c, <2>2 DEF Honest
  <2>4. row' \in Rows /\ row'.key = k
    BY <1>e, <2>1, <2>2 DEF Rows
  <2>5. Honest(row.key)'
    BY <1>a, <2>3, <2>4 DEF Honest, RecordedSince
  <2>6. op' \in [Admins -> Ops]
    BY <1>e, <2>1 DEF Ops
  <2> QED BY <1>3, <1>a, <1>d, <1>e, <2>4, <2>5, <2>6
          DEF UpdateRow, Honest, RecordedSince
<1>4. CASE UpdateEntry(a)
  <2>1. op[a].limits \in Limits
    BY <1>4, OpLimits DEF UpdateEntry
  <2> DEFINE k == WithLimits(entry, op[a].limits)
  <2>2. /\ k \in Spends
        /\ \/ k.start = NoStart /\ k.spend = 0
           \/ k.start = entry.start /\ k.spend = entry.spend
    BY <1>e, <2>1, WithLimitsType
  <2>3. entry' \in Spends /\ Honest(entry)'
    <3>1. CASE present
      <4>1. op[a].limits.periodic \/ entry.periodic \in BOOLEAN
        BY <1>e, <2>1 DEF Limits, Spends
      <4>2. entry' = [k EXCEPT !.periodic = op[a].limits.periodic \/ entry.periodic]
        BY <1>4, <3>1 DEF UpdateEntry
      <4>3. /\ entry' \in Spends
            /\ entry'.start = k.start /\ entry'.spend = k.spend
        BY <2>2, <4>1, <4>2 DEF Spends
      <4>4. Honest(k)
        BY <1>c, <2>2 DEF Honest
      <4> QED BY <1>a, <4>3, <4>4 DEF Honest, RecordedSince
    <3>2. CASE ~present
      BY <1>4, <1>a, <1>e, <3>2 DEF UpdateEntry, Honest, RecordedSince
    <3> QED BY <3>1, <3>2
  <2>4. op' \in [Admins -> Ops] /\ present' = present /\ row' = row
    BY <1>4, <1>e DEF UpdateEntry
  <2> QED BY <1>a, <1>d, <1>e, <2>3, <2>4 DEF Honest, RecordedSince
<1>5. CASE RevokeRow(a)
  <2>1. row' \in Rows /\ row'.key = row.key
    BY <1>5, <1>e DEF RevokeRow, Rows
  <2>2. op' \in [Admins -> Ops] /\ UNCHANGED <<present, entry>>
    BY <1>5, <1>e DEF RevokeRow, Ops
  <2> QED BY <1>a, <1>d, <1>e, <2>1, <2>2 DEF Honest, RecordedSince
<1>6. CASE RevokeEntry(a)
  <2>1. op' \in [Admins -> Ops] /\ present' \in BOOLEAN /\ UNCHANGED <<row, entry>>
    BY <1>6, <1>e DEF RevokeEntry
  <2> QED BY <1>a, <1>d, <1>e, <2>1 DEF Honest, RecordedSince
<1> QED BY <1>1, <1>2, <1>3, <1>4, <1>5, <1>6 DEF Administer

\* A new period begins with nothing recorded in it, and with no mark or copy of
\* the key that has begun it already.
LEMMA LedgerNextPeriod == LedgerInv /\ NextPeriod => LedgerInv'
<1> SUFFICES ASSUME LedgerInv, NextPeriod PROVE LedgerInv'
  OBVIOUS
<1> USE NumbersAssumption DEF LedgerInv
<1>1. /\ now \in Nat /\ now + 1 \in Periods /\ now' = now + 1
      /\ before' = [before EXCEPT ![now + 1] = total]
      /\ UNCHANGED <<row, present, entry, phase, mark, cost, op, admitted, total, faults>>
      /\ total \in Nat /\ before \in [Periods -> Nat]
  BY DEF NextPeriod, reqVars, TypeOK, Periods
<1>2. TypeOK'
  BY <1>1 DEF TypeOK
<1>3. \A k \in Spends : Honest(k) => k.start <= now' /\ RecordedSince(k.start)' = RecordedSince(k.start)
  <2>1. SUFFICES ASSUME NEW k \in Spends, Honest(k)
                 PROVE  k.start <= now' /\ RecordedSince(k.start)' = RecordedSince(k.start)
    OBVIOUS
  <2>2. k.start \in Periods \cup {NoStart} /\ k.start <= now
    BY <2>1 DEF Spends, Honest
  <2>3. k.start \in Int
    BY <2>2 DEF Periods, NoStart
  <2>4. k.start # now + 1
    BY <1>1, <2>2, <2>3
  <2> QED BY <1>1, <2>2, <2>3, <2>4 DEF RecordedSince
<1>4. row.key \in Spends /\ entry \in Spends
  BY DEF TypeOK, Rows
<1>5. Honest(row.key)' /\ Honest(entry)'
  BY <1>1, <1>3, <1>4 DEF Honest
<1>6. \A r \in Requests : mark'[r] <= now'
  <2>1. Periods \cup {NoStart} \subseteq Int
    BY DEF Periods, NoStart
  <2>2. \A r \in Requests : mark[r] \in Int /\ mark[r] <= now
    BY <2>1 DEF TypeOK
  <2> QED BY <1>1, <2>2
<1>7. \A p \in Periods : before'[p] <= total'
  BY <1>1
<1> QED BY <1>2, <1>5, <1>6, <1>7

\* Pruning an entry changes neither copy.
LEMMA LedgerPrune == LedgerInv /\ Prune => LedgerInv'
<1> SUFFICES ASSUME LedgerInv, Prune PROVE LedgerInv'
  OBVIOUS
<1>1. UNCHANGED <<now, row, entry, phase, mark, cost, op, admitted, total, before, faults>>
  BY DEF Prune, reqVars, history
<1>2. TypeOK'
  BY <1>1 DEF LedgerInv, TypeOK, Prune
<1> QED BY <1>1, <1>2 DEF LedgerInv, Honest, RecordedSince

\* A restart replaces the entry by the row, which is no less honest.
LEMMA LedgerRestart == LedgerInv /\ Restart => LedgerInv'
<1> SUFFICES ASSUME LedgerInv, Restart PROVE LedgerInv'
  OBVIOUS
<1> USE NumbersAssumption DEF LedgerInv
<1>1. UNCHANGED <<now, row, total, before>> /\ entry' = row.key
  BY DEF Restart
<1>2. now \in Nat /\ row.key \in Spends
  BY DEF TypeOK, Rows, Periods
<1>3. Honest(row.key)' /\ Honest(entry)'
  BY <1>1 DEF Honest, RecordedSince
<1>4. \A r \in Requests : mark'[r] <= now'
  <2>1. \A r \in Requests : mark'[r] = -1
    BY DEF Restart, NoStart
  <2>2. -1 <= now
    BY <1>2
  <2> QED BY <1>1, <2>1, <2>2
<1>5. TypeOK'
  <2>1. faults' \in 0 .. MaxFaults /\ present' \in BOOLEAN
    BY DEF Restart, TypeOK
  <2>2. phase' \in [Requests -> Phases]
    BY DEF Restart, TypeOK, Phases
  <2>3. /\ mark' \in [Requests -> Periods \cup {NoStart}]
        /\ cost' \in [Requests -> Nat]
        /\ admitted' \in [Requests -> Periods]
    BY DEF Restart, Periods
  <2>4. op' \in [Admins -> Ops]
    BY DEF Restart, Ops
  <2> QED BY <1>1, <1>2, <2>1, <2>2, <2>3, <2>4 DEF TypeOK
<1> QED BY <1>1, <1>3, <1>4, <1>5

\* A stuttering step preserves the invariant.
LEMMA LedgerStutter == LedgerInv /\ UNCHANGED vars => LedgerInv'
BY DEF LedgerInv, vars, reqVars, history, TypeOK, Honest, RecordedSince

\* LedgerInv is an invariant of the specification.
LEMMA LedgerAlways == Spec => []LedgerInv
<1>1. LedgerInv /\ [Next]_vars => LedgerInv'
  BY LedgerServe, LedgerAdminister, LedgerNextPeriod, LedgerPrune,
     LedgerRestart, LedgerStutter DEF Next
<1> QED BY <1>1, LedgerInit, PTL DEF Spec

-----------------------------------------------------------------------------
(* The theorems *)

\* TypeOK is an invariant: the row and the entry of a key (admin/keys.rs,
\* virtual_api_key) and the requests that use it keep their types.
THEOREM TypeCorrect == Spec => []TypeOK
<1>1. LedgerInv => TypeOK
  BY DEF LedgerInv
<1> QED BY <1>1, LedgerAlways, PTL

\* SpendNotOverstated is an invariant: whatever record_cost, update_virtual_key,
\* a failed reset_period_spend or a restart does to a key, neither copy of it
\* holds more for its period than was recorded since that period began.
THEOREM SpendHonest == Spec => []SpendNotOverstated
<1>1. LedgerInv => SpendNotOverstated
  BY DEF LedgerInv, Honest, SpendNotOverstated
<1> QED BY <1>1, LedgerAlways, PTL

\* Only a step of the request itself blocks it.
LEMMA BlockedByRefusal ==
  ASSUME TypeOK, NEW r \in Requests, [Next]_vars,
         phase'[r] = "blocked", phase[r] = "new"
  PROVE  RefuseOverBudget(r)
<1>0. phase \in [Requests -> Phases]
  BY DEF TypeOK
<1>1. ASSUME NEW q \in Requests, Serve(q) PROVE RefuseOverBudget(r)
  <2>1. CASE RefuseExpired(q)
    BY <1>0, <2>1 DEF RefuseExpired
  <2>2. CASE Evict(q)
    BY <1>0, <2>2 DEF Evict
  <2>3. CASE RefuseOverBudget(q)
    BY <1>0, <2>3 DEF RefuseOverBudget
  <2>4. CASE Admit(q)
    BY <1>0, <2>4 DEF Admit
  <2>5. CASE Respond(q)
    BY <1>0, <2>5 DEF Respond
  <2>6. CASE Price(q)
    BY <1>0, <2>6 DEF Price
  <2>7. CASE FinishFree(q)
    BY <1>0, <2>7 DEF FinishFree, Drop
  <2>8. CASE Record(q)
    BY <1>0, <2>8 DEF Record, Drop
  <2> QED BY <1>1, <2>1, <2>2, <2>3, <2>4, <2>5, <2>6, <2>7, <2>8 DEF Serve
<1>2. ASSUME NEW a \in Admins, Administer(a) PROVE phase' = phase
  BY <1>2 DEF Administer, CreateRow, CreateEntry, UpdateRow, UpdateEntry,
              RevokeRow, RevokeEntry, reqVars
<1>3. NextPeriod \/ Prune \/ UNCHANGED vars => phase' = phase
  BY DEF NextPeriod, Prune, vars, reqVars
<1>4. Restart => phase'[r] = "new"
  BY DEF Restart
<1> QED BY <1>1, <1>2, <1>3, <1>4 DEF Next

\* BlockedOnlyWhenSpent holds of every step: validate_auth answers
\* budget_exceeded to no key that has not spent its budget.
THEOREM BlockedFairly == Spec => BlockedOnlyWhenSpent
<1>1. ASSUME LedgerInv, [Next]_vars, NEW r \in Requests,
             phase'[r] = "blocked", phase[r] = "new"
      PROVE  RecordedSince(IF entry.periodic THEN now ELSE NoStart) >= entry.budget
  <2>1. RefuseOverBudget(r)
    BY <1>1, BlockedByRefusal DEF LedgerInv
  <2>2. /\ Checked \in Spends /\ Honest(Checked)
        /\ Checked.budget = entry.budget
        /\ entry.periodic /\ entry.budget # NoLimit => Checked.start = now
    BY <1>1, CheckedHonest
  <2>3. entry.budget # NoLimit /\ Checked.spend >= entry.budget
    BY <2>1, <2>2 DEF RefuseOverBudget, OverBudget
  <2>4. entry.budget \in Nat /\ entry.periodic \in BOOLEAN
    BY <1>1, <2>3, BudgetsAssumption DEF LedgerInv, TypeOK, Spends
  <2>5. /\ now \in Periods /\ total \in Nat /\ before \in [Periods -> Nat]
        /\ Checked.spend \in Nat /\ Checked.start \in Periods \cup {NoStart}
        /\ NoStart \notin Periods
    BY <1>1, <2>2 DEF LedgerInv, TypeOK, Spends, Periods, NoStart
  <2>6. CASE entry.periodic
    <3>1. Checked.start = now /\ Checked.spend <= RecordedSince(now)
      BY <2>2, <2>3, <2>6 DEF Honest
    <3>2. RecordedSince(now) \in Int
      BY <2>5 DEF RecordedSince
    <3> QED BY <2>3, <2>4, <2>5, <2>6, <3>1, <3>2
  <2>7. CASE ~entry.periodic
    <3>1. Checked.spend <= RecordedSince(Checked.start)
      BY <2>2 DEF Honest
    <3>2. RecordedSince(Checked.start) <= total /\ RecordedSince(Checked.start) \in Int
      BY <2>5 DEF RecordedSince
    <3>3. RecordedSince(NoStart) = total
      BY DEF RecordedSince
    <3> QED BY <2>3, <2>4, <2>5, <2>7, <3>1, <3>2, <3>3
  <2> QED BY <2>4, <2>6, <2>7
<1>2. LedgerInv /\ [Next]_vars =>
        \A r \in Requests : phase'[r] = "blocked" /\ phase[r] = "new" =>
          RecordedSince(IF entry.periodic THEN now ELSE NoStart) >= entry.budget
  BY <1>1
<1>3. Spec => [][Next]_vars
  BY PTL DEF Spec
<1> QED BY <1>2, <1>3, LedgerAlways, PTL DEF BlockedOnlyWhenSpent

\* RevokedStaysOut holds of every step: neither update_key's and_modify nor
\* load_virtual_keys puts the entry of a revoked key back.
THEOREM RevokedOut == Spec => RevokedStaysOut
<1>1. ASSUME [Next]_vars, row.state = "revoked", ~present,
             \A a \in Admins : op[a].kind # "creating"
      PROVE  ~present'
  <2>1. ASSUME NEW r \in Requests, Serve(r) PROVE ~present'
    BY <1>1, <2>1 DEF Serve, RefuseExpired, Evict, RefuseOverBudget, Admit,
                      Respond, Price, FinishFree, Record
  <2>2. ASSUME NEW a \in Admins, Administer(a) PROVE ~present'
    BY <1>1, <2>2 DEF Administer, CreateRow, CreateEntry, UpdateRow,
                      UpdateEntry, RevokeRow, RevokeEntry
  <2>3. CASE NextPeriod \/ Prune
    BY <1>1, <2>3 DEF NextPeriod, Prune
  <2>4. CASE Restart
    BY <1>1, <2>4 DEF Restart
  <2>5. CASE UNCHANGED vars
    BY <1>1, <2>5 DEF vars
  <2> QED BY <1>1, <2>1, <2>2, <2>3, <2>4, <2>5 DEF Next
<1>2. [Next]_vars =>
        (row.state = "revoked" /\ ~present
           /\ (\A a \in Admins : op[a].kind # "creating") => ~present')
  BY <1>1
<1> QED BY <1>2, PTL DEF Spec, RevokedStaysOut
=============================================================================

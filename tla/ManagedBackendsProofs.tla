------------------------ MODULE ManagedBackendsProofs ------------------------
(***************************************************************************)
(* For any number of backends, settings and administrators: the map of     *)
(* clients and the dispatch table stay in step with the rows of SQLite.    *)
(***************************************************************************)
EXTENDS ManagedBackends, TLAPS

\* What the handlers have in hand.
Shape ==
  \A h \in Handlers :
    /\ ~Busy(h) => call[h] = Idle
    /\ call[h].stage \in {"lookup", "write", "map"} => call[h].name \in Names

\* Handlers of the same backend have disturbed it,
Overlaps ==
  \A h \in Handlers, k \in Handlers :
    h # k /\ call[h].name = call[k].name /\ call[h].name # None
      => call[h].name \in disturbed

\* and a handler is alone if the others are idle.
Alone ==
  \A h \in Handlers, k \in Handlers : call[h].alone /\ h # k => ~Busy(k)

Calls == Shape /\ Overlaps /\ Alone

\* The map has the entry that a restart would load, or a handler is about to
\* write it; and an update will write the same row to both places.
MapOf(m) ==
  /\ (\A h \in Handlers : call[h].stage = "map" => call[h].name # m)
       => map[m] = Loaded(rows[m], catalog)
  /\ \A h \in Handlers :
       call[h].stage = "map" /\ call[h].name = m => call[h].row = Loaded(rows[m], catalog)
  /\ \A h \in Handlers :
       call[h].stage = "write" /\ call[h].name = m =>
         /\ rows[m] # None
         /\ call[h].row = Patched(rows[m], call[h].patch)
         /\ call[h].row.setting \in catalog

MapsInStep == \A m \in Names \ disturbed : MapOf(m)

\* A handler that is alone has compiled the rows as they are.
Compiled ==
  \A h \in Handlers : call[h].stage = "swap" /\ call[h].alone => call[h].built = Live

BackendInv ==
  TypeOK /\ Calls /\ MapsInStep /\ Compiled /\ TableInStep

-----------------------------------------------------------------------------
(* What the helpers return *)

\* A patched row is a row.
LEMMA PatchedType ==
  ASSUME NEW row \in Row, NEW patch \in Patches \cup {NoPatch}
  PROVE  Patched(row, patch) \in Row
  BY NoneAssumption, PatchesAssumption DEF Patched, Row, NoPatch

\* A handler that does nothing is well typed.
LEMMA IdleType == Idle \in Call
  BY DEF Idle, Call

\* What the start of a handler amounts to.
Started(h, s, n, row, patch) ==
  /\ call[h] = Idle
  /\ call'[h].stage = s /\ call'[h].name = n /\ call'[h].row = row
  /\ call'[h].patch = patch
  /\ call'[h].alone => \A k \in Handlers : ~Busy(k)
  /\ \A k \in Handlers \ {h} :
       /\ ~call'[k].alone
       /\ call'[k].stage = call[k].stage /\ call'[k].name = call[k].name
       /\ call'[k].row = call[k].row     /\ call'[k].patch = call[k].patch
       /\ call'[k].built = call[k].built
       /\ ~Busy(k) => call'[k] = call[k]
  /\ call' \in [Handlers -> Call]
  /\ disturbed \subseteq disturbed' /\ disturbed' \subseteq Names
  /\ n \in Names \ disturbed' =>
       n \notin disturbed /\ \A k \in Handlers : call[k].name # n

\* A handler that starts leaves what the others have in hand alone, and none of
\* them is alone any more.
LEMMA StartSteps ==
  ASSUME TypeOK, Shape,
         NEW h \in Handlers, NEW s \in {"lookup", "write", "map", "build"},
         NEW n \in Names \cup {None}, NEW row \in Row \cup {None},
         NEW patch \in Patches \cup {NoPatch},
         Start(h, s, n, row, patch)
  PROVE  Started(h, s, n, row, patch)
<1>1. call[h] = Idle
  BY DEF Start, Shape
<1>2. call'[h] = [stage |-> s, name |-> n, row |-> row, patch |-> patch,
                  built |-> {}, alone |-> \A j \in Handlers : ~Busy(j)]
  BY DEF Start
<1>3. call'[h] \in Call
  BY <1>2 DEF Call
<1>4. ASSUME NEW k \in Handlers \ {h}
      PROVE  /\ ~call'[k].alone
             /\ call'[k].stage = call[k].stage /\ call'[k].name = call[k].name
             /\ call'[k].row = call[k].row     /\ call'[k].patch = call[k].patch
             /\ call'[k].built = call[k].built
             /\ ~Busy(k) => call'[k] = call[k]
             /\ call'[k] \in Call
  <2>1. call[k] \in Call
    BY DEF TypeOK
  <2>2. CASE Busy(k)
    <3>1. call'[k] = [call[k] EXCEPT !.alone = FALSE]
      BY <2>2 DEF Start
    <3>2. call'[k] = [stage |-> call[k].stage, name |-> call[k].name, row |-> call[k].row,
                      patch |-> call[k].patch, built |-> call[k].built, alone |-> FALSE]
      BY <2>1, <3>1 DEF Call
    <3>. QED  BY <2>1, <2>2, <3>2 DEF Call
  <2>3. CASE ~Busy(k)
    <3>1. call'[k] = call[k] /\ call[k] = Idle
      BY <2>3 DEF Start, Shape
    <3>. QED  BY <2>1, <3>1 DEF Idle
  <2>. QED  BY <2>2, <2>3
<1>5. call' = [k \in Handlers |-> call'[k]]
  BY DEF Start
<1>6. call' \in [Handlers -> Call]
  BY <1>3, <1>4, <1>5
<1>7. disturbed \subseteq disturbed' /\ disturbed' \subseteq Names
  BY DEF Start, TypeOK
<1>8. n \in Names \ disturbed' =>
        n \notin disturbed /\ \A k \in Handlers : call[k].name # n
  BY NoneAssumption DEF Start
<1>9. /\ call'[h].stage = s /\ call'[h].name = n /\ call'[h].row = row
      /\ call'[h].patch = patch
      /\ call'[h].alone => \A k \in Handlers : ~Busy(k)
  BY <1>2
<1>. QED  BY <1>1, <1>4, <1>6, <1>7, <1>8, <1>9 DEF Started

\* A handler that starts keeps the calls in order.
LEMMA StartKeepsCalls ==
  ASSUME TypeOK, Calls,
         NEW h \in Handlers, NEW s \in {"lookup", "write", "map", "build"},
         NEW n \in Names \cup {None}, NEW row \in Row \cup {None},
         NEW patch \in Patches \cup {NoPatch},
         s # "build" => n \in Names,
         Start(h, s, n, row, patch)
  PROVE  Calls'
<1>0. Started(h, s, n, row, patch)
  BY StartSteps DEF Calls
<1>1. /\ call[h] = Idle
      /\ call'[h].stage = s /\ call'[h].name = n
      /\ call'[h].alone => \A k \in Handlers : ~Busy(k)
      /\ \A k \in Handlers \ {h} :
           /\ ~call'[k].alone
           /\ call'[k].stage = call[k].stage /\ call'[k].name = call[k].name
           /\ ~Busy(k) => call'[k] = call[k]
      /\ disturbed \subseteq disturbed'
      /\ n \in Names \ disturbed' => \A k \in Handlers : call[k].name # n
  BY <1>0 DEF Started
<1>2. Shape'
  <2>. SUFFICES ASSUME NEW k \in Handlers
                PROVE  /\ call'[k].stage = "idle" => call'[k] = Idle
                       /\ call'[k].stage \in {"lookup", "write", "map"} => call'[k].name \in Names
    BY DEF Shape, Busy
  <2>1. CASE k = h
    BY <1>1, <2>1
  <2>2. CASE k # h
    BY <1>1, <2>2 DEF Calls, Shape, Busy
  <2>. QED  BY <2>1, <2>2
<1>3. Overlaps'
  <2>. SUFFICES ASSUME NEW k \in Handlers, NEW j \in Handlers, k # j,
                       call'[k].name = call'[j].name, call'[k].name # None
                PROVE  call'[k].name \in disturbed'
    BY DEF Overlaps
  <2>1. CASE k # h /\ j # h
    BY <1>1, <2>1 DEF Calls, Overlaps
  <2>2. CASE k = h
    BY <1>1, <2>2
  <2>3. CASE j = h
    BY <1>1, <2>3
  <2>. QED  BY <2>1, <2>2, <2>3
<1>4. Alone'
  <2>. SUFFICES ASSUME NEW k \in Handlers, NEW j \in Handlers, call'[k].alone, k # j
                PROVE  call'[j].stage = "idle"
    BY DEF Alone, Busy
  <2>. QED  BY <1>1 DEF Busy
<1>. QED  BY <1>2, <1>3, <1>4 DEF Calls

\* And so does a handler that goes on alone or not as it was, with its backend or
\* with none, or that ends.
LEMMA StepKeepsCalls ==
  ASSUME TypeOK, Calls, NEW h \in Handlers, NEW c \in Call,
         call' = [call EXCEPT ![h] = c], disturbed \subseteq disturbed',
         \/ c = Idle
         \/ /\ Busy(h) /\ c.stage # "idle" /\ c.alone = call[h].alone
            /\ c.name = call[h].name \/ c.name = None
            /\ c.stage \in {"lookup", "write", "map"} => c.name \in Names
  PROVE  Calls'
<1>1. call'[h] = c /\ \A k \in Handlers \ {h} : call'[k] = call[k]
  BY DEF TypeOK
<1>2. Idle.stage = "idle" /\ Idle.name = None /\ Idle.alone = FALSE
  BY DEF Idle
<1>3. Shape'
  BY <1>1, <1>2 DEF Calls, Shape, Busy
<1>4. Overlaps'
  BY <1>1, <1>2 DEF Calls, Overlaps
<1>5. Alone'
  BY <1>1, <1>2 DEF Calls, Alone, Busy
<1>. QED  BY <1>3, <1>4, <1>5 DEF Calls

\* The strengthening says what is checked.
LEMMA MapsInStepMeans == MapsInStep => MapInStep
  BY DEF MapsInStep, MapOf, MapInStep, Pending

-----------------------------------------------------------------------------
(* The steps that start a handler *)

\* What a restart loads of a row is the row, or nothing.
LEMMA LoadedType ==
  ASSUME NEW row \in Row \cup {None}, NEW accepted
  PROVE  Loaded(row, accepted) \in Row \cup {None}
  BY DEF Loaded

\* A backend that the new handler is not about is as it was.
LEMMA StartKeepsOthers ==
  ASSUME TypeOK, Calls, MapsInStep,
         NEW h \in Handlers, NEW s \in {"lookup", "write", "map", "build"},
         NEW n \in Names \cup {None}, NEW row \in Row \cup {None},
         NEW patch \in Patches \cup {NoPatch},
         Start(h, s, n, row, patch), UNCHANGED <<map, catalog>>,
         NEW m \in Names \ disturbed', m # n, rows'[m] = rows[m]
  PROVE  MapOf(m)'
<1>0. Started(h, s, n, row, patch)
  BY StartSteps DEF Calls
<1>1. /\ call'[h].name = n
      /\ \A k \in Handlers \ {h} :
           /\ call'[k].stage = call[k].stage /\ call'[k].name = call[k].name
           /\ call'[k].row = call[k].row     /\ call'[k].patch = call[k].patch
      /\ disturbed \subseteq disturbed'
      /\ call[h] = Idle
  BY <1>0 DEF Started
<1>2. MapOf(m)
  BY <1>1 DEF MapsInStep
<1>3. call[h].stage = "idle"
  BY <1>1 DEF Idle
<1>. QED  BY <1>1, <1>2, <1>3 DEF MapOf

\* The backend it is about has no other handler, and its entry is in step.
LEMMA StartFindsInStep ==
  ASSUME TypeOK, Calls, MapsInStep,
         NEW h \in Handlers, NEW s \in {"lookup", "write", "map", "build"},
         NEW n \in Names \ disturbed', NEW row \in Row \cup {None},
         NEW patch \in Patches \cup {NoPatch},
         Start(h, s, n, row, patch)
  PROVE  /\ map[n] = Loaded(rows[n], catalog)
         /\ call'[h].stage = s /\ call'[h].row = row /\ call'[h].patch = patch
         /\ call'[h].name = n
         /\ \A k \in Handlers \ {h} : call'[k].name # n
<1>0. Started(h, s, n, row, patch)
  <2>1. n \in Names \cup {None}
    OBVIOUS
  <2>. QED  BY <2>1, StartSteps DEF Calls
<1>1. n \notin disturbed /\ \A k \in Handlers : call[k].name # n
  BY <1>0 DEF Started
<1>2. MapOf(n)
  BY <1>1 DEF MapsInStep
<1>3. /\ call'[h].stage = s /\ call'[h].row = row /\ call'[h].patch = patch
      /\ call'[h].name = n
      /\ \A k \in Handlers \ {h} : call'[k].name = call[k].name
  BY <1>0 DEF Started
<1>. QED  BY <1>1, <1>2, <1>3 DEF MapOf

\* Whoever starts, no call is both alone and at the swap with an old table, and
\* if something was committed the table may wait.
LEMMA StartKeepsTable ==
  ASSUME BackendInv,
         NEW h \in Handlers, NEW s \in {"lookup", "write", "map", "build"},
         NEW n \in Names \cup {None}, NEW row \in Row \cup {None},
         NEW patch \in Patches \cup {NoPatch},
         Start(h, s, n, row, patch), UNCHANGED <<table, stale>>,
         s \in {"map", "build"} \/ UNCHANGED state
  PROVE  Compiled' /\ TableInStep'
<1>0. Started(h, s, n, row, patch)
  BY StartSteps DEF BackendInv, Calls
<1>1. /\ call'[h].stage = s
      /\ \A k \in Handlers \ {h} : ~call'[k].alone /\ call'[k].stage = call[k].stage
      /\ call[h] = Idle
  BY <1>0 DEF Started
<1>2. Compiled'
  BY <1>1 DEF Compiled
<1>3. TableInStep'
  <2>1. CASE s \in {"map", "build"}
    BY <1>1, <2>1 DEF TableInStep, Committed
  <2>2. CASE UNCHANGED state
    <3>1. Live' = Live
      BY <2>2 DEF state, Live
    <3>2. \A k \in Handlers : Committed(k) => Committed(k)'
      BY <1>1 DEF Committed, Idle
    <3>. QED  BY <3>1, <3>2 DEF BackendInv, TableInStep
  <2>. QED  BY <2>1, <2>2
<1>. QED  BY <1>2, <1>3

\* A create that writes its row.
LEMMA CreateStep ==
  ASSUME BackendInv, NEW h \in Handlers, NEW n \in Names, NEW row \in Row, Create(h, n, row)
  PROVE  BackendInv'
<1>1. Start(h, "map", n, row, NoPatch) /\ TypeOK /\ Calls /\ MapsInStep
  BY DEF Create, BackendInv
<1>2. TypeOK'
  <2>1. call' \in [Handlers -> Call] /\ disturbed' \subseteq Names
    BY <1>1, StartSteps DEF Calls, Started
  <2>. QED  BY <1>1, <2>1 DEF Create, TypeOK
<1>3. Calls'
  BY <1>1, StartKeepsCalls
<1>4. MapsInStep'
  <2>. SUFFICES ASSUME NEW m \in Names \ disturbed' PROVE MapOf(m)'
    BY DEF MapsInStep
  <2>1. CASE m # n
    <3>1. rows'[m] = rows[m] /\ UNCHANGED <<map, catalog>>
      BY <1>1, <2>1 DEF Create, TypeOK
    <3>. QED  BY <1>1, <2>1, <3>1, StartKeepsOthers
  <2>2. CASE m = n
    <3>1. /\ call'[h].stage = "map" /\ call'[h].row = row /\ call'[h].name = n
          /\ \A k \in Handlers \ {h} : call'[k].name # n
      BY <1>1, <2>2, StartFindsInStep
    <3>2. rows'[n] = row /\ row.setting \in catalog' /\ row # None
      BY <1>1, NoneAssumption DEF Create, TypeOK, Row
    <3>3. row = Loaded(rows'[n], catalog')
      BY <3>2 DEF Loaded
    <3>. QED  BY <2>2, <3>1, <3>3 DEF MapOf
  <2>. QED  BY <2>1, <2>2
<1>5. Compiled' /\ TableInStep'
  BY <1>1, StartKeepsTable DEF Create
<1>. QED  BY <1>2, <1>3, <1>4, <1>5 DEF BackendInv

\* A delete that removes its row.
LEMMA DeleteStep ==
  ASSUME BackendInv, NEW h \in Handlers, NEW n \in Names, Delete(h, n)
  PROVE  BackendInv'
<1>1. Start(h, "map", n, None, NoPatch) /\ TypeOK /\ Calls /\ MapsInStep
  BY DEF Delete, BackendInv
<1>2. TypeOK'
  <2>1. call' \in [Handlers -> Call] /\ disturbed' \subseteq Names
    BY <1>1, StartSteps DEF Calls, Started
  <2>. QED  BY <1>1, <2>1 DEF Delete, TypeOK
<1>3. Calls'
  BY <1>1, StartKeepsCalls
<1>4. MapsInStep'
  <2>. SUFFICES ASSUME NEW m \in Names \ disturbed' PROVE MapOf(m)'
    BY DEF MapsInStep
  <2>1. CASE m # n
    <3>1. rows'[m] = rows[m] /\ UNCHANGED <<map, catalog>>
      BY <1>1, <2>1 DEF Delete, TypeOK
    <3>. QED  BY <1>1, <2>1, <3>1, StartKeepsOthers
  <2>2. CASE m = n
    <3>1. /\ call'[h].stage = "map" /\ call'[h].row = None /\ call'[h].name = n
          /\ \A k \in Handlers \ {h} : call'[k].name # n
      BY <1>1, <2>2, StartFindsInStep
    <3>2. rows'[n] = None
      BY <1>1 DEF Delete, TypeOK
    <3>. QED  BY <2>2, <3>1, <3>2 DEF MapOf, Loaded
  <2>. QED  BY <2>1, <2>2
<1>5. Compiled' /\ TableInStep'
  BY <1>1, StartKeepsTable DEF Delete
<1>. QED  BY <1>2, <1>3, <1>4, <1>5 DEF BackendInv

\* The handlers of routes and providers.
LEMMA RouteStep ==
  ASSUME BackendInv, NEW h \in Handlers,
         Start(h, "build", None, None, NoPatch),
         UNCHANGED <<rows, map, table, catalog, stale>>,
         providers' \subseteq Names, route' \in BOOLEAN
  PROVE  BackendInv'
<1>1. TypeOK /\ Calls /\ MapsInStep
  BY DEF BackendInv
<1>2. TypeOK'
  <2>1. call' \in [Handlers -> Call] /\ disturbed' \subseteq Names
    BY <1>1, StartSteps DEF Calls, Started
  <2>. QED  BY <1>1, <2>1 DEF TypeOK
<1>3. Calls'
  BY <1>1, StartKeepsCalls
<1>4. MapsInStep'
  <2>. SUFFICES ASSUME NEW m \in Names \ disturbed' PROVE MapOf(m)'
    BY DEF MapsInStep
  <2>1. m # None /\ rows'[m] = rows[m]
    BY NoneAssumption
  <2>. QED  BY <1>1, <2>1, StartKeepsOthers
<1>5. Compiled' /\ TableInStep'
  BY StartKeepsTable
<1>. QED  BY <1>2, <1>3, <1>4, <1>5 DEF BackendInv

\* An update that begins: it has read the map.
LEMMA UpdateStep ==
  ASSUME BackendInv, NEW h \in Handlers, NEW n \in Names, NEW patch \in Patches,
         Update(h, n, patch)
  PROVE  BackendInv'
<1>1. TypeOK /\ Calls /\ MapsInStep
  BY DEF BackendInv
<1>. DEFINE s   == IF map[n] = None THEN "lookup" ELSE "write"
            row == IF map[n] = None THEN None ELSE Patched(map[n], patch)
<1>2. row \in Row \cup {None}
  BY <1>1, PatchedType DEF TypeOK
<1>3. /\ Start(h, s, n, row, patch) /\ s \in {"lookup", "write"}
      /\ UNCHANGED <<state, map, table, catalog, stale>>
      /\ s = "write" => map[n] # None /\ row = Patched(map[n], patch) /\ row.setting \in catalog
  BY DEF Update
<1>. HIDE DEF s, row
<1>4. UNCHANGED <<rows, providers, route>>
  BY <1>3 DEF state
<1>5. TypeOK'
  <2>1. call' \in [Handlers -> Call] /\ disturbed' \subseteq Names
    BY <1>1, <1>2, <1>3, StartSteps DEF Calls, Started
  <2>. QED  BY <1>1, <1>3, <1>4, <2>1 DEF TypeOK
<1>6. Calls'
  BY <1>1, <1>2, <1>3, StartKeepsCalls
<1>7. MapsInStep'
  <2>. SUFFICES ASSUME NEW m \in Names \ disturbed' PROVE MapOf(m)'
    BY DEF MapsInStep
  <2>1. CASE m # n
    BY <1>1, <1>2, <1>3, <1>4, <2>1, StartKeepsOthers
  <2>2. CASE m = n
    <3>1. /\ map[n] = Loaded(rows[n], catalog)
          /\ call'[h].stage = s /\ call'[h].row = row /\ call'[h].patch = patch
          /\ \A k \in Handlers \ {h} : call'[k].name # n
      BY <1>1, <1>2, <1>3, <2>2, StartFindsInStep
    <3>2. map[n] # None => map[n] = rows[n]
      BY <3>1 DEF Loaded
    <3>. QED  BY <1>3, <1>4, <2>2, <3>1, <3>2 DEF MapOf
  <2>. QED  BY <2>1, <2>2
<1>8. Compiled' /\ TableInStep'
  BY <1>2, <1>3, StartKeepsTable
<1>. QED  BY <1>5, <1>6, <1>7, <1>8 DEF BackendInv

-----------------------------------------------------------------------------
(* The steps of a handler that has started *)

\* What is in hand after two fields have changed.
ToWrite(c, row) == [c EXCEPT !.stage = "write", !.row = row]

\* The fields of a handler on its way to the row.
LEMMA ToWriteFields ==
  ASSUME NEW c \in Call, NEW row \in Row
  PROVE  /\ ToWrite(c, row) \in Call
         /\ ToWrite(c, row).stage = "write"
         /\ ToWrite(c, row).name = c.name
         /\ ToWrite(c, row).row = row
         /\ ToWrite(c, row).patch = c.patch
         /\ ToWrite(c, row).alone = c.alone
<1>1. ToWrite(c, row) \in Call
  BY DEF ToWrite, Call, NoPatch
<1>2. /\ ToWrite(c, row).stage = "write"
      /\ ToWrite(c, row).name = c.name
      /\ ToWrite(c, row).row = row
      /\ ToWrite(c, row).patch = c.patch
      /\ ToWrite(c, row).alone = c.alone
  BY DEF ToWrite, Call
<1>. QED  BY <1>1, <1>2

ToMap(c) == [c EXCEPT !.stage = "map", !.patch = NoPatch]

\* Of one on its way to the map.
LEMMA ToMapFields ==
  ASSUME NEW c \in Call
  PROVE  /\ ToMap(c) \in Call
         /\ ToMap(c).stage = "map"
         /\ ToMap(c).name = c.name
         /\ ToMap(c).row = c.row
         /\ ToMap(c).alone = c.alone
<1>1. ToMap(c) \in Call
  BY DEF ToMap, Call, NoPatch
<1>2. /\ ToMap(c).stage = "map"
      /\ ToMap(c).name = c.name
      /\ ToMap(c).row = c.row
      /\ ToMap(c).alone = c.alone
  BY DEF ToMap, Call
<1>. QED  BY <1>1, <1>2

ToSwap(c, built) == [c EXCEPT !.stage = "swap", !.built = built]

\* Of one on its way to the table.
LEMMA ToSwapFields ==
  ASSUME NEW c \in Call, NEW built \in SUBSET Names
  PROVE  /\ ToSwap(c, built) \in Call
         /\ ToSwap(c, built).stage = "swap"
         /\ ToSwap(c, built).name = c.name
         /\ ToSwap(c, built).built = built
         /\ ToSwap(c, built).alone = c.alone
<1>1. ToSwap(c, built) \in Call
  BY DEF ToSwap, Call, NoPatch
<1>2. /\ ToSwap(c, built).stage = "swap"
      /\ ToSwap(c, built).name = c.name
      /\ ToSwap(c, built).built = built
      /\ ToSwap(c, built).alone = c.alone
  BY DEF ToSwap, Call
<1>. QED  BY <1>1, <1>2

\* A handler that leaves the map alone, and does not come to write to it or to
\* the rows, leaves every backend as it was.
LEMMA StepKeepsMaps ==
  ASSUME TypeOK, MapsInStep, NEW h \in Handlers, NEW c \in Call,
         call' = [call EXCEPT ![h] = c], disturbed \subseteq disturbed',
         UNCHANGED <<rows, map, catalog>>,
         c.stage \notin {"write", "map"},
         call[h].stage # "map" \/ call[h].name \in disturbed'
  PROVE  MapsInStep'
<1>. SUFFICES ASSUME NEW m \in Names \ disturbed' PROVE MapOf(m)'
  BY DEF MapsInStep
<1>1. call'[h] = c /\ \A k \in Handlers \ {h} : call'[k] = call[k]
  BY DEF TypeOK
<1>2. MapOf(m)
  BY DEF MapsInStep
<1>. QED  BY <1>1, <1>2 DEF MapOf

\* While no row changes, the table is only put out of step by a handler that
\* ends with something committed.
LEMMA StepKeepsTable ==
  ASSUME TypeOK, Compiled, TableInStep, NEW h \in Handlers, NEW c \in Call,
         call' = [call EXCEPT ![h] = c], UNCHANGED <<state, table>>,
         c.stage # "swap",
         Committed(h) => c.stage \in {"map", "build"} \/ stale',
         stale => stale'
  PROVE  Compiled' /\ TableInStep'
<1>1. call'[h] = c /\ \A k \in Handlers \ {h} : call'[k] = call[k]
  BY DEF TypeOK
<1>2. Live' = Live
  BY DEF Live, state
<1>3. Compiled'
  BY <1>1, <1>2 DEF Compiled
<1>4. TableInStep'
  <2>. SUFFICES ASSUME ~stale', \A k \in Handlers : ~Committed(k)'
                PROVE  table' = Live'
    BY DEF TableInStep
  <2>1. \A k \in Handlers : ~Committed(k)
    BY <1>1 DEF Committed
  <2>. QED  BY <1>2, <2>1 DEF TableInStep
<1>. QED  BY <1>3, <1>4

\* An update that looks for its row in SQLite.
LEMMA UpdateLookupStep ==
  ASSUME BackendInv, NEW h \in Handlers, UpdateLookup(h)
  PROVE  BackendInv'
<1>. DEFINE n   == call[h].name
            row == Patched(rows[n], call[h].patch)
<1>1. /\ TypeOK /\ Calls /\ MapsInStep /\ Compiled /\ TableInStep
      /\ call[h] \in Call /\ call[h].stage = "lookup" /\ n \in Names
      /\ UNCHANGED <<state, map, table, catalog, disturbed, stale>>
      /\ UNCHANGED <<rows, providers, route>>
  BY DEF UpdateLookup, BackendInv, TypeOK, Calls, Shape, state
<1>2. CASE rows[n] = None \/ row.setting \notin catalog
  <2>1. call' = [call EXCEPT ![h] = Idle]
    BY <1>2 DEF UpdateLookup, End
  <2>2. TypeOK'
    BY <1>1, <2>1, IdleType DEF TypeOK
  <2>3. Calls'
    BY <1>1, <2>1, IdleType, StepKeepsCalls
  <2>4. MapsInStep'
    BY <1>1, <2>1, IdleType, StepKeepsMaps DEF Idle
  <2>5. Compiled' /\ TableInStep'
    BY <1>1, <2>1, IdleType, StepKeepsTable DEF Idle, Committed
  <2>. QED  BY <2>2, <2>3, <2>4, <2>5 DEF BackendInv
<1>3. CASE rows[n] # None /\ row.setting \in catalog
  <2>1. rows[n] \in Row
    BY <1>1, <1>3 DEF TypeOK
  <2>2. row \in Row
    BY <1>1, <2>1, PatchedType DEF Call
  <2>3. PICK c : c = ToWrite(call[h], row)
    OBVIOUS
  <2>4. call' = [call EXCEPT ![h] = c]
    BY <1>1, <1>3, <2>3 DEF TypeOK, UpdateLookup, ToWrite
  <2>5. /\ c \in Call /\ c.alone = call[h].alone
        /\ c.stage = "write" /\ c.name = n /\ c.row = row /\ c.patch = call[h].patch
    <3>. HIDE DEF row
    <3>1. call[h] \in Call
      BY <1>1
    <3>. QED  BY <3>1, <2>2, <2>3, ToWriteFields
  <2>6. call'[h] = c /\ \A k \in Handlers \ {h} : call'[k] = call[k]
    BY <1>1, <2>4 DEF TypeOK
  <2>7. TypeOK'
    BY <1>1, <2>4, <2>5 DEF TypeOK
  <2>8. Calls'
    BY <1>1, <2>4, <2>5, StepKeepsCalls DEF Busy
  <2>9. MapsInStep'
    <3>. SUFFICES ASSUME NEW m \in Names \ disturbed' PROVE MapOf(m)'
      BY DEF MapsInStep
    <3>1. MapOf(m)
      BY <1>1 DEF MapsInStep
    <3>. QED  BY <1>1, <1>3, <2>5, <2>6, <3>1 DEF MapOf
  <2>10. Compiled' /\ TableInStep'
    BY <1>1, <2>4, <2>5, StepKeepsTable DEF Committed
  <2>. QED  BY <2>7, <2>8, <2>9, <2>10 DEF BackendInv
<1>. QED  BY <1>2, <1>3

\* An update that writes its row.
LEMMA UpdateRowStep ==
  ASSUME BackendInv, NEW h \in Handlers, UpdateRow(h)
  PROVE  BackendInv'
<1>. DEFINE n   == call[h].name
            row == Patched(rows[n], call[h].patch)
<1>1. /\ TypeOK /\ Calls /\ MapsInStep /\ Compiled /\ TableInStep
      /\ call[h] \in Call /\ call[h].stage = "write" /\ n \in Names
      /\ UNCHANGED <<providers, route, map, table, catalog, disturbed, stale>>
  BY DEF UpdateRow, BackendInv, TypeOK, Calls, Shape
<1>2. CASE rows[n] = None
  <2>1. call' = [call EXCEPT ![h] = Idle] /\ rows' = rows
    BY <1>2 DEF UpdateRow, End
  <2>2. TypeOK'
    BY <1>1, <2>1, IdleType DEF TypeOK
  <2>3. Calls'
    BY <1>1, <2>1, IdleType, StepKeepsCalls
  <2>4. MapsInStep'
    BY <1>1, <2>1, IdleType, StepKeepsMaps DEF Idle
  <2>5. Compiled' /\ TableInStep'
    BY <1>1, <2>1, IdleType, StepKeepsTable DEF Idle, Committed, state
  <2>. QED  BY <2>2, <2>3, <2>4, <2>5 DEF BackendInv
<1>3. CASE rows[n] # None
  <2>1. PICK c : c = ToMap(call[h])
    OBVIOUS
  <2>2. /\ call' = [call EXCEPT ![h] = c]
        /\ rows' = [rows EXCEPT ![n] = row]
    BY <1>1, <1>3, <2>1 DEF TypeOK, UpdateRow, ToMap
  <2>3. /\ c \in Call /\ c.alone = call[h].alone
        /\ c.stage = "map" /\ c.name = n /\ c.row = call[h].row
    BY <1>1, <2>1, ToMapFields
  <2>4. row \in Row
    BY <1>1, <1>3, PatchedType DEF Call, TypeOK
  <2>5. call'[h] = c /\ \A k \in Handlers \ {h} : call'[k] = call[k]
    BY <1>1, <2>2 DEF TypeOK
  <2>6. TypeOK'
    BY <1>1, <2>2, <2>3, <2>4 DEF TypeOK
  <2>7. Calls'
    BY <1>1, <2>2, <2>3, StepKeepsCalls DEF Busy
  <2>8. MapsInStep'
    <3>. SUFFICES ASSUME NEW m \in Names \ disturbed' PROVE MapOf(m)'
      BY DEF MapsInStep
    <3>1. MapOf(m)
      BY <1>1 DEF MapsInStep
    <3>2. CASE m # n
      <4>1. rows'[m] = rows[m]
        BY <1>1, <2>2, <3>2 DEF TypeOK
      <4>. QED  BY <1>1, <2>3, <2>5, <3>1, <3>2, <4>1 DEF MapOf
    <3>3. CASE m = n
      <4>1. call[h].row = row /\ row.setting \in catalog
        BY <1>1, <3>1, <3>3 DEF MapOf
      <4>2. rows'[n] = row
        BY <1>1, <2>2 DEF TypeOK
      <4>3. row = Loaded(rows'[n], catalog')
        BY <1>1, <2>4, <4>1, <4>2, NoneAssumption DEF Loaded, Row
      <4>4. \A k \in Handlers \ {h} : call'[k].name # n
        BY <1>1, <2>5, <3>3, NoneAssumption DEF Calls, Overlaps
      <4>. QED  BY <2>3, <2>5, <3>3, <4>1, <4>3, <4>4 DEF MapOf
    <3>. QED  BY <3>2, <3>3
  <2>9. Compiled'
    <3>. SUFFICES ASSUME NEW k \in Handlers, call'[k].stage = "swap", call'[k].alone
                  PROVE  FALSE
      BY DEF Compiled
    <3>1. k # h /\ call[k].alone
      BY <2>3, <2>5
    <3>. QED  BY <1>1, <3>1 DEF Calls, Alone, Busy
  <2>10. TableInStep'
    BY <2>3, <2>5 DEF TableInStep, Committed
  <2>. QED  BY <2>6, <2>7, <2>8, <2>9, <2>10 DEF BackendInv
<1>. QED  BY <1>2, <1>3

\* A handler that changes the map.
LEMMA MapWriteStep ==
  ASSUME BackendInv, NEW h \in Handlers, MapWrite(h)
  PROVE  BackendInv'
<1>. DEFINE n == call[h].name
<1>1. /\ TypeOK /\ Calls /\ MapsInStep /\ Compiled /\ TableInStep
      /\ call[h] \in Call /\ call[h].stage = "map" /\ n \in Names
      /\ map' = [map EXCEPT ![n] = call[h].row]
      /\ UNCHANGED <<state, table, catalog, disturbed, stale>>
      /\ UNCHANGED <<rows, providers, route>>
  BY DEF MapWrite, BackendInv, TypeOK, Calls, Shape, state
<1>2. PICK c : c = [Idle EXCEPT !.stage = "build", !.alone = call[h].alone]
  OBVIOUS
<1>3. call' = [call EXCEPT ![h] = c]
  BY <1>2 DEF MapWrite
<1>4. /\ c \in Call /\ c.alone = call[h].alone
      /\ c.stage = "build" /\ c.name = None
  <2>1. c = [stage |-> "build", name |-> None, row |-> None, patch |-> NoPatch,
             built |-> {}, alone |-> call[h].alone]
    BY <1>2 DEF Idle
  <2>. QED  BY <1>1, <2>1 DEF Call
<1>5. call'[h] = c /\ \A k \in Handlers \ {h} : call'[k] = call[k]
  BY <1>1, <1>3 DEF TypeOK
<1>6. TypeOK'
  BY <1>1, <1>3, <1>4 DEF TypeOK, Call
<1>7. Calls'
  BY <1>1, <1>3, <1>4, StepKeepsCalls DEF Busy
<1>8. MapsInStep'
  <2>. SUFFICES ASSUME NEW m \in Names \ disturbed' PROVE MapOf(m)'
    BY DEF MapsInStep
  <2>1. MapOf(m)
    BY <1>1 DEF MapsInStep
  <2>2. CASE m # n
    <3>1. map'[m] = map[m]
      BY <1>1, <2>2 DEF TypeOK
    <3>. QED  BY <1>1, <1>4, <1>5, <2>1, <2>2, <3>1 DEF MapOf
  <2>3. CASE m = n
    <3>1. call[h].row = Loaded(rows[n], catalog)
      BY <1>1, <2>1, <2>3 DEF MapOf
    <3>2. map'[n] = call[h].row
      BY <1>1 DEF TypeOK
    <3>3. \A k \in Handlers \ {h} : call'[k].name # n
      BY <1>1, <1>5, <2>3, NoneAssumption DEF Calls, Overlaps
    <3>. QED  BY <1>1, <1>4, <1>5, <2>3, <3>1, <3>2, <3>3 DEF MapOf
  <2>. QED  BY <2>2, <2>3
<1>9. Compiled' /\ TableInStep'
  BY <1>1, <1>3, <1>4, StepKeepsTable
<1>. QED  BY <1>6, <1>7, <1>8, <1>9 DEF BackendInv

\* A handler that compiles the rows to a table.
LEMMA BuildStep ==
  ASSUME BackendInv, NEW h \in Handlers, Build(h)
  PROVE  BackendInv'
<1>1. /\ TypeOK /\ Calls /\ MapsInStep /\ Compiled /\ TableInStep
      /\ call[h] \in Call /\ call[h].stage = "build"
      /\ UNCHANGED <<state, map, table, catalog, disturbed, stale>>
      /\ UNCHANGED <<rows, providers, route>>
  BY DEF Build, BackendInv, TypeOK, state
<1>2. Live \in SUBSET Names /\ Live' = Live
  BY <1>1 DEF Live, TypeOK
<1>3. PICK c : c = ToSwap(call[h], Live)
  OBVIOUS
<1>4. call' = [call EXCEPT ![h] = c]
  BY <1>1, <1>3 DEF TypeOK, Build, ToSwap
<1>5. /\ c \in Call /\ c.alone = call[h].alone
      /\ c.stage = "swap" /\ c.name = call[h].name /\ c.built = Live
  <2>1. call[h] \in Call
    BY <1>1
  <2>. QED  BY <2>1, <1>2, <1>3, ToSwapFields
<1>6. call'[h] = c /\ \A k \in Handlers \ {h} : call'[k] = call[k]
  BY <1>1, <1>4 DEF TypeOK
<1>7. TypeOK'
  BY <1>1, <1>4, <1>5 DEF TypeOK
<1>8. Calls'
  BY <1>1, <1>4, <1>5, StepKeepsCalls DEF Busy
<1>9. MapsInStep'
  BY <1>1, <1>4, <1>5, StepKeepsMaps
<1>10. Compiled'
  BY <1>1, <1>2, <1>5, <1>6 DEF Compiled
<1>11. TableInStep'
  BY <1>5, <1>6 DEF TableInStep, Committed
<1>. QED  BY <1>7, <1>8, <1>9, <1>10, <1>11 DEF BackendInv

\* A handler that swaps its table in.
LEMMA SwapStep ==
  ASSUME BackendInv, NEW h \in Handlers, Swap(h)
  PROVE  BackendInv'
<1>1. /\ TypeOK /\ Calls /\ MapsInStep /\ Compiled /\ TableInStep
      /\ call[h] \in Call /\ call[h].stage = "swap"
      /\ table' = call[h].built /\ stale' = ~call[h].alone
      /\ call' = [call EXCEPT ![h] = Idle]
      /\ UNCHANGED <<state, map, catalog, disturbed>>
      /\ UNCHANGED <<rows, providers, route>>
  BY DEF Swap, End, BackendInv, TypeOK, state
<1>2. call'[h] = Idle /\ \A k \in Handlers \ {h} : call'[k] = call[k]
  BY <1>1 DEF TypeOK
<1>3. Live' = Live
  BY <1>1 DEF Live
<1>4. TypeOK'
  BY <1>1, IdleType DEF TypeOK, Call
<1>5. Calls'
  BY <1>1, IdleType, StepKeepsCalls
<1>6. MapsInStep'
  BY <1>1, IdleType, StepKeepsMaps DEF Idle
<1>7. Compiled'
  BY <1>1, <1>2, <1>3 DEF Compiled, Idle
<1>8. TableInStep'
  BY <1>1, <1>3 DEF TableInStep, Compiled
<1>. QED  BY <1>4, <1>5, <1>6, <1>7, <1>8 DEF BackendInv

\* A handler whose client hangs up, or whose rebuild fails.
LEMMA CutShortStep ==
  ASSUME BackendInv, NEW h \in Handlers, CutShort(h)
  PROVE  BackendInv'
<1>1. /\ TypeOK /\ Calls /\ MapsInStep /\ Compiled /\ TableInStep
      /\ call' = [call EXCEPT ![h] = Idle]
      /\ stale' = (stale \/ Committed(h))
      /\ disturbed' = disturbed \cup (IF call[h].stage = "map" THEN {call[h].name} ELSE {})
      /\ UNCHANGED <<state, map, table, catalog>>
      /\ UNCHANGED <<rows, providers, route>>
  BY DEF CutShort, End, BackendInv, state
<1>2. call[h].stage = "map" => call[h].name \in Names
  BY <1>1 DEF Calls, Shape
<1>3. TypeOK'
  <2>1. disturbed' \subseteq Names
    BY <1>1, <1>2 DEF TypeOK
  <2>2. stale' \in BOOLEAN
    BY <1>1 DEF TypeOK, Committed
  <2>. QED  BY <1>1, <2>1, <2>2, IdleType DEF TypeOK
<1>4. Calls'
  BY <1>1, IdleType, StepKeepsCalls
<1>5. MapsInStep'
  BY <1>1, IdleType, StepKeepsMaps DEF Idle
<1>6. Compiled' /\ TableInStep'
  BY <1>1, IdleType, StepKeepsTable DEF Idle
<1>. QED  BY <1>3, <1>4, <1>5, <1>6 DEF BackendInv

\* A restart, which loads map and table from the rows, or finds it cannot.
LEMMA RestartStep ==
  ASSUME BackendInv, Restart
  PROVE  BackendInv'
<1>1. /\ TypeOK
      /\ catalog' \in SUBSET Settings
      /\ \/ map' = [n \in Names |-> Loaded(rows[n], catalog')] /\ disturbed' = {}
         \/ /\ map' = [n \in Names |-> None]
            /\ disturbed' = {n \in Names : rows[n] # None}
      /\ \/ table' = Live /\ stale' = FALSE
         \/ table' = {} /\ stale' = TRUE
      /\ call' = [h \in Handlers |-> Idle]
      /\ UNCHANGED <<rows, providers, route>>
  BY DEF Restart, LoadMap, LoadTable, BackendInv, state
<1>2. Live' = Live /\ Live \subseteq Names
  BY <1>1 DEF Live, TypeOK
<1>3. \A h \in Handlers : /\ call'[h] = Idle /\ call'[h].stage = "idle"
                          /\ call'[h].name = None /\ call'[h].alone = FALSE
  BY <1>1 DEF Idle
<1>4. TypeOK'
  <2>1. map' \in [Names -> Row \cup {None}]
    BY <1>1, LoadedType DEF TypeOK
  <2>2. disturbed' \subseteq Names /\ table' \subseteq Names /\ stale' \in BOOLEAN
    BY <1>1, <1>2
  <2>. QED  BY <1>1, <2>1, <2>2, IdleType DEF TypeOK
<1>5. Calls'
  BY <1>3 DEF Calls, Shape, Overlaps, Alone, Busy
<1>6. MapsInStep'
  <2>1. \A n \in Names \ disturbed' : map'[n] = Loaded(rows'[n], catalog')
    BY <1>1 DEF Loaded
  <2>. QED  BY <1>3, <2>1 DEF MapsInStep, MapOf
<1>7. Compiled' /\ TableInStep'
  BY <1>1, <1>2, <1>3 DEF Compiled, TableInStep
<1>. QED  BY <1>4, <1>5, <1>6, <1>7 DEF BackendInv

-----------------------------------------------------------------------------
(* The theorems *)

\* The proxy starts from its rows.
LEMMA BackendInit == Init => BackendInv
<1>. SUFFICES ASSUME Init PROVE BackendInv
  OBVIOUS
<1>1. \A n \in Names : rows[n] = None /\ map[n] = None
  BY DEF Init
<1>2. \A h \in Handlers : /\ call[h] = Idle /\ call[h].stage = "idle"
                          /\ call[h].name = None /\ call[h].alone = FALSE
  BY DEF Init, Idle
<1>3. TypeOK
  BY IdleType DEF Init, TypeOK
<1>4. Calls
  BY <1>2 DEF Calls, Shape, Overlaps, Alone, Busy
<1>5. MapsInStep
  BY <1>1, <1>2 DEF MapsInStep, MapOf, Loaded
<1>6. Compiled /\ TableInStep
  BY <1>2 DEF Init, Compiled, TableInStep, Live
<1>. QED  BY <1>3, <1>4, <1>5, <1>6 DEF BackendInv

\* A step keeps the invariant.
LEMMA BackendStep == BackendInv /\ [Next]_vars => BackendInv'
<1>. SUFFICES ASSUME BackendInv, [Next]_vars PROVE BackendInv'
  OBVIOUS
<1>1. CASE Restart
  BY <1>1, RestartStep
<1>2. ASSUME NEW h \in Handlers, Handle(h) PROVE BackendInv'
  <2>1. ASSUME NEW n \in Names, NEW row \in Row, Create(h, n, row) PROVE BackendInv'
    BY <2>1, CreateStep
  <2>2. ASSUME NEW n \in Names, NEW patch \in Patches, Update(h, n, patch) PROVE BackendInv'
    BY <2>2, UpdateStep
  <2>3. ASSUME NEW n \in Names, NEW on \in BOOLEAN, ChangeProvider(h, n, on) PROVE BackendInv'
    BY <2>3, RouteStep DEF ChangeProvider, BackendInv, TypeOK
  <2>4. ASSUME NEW n \in Names, Delete(h, n) PROVE BackendInv'
    BY <2>4, DeleteStep
  <2>5. ASSUME NEW on \in BOOLEAN, ChangeRoute(h, on) PROVE BackendInv'
    BY <2>5, RouteStep DEF ChangeRoute, BackendInv, TypeOK
  <2>6. CASE DeleteRoute(h)
    BY <2>6, RouteStep DEF DeleteRoute, BackendInv, TypeOK
  <2>7. CASE UpdateLookup(h) \/ UpdateRow(h)
    BY <2>7, UpdateLookupStep, UpdateRowStep
  <2>8. CASE MapWrite(h) \/ Build(h) \/ Swap(h) \/ CutShort(h)
    BY <2>8, MapWriteStep, BuildStep, SwapStep, CutShortStep
  <2>. QED  BY <1>2, <2>1, <2>2, <2>3, <2>4, <2>5, <2>6, <2>7, <2>8 DEF Handle
<1>3. CASE UNCHANGED vars
  <2>. USE <1>3 DEF vars, state
  <2>1. Live' = Live
    BY DEF Live
  <2>2. TypeOK' /\ Calls'
    BY DEF BackendInv, TypeOK, Calls, Shape, Overlaps, Alone, Busy
  <2>3. MapsInStep'
    BY DEF BackendInv, MapsInStep, MapOf
  <2>4. Compiled' /\ TableInStep'
    BY <2>1 DEF BackendInv, Compiled, TableInStep, Committed
  <2>. QED  BY <2>2, <2>3, <2>4 DEF BackendInv
<1>. QED  BY <1>1, <1>2, <1>3 DEF Next

\* The invariant on which the theorems rest: what each handler has in hand fits
\* the rows, the map and the table.
THEOREM BackendInvariant == Spec => []BackendInv
<1>1. Init => BackendInv
  BY BackendInit
<1>2. BackendInv /\ [Next]_vars => BackendInv'
  BY BackendStep
<1>. QED  BY <1>1, <1>2, PTL DEF Spec

\* The handlers, the rows, the map and the table keep their types.
THEOREM BackendTypes == Spec => []TypeOK
<1>1. BackendInv => TypeOK
  BY DEF BackendInv
<1>. QED  BY <1>1, BackendInvariant, PTL

\* The map of clients holds what a restart would load from SQLite, on every
\* backend on which no two handlers have overlapped and none was cut short.
THEOREM MapFollowsRows == Spec => []MapInStep
<1>1. BackendInv => MapInStep
  BY MapsInStepMeans DEF BackendInv
<1>. QED  BY <1>1, BackendInvariant, PTL

\* After a handler that ran alone, rebuild_route_router has left the table that
\* the rows compile to.
THEOREM TableFollowsRows == Spec => []TableInStep
<1>1. BackendInv => TableInStep
  BY DEF BackendInv
<1>. QED  BY <1>1, BackendInvariant, PTL

\* A backend that requests have just begun to be routed to has its client in the
\* map, unless its row could not be loaded.
THEOREM RoutedIsServed == Spec => ServedOnceRouted
<1>. DEFINE Routed == \A n \in table' \ table :
                      ~stale' /\ n \notin disturbed' =>
                        map'[n] # None \/ rows'[n].setting \notin catalog'
<1>1. BackendInv /\ [Next]_vars => [Routed]_vars
  <2>. SUFFICES ASSUME BackendInv, Next, NEW n \in table' \ table,
                       ~stale', n \notin disturbed', map'[n] = None,
                       rows'[n].setting \in catalog'
                PROVE  FALSE
    OBVIOUS
  <2>1. BackendInv'
    BY BackendStep
  <2>2. CASE Restart
    <3>1. n \in Names /\ rows'[n] # None
      BY <2>2 DEF Restart, LoadTable, state, Live, BackendInv, TypeOK
    <3>2. map'[n] = Loaded(rows'[n], catalog')
      BY <2>2, <3>1 DEF Restart, LoadMap, state
    <3>. QED  BY <3>1, <3>2 DEF Loaded
  <2>3. ASSUME NEW h \in Handlers, Handle(h) PROVE FALSE
    <3>1. Swap(h)
      BY <2>3 DEF Handle, Create, Update, ChangeProvider, Delete, ChangeRoute, DeleteRoute,
                  UpdateLookup, UpdateRow, MapWrite, Build, CutShort
    <3>2. /\ call[h].stage = "swap" /\ call[h].alone /\ table' = call[h].built
          /\ UNCHANGED <<map, rows, catalog, disturbed>>
      BY <3>1 DEF Swap, state
    <3>3. n \in Live
      BY <3>2 DEF BackendInv, Compiled
    <3>4. n \in Names /\ rows[n] # None
      BY <3>3 DEF Live, BackendInv, TypeOK
    <3>5. \A k \in Handlers : call[k].stage # "map"
      BY <3>2 DEF BackendInv, Calls, Alone, Busy
    <3>6. map[n] = Loaded(rows[n], catalog)
      BY <3>2, <3>4, <3>5 DEF BackendInv, MapsInStep, MapOf
    <3>. QED  BY <3>2, <3>4, <3>6 DEF Loaded
  <2>. QED  BY <2>2, <2>3 DEF Next
<1>2. Spec => [][Routed]_vars
  BY <1>1, BackendInvariant, PTL DEF Spec
<1>. QED  BY <1>2 DEF ServedOnceRouted
=============================================================================

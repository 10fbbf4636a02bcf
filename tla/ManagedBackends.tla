--------------------------- MODULE ManagedBackends ---------------------------
(***************************************************************************)
(* The backends administrators manage while the proxy runs, in three       *)
(* places: the rows of SQLite, the map of live clients (managed_backends   *)
(* of the shared state) and the dispatch table compiled from the rows      *)
(* (RouteRouter).  A handler of crates/proxy/src/admin/routes commits a    *)
(* row, then changes the map, then reads the rows again and swaps the      *)
(* table in; it awaits in between, and nothing orders two handlers.        *)
(*                                                                         *)
(* A request reads the table and then the map.  A name it finds in the     *)
(* table but not in the map is served by the default backend               *)
(* (resolve_model_and_state), so the three have to agree.                  *)
(*                                                                         *)
(* One route is modelled; which of its providers is picked is in           *)
(* DeploymentRouter.                                                       *)
(***************************************************************************)
EXTENDS Naturals, FiniteSets

CONSTANTS
  Names,        \* names of backends
  Settings,     \* what a row holds but its switch: provider, credentials, URL
  Handlers,     \* calls of the admin API at a time
  Patches,      \* what administrators may ask an update to change
  None          \* no row, no entry, no name, no new value

ASSUME NoneAssumption ==
  /\ None \notin Names /\ None \notin Settings /\ None \notin BOOLEAN
  /\ None \notin [setting : Settings, enabled : BOOLEAN]

\* A field that a patch leaves alone is None.
ASSUME PatchesAssumption ==
  Patches \subseteq [setting : Settings \cup {None}, enabled : BOOLEAN \cup {None}]

VARIABLES
  rows,         \* managed_backends, of SQLite
  providers,    \* the backends with a row in route_providers that is enabled
  route,        \* whether the route is there and enabled
  map,          \* managed_backends, of the shared state
  table,        \* the names the dispatch table may answer with
  catalog,      \* settings that row_to_backend_config accepts
  call,         \* the handlers
  disturbed,    \* history: names on which two handlers have overlapped or one was
                \* cut short, or whose rows the start could not read
  stale         \* history: whether the last handler to end was not alone or was
                \* cut short, or the start could not compile the table

state == <<rows, providers, route>>
vars  == <<state, map, table, catalog, call, disturbed, stale>>

Row      == [setting : Settings, enabled : BOOLEAN]
NoPatch  == [setting |-> None, enabled |-> None]
Call     == [stage : {"idle", "lookup", "write", "map", "build", "swap"},
             name : Names \cup {None}, row : Row \cup {None},
             patch : Patches \cup {NoPatch},
             built : SUBSET Names, alone : BOOLEAN]

\* update_managed_backend and the handler apply a patch alike.
Patched(row, patch) ==
  [setting |-> IF patch.setting = None THEN row.setting ELSE patch.setting,
   enabled |-> IF patch.enabled = None THEN row.enabled ELSE patch.enabled]

\* build_from_db: the enabled backends of enabled providers of an enabled route.
Live == {n \in providers : route /\ rows[n] # None /\ rows[n].enabled}

\* load_managed_backends skips a row of which no client can be built.
Loaded(row, accepted) == IF row # None /\ row.setting \in accepted THEN row ELSE None

Idle == [stage |-> "idle", name |-> None, row |-> None, patch |-> NoPatch,
         built |-> {}, alone |-> FALSE]

Busy(h) == call[h].stage # "idle"

\* The row is committed and the table has not followed.
Committed(h) == call[h].stage \in {"map", "build", "swap"}

Init ==
  /\ rows \in [Names -> {None}]
  /\ providers = {}
  /\ route = FALSE
  /\ map = rows
  /\ table = {}
  /\ catalog = Settings
  /\ call = [h \in Handlers |-> Idle]
  /\ disturbed = {}
  /\ stale = FALSE

-----------------------------------------------------------------------------
(* A handler, from its first look at the state to its last *)

\* What a handler that goes on to "stage" has in hand; and who is alone.
Start(h, stage, n, row, patch) ==
  /\ ~Busy(h)
  /\ call' = [k \in Handlers |->
       IF k = h THEN [stage |-> stage, name |-> n, row |-> row, patch |-> patch,
                      built |-> {}, alone |-> \A j \in Handlers : ~Busy(j)]
       ELSE IF Busy(k) THEN [call[k] EXCEPT !.alone = FALSE] ELSE call[k]]
  /\ disturbed' = disturbed \cup {m \in {n} \ {None} : \E k \in Handlers : call[k].name = m}

End(h) == call' = [call EXCEPT ![h] = Idle]

\* Mutant: the new backend is not put into the map.
CreateUnmapped(h, n, row) ==
  /\ row.setting \in catalog /\ rows[n] = None
  /\ rows' = [rows EXCEPT ![n] = row]
  /\ Start(h, "build", None, None, NoPatch)
  /\ UNCHANGED <<providers, route, map, table, catalog, stale>>

\* POST backends/managed; nothing happens if the name is taken.
Create(h, n, row) ==
  /\ row.setting \in catalog /\ rows[n] = None
  /\ rows' = [rows EXCEPT ![n] = row]
  /\ Start(h, "map", n, row, NoPatch)
  /\ UNCHANGED <<providers, route, map, table, catalog, stale>>

\* PUT backends/managed/{name}: the row is looked for in the map first.
Update(h, n, patch) ==
  /\ IF map[n] = None THEN Start(h, "lookup", n, None, patch)
     ELSE /\ Patched(map[n], patch).setting \in catalog
          /\ Start(h, "write", n, Patched(map[n], patch), patch)
  /\ UNCHANGED <<state, map, table, catalog, stale>>

\* Then in SQLite, where a row may be that could not be loaded.
UpdateLookup(h) ==
  LET n   == call[h].name
      row == Patched(rows[n], call[h].patch)
  IN /\ call[h].stage = "lookup"
     /\ IF rows[n] = None \/ row.setting \notin catalog THEN End(h)
        ELSE call' = [call EXCEPT ![h].stage = "write", ![h].row = row]
     /\ UNCHANGED <<state, map, table, catalog, disturbed, stale>>

\* SQLite is given the patch, the map will be given the row read before.
UpdateRow(h) ==
  LET n == call[h].name IN
  /\ call[h].stage = "write"
  /\ IF rows[n] = None THEN End(h) /\ UNCHANGED <<rows, disturbed, stale>>
     ELSE /\ rows' = [rows EXCEPT ![n] = Patched(rows[n], call[h].patch)]
          /\ call' = [call EXCEPT ![h].stage = "map", ![h].patch = NoPatch]
          /\ UNCHANGED <<disturbed, stale>>
  /\ UNCHANGED <<providers, route, map, table, catalog>>

\* Mutant: the row is deleted, and the map forgotten.
DeleteRowOnly(h, n) ==
  /\ rows[n] # None
  /\ rows' = [rows EXCEPT ![n] = None]
  /\ providers' = providers \ {n}
  /\ Start(h, "build", None, None, NoPatch)
  /\ UNCHANGED <<route, map, table, catalog, stale>>

\* DELETE backends/managed/{name}; its providers go with it (ON DELETE CASCADE).
Delete(h, n) ==
  /\ rows[n] # None
  /\ rows' = [rows EXCEPT ![n] = None]
  /\ providers' = providers \ {n}
  /\ Start(h, "map", n, None, NoPatch)
  /\ UNCHANGED <<route, map, table, catalog, stale>>

\* Providers are added to the route, switched, reordered and removed.
ChangeProvider(h, n, on) ==
  /\ rows[n] # None
  /\ providers' = IF on THEN providers \cup {n} ELSE providers \ {n}
  /\ Start(h, "build", None, None, NoPatch)
  /\ UNCHANGED <<rows, route, map, table, catalog, stale>>

\* The route is created or switched.
ChangeRoute(h, on) ==
  /\ route' = on
  /\ Start(h, "build", None, None, NoPatch)
  /\ UNCHANGED <<rows, providers, map, table, catalog, stale>>

\* The route is deleted with its providers.
DeleteRoute(h) ==
  /\ route' = FALSE
  /\ providers' = {}
  /\ Start(h, "build", None, None, NoPatch)
  /\ UNCHANGED <<rows, map, table, catalog, stale>>

\* Mutant: the table is not compiled again.
MapWriteLast(h) ==
  /\ call[h].stage = "map"
  /\ map' = [map EXCEPT ![call[h].name] = call[h].row]
  /\ End(h)
  /\ UNCHANGED <<state, table, catalog, disturbed, stale>>

\* The entry is inserted, replaced or removed.
MapWrite(h) ==
  /\ call[h].stage = "map"
  /\ map' = [map EXCEPT ![call[h].name] = call[h].row]
  /\ call' = [call EXCEPT ![h] = [Idle EXCEPT !.stage = "build", !.alone = call[h].alone]]
  /\ UNCHANGED <<state, table, catalog, disturbed, stale>>

\* rebuild_route_router: the rows are read under the lock of the connection,
Build(h) ==
  /\ call[h].stage = "build"
  /\ call' = [call EXCEPT ![h].stage = "swap", ![h].built = Live]
  /\ UNCHANGED <<state, map, table, catalog, disturbed, stale>>

\* and the table is swapped in under another.
Swap(h) ==
  /\ call[h].stage = "swap"
  /\ table' = call[h].built
  /\ stale' = ~call[h].alone
  /\ End(h)
  /\ UNCHANGED <<state, map, catalog, disturbed>>

\* SQLite fails, which is an answer before the row is committed and a warning in
\* the log after it; or the administrator hangs up, and the future of the handler
\* is dropped where it awaits.
CutShort(h) ==
  /\ Busy(h)
  /\ stale' = (stale \/ Committed(h))
  /\ disturbed' = disturbed \cup (IF call[h].stage = "map" THEN {call[h].name} ELSE {})
  /\ End(h)
  /\ UNCHANGED <<state, map, table, catalog>>

\* load_managed_backends; with rows that cannot be read the map starts empty, and
\* no word of it.
LoadMap ==
  \/ /\ map' = [n \in Names |-> Loaded(rows[n], catalog')]
     /\ disturbed' = {}
  \/ /\ map' = [n \in Names |-> None]
     /\ disturbed' = {n \in Names : rows[n] # None}

\* build_from_db at the start; if it fails, a warning and an empty table.
LoadTable ==
  \/ table' = Live /\ stale' = FALSE
  \/ table' = {} /\ stale' = TRUE

\* The proxy starts again, perhaps as a version with another catalog of providers.
Restart ==
  /\ catalog' \in SUBSET Settings
  /\ LoadMap
  /\ LoadTable
  /\ call' = [h \in Handlers |-> Idle]
  /\ UNCHANGED state

-----------------------------------------------------------------------------
Handle(h) ==
  \/ \E n \in Names : \/ \E row \in Row : Create(h, n, row)
                      \/ \E patch \in Patches : Update(h, n, patch)
                      \/ \E on \in BOOLEAN : ChangeProvider(h, n, on)
                      \/ Delete(h, n)
  \/ \E on \in BOOLEAN : ChangeRoute(h, on)
  \/ DeleteRoute(h) \/ UpdateLookup(h) \/ UpdateRow(h)
  \/ MapWrite(h) \/ Build(h) \/ Swap(h) \/ CutShort(h)

Next == Restart \/ \E h \in Handlers : Handle(h)

Spec == Init /\ [][Next]_vars

-----------------------------------------------------------------------------
(* Properties *)

\* Every variable has the type its field has.
TypeOK ==
  /\ rows \in [Names -> Row \cup {None}]
  /\ providers \subseteq Names
  /\ route \in BOOLEAN
  /\ map \in [Names -> Row \cup {None}]
  /\ table \subseteq Names
  /\ catalog \subseteq Settings
  /\ call \in [Handlers -> Call]
  /\ disturbed \subseteq Names
  /\ stale \in BOOLEAN

\* "In-memory registry of managed backends loaded from SQLite at startup ... so
\* the admin CRUD routes can update it without restart": whatever handlers of
\* other backends and of routes do meanwhile, the map holds what a restart that
\* can read the rows would load, or what the handler that committed the row is
\* about to write.
Pending(n) == {h \in Handlers : call[h].stage = "map" /\ call[h].name = n}

MapInStep ==
  \A n \in Names \ disturbed :
    IF Pending(n) = {} THEN map[n] = Loaded(rows[n], catalog)
    ELSE \A h \in Pending(n) : call[h].row = Loaded(rows[n], catalog)

\* "The live RouteRouter reflects the change without a restart": a handler that
\* ran alone to its end leaves the table up to date, whatever state the handlers
\* before it, or a start that could not compile it, had left it in.
TableInStep ==
  ~stale /\ (\A h \in Handlers : ~Committed(h)) => table = Live

\* A handler adds the client to the map before it compiles the table: a request
\* for a name that the table has just begun to answer with finds the client, and
\* is not served by the default backend, unless the row could not be loaded.
\* Handlers that overlap may break this, until one of them runs alone.
ServedOnceRouted ==
  [][\A n \in table' \ table :
       ~stale' /\ n \notin disturbed' =>
         map'[n] # None \/ rows'[n].setting \notin catalog']_vars
=============================================================================

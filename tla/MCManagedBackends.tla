-------------------------- MODULE MCManagedBackends --------------------------
(* Two backends of one route, two administrators at a time, who change one  *)
(* field of a backend at a time.                                            *)
EXTENDS ManagedBackends, TLC

OneField == [setting : Settings, enabled : {None}] \cup [setting : {None}, enabled : {FALSE}]

Symmetry == Permutations(Names) \cup Permutations(Handlers) \cup Permutations(Settings)

One == \A m, n \in Names : rows[m] = None \/ rows[n] = None \/ m = n

\* There is one backend once handlers have overlapped on it or a start could not
\* read its row, and where the proxy no longer accepts every row.
Bounded == One \/ (catalog = Settings /\ disturbed = {})
=============================================================================

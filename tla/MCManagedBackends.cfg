CONSTANTS
  Names = {n1, n2}
  Settings = {s1, s2}
  Handlers = {h1, h2}
  Patches <- OneField
  None = none
SYMMETRY Symmetry
CONSTRAINT Bounded
SPECIFICATION Spec
INVARIANTS MapInStep TableInStep
PROPERTY ServedOnceRouted
CHECK_DEADLOCK FALSE

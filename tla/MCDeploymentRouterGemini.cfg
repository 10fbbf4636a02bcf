SPECIFICATION Spec
CONSTANTS
  NumDeployments = 2
  Requests = {r1, r2}
  Rpm <- MCRpm
  Weight <- MCWeight
  Price <- MCPrice
  Strategies = {"roundRobin", "failover", "leastBusy", "weighted", "costBased"}
  Endpoints = {"geminiStream"}
  Window = 1
  MaxClock = 3
  MaxArrivals = 4
  MaxRebuilds = 1
INVARIANTS
  InFlightIsCurrent
SYMMETRY Symmetry
CHECK_DEADLOCK FALSE

CONSTANTS
  Deliveries = {d1, d2}
  Workers = {w1, w2}
  NoDelivery = none
  MaxRetries = 1
  Lease = 2
  DeliverBound = 1
  MaxFaults = 2
SPECIFICATION FairSpec
INVARIANTS TaskOwnsRow AttemptsBounded NoPhantomDelivery
PROPERTIES SettledForGood PromiseKept EventuallySettled

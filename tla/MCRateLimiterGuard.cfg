CONSTANTS
  Requests = {r1, r2}
  Neighbours = {n1}
  Threads = 2
  Limiters = {"local"}
  RpmLimit <- RpmLimits
  TpmLimit = 2
  Window = 3
  Second = 2
  Tokens = {2}
  Skew = 1
  MaxUncounted = 0
  MaxTime <- EarlyTimes
SPECIFICATION FairSpec
PROPERTIES Answered
CHECK_DEADLOCK FALSE

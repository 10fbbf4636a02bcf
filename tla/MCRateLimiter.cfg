CONSTANTS
  Requests = {r1, r2}
  Neighbours = {n1}
  Threads = 4
  Limiters = {"local", "open", "closed"}
  RpmLimit <- RpmLimits
  TpmLimit = 2
  Window = 3
  Second = 2
  Tokens = {2}
  Skew = 1
  MaxUncounted = 1
  MaxTime <- MaxTimes
SPECIFICATION FairSpec
INVARIANTS RpmCeiling TokensBounded RefusedTwiceAtMost
PROPERTIES Answered
CHECK_DEADLOCK FALSE

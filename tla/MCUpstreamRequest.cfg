CONSTANTS
  Length = 3
  MaxRetries = 2
  TransportRetries = {TRUE, FALSE}
SPECIFICATION FairSpec
INVARIANTS TypeOK CompletedOnce TwiceOnlyIfLost
PROPERTIES ChainSpec Ends
CHECK_DEADLOCK FALSE

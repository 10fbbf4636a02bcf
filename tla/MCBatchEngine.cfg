CONSTANTS
  theJob = j
  Jobs = {j}
  Items = {i1, i2}
  JobOf <- MCJobOf
  Workers = {w1, w2}
  NoItem = none
  MaxRetries = 1
  MaxFaults = 2
  FailFirst = TRUE
  Callers = {c1}
SPECIFICATION EngineFairSpec
INVARIANTS NothingForgotten WorkerOwnsItem CompletedMeansDone
PROPERTIES ResultsAreFinal EndedIsFinal CancelStopsWork EventuallyCompleted EventuallyAnnounced
CHECK_DEADLOCK FALSE

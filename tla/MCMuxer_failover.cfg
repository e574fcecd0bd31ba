SPECIFICATION LiveSpec
CONSTANTS
  MaxEvents = 5
  Rejected = {2}
  QueueMax = 2
  Persistent = TRUE
  Feeder = FALSE
  Slots = {s1}
  MaxBatch = 3
  MaxRestarts = 2
  MaxCrashes = 1
  MaxFailures = 1
  MaxCuts = 2
  OverAck = 1
INVARIANT TypeOK
INVARIANT NoDuplicate
INVARIANT Conservation
INVARIANT AckedWereDelivered
INVARIANT QueueBound
PROPERTY MemoryDrains
\* Everything published and acknowledged: a muxer then only waits.
CHECK_DEADLOCK FALSE

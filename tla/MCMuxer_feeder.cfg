SPECIFICATION Spec
CONSTANTS
  MaxEvents = 6
  Rejected = {2}
  QueueMax = 2
  Persistent = FALSE
  Feeder = TRUE
  Slots = {s1, s2}
  MaxBatch = 3
  MaxRestarts = 0
  MaxCrashes = 0
  MaxFailures = 0
  MaxCuts = 1
  OverAck = 0
SYMMETRY SlotSymmetry
INVARIANT NoDuplicate
INVARIANT AckedWereDelivered
INVARIANT OneReader
\* Everything published and acknowledged: a muxer then only waits.
CHECK_DEADLOCK FALSE

SPECIFICATION LiveSpec
CONSTANTS
  Object = {"srv", "cpu", "trend"}
  Hosts = {"srv"}
  Checked = {"srv", "trend"}
  Detectors <- OneDetector
  Requests <- Mixed
  Cancels = TRUE
  MaxDowntimes = 3
  MaxChecks = 2
  MaxRestarts = 1
  MaxTime = 6
INVARIANTS TypeOK DepthExact FixedInWindow  TriggeredWithin
PROPERTIES FixedLasts FixedEnds
CHECK_DEADLOCK FALSE

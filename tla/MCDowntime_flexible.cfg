SPECIFICATION LiveSpec
CONSTANTS
  Object = {"cpu"}
  Hosts = {}
  Checked = {"cpu"}
  Detectors <- OneDetector
  Requests <- OneFlexible
  Cancels = FALSE
  MaxDowntimes = 1
  MaxChecks = 2
  MaxRestarts = 0
  MaxTime = 6
PROPERTY DowntimeEnds
CHECK_DEADLOCK FALSE

CONSTANTS
  Contact = {c1, c2}
  Members = {c1}
  NotifyOn = {"ok", "critical", "flappingstart", "flappingstop", "downtime"}
  ContactNotifyOn <- AllFlags
  Interval = 0
  FirstDelay = 0
  RecoveryDelay = 1
  Volatile = FALSE
  SendAnyways = FALSE
  SoftDependencies = FALSE
  Escalations <- EscalateToAll
  MaxNumber = 2
  ExcuseResets = TRUE
  Results = {"ok", "critical"}
  MaxAttempts = 2
  AckTimeout = 1
  Commands = {"acknowledge", "custom", "downtime", "flapDetection"}
  Disturbances = {"outOfPeriod"}
  Hosts = {"up", "down"}
  Absences = {{}, {c1}}
  Zones = {"below", "above"}
  MaxLatency = 0
  MaxTime = 2
  MaxChanges = 1
SPECIFICATION LiveSpec
PROPERTIES RecoveryArrives ProblemAnnounced
INVARIANTS TypeOK HardIsConfirmed NoWrongRecovery RecoveryKept NotRepeated
CHECK_DEADLOCK FALSE

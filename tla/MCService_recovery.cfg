CONSTANTS
  Contact = {c1}
  Members = {c1}
  NotifyOn = {"ok", "critical", "flappingstart", "flappingstop", "downtime"}
  ContactNotifyOn <- AllFlags
  Interval = 0
  FirstDelay = 0
  RecoveryDelay = 1
  Volatile = FALSE
  SendAnyways = FALSE
  SoftDependencies = FALSE
  Escalations <- NoEscalation
  MaxNumber = 2
  ExcuseResets = FALSE
  Results = {"ok", "critical"}
  MaxAttempts = 2
  AckTimeout = 1
  Commands = {"custom"}
  Disturbances = {"outOfPeriod"}
  Hosts = {"up", "down"}
  Absences = {{}}
  Zones = {"between"}
  MaxLatency = 0
  MaxTime = 2
  MaxChanges = 1
SPECIFICATION Spec
INVARIANT RecoveryKept
CHECK_DEADLOCK FALSE

CONSTANTS
  cpu = cpu
  disk = disk
  Service = {cpu, disk}
  BA = {1, 2, 3}
  SvcKpi <- MCSvcKpi
  BaKpi <- MCBaKpi
  Node = {1, 2, 3, 4, 5, 6}
  Exp <- MCExp
  ExpBA = 3
  ImpactIf = TRUE
  Configs <- BestConfigs
  Nominal <- MCNominal
  Warning = 80
  Critical = 50
  NumWarning = 1
  NumCritical = 2
  Hard <- MCHard
  Id <- MCId
  Owned = {1}
  MaxFeedback = 1
SPECIFICATION Spec
INVARIANTS
  StateExact

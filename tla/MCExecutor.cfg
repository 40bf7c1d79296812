SPECIFICATION Spec
CONSTANTS
  Programs <- MCPrograms
  Score <- MCScore
  InitialProgram = "r"
  WarmStart = 2
  Steps = 2
  MaxTrain = 2
  MinTrain = 2
  Ways = 2
  K = 2
  MaxSupplement = 1
  PartialMin = 1
  MaxJobs = 2
  MaxFaults = 1
  None = None
CHECK_DEADLOCK FALSE
INVARIANTS
  ChargeIsConserved
  PublishedAgree
  TreeIsConsistent
  LaunchesAreCharged

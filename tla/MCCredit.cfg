SPECIFICATION Spec
CONSTANTS
  K = 3
  Tasks <- MCTasks
  Modes = {"legacy", "v2", "v3", "paired", "anchored"}
  Outcomes <- MCOutcomes
  Scores = {0, 1, 2, 3}
  FirstBase <- MCFirstBase
  Ceiling = 4
  Unit = 120
  TieRange = 61
  MinTrainable = 2
  BatchSize = 4
  Mix = 1
  LastRound = 1
  None = None
CHECK_DEADLOCK FALSE
INVARIANTS
  RepairedIsLowest
  BetterNeverLess

SPECIFICATION FairSpec
CONSTANTS
  LastRound = 2
  Slots <- MCSlots
  Scores <- MCScores
  BaseScore = 0
  PlateauRounds = 2
  None = None
  Torn = Torn
CHECK_DEADLOCK FALSE
INVARIANTS
  CommitIsComplete
  BaseIsBoundToProgram
  TrainingIsEarned
PROPERTIES
  IncumbentOnlyImproves
  CampaignEnds

SPECIFICATION ContextSpec
CONSTANTS
  LastRound = 2
  Slots <- MCSlots
  Scores <- MCScores
  BaseScore = 0
  PlateauRounds = 1
  RowCap = 1
  FindingCap = 1
  OtherCap = 1
  SeedScore = 0
  Replies <- MCReplies
  None = None
  Torn = Torn
CHECK_DEADLOCK FALSE
INVARIANTS
  RequiredBriefIsThere
  HeadlineIsTrue

SPECIFICATION FairSpec
CONSTANTS
  Contents = {scaffold, good, offtarget, repeated}
  InitialDraft = scaffold
  Valid = {good, offtarget, repeated}
  Barred = {offtarget}
  Repeats = {repeated}
  Calls <- MCCalls
  None = None
CHECK_DEADLOCK FALSE
INVARIANTS
  ValidRecordWasValidated
  CreditFollowsAuthor
PROPERTY
  SlotEnds

SPECIFICATION DraftSpec
CONSTANTS
  Plugins <- MCPlugins
  KindOf <- MCKindOf
  Parent <- MCParent
  Starter <- MCStarter
  Mandates <- MCMandates
  Overlong <- MCOverlong
  Futile <- MCFutile
  MaxEdits = 2
  Absent = Absent
  Unreadable = Unreadable
  None = None
INVARIANTS
  HeldToItsMandate
PROPERTIES
  NoBlindEdits

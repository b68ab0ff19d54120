CONSTANTS
  Jobs = {"j1", "j2"}
  NoJob = NoJob
  Stages <- MCStages
  Limit = 1
  Slots = {1, 2}
  Loads = {1, 2}
  Lapsing = {"j1"}
  MaxLapses = 1
  NoPhase = NoPhase
  NoRequest = NoRequest
  NoShown = NoShown
SPECIFICATION Spec
CONSTRAINT OneAfterTheOther
INVARIANTS
  TypeOK
  StrayOnlyIfCrossed
PROPERTIES
  EndIsShown
  CardsMoveOn
CHECK_DEADLOCK FALSE

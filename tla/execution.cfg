\* Two calls race with each other, a republication or top-up and any fault.
CONSTANTS
  alice = alice
  c1 = c1
  c2 = c2
  custom = custom
  ghost = ghost
  NoTool = NoTool
  Users <- MCUsers
  Calls <- MCCalls
  Tools <- MCGeneratedTools
  BuiltIn <- MCNoBuiltIn
  Artifacts <- MCArtifacts
  Configured <- MCArtifacts
  Costs <- MCCosts
  TopUps <- MCTopUps
  InitialBalance = 2
  MinInt = 0
  MaxInt = 2
  FaultKinds <- MCAllFaults
  MaxFaults = 1
  MaxEdits = 1
SPECIFICATION FairSpec
INVARIANTS CallsSound AnswerTellsCharge RefundMatchesCharge MissQueuesJob LogsReconcile
PROPERTIES NoFreeExecution EveryCallEnds
CHECK_DEADLOCK FALSE

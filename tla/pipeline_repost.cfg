\* One job posted twice, so that two runs share its row, and any one fault.
CONSTANTS
  j1 = j1
  j2 = j2
  r1 = r1
  r2 = r2
  sms = sms
  mail = mail
  NoJob = NoJob
  NoTool = NoTool
  NoRow = NoRow
  Jobs <- MCOneJob
  Runs <- MCRuns
  Tools <- MCOneTool
  MaxFixAttempts = 1
  FaultKinds <- MCAllFaults
  MaxFaults = 1
  MaxReposts = 1
SPECIFICATION FairSpec
INVARIANTS OnlyTestedToolsPublished CompleteHasTool NoOrphanJob
PROPERTY UndisturbedJobsEnd
CHECK_DEADLOCK FALSE

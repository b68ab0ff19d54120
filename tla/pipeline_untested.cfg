\* One job whose first code fails its test.
CONSTANTS
  j1 = j1
  j2 = j2
  r1 = r1
  r2 = r2
  sms = sms
  mail = mail
  NoJob = NoJob
  NoTool = NoTool
  NoRow = NoRow
  Jobs <- MCOneJob
  Runs <- MCOneRun
  Tools <- MCOneTool
  MaxFixAttempts = 2
  FaultKinds <- MCNoFaults
  MaxFaults = 0
  MaxReposts = 0
SPECIFICATION Spec
INVARIANT PublishedCodeTested
CHECK_DEADLOCK FALSE

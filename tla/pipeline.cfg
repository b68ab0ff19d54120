\* Two jobs, each forwarded once, and any one fault the code is meant to survive.
CONSTANTS
  j1 = j1
  j2 = j2
  r1 = r1
  r2 = r2
  sms = sms
  mail = mail
  NoJob = NoJob
  NoTool = NoTool
  NoRow = NoRow
  Jobs <- MCJobs
  Runs <- MCRuns
  Tools <- MCTools
  MaxFixAttempts = 2
  FaultKinds <- MCHandled
  MaxFaults = 1
  MaxReposts = 0
SPECIFICATION Spec
SYMMETRY JobAndRunSymmetry
INVARIANT FailedPublishesNothing
PROPERTY ImplementsLifecycle
CHECK_DEADLOCK FALSE

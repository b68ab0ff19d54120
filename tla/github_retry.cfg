\* One request that is published again after a call to GitHub got no answer.
CONSTANTS
  main = main
  kit = kit
  code = code
  page = page
  x = x
  y = y
  c1 = c1
  c2 = c2
  c3 = c3
  Absent = Absent
  Branches <- MCBranches
  Base = main
  Paths <- MCPaths
  Contents <- MCContents
  InitialTree <- MCTree
  Requests <- RetryRequests
  Publications <- MCPublications
  MaxFaults = 1
  MaxEvents = 0
SPECIFICATION Spec
INVARIANT SafeRetries
CHECK_DEADLOCK FALSE

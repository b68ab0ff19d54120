\* Three publications race with each other, with people and with lost answers.
CONSTANTS
  main = main
  kit = kit
  code = code
  page = page
  x = x
  y = y
  c1 = c1
  c2 = c2
  c3 = c3
  Absent = Absent
  Branches <- MCBranches
  Base = main
  Paths <- MCPaths
  Contents <- MCContents
  InitialTree <- MCTree
  Requests <- MCRequests
  Publications <- MCPublications
  MaxFaults = 1
  MaxEvents = 2
SPECIFICATION Spec
SYMMETRY Symmetric
INVARIANTS AcknowledgedStays CreatedOnce NoBranchLeftBehind
PROPERTY NoDirectWrites
CHECK_DEADLOCK FALSE

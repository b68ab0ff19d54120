\* Publications, three platforms of which two fetch into one directory, removals and
\* cleaned directories, with any one fault.
CONSTANTS
  rates = rates
  sms = sms
  c1 = c1
  c2 = c2
  p1 = p1
  p2 = p2
  p3 = p3
  near = near
  far = far
  Tools <- MCTools
  BuiltIn <- MCBuiltIn
  Publications <- MCPublications
  Processes <- MCProcesses
  Hosts <- MCHosts
  Home = near
  HostOf <- MCHostOf
  MaxFaults = 1
  MaxEvents = 3
SPECIFICATION Spec
SYMMETRY Symmetric
CONSTRAINTS AfterDisturbance BuiltInBeside
INVARIANTS OnlyOwnCodeRuns ArtifactsMatchRows
PROPERTY NeverRunsOlder
CHECK_DEADLOCK FALSE

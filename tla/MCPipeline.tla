----------------------------- MODULE MCPipeline -----------------------------
(* Finite instances of Pipeline for TLC.                                   *)
EXTENDS Pipeline, TLC

CONSTANTS j1, j2, r1, r2, sms, mail

MCJobs == {j1, j2}
MCOneJob == {j1}
MCRuns == {r1, r2}
MCOneRun == {r1}
MCTools == {sms, mail}
MCOneTool == {sms}
MCNoFaults == {}
MCAllFaults == {"forward", "database", "lost_ack", "artifact", "restart"}
MCHandled == {"forward", "database", "artifact", "restart"}

JobAndRunSymmetry == Permutations(Runs) \cup Permutations(Jobs)
=============================================================================

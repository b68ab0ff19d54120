---------------------------- MODULE MCDashboard ----------------------------
(* An instance of Dashboard: two jobs, of which one is listed and tracked,   *)
(* and a pipeline of two stages.                                             *)
EXTENDS Dashboard

MCStages == <<"discovery", "publish">>

\* Bound: the second job begins to move only while the first one has kept to its order
\* and no request for it is in flight.
OneAfterTheOther ==
  (\/ job["j1"] # NoPhase /\ job["j1"].lapses > 0
   \/ \E i \in Slots : polls[i] # NoRequest /\ polls[i].job = "j1")
  => job["j2"] \in {NoPhase, Queued}
=============================================================================

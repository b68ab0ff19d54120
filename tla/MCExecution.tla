----------------------------- MODULE MCExecution -----------------------------
(* Finite instances of Execution for TLC.                                  *)
EXTENDS Execution, TLC

CONSTANTS alice, c1, c2, custom, ghost

MCUsers == {alice}
MCCalls == {c1, c2}
\* custom was generated, ghost has a row and no module; a built-in tool would behave
\* as one that was generated and always returns.
MCGeneratedTools == {custom, ghost}
MCNoBuiltIn == {}
MCArtifacts == {custom}
MCCosts == {1, 2}
MCTopUps == {1}
MCAllFaults == {"database", "lost_ack", "cancel", "crash"}
=============================================================================

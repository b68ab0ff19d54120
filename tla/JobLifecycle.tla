---------------------------- MODULE JobLifecycle ----------------------------
(***************************************************************************)
(* What an integration job promises to whoever polls it: it is queued, then *)
(* running, then complete or failed for good, and the catalog gains a tool  *)
(* only in the step that completes a job with that tool as its result.      *)
(*                                                                         *)
(* Module Pipeline implements this as long as nobody posts a job to the     *)
(* integrator a second time and no commit acknowledgement is lost.          *)
(***************************************************************************)
CONSTANTS Jobs, Tools, NoTool

VARIABLES
  status,   \* what GET /api/integrate/{job_id} tells of each job
  result,   \* the tool of a complete job
  catalog   \* tools with a row in tool_definitions

vars == <<status, result, catalog>>

Init ==
  /\ status = [j \in Jobs |-> "absent"]
  /\ result = [j \in Jobs |-> NoTool]
  /\ catalog = {}

Move(j, from, to) == status[j] = from /\ status' = [status EXCEPT ![j] = to]

Queue(j) == Move(j, "absent", "queued") /\ UNCHANGED <<result, catalog>>
Start(j) == Move(j, "queued", "running") /\ UNCHANGED <<result, catalog>>
Fail(j) == Move(j, "running", "failed") /\ UNCHANGED <<result, catalog>>

Complete(j) ==
  /\ Move(j, "running", "complete")
  /\ \E t \in Tools : /\ result' = [result EXCEPT ![j] = t]
                      /\ catalog' = catalog \cup {t}

Next == \E j \in Jobs : Queue(j) \/ Start(j) \/ Fail(j) \/ Complete(j)

Spec == Init /\ [][Next]_vars
=============================================================================

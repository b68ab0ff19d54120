------------------------------ MODULE Pipeline ------------------------------
(***************************************************************************)
(* Integration jobs, from the platform that creates and forwards them      *)
(* (services/platform/app/services/integrations_service.py) through the    *)
(* integrator's POST /integrate (services/integrator/app/main.py), the     *)
(* five stages of execute_pipeline (pipeline.py), the test/fix loop        *)
(* (agents/test_fix.py) and publish_tool (publishers/db_writer.py).        *)
(*                                                                         *)
(* A run is one accepted POST with the background task it starts.  Every   *)
(* transaction of a run is a SELECT, an await, and a commit; the ORM       *)
(* writes only the columns that differ from what the SELECT returned.      *)
(***************************************************************************)
EXTENDS Integers, FiniteSets

CONSTANTS
  Jobs,            \* integration_jobs
  Runs,            \* bound: requests the integrator takes
  Tools,           \* names codegen may give a tool
  NoJob, NoTool, NoRow,
  MaxFixAttempts,  \* settings.max_fix_attempts
  FaultKinds,      \* which faults occur: "forward", "database", "lost_ack",
                   \* "artifact", "restart"
  MaxFaults,       \* bound: faults in a behaviour
  MaxReposts       \* bound: jobs posted to the integrator again

ASSUME PipelineAssumption ==
  /\ NoJob \notin Jobs /\ NoTool \notin Tools
  /\ NoRow \notin [by: Runs, status: {"live", "pending_credentials"}]
  /\ MaxFixAttempts \in Nat /\ MaxFaults \in Nat /\ MaxReposts \in Nat

VARIABLES
  job,      \* the row of each job
  forward,  \* the platform's forwarding task of each job
  run,      \* the runs of the integrator
  tools,    \* tool_definitions: who wrote each row, and its status
  code,     \* {tool}.py in the dynamic tools directory
  manifest, \* manifests/{tool}.json
  faults, reposts

artifacts == <<code, manifest>>
bounds == <<faults, reposts>>
vars == <<job, forward, run, tools, artifacts, bounds>>

ToolStatus == {"live", "pending_credentials"}
ToolRow == [by: Runs, status: ToolStatus]
Stages == {"discovery", "reader", "codegen", "test_fix", "publish"}
NextStage == [discovery |-> "reader", reader |-> "codegen"]

JobRow ==
  [status: {"absent", "queued", "running", "complete", "failed"},
   stage: Stages \cup {"queued"}, attempts: Nat, error: BOOLEAN,
   result: Tools \cup {NoTool}, completed: BOOLEAN]

NoJobRow ==
  [status |-> "absent", stage |-> "queued", attempts |-> 0, error |-> FALSE,
   result |-> NoTool, completed |-> FALSE]

\* A run that has not been asked for.
FreeRun ==
  [pc |-> "free", job |-> NoJob, loaded |-> FALSE, seen |-> NoJobRow,
   stage |-> "discovery", tool |-> NoTool, status |-> "live", code |-> "original",
   attempt |-> 0, passed |-> {}, success |-> FALSE, row |-> NoRow]

Init ==
  /\ job = [j \in Jobs |-> NoJobRow]
  /\ forward = [j \in Jobs |-> "none"]
  /\ run = [r \in Runs |-> FreeRun]
  /\ tools = [t \in Tools |-> NoRow]
  /\ code = [t \in Tools |-> NoRow]
  /\ manifest = [t \in Tools |-> NoRow]
  /\ faults = 0 /\ reposts = 0

-----------------------------------------------------------------------------
(* Vocabulary of the steps.  CompletedWithoutFlush, SucceedAnyway,         *)
(* RejectSilently, PublishRowOnly, ArtifactErrorRaised and MarkFailedLost  *)
(* are seeded faults that stand in for the definition below them.          *)

At(r, point) == run[r].pc = point
JobOf(r) == run[r].job

\* The row after a flush: only the columns set to another value than the session
\* read are in the UPDATE.
Flush(now, seen, new) ==
  [column \in DOMAIN now |-> IF new[column] = seen[column] THEN now[column]
                                                           ELSE new[column]]

\* What a transaction of run r makes of its job.
Save(r, new) == job' = [job EXCEPT ![JobOf(r)] = Flush(@, run[r].seen, new)]

\* A session that closes forgets what it read.
Leave(row, point) == [row EXCEPT !.pc = point, !.loaded = FALSE, !.seen = NoJobRow]
Go(r, point) == run' = [run EXCEPT ![r] = Leave(@, point)]
Enter(r, stage) ==
  run' = [run EXCEPT ![r] = [Leave(@, "enter") EXCEPT !.stage = stage]]

Fault(kind) ==
  /\ kind \in FaultKinds
  /\ faults < MaxFaults
  /\ faults' = faults + 1
  /\ UNCHANGED reposts

\* The values the code assigns in its transactions.
Queued(row) == [row EXCEPT !.status = "queued", !.stage = "queued", !.error = FALSE]
Running(row) == [row EXCEPT !.status = "running"]
Staged(row, stage) ==
  IF stage = "publish" THEN [row EXCEPT !.stage = stage]
  ELSE [row EXCEPT !.stage = stage, !.status = "running", !.attempts = @ + 1]
Failed(row) == [row EXCEPT !.status = "failed", !.error = TRUE, !.completed = TRUE]
CompletedWithoutFlush(row, t) ==
  [row EXCEPT !.status = "complete", !.stage = "publish", !.error = FALSE,
              !.completed = TRUE]
Completed(row, t) ==
  [row EXCEPT !.status = "complete", !.stage = "publish", !.result = t,
              !.error = FALSE, !.completed = TRUE]

-----------------------------------------------------------------------------
(* The platform: create_integration_job, then a background task that       *)
(* forwards the job once and ignores how the integrator answers.           *)

Submit(j) ==
  /\ job[j].status = "absent"
  /\ job' = [job EXCEPT ![j].status = "queued"]
  /\ forward' = [forward EXCEPT ![j] = "scheduled"]
  /\ UNCHANGED <<run, tools, artifacts, bounds>>

\* POST /integrate reads the job row.
Take(j, r) ==
  /\ At(r, "free")
  /\ run' = [run EXCEPT ![r].pc = "accept", ![r].job = j, ![r].seen = job[j]]

Deliver(j, r) ==
  /\ forward[j] = "scheduled"
  /\ Take(j, r)
  /\ forward' = [forward EXCEPT ![j] = "done"]
  /\ UNCHANGED <<job, tools, artifacts, bounds>>

\* The integrator is down, degraded (503) or refuses the body (422), the post
\* times out before it is taken, or the platform dies with the task.
ForwardLost(j) ==
  /\ forward[j] = "scheduled"
  /\ Fault("forward")
  /\ forward' = [forward EXCEPT ![j] = "done"]
  /\ UNCHANGED <<job, run, tools, artifacts>>

\* POST /integrate resets a job for another attempt, whatever its status.
Repost(j, r) ==
  /\ job[j].status # "absent"
  /\ reposts < MaxReposts
  /\ reposts' = reposts + 1
  /\ Take(j, r)
  /\ UNCHANGED <<job, forward, tools, artifacts, faults>>

-----------------------------------------------------------------------------
(* The integrator.                                                         *)

Accept(r) ==
  /\ At(r, "accept")
  /\ Save(r, Queued(run[r].seen))
  /\ Go(r, "begin")
  /\ UNCHANGED <<forward, tools, artifacts, bounds>>

\* _load_job, at the start of each transaction of execute_pipeline.
LoadJob(r) ==
  /\ run[r].pc \in {"begin", "enter", "fail"}
  /\ ~run[r].loaded
  /\ run' = [run EXCEPT ![r].loaded = TRUE, ![r].seen = job[JobOf(r)]]
  /\ UNCHANGED <<job, forward, tools, artifacts, bounds>>

Begin(r) ==
  /\ At(r, "begin") /\ run[r].loaded
  /\ Save(r, Running(run[r].seen))
  /\ Enter(r, "discovery")
  /\ UNCHANGED <<forward, tools, artifacts, bounds>>

\* _set_stage; the session of the publish stage stays open and keeps the row.
EnterStage(r) ==
  LET new == Staged(run[r].seen, run[r].stage)
  IN  /\ At(r, "enter") /\ run[r].loaded
      /\ Save(r, new)
      /\ IF run[r].stage = "publish"
         THEN run' = [run EXCEPT ![r].pc = "publish", ![r].loaded = FALSE,
                                 ![r].seen = new]
         ELSE Go(r, "work")
      /\ UNCHANGED <<forward, tools, artifacts, bounds>>

Working(r, stage) == At(r, "work") /\ run[r].stage = stage

\* run_discovery and run_reader; a fetch or an LLM call may raise.
Read(r) ==
  /\ Working(r, "discovery") \/ Working(r, "reader")
  /\ Enter(r, NextStage[run[r].stage]) \/ Go(r, "fail")
  /\ UNCHANGED <<job, forward, tools, artifacts, bounds>>

\* run_codegen names the tool and decides whether it waits for credentials.
Generate(r) ==
  /\ Working(r, "codegen")
  /\ \/ \E t \in Tools, s \in ToolStatus :
          run' = [run EXCEPT ![r].pc = "enter", ![r].stage = "test_fix",
                             ![r].tool = t, ![r].status = s]
     \/ Go(r, "fail")
  /\ UNCHANGED <<job, forward, tools, artifacts, bounds>>

\* run_test_fix: each attempt runs the current code; the LLM is asked for a fix
\* unless the attempt was the last, and may have none, or raise.
Test(r) ==
  /\ Working(r, "test_fix")
  /\ run[r].attempt < MaxFixAttempts
  /\ \/ run' = [run EXCEPT ![r].pc = "enter", ![r].stage = "publish",
                           ![r].success = TRUE, ![r].passed = @ \cup {run[r].code},
                           ![r].attempt = @ + 1]
     \/ \E next \in {run[r].code, "fixed"} :
          /\ run[r].attempt + 1 < MaxFixAttempts \/ next = run[r].code
          /\ run' = [run EXCEPT ![r].code = next, ![r].attempt = @ + 1]
     \/ run[r].attempt + 1 < MaxFixAttempts /\ Go(r, "fail")
  /\ UNCHANGED <<job, forward, tools, artifacts, bounds>>

SucceedAnyway(r) ==
  /\ Working(r, "test_fix")
  /\ run[r].attempt >= MaxFixAttempts
  /\ run' = [run EXCEPT ![r].pc = "enter", ![r].stage = "publish", ![r].success = TRUE]
  /\ UNCHANGED <<job, forward, tools, artifacts, bounds>>

GiveUp(r) ==
  /\ Working(r, "test_fix")
  /\ run[r].attempt >= MaxFixAttempts
  /\ Enter(r, "publish")
  /\ UNCHANGED <<job, forward, tools, artifacts, bounds>>

\* publish_tool: a tool that did not pass its test fails the job; the row of one
\* that did is looked up by name.
RejectSilently(r) ==
  /\ At(r, "publish")
  /\ ~run[r].success
  /\ Go(r, "ended")
  /\ UNCHANGED <<job, forward, tools, artifacts, bounds>>

Reject(r) ==
  /\ At(r, "publish")
  /\ ~run[r].success
  /\ Save(r, Failed(run[r].seen))
  /\ Go(r, "ended")
  /\ UNCHANGED <<forward, tools, artifacts, bounds>>

SelectTool(r) ==
  /\ At(r, "publish")
  /\ run[r].success
  /\ run' = [run EXCEPT ![r].pc = "write", ![r].row = tools[run[r].tool]]
  /\ UNCHANGED <<job, forward, tools, artifacts, bounds>>

\* name is UNIQUE: an INSERT fails when another run has inserted the tool since.
NameTaken(r) == run[r].row = NoRow /\ tools[run[r].tool] # NoRow

Row(r) == [by |-> r, status |-> run[r].status]
WriteRow(r) ==
  tools' = [tools EXCEPT ![run[r].tool] =
              IF run[r].row = NoRow THEN Row(r) ELSE Flush(@, run[r].row, Row(r))]

\* One commit for the tool row and the job row.
PublishRowOnly(r) ==
  /\ At(r, "write")
  /\ ~NameTaken(r)
  /\ WriteRow(r)
  /\ Go(r, "artifacts")
  /\ UNCHANGED <<job, forward, artifacts, bounds>>

Publish(r) ==
  /\ At(r, "write")
  /\ ~NameTaken(r)
  /\ WriteRow(r)
  /\ Save(r, Completed(run[r].seen, run[r].tool))
  /\ Go(r, "artifacts")
  /\ UNCHANGED <<forward, artifacts, bounds>>

IntegrityError(r) ==
  /\ At(r, "write")
  /\ NameTaken(r)
  /\ Go(r, "fail")
  /\ UNCHANGED <<job, forward, tools, artifacts, bounds>>

\* The files, after the commit: the generated code, whatever test_fix made of it.
\* No await comes between them; an error is logged and nothing else.
Artifact(r) == [by |-> r, code |-> "original"]
WriteArtifacts(r) ==
  LET t == run[r].tool
  IN  /\ At(r, "artifacts")
      /\ code' = [code EXCEPT ![t] = Artifact(r)]
      /\ manifest' = [manifest EXCEPT ![t] = Row(r)]
      /\ Go(r, "ended")
      /\ UNCHANGED <<job, forward, tools, bounds>>

ArtifactErrorRaised(r) ==
  /\ At(r, "artifacts")
  /\ Fault("artifact")
  /\ Go(r, "fail")
  /\ UNCHANGED <<job, forward, tools, artifacts>>

ArtifactError(r) ==
  /\ At(r, "artifacts")
  /\ Fault("artifact")
  /\ code' \in {code, [code EXCEPT ![run[r].tool] = Artifact(r)]}
  /\ Go(r, "ended")
  /\ UNCHANGED <<job, forward, tools, manifest>>

\* except Exception: the job is loaded again and marked failed.
MarkFailedLost(r) ==
  /\ At(r, "fail") /\ run[r].loaded
  /\ Go(r, "ended")
  /\ UNCHANGED <<job, forward, tools, artifacts, bounds>>

MarkFailed(r) ==
  /\ At(r, "fail") /\ run[r].loaded
  /\ Save(r, Failed(run[r].seen))
  /\ Go(r, "ended")
  /\ UNCHANGED <<forward, tools, artifacts, bounds>>

-----------------------------------------------------------------------------
(* Faults.                                                                 *)

\* Where an exception of the database is caught: inside the try block of
\* execute_pipeline, but neither before it nor in its handler.
Caught(r) == IF run[r].pc \in {"enter", "publish", "write"} THEN "fail" ELSE "ended"

DatabaseError(r) ==
  /\ run[r].pc \in {"accept", "begin", "enter", "publish", "write", "fail"}
  /\ Fault("database")
  /\ Go(r, Caught(r))
  /\ UNCHANGED <<job, forward, tools, artifacts>>

\* A commit is applied and its acknowledgement lost: the code sees an exception.
LostAck(r) ==
  /\ Fault("lost_ack")
  /\ \/ At(r, "accept") /\ Save(r, Queued(run[r].seen)) /\ UNCHANGED tools
     \/ At(r, "begin") /\ run[r].loaded /\ Save(r, Running(run[r].seen)) /\ UNCHANGED tools
     \/ /\ At(r, "enter") /\ run[r].loaded
        /\ Save(r, Staged(run[r].seen, run[r].stage)) /\ UNCHANGED tools
     \/ /\ At(r, "publish") /\ ~run[r].success
        /\ Save(r, Failed(run[r].seen)) /\ UNCHANGED tools
     \/ /\ At(r, "write") /\ ~NameTaken(r) /\ WriteRow(r)
        /\ Save(r, Completed(run[r].seen, run[r].tool))
     \/ At(r, "fail") /\ run[r].loaded /\ Save(r, Failed(run[r].seen)) /\ UNCHANGED tools
  /\ Go(r, Caught(r))
  /\ UNCHANGED <<forward, artifacts>>

\* The integrator stops: its lifespan cancels the tasks, and CancelledError is no
\* Exception; or it is killed.  Open transactions roll back.
Restart ==
  /\ Fault("restart")
  /\ run' = [r \in Runs |-> IF At(r, "free") THEN run[r]
                            ELSE Leave(run[r], "ended")]
  /\ UNCHANGED <<job, forward, tools, artifacts>>

-----------------------------------------------------------------------------

Step(r) ==
  \/ Accept(r) \/ LoadJob(r) \/ Begin(r) \/ EnterStage(r)
  \/ Read(r) \/ Generate(r) \/ Test(r) \/ GiveUp(r)
  \/ Reject(r) \/ SelectTool(r) \/ Publish(r) \/ IntegrityError(r)
  \/ WriteArtifacts(r) \/ MarkFailed(r)

Next ==
  \/ \E j \in Jobs : \/ Submit(j) \/ ForwardLost(j)
                     \/ \E r \in Runs : Deliver(j, r) \/ Repost(j, r)
  \/ \E r \in Runs : Step(r) \/ ArtifactError(r) \/ DatabaseError(r) \/ LostAck(r)
  \/ Restart

Spec == Init /\ [][Next]_vars

\* The event loops run their tasks, and every fetch, LLM call and database statement
\* answers or times out; nothing makes the generated code under test return.
Testing(r) == Working(r, "test_fix") /\ run[r].attempt < MaxFixAttempts
FairSpec ==
  Spec /\ (\A j \in Jobs : WF_vars(\E r \in Runs : Deliver(j, r)))
       /\ (\A r \in Runs : WF_vars(Step(r) /\ ~Testing(r)))

-----------------------------------------------------------------------------
(* Properties.                                                             *)

RunType ==
  [pc: {"free", "accept", "begin", "enter", "work", "publish", "write", "artifacts",
        "fail", "ended"},
   job: Jobs \cup {NoJob}, loaded: BOOLEAN, seen: JobRow, stage: Stages,
   tool: Tools \cup {NoTool}, status: ToolStatus, code: {"original", "fixed"},
   attempt: Nat, passed: SUBSET {"original", "fixed"}, success: BOOLEAN,
   row: ToolRow \cup {NoRow}]

\* Every variable holds a value of its kind.
TypeOK ==
  /\ job \in [Jobs -> JobRow]
  /\ forward \in [Jobs -> {"none", "scheduled", "done"}]
  /\ run \in [Runs -> RunType]
  /\ tools \in [Tools -> ToolRow \cup {NoRow}]
  /\ code \in [Tools -> [by: Runs, code: {"original", "fixed"}] \cup {NoRow}]
  /\ manifest \in [Tools -> ToolRow \cup {NoRow}]
  /\ faults \in Nat /\ reposts \in Nat

Ended(r) == At(r, "ended")
Active(r) == ~At(r, "free") /\ ~Ended(r)
Runnings(j) == {r \in Runs : Active(r) /\ JobOf(r) = j}

\* A tool is in the catalog only if the run that put it there saw it pass a test,
\* whatever faults and repeated posts came between.
OnlyTestedToolsPublished ==
  \A t \in Tools : tools[t] # NoRow =>
    LET r == tools[t].by IN run[r].tool = t /\ run[r].passed # {}

\* A complete job names a tool of the catalog and has its completion time, even
\* when two runs of one job overwrite each other's columns.
CompleteHasTool ==
  \A j \in Jobs : job[j].status = "complete" =>
    /\ job[j].completed
    /\ job[j].result \in Tools
    /\ tools[job[j].result] # NoRow

\* As long as no fault has struck, a job that says queued or running has somebody at
\* work on it, the forwarding task of the platform or a pipeline of the integrator:
\* every exit of execute_pipeline gives the row its final status, even when another
\* pipeline of the same job writes to it too.
NoOrphanJob ==
  faults = 0 =>
    \A j \in Jobs : job[j].status \in {"queued", "running"} =>
      forward[j] = "scheduled" \/ Runnings(j) # {}

\* The jobs are those of JobLifecycle.
Lifecycle ==
  INSTANCE JobLifecycle WITH
    status <- [j \in Jobs |-> job[j].status],
    result <- [j \in Jobs |-> job[j].result],
    catalog <- {t \in Tools : tools[t] # NoRow}

ImplementsLifecycle == Lifecycle!Spec

\* Every submitted job is complete or failed in the end, unless its code is for ever
\* under test or a fault strikes.
Final(j) == job[j].status \in {"complete", "failed"}
Unfinished(j) == job[j].status \in {"queued", "running"}
UnderTest(j) == \E r \in Runnings(j) : Testing(r)
UndisturbedJobsEnd ==
  \A j \in Jobs : Unfinished(j) ~> Final(j) \/ UnderTest(j) \/ faults > 0

\* A failed job has put nothing into the catalog, although the handler of
\* execute_pipeline cannot tell which of its steps raised.
FailedPublishesNothing ==
  \A t \in Tools : tools[t] # NoRow => job[JobOf(tools[t].by)].status # "failed"

\* The code the platform loads is code that passed a test.
PublishedCodeTested ==
  \A t \in Tools : code[t] # NoRow => code[t].code \in run[code[t].by].passed
=============================================================================

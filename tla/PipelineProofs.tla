--------------------------- MODULE PipelineProofs ---------------------------
(***************************************************************************)
(* What holds of integration jobs for every number of jobs and runs: for   *)
(* jobs posted any number of times and under every fault of Pipeline, but  *)
(* for the last part, on jobs that are posted once.                        *)
(***************************************************************************)
EXTENDS Pipeline, TLAPS

\* A flush yields a row, each of whose columns is the one in the database or the
\* one the code assigned.
LEMMA FlushJob ==
  ASSUME NEW now \in JobRow, NEW seen \in JobRow, NEW new \in JobRow
  PROVE  /\ Flush(now, seen, new) \in JobRow
         /\ \A column \in {"status", "completed", "result"} :
              Flush(now, seen, new)[column] =
                IF new[column] = seen[column] THEN now[column] ELSE new[column]
BY DEF JobRow, Flush

LEMMA FlushTool ==
  ASSUME NEW now \in ToolRow, NEW seen \in ToolRow, NEW new \in ToolRow
  PROVE  /\ Flush(now, seen, new) \in ToolRow
         /\ Flush(now, seen, new).by \in {now.by, new.by}
BY DEF ToolRow, ToolStatus, Flush

-----------------------------------------------------------------------------

\* What a run has done by the time it is at a point of the pipeline.
RunOK(k) ==
  /\ k \in RunType
  /\ k.pc # "free" => k.job \in Jobs
  /\ k.stage \in {"test_fix", "publish"} => k.tool \in Tools
  /\ k.pc \in {"publish", "write", "artifacts"} => k.stage = "publish"
  /\ k.pc \in {"write", "artifacts"} => k.success
  /\ k.success => k.passed # {}

\* The completion of a job is never taken back, so what a session has read of it
\* still holds when it commits.
SeenOK(k, j) ==
  /\ k.seen.completed => j.completed
  /\ k.seen.result # NoTool => j.result # NoTool

JobOK(j) == j.status = "complete" => j.completed /\ j.result # NoTool

RunsOK ==
  /\ run \in [Runs -> RunType]
  /\ \A r \in Runs : RunOK(run[r])

JobsOK ==
  /\ job \in [Jobs -> JobRow]
  /\ \A j \in Jobs : JobOK(job[j])
  /\ \A j \in Jobs : job[j].result # NoTool => tools[job[j].result] # NoRow
  /\ \A r \in Runs : run[r].pc # "free" => SeenOK(run[r], job[JobOf(r)])
  /\ \A r \in Runs : run[r].seen.result # NoTool => tools[run[r].seen.result] # NoRow

ToolsOK ==
  /\ tools \in [Tools -> ToolRow \cup {NoRow}]
  /\ \A t \in Tools : tools[t] # NoRow =>
       LET k == run[tools[t].by]
       IN  /\ k.tool = t /\ k.passed # {}
           /\ k.pc \in {"artifacts", "fail", "ended"}
  /\ \A r \in Runs : run[r].row # NoRow /\ run[r].pc = "write"
                       => tools[run[r].tool] # NoRow

RestType ==
  /\ forward \in [Jobs -> {"none", "scheduled", "done"}]
  /\ code \in [Tools -> [by: Runs, code: {"original", "fixed"}] \cup {NoRow}]
  /\ manifest \in [Tools -> ToolRow \cup {NoRow}]
  /\ faults \in Nat /\ reposts \in Nat

IInv == RunsOK /\ JobsOK /\ ToolsOK /\ RestType

-----------------------------------------------------------------------------

\* What a step may do to the jobs and to the catalog: completions and tools stay.
Grows ==
  /\ job' \in [Jobs -> JobRow]
  /\ \A j \in Jobs :
       /\ JobOK(job'[j])
       /\ job[j].completed => job'[j].completed
       /\ job[j].result # NoTool => job'[j].result # NoTool
       /\ job'[j].result # NoTool => tools'[job'[j].result] # NoRow
  /\ tools' \in [Tools -> ToolRow \cup {NoRow}]
  /\ \A t \in Tools : tools[t] # NoRow => tools'[t] # NoRow

Published == {"artifacts", "fail", "ended"}

\* A step of run r, to a record that is in order.
LEMMA RunStep ==
  ASSUME IInv, Grows, RestType', NEW r \in Runs, NEW k,
         run' = [run EXCEPT ![r] = k], RunOK(k),
         k.pc # "free" => SeenOK(k, job'[k.job]),
         k.seen.result # NoTool => tools'[k.seen.result] # NoRow,
         k.row # NoRow /\ k.pc = "write" => tools'[k.tool] # NoRow,
         run[r].pc \in Published => /\ k.pc \in Published
                                    /\ k.tool = run[r].tool
                                    /\ k.passed = run[r].passed,
         \A t \in Tools : tools'[t] # NoRow =>
           \/ tools[t] # NoRow /\ tools'[t].by = tools[t].by
           \/ tools'[t].by = r /\ k.tool = t /\ k.passed # {} /\ k.pc \in Published
  PROVE  IInv'
<1>f. RunsOK /\ JobsOK /\ ToolsOK
  BY DEF IInv
<1>k. k \in RunType
  BY DEF RunOK
<1>1. RunsOK'
  BY <1>f, <1>k DEF RunsOK
<1>2. ASSUME NEW q \in Runs
      PROVE  /\ run'[q].pc # "free" => SeenOK(run'[q], job'[run'[q].job])
             /\ run'[q].seen.result # NoTool => tools'[run'[q].seen.result] # NoRow
             /\ run'[q].row # NoRow /\ run'[q].pc = "write"
                  => tools'[run'[q].tool] # NoRow
  <2>1. CASE q = r
    BY <2>1, <1>f DEF RunsOK
  <2>2. CASE q # r
    <3>1. run'[q] = run[q] /\ run[q] \in RunType /\ RunOK(run[q])
      BY <2>2, <1>f DEF RunsOK
    <3>2. run[q].pc # "free" => run[q].job \in Jobs
      BY <3>1 DEF RunOK
    <3>3. run[q].pc # "free" => SeenOK(run[q], job'[run[q].job])
      BY <3>2, <1>f DEF JobsOK, SeenOK, Grows, JobOf
    <3>4. run[q].seen.result \in Tools \cup {NoTool}
      BY <3>1 DEF RunType, JobRow
    <3>5. run[q].seen.result # NoTool => tools'[run[q].seen.result] # NoRow
      BY <3>4, <1>f DEF JobsOK, Grows
    <3>6. run[q].pc = "write" => run[q].tool \in Tools
      BY <3>1 DEF RunOK
    <3>7. run[q].row # NoRow /\ run[q].pc = "write" => tools'[run[q].tool] # NoRow
      BY <3>6, <1>f DEF ToolsOK, Grows
    <3> QED BY <3>1, <3>3, <3>5, <3>7
  <2> QED BY <2>1, <2>2
<1>3. JobsOK'
  BY <1>2 DEF JobsOK, Grows, JobOf
<1>4. ASSUME NEW t \in Tools, tools'[t] # NoRow
      PROVE  LET h == run'[tools'[t].by]
             IN  h.tool = t /\ h.passed # {} /\ h.pc \in Published
  <2>1. tools'[t].by \in Runs
    BY <1>4 DEF Grows, ToolRow
  <2>2. CASE tools'[t].by = r /\ k.tool = t /\ k.passed # {} /\ k.pc \in Published
    BY <2>2, <1>f DEF RunsOK
  <2>3. CASE tools[t] # NoRow /\ tools'[t].by = tools[t].by
    BY <2>1, <2>3, <1>f DEF ToolsOK, RunsOK, Published
  <2> QED BY <1>4, <2>2, <2>3
<1>5. ToolsOK'
  BY <1>2, <1>4 DEF ToolsOK, Grows, Published
<1> QED BY <1>1, <1>3, <1>5 DEF IInv

\* A transaction that does not complete its job.
LEMMA SaveGrows ==
  ASSUME IInv, NEW r \in Runs, run[r].pc # "free", NEW new \in JobRow, Save(r, new),
         UNCHANGED tools,
         new.result = run[r].seen.result,
         run[r].seen.completed => new.completed,
         new.status = "complete" => run[r].seen.status = "complete"
  PROVE  Grows
<1> DEFINE j == JobOf(r)
           seen == run[r].seen
           f == Flush(job[j], seen, new)
<1>1. /\ j \in Jobs /\ seen \in JobRow /\ job[j] \in JobRow /\ JobOK(job[j])
      /\ SeenOK(run[r], job[j])
  BY DEF IInv, RunsOK, RunOK, JobsOK, RunType, JobOf
<1>2. /\ f \in JobRow
      /\ \A column \in {"status", "completed", "result"} :
           f[column] = IF new[column] = seen[column] THEN job[j][column]
                                                     ELSE new[column]
  BY <1>1, FlushJob
<1>s. f.status = IF new.status = seen.status THEN job[j].status ELSE new.status
  BY <1>2
<1>c. f.completed = IF new.completed = seen.completed THEN job[j].completed
                                                      ELSE new.completed
  BY <1>2
<1>r. f.result = IF new.result = seen.result THEN job[j].result ELSE new.result
  BY <1>2
<1>b. /\ new.completed \in BOOLEAN /\ seen.completed \in BOOLEAN
      /\ job[j].completed \in BOOLEAN
  BY <1>1 DEF JobRow
<1> HIDE DEF f
<1>3. f.result = job[j].result
  BY <1>r
<1>4. job[j].completed => f.completed
  <2>1. CASE new.completed = seen.completed
    BY <2>1, <1>c
  <2>2. CASE new.completed # seen.completed
    BY <2>2, <1>b, <1>c
  <2> QED BY <2>1, <2>2
<1>5. JobOK(f)
  BY <1>1, <1>s, <1>3, <1>4 DEF JobOK
<1>6. job' = [job EXCEPT ![j] = f]
  BY DEF Save, f
<1> QED BY <1>1, <1>2, <1>3, <1>4, <1>5, <1>6 DEF IInv, JobsOK, ToolsOK, Grows

LEMMA UnchangedGrows ==
  ASSUME IInv, UNCHANGED <<job, tools>>
  PROVE  Grows
BY DEF IInv, JobsOK, ToolsOK, Grows

\* The commit that publishes a tool and completes its job.
LEMMA PublishGrows ==
  ASSUME IInv, NEW r \in Runs, At(r, "write"), ~NameTaken(r), WriteRow(r),
         Save(r, Completed(run[r].seen, run[r].tool))
  PROVE  /\ Grows
         /\ \A t \in Tools : tools'[t] # NoRow =>
              \/ tools[t] # NoRow /\ tools'[t].by = tools[t].by
              \/ tools'[t].by = r /\ run[r].tool = t
<1> DEFINE j == JobOf(r)
           seen == run[r].seen
           t == run[r].tool
           new == Completed(seen, t)
           f == Flush(job[j], seen, new)
           w == IF run[r].row = NoRow THEN Row(r)
                ELSE Flush(tools[t], run[r].row, Row(r))
<1>1. /\ run[r] \in RunType /\ j \in Jobs /\ t \in Tools
      /\ seen \in JobRow /\ job[j] \in JobRow
      /\ JobOK(job[j]) /\ SeenOK(run[r], job[j])
  BY DEF IInv, RunsOK, RunOK, JobsOK, RunType, JobOf, At
<1>t. t # NoTool
  BY <1>1, PipelineAssumption
<1>2. new \in JobRow /\ new.status = "complete" /\ new.completed /\ new.result = t
  BY <1>1 DEF Completed, JobRow, Stages
<1> HIDE DEF new
<1>3. /\ f \in JobRow
      /\ \A column \in {"status", "completed", "result"} :
           f[column] = IF new[column] = seen[column] THEN job[j][column]
                                                     ELSE new[column]
  BY <1>1, <1>2, FlushJob
<1>c. f.completed = IF new.completed = seen.completed THEN job[j].completed
                                                      ELSE new.completed
  BY <1>3
<1>r. f.result = IF new.result = seen.result THEN job[j].result ELSE new.result
  BY <1>3
<1>b. new.completed = TRUE /\ seen.completed \in BOOLEAN /\ job[j].completed \in BOOLEAN
  BY <1>1, <1>2 DEF JobRow
<1> HIDE DEF f
<1>4. f.completed
  BY <1>1, <1>b, <1>c DEF SeenOK
<1>5. f.result # NoTool /\ f.result \in {t, job[j].result}
  BY <1>1, <1>2, <1>t, <1>r DEF SeenOK
<1>6. job' = [job EXCEPT ![j] = f]
  BY DEF Save, f, new
<1>7. w \in ToolRow /\ w # NoRow
      /\ (w.by = r \/ (tools[t] # NoRow /\ w.by = tools[t].by))
  <2>1. Row(r) \in ToolRow /\ Row(r).by = r
    BY <1>1 DEF Row, ToolRow, RunType
  <2>2. \A x \in ToolRow : x # NoRow
    BY PipelineAssumption DEF ToolRow, ToolStatus
  <2>3. CASE run[r].row = NoRow
    BY <2>1, <2>2, <2>3
  <2>4. CASE run[r].row # NoRow
    <3>1. run[r].row \in ToolRow
      BY <2>4, <1>1 DEF RunType
    <3>2. tools[t] \in ToolRow /\ tools[t] # NoRow
      BY <2>4, <1>1 DEF IInv, ToolsOK, At
    <3>3. /\ Flush(tools[t], run[r].row, Row(r)) \in ToolRow
          /\ Flush(tools[t], run[r].row, Row(r)).by \in {tools[t].by, r}
      BY <2>1, <3>1, <3>2, FlushTool
    <3> QED BY <2>2, <2>4, <3>2, <3>3
  <2> QED BY <2>3, <2>4
<1>8. tools' = [tools EXCEPT ![t] = w]
  BY DEF WriteRow
<1> HIDE DEF w
<1>9. tools \in [Tools -> ToolRow \cup {NoRow}]
  BY DEF IInv, ToolsOK
<1>10. /\ tools' \in [Tools -> ToolRow \cup {NoRow}]
       /\ \A u \in Tools : tools[u] # NoRow => tools'[u] # NoRow
       /\ tools'[t] # NoRow
  BY <1>1, <1>7, <1>8, <1>9
<1>11. ASSUME NEW i \in Jobs
       PROVE  /\ JobOK(job'[i])
              /\ job[i].completed => job'[i].completed
              /\ job[i].result # NoTool => job'[i].result # NoTool
              /\ job'[i].result # NoTool => tools'[job'[i].result] # NoRow
  <2>0. job \in [Jobs -> JobRow] /\ JobOK(job[i])
        /\ (job[i].result # NoTool => tools[job[i].result] # NoRow)
        /\ (job[j].result # NoTool => tools[job[j].result] # NoRow)
        /\ job[i].result \in Tools \cup {NoTool} /\ job[j].result \in Tools \cup {NoTool}
    BY <1>1 DEF IInv, JobsOK, JobRow
  <2>1. CASE i = j
    <3>1. job'[i] = f
      BY <2>0, <2>1, <1>6
    <3> QED BY <2>0, <2>1, <3>1, <1>4, <1>5, <1>10 DEF JobOK
  <2>2. CASE i # j
    <3>1. job'[i] = job[i]
      BY <2>0, <2>2, <1>1, <1>6
    <3> QED BY <2>0, <3>1, <1>10
  <2> QED BY <2>1, <2>2
<1>12. job' \in [Jobs -> JobRow]
  BY <1>1, <1>3, <1>6 DEF IInv, JobsOK
<1>13. Grows
  BY <1>10, <1>11, <1>12 DEF Grows
<1>14. \A u \in Tools : tools'[u] # NoRow =>
         \/ tools[u] # NoRow /\ tools'[u].by = tools[u].by
         \/ tools'[u].by = r /\ run[r].tool = u
  BY <1>1, <1>7, <1>8, <1>9
<1> QED BY <1>13, <1>14

-----------------------------------------------------------------------------

\* Steps that leave a session, or enter the next stage.
LEMMA LeaveStep ==
  ASSUME IInv, Grows, RestType', NEW r \in Runs, run[r].pc # "free",
         NEW p \in {"begin", "work", "fail", "ended"}, Go(r, p),
         run[r].pc \in Published => p \in Published,
         \A t \in Tools : tools'[t] # NoRow =>
           \/ tools[t] # NoRow /\ tools'[t].by = tools[t].by
           \/ /\ tools'[t].by = r /\ run[r].tool = t /\ run[r].passed # {}
              /\ p \in Published
  PROVE  IInv'
<1> DEFINE k == Leave(run[r], p)
<1>1. run[r] \in RunType /\ RunOK(run[r])
  BY DEF IInv, RunsOK
<1>2. NoJobRow \in JobRow /\ ~NoJobRow.completed /\ NoJobRow.result = NoTool
  BY DEF NoJobRow, JobRow
<1>3. /\ k \in RunType /\ k.pc = p /\ k.job = run[r].job /\ k.seen = NoJobRow
      /\ k.stage = run[r].stage /\ k.tool = run[r].tool /\ k.passed = run[r].passed
      /\ k.success = run[r].success
  BY <1>1, <1>2 DEF Leave, RunType
<1>4. run' = [run EXCEPT ![r] = k]
  BY DEF Go
<1> HIDE DEF k
<1>5. RunOK(k)
  BY <1>1, <1>3 DEF RunOK
<1>6. SeenOK(k, job'[k.job]) /\ k.seen.result = NoTool
  BY <1>2, <1>3 DEF SeenOK
<1> QED BY <1>3, <1>4, <1>5, <1>6, RunStep DEF Published

LEMMA EnterStep ==
  ASSUME IInv, Grows, RestType', UNCHANGED tools, NEW r \in Runs,
         run[r].pc \in {"begin", "work"}, NEW s \in Stages, Enter(r, s),
         s \in {"test_fix", "publish"} => run[r].tool \in Tools
  PROVE  IInv'
<1> DEFINE k == [Leave(run[r], "enter") EXCEPT !.stage = s]
<1>1. run[r] \in RunType /\ RunOK(run[r])
  BY DEF IInv, RunsOK
<1>2. NoJobRow \in JobRow /\ ~NoJobRow.completed /\ NoJobRow.result = NoTool
  BY DEF NoJobRow, JobRow
<1>3. /\ k \in RunType /\ k.pc = "enter" /\ k.job = run[r].job /\ k.seen = NoJobRow
      /\ k.stage = s /\ k.tool = run[r].tool /\ k.passed = run[r].passed
      /\ k.success = run[r].success
  BY <1>1, <1>2 DEF Leave, RunType
<1>4. run' = [run EXCEPT ![r] = k]
  BY DEF Enter
<1> HIDE DEF k
<1>5. RunOK(k)
  BY <1>1, <1>3 DEF RunOK
<1>6. SeenOK(k, job'[k.job]) /\ k.seen.result = NoTool
  BY <1>2, <1>3 DEF SeenOK
<1> QED BY <1>3, <1>4, <1>5, <1>6, RunStep DEF Published

\* What the code assigns are rows, and takes no completion back.
LEMMA Assigned ==
  ASSUME NEW row \in JobRow, NEW s \in Stages
  PROVE  /\ \A new \in {Queued(row), Running(row), Staged(row, s), Failed(row)} :
              /\ new \in JobRow /\ new.result = row.result
              /\ row.completed => new.completed
              /\ new.status = "complete" => row.status = "complete"
<1>1. Queued(row) \in JobRow /\ Queued(row).result = row.result
      /\ Queued(row).completed = row.completed /\ Queued(row).status = "queued"
  BY DEF Queued, JobRow
<1>2. Running(row) \in JobRow /\ Running(row).result = row.result
      /\ Running(row).completed = row.completed /\ Running(row).status = "running"
  BY DEF Running, JobRow
<1>3. Staged(row, s) \in JobRow /\ Staged(row, s).result = row.result
      /\ Staged(row, s).completed = row.completed
      /\ Staged(row, s).status \in {"running", row.status}
  <2>1. CASE s = "publish"
    BY <2>1 DEF Staged, JobRow
  <2>2. CASE s # "publish"
    <3>1. row.attempts + 1 \in Nat
      BY DEF JobRow
    <3> QED BY <2>2, <3>1 DEF Staged, JobRow
  <2> QED BY <2>1, <2>2
<1>4. Failed(row) \in JobRow /\ Failed(row).result = row.result
      /\ Failed(row).completed = TRUE /\ Failed(row).status = "failed"
  BY DEF Failed, JobRow
<1> QED BY <1>1, <1>2, <1>3, <1>4

\* Transactions that save what the code assigns and do not publish.
LEMMA SaveStep ==
  ASSUME IInv, NEW r \in Runs, run[r].pc # "free", UNCHANGED tools,
         \/ Save(r, Queued(run[r].seen))
         \/ Save(r, Running(run[r].seen))
         \/ Save(r, Staged(run[r].seen, run[r].stage))
         \/ Save(r, Failed(run[r].seen))
  PROVE  Grows
<1>1. run[r].seen \in JobRow /\ run[r].stage \in Stages
  BY DEF IInv, RunsOK, RunType
<1> QED BY <1>1, Assigned, SaveGrows

-----------------------------------------------------------------------------
(* The steps.                                                              *)

LEMMA PlatformSteps ==
  ASSUME IInv, NEW j \in Jobs, Submit(j) \/ ForwardLost(j)
  PROVE  IInv'
<1>1. RestType'
  BY DEF IInv, RestType, Submit, ForwardLost, Fault, artifacts, bounds
<1>2. CASE ForwardLost(j)
  BY <1>1, <1>2 DEF IInv, RunsOK, JobsOK, ToolsOK, ForwardLost, JobOf
<1>3. CASE Submit(j)
  <2>1. job[j] \in JobRow
    BY DEF IInv, JobsOK
  <2>2. [job[j] EXCEPT !.status = "queued"] \in JobRow
    BY <2>1 DEF JobRow
  <2>3. \A i \in Jobs : /\ job'[i].completed = job[i].completed
                        /\ job'[i].result = job[i].result
                        /\ job'[i].status \in {job[i].status, "queued"}
    BY <1>3, <2>1 DEF Submit, IInv, JobsOK, JobRow
  <2>4. job' \in [Jobs -> JobRow]
    BY <1>3, <2>2 DEF Submit, IInv, JobsOK
  <2>5. RunsOK' /\ ToolsOK'
    BY <1>3 DEF Submit, IInv, RunsOK, ToolsOK
  <2>6. \A r \in Runs : run[r].pc # "free" => JobOf(r) \in Jobs
    BY DEF IInv, RunsOK, RunOK, JobOf
  <2>7. JobsOK'
    BY <1>3, <2>3, <2>4, <2>6 DEF Submit, IInv, JobsOK, JobOK, SeenOK, JobOf
  <2> QED BY <1>1, <2>5, <2>7 DEF IInv
<1> QED BY <1>2, <1>3

LEMMA TakeSteps ==
  ASSUME IInv, NEW j \in Jobs, NEW r \in Runs, Deliver(j, r) \/ Repost(j, r)
  PROVE  IInv'
<1> DEFINE k == [run[r] EXCEPT !.pc = "accept", !.job = j, !.seen = job[j]]
<1>1. run[r] \in RunType /\ RunOK(run[r]) /\ job[j] \in JobRow
  BY DEF IInv, RunsOK, JobsOK
<1>r. RestType'
  <2>1. ASSUME Deliver(j, r)
        PROVE  RestType'
    BY <2>1 DEF IInv, RestType, Deliver, artifacts, bounds
  <2>2. ASSUME Repost(j, r)
        PROVE  RestType'
    BY <2>2 DEF IInv, RestType, Repost, artifacts
  <2> QED BY <2>1, <2>2
<1>t. Take(j, r) /\ UNCHANGED <<job, tools>>
  BY DEF Deliver, Repost
<1>2. /\ RestType' /\ UNCHANGED <<job, tools>> /\ run' = [run EXCEPT ![r] = k]
      /\ run[r].pc = "free"
  BY <1>r, <1>t DEF IInv, RunsOK, Take, At
<1>3. Grows
  BY <1>2, UnchangedGrows
<1>4. k \in RunType /\ k.pc = "accept" /\ k.job = j /\ k.seen = job[j]
      /\ k.stage = run[r].stage /\ k.tool = run[r].tool /\ k.passed = run[r].passed
      /\ k.success = run[r].success
  BY <1>1 DEF RunType
<1> HIDE DEF k
<1>5. RunOK(k)
  BY <1>1, <1>4 DEF RunOK
<1>6. SeenOK(k, job'[k.job])
  BY <1>2, <1>4 DEF SeenOK
<1>7. k.seen.result # NoTool => tools'[k.seen.result] # NoRow
  BY <1>2, <1>4 DEF IInv, JobsOK
<1> QED BY <1>2, <1>3, <1>4, <1>5, <1>6, <1>7, RunStep DEF IInv, ToolsOK, Published

\* Transactions on the job row alone.
LEMMA JobSteps ==
  ASSUME IInv, NEW r \in Runs,
         Accept(r) \/ Begin(r) \/ Reject(r) \/ MarkFailed(r)
  PROVE  IInv'
<1>1. RestType' /\ UNCHANGED tools /\ run[r].pc # "free"
  BY DEF IInv, RestType, Accept, Begin, Reject, MarkFailed, At, artifacts, bounds
<1>2. Grows
  BY <1>1, SaveStep DEF Accept, Begin, Reject, MarkFailed
<1>3. CASE Accept(r)
  BY <1>1, <1>2, <1>3, LeaveStep DEF Accept, At, Published
<1>4. CASE Begin(r)
  BY <1>1, <1>2, <1>4, EnterStep DEF Begin, At, Stages
<1>5. CASE Reject(r)
  BY <1>1, <1>2, <1>5, LeaveStep DEF Reject, At, Published
<1>6. CASE MarkFailed(r)
  BY <1>1, <1>2, <1>6, LeaveStep DEF MarkFailed, At, Published
<1> QED BY <1>3, <1>4, <1>5, <1>6

LEMMA LoadStep ==
  ASSUME IInv, NEW r \in Runs, LoadJob(r)
  PROVE  IInv'
<1> DEFINE j == JobOf(r)
           k == [run[r] EXCEPT !.loaded = TRUE, !.seen = job[j]]
<1>1. run[r] \in RunType /\ RunOK(run[r]) /\ j \in Jobs /\ job[j] \in JobRow
      /\ run[r].pc \in {"begin", "enter", "fail"}
  BY DEF IInv, RunsOK, RunOK, JobsOK, LoadJob, JobOf
<1>2. RestType' /\ UNCHANGED <<job, tools>> /\ run' = [run EXCEPT ![r] = k]
  BY DEF IInv, RestType, RunsOK, LoadJob, artifacts, bounds
<1>3. Grows
  BY <1>2, UnchangedGrows
<1>4. k \in RunType /\ k.pc = run[r].pc /\ k.job = j /\ k.seen = job[j]
      /\ k.stage = run[r].stage /\ k.tool = run[r].tool /\ k.passed = run[r].passed
      /\ k.success = run[r].success
  BY <1>1 DEF RunType, JobOf
<1>5. k.seen.result # NoTool => tools'[k.seen.result] # NoRow
  BY <1>1, <1>2, <1>4 DEF IInv, JobsOK
<1> HIDE DEF k, j
<1>6. RunOK(k)
  BY <1>1, <1>4 DEF RunOK
<1>7. SeenOK(k, job'[k.job])
  BY <1>2, <1>4 DEF SeenOK
<1> QED BY <1>1, <1>2, <1>3, <1>4, <1>5, <1>6, <1>7, RunStep DEF IInv, ToolsOK, Published

\* _set_stage, and the entry of the publish stage, whose session stays open.
LEMMA EnterStageStep ==
  ASSUME IInv, NEW r \in Runs, EnterStage(r)
  PROVE  IInv'
<1> DEFINE new == Staged(run[r].seen, run[r].stage)
           k == [run[r] EXCEPT !.pc = "publish", !.loaded = FALSE, !.seen = new]
<1>1. /\ run[r] \in RunType /\ RunOK(run[r]) /\ run[r].pc = "enter"
      /\ run[r].seen \in JobRow /\ run[r].stage \in Stages /\ run[r].job \in Jobs
      /\ SeenOK(run[r], job[run[r].job])
      /\ (run[r].seen.result # NoTool => tools[run[r].seen.result] # NoRow)
  BY DEF IInv, RunsOK, RunOK, RunType, JobsOK, EnterStage, At, JobOf
<1>2. RestType' /\ UNCHANGED tools
  BY DEF IInv, RestType, EnterStage, artifacts, bounds
<1>3. Grows
  BY <1>1, <1>2, SaveStep DEF EnterStage
<1>4. CASE Go(r, "work")
  BY <1>1, <1>2, <1>3, <1>4, LeaveStep DEF Published
<1>5. CASE run[r].stage = "publish" /\ run' = [run EXCEPT ![r].pc = "publish",
                                        ![r].loaded = FALSE, ![r].seen = new]
  <2>1. run' = [run EXCEPT ![r] = k]
    BY <1>5 DEF IInv, RunsOK
  <2>2. /\ new \in JobRow /\ new.result = run[r].seen.result
        /\ new.completed = run[r].seen.completed
    BY <1>1, <1>5 DEF Staged, JobRow
  <2> HIDE DEF new
  <2>3. /\ k \in RunType /\ k.pc = "publish" /\ k.job = run[r].job /\ k.seen = new
        /\ k.stage = run[r].stage /\ k.tool = run[r].tool /\ k.passed = run[r].passed
        /\ k.success = run[r].success
    BY <1>1, <2>2 DEF RunType
  <2> HIDE DEF k
  <2>4. RunOK(k)
    BY <1>1, <1>5, <2>3 DEF RunOK
  <2>5. SeenOK(k, job'[k.job])
    BY <1>1, <1>3, <2>2, <2>3 DEF SeenOK, Grows
  <2>6. k.seen.result # NoTool => tools'[k.seen.result] # NoRow
    BY <1>1, <1>2, <2>2, <2>3
  <2> QED BY <1>1, <1>2, <1>3, <2>1, <2>3, <2>4, <2>5, <2>6, RunStep
          DEF IInv, ToolsOK, Published
<1> QED BY <1>4, <1>5 DEF EnterStage

\* Steps in which a run works for itself and touches no row.
LEMMA ReadGiveUpStep ==
  ASSUME IInv, NEW r \in Runs, Read(r) \/ GiveUp(r) \/ IntegrityError(r)
  PROVE  IInv'
<1>1. RestType' /\ UNCHANGED <<job, tools>> /\ run[r].pc \in {"work", "write"}
  BY DEF IInv, RestType, Read, GiveUp, IntegrityError, Working, At, artifacts, bounds
<1>2. Grows
  BY <1>1, UnchangedGrows
<1>3. run[r].stage = "test_fix" => run[r].tool \in Tools
  BY DEF IInv, RunsOK, RunOK
<1>4. ASSUME Go(r, "fail")
      PROVE  IInv'
  BY <1>1, <1>2, <1>4, LeaveStep DEF Published
<1>5. ASSUME Enter(r, "publish"), Working(r, "test_fix")
      PROVE  IInv'
  BY <1>1, <1>2, <1>3, <1>5, EnterStep DEF Working, At, Stages
<1>6. ASSUME Enter(r, NextStage[run[r].stage]),
             run[r].stage \in {"discovery", "reader"}, Working(r, run[r].stage)
      PROVE  IInv'
  <2>1. NextStage[run[r].stage] \in {"reader", "codegen"}
    BY <1>6 DEF NextStage
  <2> QED BY <1>1, <1>2, <1>6, <2>1, EnterStep DEF Working, At, Stages
<1> QED BY <1>4, <1>5, <1>6 DEF Read, GiveUp, IntegrityError, Working

\* A step from "work" or "publish" that keeps what the session has read.
LEMMA WorkStep ==
  ASSUME IInv, NEW r \in Runs, NEW k, run' = [run EXCEPT ![r] = k],
         run[r].pc \in {"work", "publish"}, k.pc # "free",
         UNCHANGED <<job, forward, tools, artifacts, bounds>>, RunOK(k),
         k.job = run[r].job, k.seen = run[r].seen,
         k.row # NoRow /\ k.pc = "write" => tools[k.tool] # NoRow
  PROVE  IInv'
<1>1. RestType' /\ UNCHANGED <<job, tools>>
  BY DEF IInv, RestType, artifacts, bounds
<1>2. Grows
  BY <1>1, UnchangedGrows
<1>3. SeenOK(k, job'[k.job])
  BY <1>1 DEF IInv, JobsOK, JobOf, SeenOK
<1>4. k.seen.result # NoTool => tools'[k.seen.result] # NoRow
  BY <1>1 DEF IInv, JobsOK
<1> QED BY <1>1, <1>2, <1>3, <1>4, RunStep DEF Published

LEMMA GenerateStep ==
  ASSUME IInv, NEW r \in Runs, Generate(r)
  PROVE  IInv'
<1>1. run[r] \in RunType /\ RunOK(run[r]) /\ run[r].pc = "work"
  BY DEF IInv, RunsOK, Generate, Working, At
<1>2. ASSUME NEW t \in Tools, NEW s \in ToolStatus,
             run' = [run EXCEPT ![r].pc = "enter", ![r].stage = "test_fix",
                                ![r].tool = t, ![r].status = s]
      PROVE  IInv'
  <2> DEFINE k == [run[r] EXCEPT !.pc = "enter", !.stage = "test_fix",
                                 !.tool = t, !.status = s]
  <2>1. run' = [run EXCEPT ![r] = k]
    BY <1>2 DEF IInv, RunsOK
  <2>2. /\ k \in RunType /\ k.pc = "enter" /\ k.job = run[r].job
        /\ k.seen = run[r].seen /\ k.stage = "test_fix" /\ k.tool = t
        /\ k.passed = run[r].passed /\ k.success = run[r].success
    BY <1>1 DEF RunType, Stages
  <2> HIDE DEF k
  <2>3. RunOK(k)
    BY <1>1, <2>2 DEF RunOK
  <2> QED BY <1>1, <2>1, <2>2, <2>3, WorkStep DEF Generate
<1>3. ASSUME Go(r, "fail")
      PROVE  IInv'
  <2>1. RestType' /\ UNCHANGED <<job, tools>>
    BY DEF IInv, RestType, Generate, artifacts, bounds
  <2>2. Grows
    BY <2>1, UnchangedGrows
  <2> QED BY <1>1, <1>3, <2>1, <2>2, LeaveStep DEF Published
<1> QED BY <1>2, <1>3 DEF Generate

LEMMA TestStep ==
  ASSUME IInv, NEW r \in Runs, Test(r)
  PROVE  IInv'
<1>1. /\ run[r] \in RunType /\ RunOK(run[r]) /\ run[r].pc = "work"
      /\ run[r].stage = "test_fix" /\ run[r].tool \in Tools
      /\ run[r].attempt + 1 \in Nat /\ run[r].code \in {"original", "fixed"}
      /\ run[r].passed \in SUBSET {"original", "fixed"}
  BY DEF IInv, RunsOK, RunOK, RunType, Test, Working, At
<1>2. ASSUME run' = [run EXCEPT ![r].pc = "enter", ![r].stage = "publish",
                                ![r].success = TRUE, ![r].passed = @ \cup {run[r].code},
                                ![r].attempt = @ + 1]
      PROVE  IInv'
  <2> DEFINE k == [run[r] EXCEPT !.pc = "enter", !.stage = "publish", !.success = TRUE,
                                 !.passed = @ \cup {run[r].code}, !.attempt = @ + 1]
  <2>1. run' = [run EXCEPT ![r] = k]
    BY <1>2 DEF IInv, RunsOK
  <2>2. /\ k \in RunType /\ k.pc = "enter" /\ k.job = run[r].job
        /\ k.seen = run[r].seen /\ k.stage = "publish" /\ k.tool = run[r].tool
        /\ k.passed = run[r].passed \cup {run[r].code}
    BY <1>1 DEF RunType, Stages
  <2> HIDE DEF k
  <2>3. RunOK(k)
    BY <1>1, <2>2 DEF RunOK
  <2> QED BY <1>1, <2>1, <2>2, <2>3, WorkStep DEF Test
<1>3. ASSUME NEW next \in {run[r].code, "fixed"},
             run' = [run EXCEPT ![r].code = next, ![r].attempt = @ + 1]
      PROVE  IInv'
  <2> DEFINE k == [run[r] EXCEPT !.code = next, !.attempt = @ + 1]
  <2>1. run' = [run EXCEPT ![r] = k]
    BY <1>3 DEF IInv, RunsOK
  <2>2. /\ k \in RunType /\ k.pc = "work" /\ k.job = run[r].job
        /\ k.seen = run[r].seen /\ k.stage = "test_fix" /\ k.tool = run[r].tool
        /\ k.passed = run[r].passed /\ k.success = run[r].success
    BY <1>1 DEF RunType, Stages
  <2> HIDE DEF k
  <2>3. RunOK(k)
    BY <1>1, <2>2 DEF RunOK
  <2> QED BY <1>1, <2>1, <2>2, <2>3, WorkStep DEF Test
<1>4. ASSUME Go(r, "fail")
      PROVE  IInv'
  <2>1. RestType' /\ UNCHANGED <<job, tools>>
    BY DEF IInv, RestType, Test, artifacts, bounds
  <2>2. Grows
    BY <2>1, UnchangedGrows
  <2> QED BY <1>1, <1>4, <2>1, <2>2, LeaveStep DEF Published
<1> QED BY <1>2, <1>3, <1>4 DEF Test

LEMMA SelectStep ==
  ASSUME IInv, NEW r \in Runs, SelectTool(r)
  PROVE  IInv'
<1> DEFINE k == [run[r] EXCEPT !.pc = "write", !.row = tools[run[r].tool]]
<1>1. /\ run[r] \in RunType /\ RunOK(run[r]) /\ run[r].pc = "publish"
      /\ run[r].stage = "publish" /\ run[r].tool \in Tools /\ run[r].success
      /\ tools[run[r].tool] \in ToolRow \cup {NoRow}
  BY DEF IInv, RunsOK, RunOK, ToolsOK, SelectTool, At
<1>2. run' = [run EXCEPT ![r] = k]
  BY DEF IInv, RunsOK, SelectTool
<1>3. /\ k \in RunType /\ k.pc = "write" /\ k.job = run[r].job
      /\ k.seen = run[r].seen /\ k.stage = "publish" /\ k.tool = run[r].tool
      /\ k.passed = run[r].passed /\ k.success = run[r].success
      /\ k.row = tools[run[r].tool]
  BY <1>1 DEF RunType
<1> HIDE DEF k
<1>4. RunOK(k)
  BY <1>1, <1>3 DEF RunOK
<1>5. /\ k.pc # "free" /\ run[r].pc \in {"work", "publish"}
      /\ k.row # NoRow => tools[k.tool] # NoRow
  BY <1>1, <1>3
<1>6. UNCHANGED <<job, forward, tools, artifacts, bounds>>
  BY DEF SelectTool
<1> QED BY <1>2, <1>3, <1>4, <1>5, <1>6, WorkStep

\* The commit of publish_tool, whether or not its acknowledgement arrives.
LEMMA PublishStep ==
  ASSUME IInv, RestType', NEW r \in Runs, At(r, "write"), ~NameTaken(r), WriteRow(r),
         Save(r, Completed(run[r].seen, run[r].tool)),
         Go(r, "artifacts") \/ Go(r, "fail")
  PROVE  IInv'
<1>1. /\ Grows
      /\ \A t \in Tools : tools'[t] # NoRow =>
           \/ tools[t] # NoRow /\ tools'[t].by = tools[t].by
           \/ tools'[t].by = r /\ run[r].tool = t
  BY PublishGrows
<1>2. run[r].passed # {} /\ run[r].pc = "write"
  BY DEF IInv, RunsOK, RunOK, At
<1>3. run[r] \in RunType /\ RunOK(run[r]) /\ run[r].job \in Jobs
  BY <1>2 DEF IInv, RunsOK, RunOK
<1>4. NoJobRow \in JobRow /\ ~NoJobRow.completed /\ NoJobRow.result = NoTool
  BY DEF NoJobRow, JobRow
<1>5. ASSUME NEW p \in {"artifacts", "fail"}, Go(r, p)
      PROVE  IInv'
  <2> DEFINE k == Leave(run[r], p)
  <2>1. /\ k \in RunType /\ k.pc = p /\ k.job = run[r].job /\ k.seen = NoJobRow
        /\ k.stage = run[r].stage /\ k.tool = run[r].tool /\ k.passed = run[r].passed
        /\ k.success = run[r].success
    BY <1>3, <1>4 DEF Leave, RunType
  <2>2. run' = [run EXCEPT ![r] = k]
    BY <1>5 DEF Go
  <2> HIDE DEF k
  <2>3. RunOK(k)
    BY <1>2, <1>3, <2>1 DEF RunOK
  <2>4. SeenOK(k, job'[k.job]) /\ k.seen.result = NoTool
    BY <1>4, <2>1 DEF SeenOK
  <2> QED BY <1>1, <1>2, <2>1, <2>2, <2>3, <2>4, RunStep DEF Published
<1> QED BY <1>5

LEMMA ArtifactSteps ==
  ASSUME IInv, NEW r \in Runs, WriteArtifacts(r) \/ ArtifactError(r)
  PROVE  IInv'
<1>1. /\ run[r] \in RunType /\ RunOK(run[r]) /\ run[r].pc = "artifacts"
      /\ run[r].tool \in Tools
  BY DEF IInv, RunsOK, RunOK, WriteArtifacts, ArtifactError, At
<1>2. /\ Artifact(r) \in [by: Runs, code: {"original", "fixed"}]
      /\ Row(r) \in ToolRow
  BY <1>1 DEF Artifact, Row, ToolRow, RunType
<1>3. UNCHANGED <<job, tools>> /\ Go(r, "ended")
  BY DEF WriteArtifacts, ArtifactError
<1>4. RestType'
  <2>1. ASSUME WriteArtifacts(r)
        PROVE  RestType'
    BY <1>2, <2>1 DEF IInv, RestType, WriteArtifacts, bounds
  <2>2. ASSUME ArtifactError(r)
        PROVE  RestType'
    BY <1>2, <2>2 DEF IInv, RestType, ArtifactError, Fault
  <2> QED BY <2>1, <2>2
<1>5. Grows
  BY <1>3, UnchangedGrows
<1> QED BY <1>1, <1>3, <1>4, <1>5, LeaveStep DEF Published

LEMMA DatabaseErrorStep ==
  ASSUME IInv, NEW r \in Runs, DatabaseError(r)
  PROVE  IInv'
<1>1. RestType' /\ UNCHANGED <<job, tools>>
  BY DEF IInv, RestType, DatabaseError, Fault, artifacts
<1>2. Grows
  BY <1>1, UnchangedGrows
<1>3. run[r].pc # "free" /\ run[r].pc # "artifacts" /\ Caught(r) \in {"fail", "ended"}
  BY DEF DatabaseError, Caught
<1> QED BY <1>1, <1>2, <1>3, LeaveStep DEF DatabaseError, Published

LEMMA LostAckStep ==
  ASSUME IInv, NEW r \in Runs, LostAck(r)
  PROVE  IInv'
<1>1. RestType' /\ Go(r, Caught(r)) /\ Caught(r) \in {"fail", "ended"}
  BY DEF IInv, RestType, LostAck, Fault, artifacts, Caught
<1>2. ASSUME At(r, "write"), ~NameTaken(r), WriteRow(r),
             Save(r, Completed(run[r].seen, run[r].tool))
      PROVE  IInv'
  BY <1>1, <1>2, PublishStep DEF At, Caught
<1>3. ASSUME run[r].pc \in {"accept", "begin", "enter", "publish", "fail"},
             UNCHANGED tools,
             \/ Save(r, Queued(run[r].seen))
             \/ Save(r, Running(run[r].seen))
             \/ Save(r, Staged(run[r].seen, run[r].stage))
             \/ Save(r, Failed(run[r].seen))
      PROVE  IInv'
  <2>1. Grows
    BY <1>3, SaveStep
  <2> QED BY <1>1, <1>3, <2>1, LeaveStep DEF Published
<1> QED BY <1>2, <1>3 DEF LostAck, At

\* A restart ends every run; what the ended runs have read no longer matters.
LEMMA RestartStep ==
  ASSUME IInv, Restart
  PROVE  IInv'
<1> DEFINE k(r) == Leave(run[r], "ended")
<1>1. RestType' /\ UNCHANGED <<job, tools>>
  BY DEF IInv, RestType, Restart, Fault, artifacts
<1>2. NoJobRow \in JobRow /\ ~NoJobRow.completed /\ NoJobRow.result = NoTool
  BY DEF NoJobRow, JobRow
<1>3. ASSUME NEW r \in Runs
      PROVE  /\ run'[r] \in RunType /\ RunOK(run'[r])
             /\ run[r].pc = "free" => run'[r] = run[r]
             /\ run[r].pc # "free" => run'[r].pc = "ended" /\ run'[r].seen = NoJobRow
             /\ run'[r].tool = run[r].tool /\ run'[r].passed = run[r].passed
  <2>1. run[r] \in RunType /\ RunOK(run[r])
    BY DEF IInv, RunsOK
  <2>2. /\ k(r) \in RunType /\ k(r).pc = "ended" /\ k(r).job = run[r].job
        /\ k(r).seen = NoJobRow /\ k(r).stage = run[r].stage
        /\ k(r).tool = run[r].tool /\ k(r).passed = run[r].passed
        /\ k(r).success = run[r].success
    BY <1>2, <2>1 DEF Leave, RunType
  <2>3. run'[r] = IF run[r].pc = "free" THEN run[r] ELSE k(r)
    BY DEF Restart, At
  <2> HIDE DEF k
  <2>4. run[r].pc # "free" => RunOK(k(r))
    BY <2>1, <2>2 DEF RunOK
  <2> QED BY <2>1, <2>2, <2>3, <2>4
<1>4. RunsOK'
  <2>1. run' = [r \in Runs |-> run'[r]]
    BY DEF Restart
  <2> QED BY <1>3, <2>1 DEF RunsOK
<1>5. JobsOK'
  BY <1>1, <1>2, <1>3 DEF IInv, JobsOK, SeenOK, JobOf
<1>6. ToolsOK'
  <2>1. ASSUME NEW t \in Tools, tools[t] # NoRow
        PROVE  /\ run'[tools[t].by].tool = t /\ run'[tools[t].by].passed # {}
               /\ run'[tools[t].by].pc \in Published
    <3>1. tools[t].by \in Runs
      BY <2>1 DEF IInv, ToolsOK, ToolRow
    <3> QED BY <1>3, <2>1, <3>1 DEF IInv, ToolsOK, Published
  <2>2. \A r \in Runs : run'[r].pc # "write"
    BY <1>3
  <2> QED BY <1>1, <2>1, <2>2 DEF IInv, ToolsOK, Published
<1> QED BY <1>1, <1>4, <1>5, <1>6 DEF IInv

-----------------------------------------------------------------------------
(* The invariant and its consequences.                                     *)

LEMMA Initially == Init => IInv
<1> SUFFICES ASSUME Init
             PROVE  IInv
  OBVIOUS
<1>1. NoJobRow \in JobRow /\ NoJobRow.result = NoTool /\ NoJobRow.status = "absent"
  BY DEF NoJobRow, JobRow
<1>2. /\ FreeRun \in RunType /\ FreeRun.pc = "free" /\ FreeRun.seen = NoJobRow
      /\ FreeRun.stage = "discovery" /\ FreeRun.success = FALSE
  BY <1>1 DEF FreeRun, RunType, Stages, ToolStatus
<1>3. RunOK(FreeRun)
  BY <1>2 DEF RunOK
<1>4. RunsOK
  BY <1>2, <1>3 DEF Init, RunsOK
<1>5. JobsOK
  BY <1>1, <1>2 DEF Init, JobsOK, JobOK
<1>6. ToolsOK /\ RestType
  BY <1>2 DEF Init, ToolsOK, RestType
<1> QED BY <1>4, <1>5, <1>6 DEF IInv

LEMMA Inductive == IInv /\ [Next]_vars => IInv'
<1> SUFFICES ASSUME IInv, [Next]_vars
             PROVE  IInv'
  OBVIOUS
<1>1. ASSUME NEW j \in Jobs, Submit(j) \/ ForwardLost(j)
      PROVE  IInv'
  BY <1>1, PlatformSteps
<1>2. ASSUME NEW j \in Jobs, NEW r \in Runs, Deliver(j, r) \/ Repost(j, r)
      PROVE  IInv'
  BY <1>2, TakeSteps
<1>3. ASSUME NEW r \in Runs, Step(r)
      PROVE  IInv'
  <2>1. ASSUME Publish(r)
        PROVE  IInv'
    <3>1. RestType'
      BY <2>1 DEF IInv, RestType, Publish, artifacts, bounds
    <3> QED BY <2>1, <3>1, PublishStep DEF Publish
  <2> QED BY <1>3, <2>1, JobSteps, LoadStep, EnterStageStep, ReadGiveUpStep,
             GenerateStep, TestStep, SelectStep, ArtifactSteps
          DEF Step
<1>4. ASSUME NEW r \in Runs, ArtifactError(r) \/ DatabaseError(r) \/ LostAck(r)
      PROVE  IInv'
  BY <1>4, ArtifactSteps, DatabaseErrorStep, LostAckStep
<1>5. CASE UNCHANGED vars
  BY <1>5 DEF IInv, RunsOK, JobsOK, ToolsOK, RestType, vars, artifacts, bounds, JobOf
<1> QED BY <1>1, <1>2, <1>3, <1>4, <1>5, RestartStep DEF Next

LEMMA AlwaysIInv == Spec => []IInv
BY Initially, Inductive, PTL DEF Spec

\* Every variable of the pipeline keeps its type, whatever the numbers of jobs,
\* runs, repeated posts and faults.
THEOREM TypeCorrect == Spec => []TypeOK
<1>1. IInv => TypeOK
  BY DEF IInv, RunsOK, JobsOK, ToolsOK, RestType, TypeOK
<1> QED BY <1>1, AlwaysIInv, PTL

\* Nothing gets into the catalog but by a run that saw it pass a test (publish_tool
\* refuses a TestResult without success, and only the loop of run_test_fix sets it).
THEOREM OnlyTestedAlways == Spec => []OnlyTestedToolsPublished
<1>1. IInv => OnlyTestedToolsPublished
  BY DEF IInv, ToolsOK, OnlyTestedToolsPublished
<1> QED BY <1>1, AlwaysIInv, PTL

\* A job that says complete names a tool of the catalog, although runs of one job
\* overwrite single columns of its row.
THEOREM CompleteHasToolAlways == Spec => []CompleteHasTool
<1>1. IInv => CompleteHasTool
  <2> SUFFICES ASSUME IInv, NEW j \in Jobs, job[j].status = "complete"
               PROVE  /\ job[j].completed /\ job[j].result \in Tools
                      /\ tools[job[j].result] # NoRow
    BY DEF CompleteHasTool
  <2>1. job[j].result \in Tools \cup {NoTool}
    BY DEF IInv, JobsOK, JobRow
  <2> QED BY <2>1 DEF IInv, JobsOK, JobOK
<1> QED BY <1>1, AlwaysIInv, PTL

-----------------------------------------------------------------------------
(* Who finishes a job.                                                     *)

\* A step of a run, or a fault in it, leaves the other runs and their jobs alone.
LEMMA OwnRunOnly ==
  ASSUME IInv, NEW r \in Runs,
         Step(r) \/ ArtifactError(r) \/ DatabaseError(r) \/ LostAck(r)
  PROVE  /\ run[r].pc \notin {"free", "ended"} /\ run'[r].pc # "free"
         /\ run[r].job \in Jobs /\ run'[r].job = run[r].job
         /\ \A q \in Runs \ {r} : run'[q] = run[q]
         /\ \A j \in Jobs \ {run[r].job} : job'[j] = job[j]
         /\ UNCHANGED <<forward, reposts>>
<1> USE DEF At, Go, Enter, Leave, Save, JobOf, RunType, Working
<1>1. /\ run \in [Runs -> RunType] /\ job \in [Jobs -> JobRow]
      /\ run[r].pc # "free" => run[r].job \in Jobs
  BY DEF IInv, RunsOK, JobsOK, RunOK
<1>2. CASE Accept(r)
  BY <1>1, <1>2 DEF Accept, bounds
<1>3. CASE LoadJob(r)
  BY <1>1, <1>3 DEF LoadJob, bounds
<1>4. CASE Begin(r)
  BY <1>1, <1>4 DEF Begin, bounds
<1>5. CASE EnterStage(r)
  <2>1. CASE run[r].stage = "publish"
    BY <1>1, <1>5, <2>1 DEF EnterStage, bounds
  <2>2. CASE run[r].stage # "publish"
    <3>1. /\ run[r].pc = "enter" /\ UNCHANGED <<forward, reposts>> /\ Go(r, "work")
          /\ Save(r, Staged(run[r].seen, run[r].stage))
      BY <1>5, <2>2 DEF EnterStage, bounds
    <3> QED BY <1>1, <3>1
  <2> QED BY <2>1, <2>2
<1>6. CASE Read(r)
  <2>0. run[r].pc = "work" /\ UNCHANGED <<job, forward, reposts>>
    BY <1>6 DEF Read, bounds
  <2>1. CASE Enter(r, NextStage[run[r].stage])
    BY <1>1, <2>0, <2>1
  <2>2. CASE Go(r, "fail")
    BY <1>1, <2>0, <2>2
  <2> QED BY <1>6, <2>1, <2>2 DEF Read
<1>7. CASE Generate(r)
  <2>1. CASE Go(r, "fail")
    BY <1>1, <1>7, <2>1 DEF Generate, bounds
  <2>2. CASE ~Go(r, "fail")
    <3>0. run[r].pc = "work" /\ UNCHANGED <<job, forward, reposts>>
      BY <1>7 DEF Generate, bounds
    <3>1. PICK t \in Tools, s \in ToolStatus :
            run' = [run EXCEPT ![r].pc = "enter", ![r].stage = "test_fix",
                               ![r].tool = t, ![r].status = s]
      BY <1>7, <2>2 DEF Generate
    <3> QED BY <1>1, <3>0, <3>1
  <2> QED BY <2>1, <2>2
<1>8. CASE Test(r)
  <2>1. CASE Go(r, "fail")
    BY <1>1, <1>8, <2>1 DEF Test, bounds
  <2>2. CASE ~Go(r, "fail")
    BY <1>1, <1>8, <2>2 DEF Test, bounds
  <2> QED BY <2>1, <2>2
<1>9. CASE GiveUp(r)
  BY <1>1, <1>9 DEF GiveUp, bounds
<1>10. CASE Reject(r)
  BY <1>1, <1>10 DEF Reject, bounds
<1>11. CASE SelectTool(r)
  BY <1>1, <1>11 DEF SelectTool, bounds
<1>12. CASE Publish(r)
  BY <1>1, <1>12 DEF Publish, bounds
<1>13. CASE IntegrityError(r)
  BY <1>1, <1>13 DEF IntegrityError, bounds
<1>14. CASE WriteArtifacts(r)
  BY <1>1, <1>14 DEF WriteArtifacts, bounds
<1>15. CASE MarkFailed(r)
  BY <1>1, <1>15 DEF MarkFailed, bounds
<1>16. CASE ArtifactError(r)
  BY <1>1, <1>16 DEF ArtifactError, Fault
<1>17. CASE DatabaseError(r)
  BY <1>1, <1>17 DEF DatabaseError, Fault, Caught
<1>18. CASE LostAck(r)
  BY <1>1, <1>18 DEF LostAck, Fault, Caught
<1> QED BY <1>2, <1>3, <1>4, <1>5, <1>6, <1>7, <1>8, <1>9, <1>10, <1>11, <1>12, <1>13,
           <1>14, <1>15, <1>16, <1>17, <1>18 DEF Step

Unfinal == {"queued", "running"}

\* A run that has read its job for the last time will write its final status only if
\* what it read was not final.
LastRead(k) ==
  \/ k.pc \in {"publish", "write"}
  \/ k.loaded /\ (k.pc = "fail" \/ (k.pc = "enter" /\ k.stage = "publish"))

\* A run that will give its job a final status, unless a fault strikes.
Attends(k) ==
  /\ k.pc \notin {"free", "artifacts", "ended"}
  /\ LastRead(k) => k.seen.status \in Unfinal

WorkUnloaded == \A r \in Runs : run[r].pc = "work" => ~run[r].loaded

Attended(j) ==
  job[j].status \in Unfinal =>
    forward[j] = "scheduled" \/ \E r \in Runs : Attends(run[r]) /\ run[r].job = j

JobsAttended == faults = 0 => \A j \in Jobs : Attended(j)

\* The status of a job after a flush.
LEMMA SavedStatus ==
  ASSUME IInv, NEW r \in Runs, run[r].pc # "free", NEW new \in JobRow, Save(r, new)
  PROVE  job'[run[r].job].status =
           IF new.status = run[r].seen.status THEN job[run[r].job].status ELSE new.status
<1>1. /\ run[r].job \in Jobs /\ run[r].seen \in JobRow /\ job[run[r].job] \in JobRow
      /\ job \in [Jobs -> JobRow]
  BY DEF IInv, RunsOK, RunOK, JobsOK, RunType
<1>2. Flush(job[run[r].job], run[r].seen, new)["status"] =
        IF new["status"] = run[r].seen["status"] THEN job[run[r].job]["status"]
                                                 ELSE new["status"]
  BY <1>1, FlushJob
<1> QED BY <1>1, <1>2 DEF Save, JobOf

\* What codegen and the test loop leave of a run's session.
LEMMA WorkKeeps ==
  ASSUME IInv, NEW r \in Runs, Generate(r) \/ Test(r), ~Go(r, "fail")
  PROVE  /\ run[r].pc = "work" /\ run'[r].pc \in {"enter", "work"}
         /\ run'[r].loaded = run[r].loaded /\ run'[r].seen = run[r].seen
<1>1. run \in [Runs -> RunType] /\ run[r].pc = "work"
  BY DEF IInv, RunsOK, Generate, Test, Working, At
<1>2. ASSUME NEW t \in Tools, NEW s \in ToolStatus,
             run' = [run EXCEPT ![r].pc = "enter", ![r].stage = "test_fix",
                                ![r].tool = t, ![r].status = s]
      PROVE  /\ run'[r].pc = "enter"
             /\ run'[r].loaded = run[r].loaded /\ run'[r].seen = run[r].seen
  BY <1>1, <1>2 DEF RunType
<1>3. ASSUME run' = [run EXCEPT ![r].pc = "enter", ![r].stage = "publish",
                                ![r].success = TRUE, ![r].passed = @ \cup {run[r].code},
                                ![r].attempt = @ + 1]
      PROVE  /\ run'[r].pc = "enter"
             /\ run'[r].loaded = run[r].loaded /\ run'[r].seen = run[r].seen
  BY <1>1, <1>3 DEF RunType
<1>4. ASSUME NEW next \in {run[r].code, "fixed"},
             run' = [run EXCEPT ![r].code = next, ![r].attempt = @ + 1]
      PROVE  /\ run'[r].pc = "work"
             /\ run'[r].loaded = run[r].loaded /\ run'[r].seen = run[r].seen
  BY <1>1, <1>4 DEF RunType
<1> QED BY <1>1, <1>2, <1>3, <1>4 DEF Generate, Test

\* A run at work has closed its session.
LEMMA WorkUnloadedStep ==
  ASSUME IInv, WorkUnloaded, [Next]_vars
  PROVE  WorkUnloaded'
<1> SUFFICES ASSUME NEW q \in Runs, run'[q].pc = "work"
             PROVE  ~run'[q].loaded
  BY DEF WorkUnloaded
<1>1. run \in [Runs -> RunType] /\ (run[q].pc = "work" => ~run[q].loaded)
  BY DEF IInv, RunsOK, WorkUnloaded
<1>g. ASSUME NEW p, Go(q, p) \/ Enter(q, p)
      PROVE  ~run'[q].loaded
  BY <1>1, <1>g DEF Go, Enter, Leave, RunType
<1>2. ASSUME NEW r \in Runs, Step(r) \/ ArtifactError(r) \/ DatabaseError(r) \/ LostAck(r)
      PROVE  ~run'[q].loaded
  <2>1. CASE r # q
    BY <1>1, <1>2, <2>1, OwnRunOnly
  <2>2. CASE r = q
    <3>1. CASE Accept(q) \/ Begin(q) \/ Read(q) \/ GiveUp(q) \/ Reject(q) \/ Publish(q)
      BY <1>g, <3>1 DEF Accept, Begin, Read, GiveUp, Reject, Publish
    <3>2. CASE IntegrityError(q) \/ WriteArtifacts(q) \/ MarkFailed(q) \/ ArtifactError(q)
               \/ DatabaseError(q) \/ LostAck(q)
      BY <1>g, <3>2 DEF IntegrityError, WriteArtifacts, MarkFailed, ArtifactError,
                        DatabaseError, LostAck
    <3>3. CASE LoadJob(q) \/ SelectTool(q)
      BY <1>1, <3>3 DEF LoadJob, SelectTool, RunType
    <3>4. CASE EnterStage(q) /\ ~Go(q, "work")
      BY <1>1, <3>4 DEF EnterStage, RunType
    <3>5. CASE (Generate(q) \/ Test(q)) /\ ~Go(q, "fail")
      BY <1>1, <3>5, WorkKeeps
    <3> QED BY <1>2, <1>g, <2>2, <3>1, <3>2, <3>3, <3>4, <3>5 DEF Step
  <2> QED BY <2>1, <2>2
<1>3. ASSUME NEW j \in Jobs, NEW r \in Runs, Deliver(j, r) \/ Repost(j, r)
      PROVE  ~run'[q].loaded
  BY <1>1, <1>3 DEF Deliver, Repost, Take, RunType
<1>4. CASE Restart
  BY <1>1, <1>4 DEF Restart, Leave, RunType, At
<1>5. ASSUME UNCHANGED run
      PROVE  ~run'[q].loaded
  BY <1>1, <1>5
<1> QED BY <1>2, <1>3, <1>4, <1>5 DEF Next, Submit, ForwardLost, vars

\* A run without a session, and on its way, attends to its job.
LEMMA LeftAttends ==
  ASSUME IInv, NEW r \in Runs
  PROVE  /\ \A p : Go(r, p) => /\ run'[r].pc = p /\ ~run'[r].loaded
                               /\ p \in {"begin", "work", "fail"} => Attends(run'[r])
         /\ \A s : Enter(r, s) => Attends(run'[r])
<1>1. run \in [Runs -> RunType]
  BY DEF IInv, RunsOK
<1>2. ASSUME NEW p, Go(r, p)
      PROVE  run'[r].pc = p /\ run'[r].loaded = FALSE
  BY <1>1, <1>2 DEF Go, Leave, RunType
<1>3. ASSUME NEW s, Enter(r, s)
      PROVE  run'[r].pc = "enter" /\ run'[r].loaded = FALSE
  BY <1>1, <1>3 DEF Enter, Leave, RunType
<1> QED BY <1>2, <1>3 DEF Attends, LastRead

\* Without a fault, a step of a run leaves it attending to its job, or leaves the job
\* final, or was not the step of a run that attended to it.
LEMMA StepAttends ==
  ASSUME IInv, WorkUnloaded, NEW r \in Runs, Step(r),
         job'[run[r].job].status \in Unfinal
  PROVE  Attends(run'[r]) \/ (~Attends(run[r]) /\ job[run[r].job].status \in Unfinal)
<1> DEFINE j == run[r].job
           seen == run[r].seen
<1>1. /\ run \in [Runs -> RunType] /\ run[r].pc # "free" /\ j \in Jobs
      /\ seen \in JobRow /\ job \in [Jobs -> JobRow] /\ run[r].stage \in Stages
  BY OwnRunOnly DEF IInv, RunsOK, JobsOK, RunType
<1>2. ASSUME \E p \in {"begin", "work", "fail"} : Go(r, p)
      PROVE  Attends(run'[r])
  BY <1>2, LeftAttends
<1>3. ASSUME \E s : Enter(r, s)
      PROVE  Attends(run'[r])
  BY <1>3, LeftAttends
<1>4. CASE Accept(r) \/ Begin(r) \/ Read(r) \/ GiveUp(r) \/ IntegrityError(r)
  BY <1>2, <1>3, <1>4 DEF Accept, Begin, Read, GiveUp, IntegrityError
<1>5. CASE LoadJob(r)
  <2>1. /\ run'[r].pc = run[r].pc /\ run'[r].seen = job[j] /\ job' = job
        /\ run[r].pc \in {"begin", "enter", "fail"}
    BY <1>1, <1>5 DEF LoadJob, RunType, JobOf
  <2> QED BY <2>1 DEF Attends
<1>6. CASE EnterStage(r) /\ ~Go(r, "work")
  <2>1. /\ run[r].stage = "publish" /\ Save(r, Staged(seen, "publish"))
        /\ run[r].pc = "enter" /\ run[r].loaded
    BY <1>6 DEF EnterStage, At
  <2>2. run'[r].pc = "publish" /\ run'[r].seen = Staged(seen, "publish")
    BY <1>1, <1>6, <2>1 DEF EnterStage, RunType
  <2>3. Staged(seen, "publish") \in JobRow /\ Staged(seen, "publish").status = seen.status
    <3>1. Staged(seen, "publish") = [seen EXCEPT !.stage = "publish"]
      BY DEF Staged
    <3> QED BY <1>1, <3>1 DEF JobRow, Stages
  <2>4. job'[j].status = job[j].status
    BY <1>1, <2>1, <2>3, SavedStatus
  <2> QED BY <2>1, <2>2, <2>3, <2>4 DEF Attends, LastRead
<1>7. CASE (Generate(r) \/ Test(r)) /\ ~Go(r, "fail")
  <2>1. /\ run'[r].pc \in {"enter", "work"} /\ run'[r].loaded = run[r].loaded
        /\ ~run[r].loaded
    BY <1>7, WorkKeeps DEF WorkUnloaded
  <2> QED BY <2>1 DEF Attends, LastRead
<1>8. CASE SelectTool(r)
  <2>1. /\ run'[r].pc = "write" /\ run'[r].seen = seen /\ job' = job
        /\ run[r].pc = "publish"
    BY <1>1, <1>8 DEF SelectTool, RunType, At
  <2> QED BY <2>1 DEF Attends, LastRead
<1>9. CASE Reject(r) \/ MarkFailed(r)
  <2>1. Save(r, Failed(seen)) /\ Failed(seen) \in JobRow /\ Failed(seen).status = "failed"
    BY <1>1, <1>9, Assigned DEF Reject, MarkFailed, Failed, JobRow
  <2>2. seen.status = "failed" /\ job[j].status \in Unfinal
    BY <1>1, <2>1, SavedStatus DEF Unfinal
  <2>3. LastRead(run[r])
    BY <1>9 DEF Reject, MarkFailed, At, LastRead
  <2> QED BY <2>2, <2>3 DEF Attends, Unfinal
<1>10. CASE Publish(r)
  <2>1. run[r].pc = "write" /\ run[r].tool \in Tools
    BY <1>10 DEF Publish, At, IInv, RunsOK, RunOK
  <2>2. /\ Save(r, Completed(seen, run[r].tool))
        /\ Completed(seen, run[r].tool) \in JobRow
        /\ Completed(seen, run[r].tool).status = "complete"
    BY <1>1, <1>10, <2>1 DEF Publish, Completed, JobRow, Stages
  <2>3. seen.status = "complete" /\ job[j].status \in Unfinal
    BY <1>1, <2>2, SavedStatus DEF Unfinal
  <2> QED BY <2>1, <2>3 DEF Attends, LastRead, Unfinal
<1>11. CASE WriteArtifacts(r)
  BY <1>11 DEF WriteArtifacts, At, Attends
<1> QED BY <1>2, <1>4, <1>5, <1>6, <1>7, <1>8, <1>9, <1>10, <1>11 DEF Step

LEMMA AttendedStep ==
  ASSUME IInv, WorkUnloaded, JobsAttended, [Next]_vars
  PROVE  JobsAttended'
<1> SUFFICES ASSUME faults' = 0, NEW j \in Jobs, job'[j].status \in Unfinal
             PROVE  \/ forward'[j] = "scheduled"
                    \/ \E r \in Runs : Attends(run'[r]) /\ run'[r].job = j
  BY DEF JobsAttended, Attended
<1>1. faults \in Nat /\ run \in [Runs -> RunType] /\ job \in [Jobs -> JobRow]
      /\ forward \in [Jobs -> {"none", "scheduled", "done"}]
  BY DEF IInv, RestType, RunsOK, JobsOK
<1>2. ASSUME faults = 0, job[j].status \in Unfinal
      PROVE  \/ forward[j] = "scheduled"
             \/ \E q \in Runs : Attends(run[q]) /\ run[q].job = j
  BY <1>2 DEF JobsAttended, Attended
<1>3. ASSUME NEW r \in Runs, Step(r)
      PROVE  \/ forward'[j] = "scheduled"
             \/ \E q \in Runs : Attends(run'[q]) /\ run'[q].job = j
  <2>0. faults = 0
    BY <1>1, <1>3 DEF Step, Accept, LoadJob, Begin, EnterStage, Read, Generate, Test,
       GiveUp, Reject, SelectTool, Publish, IntegrityError, WriteArtifacts, MarkFailed,
       bounds
  <2>1. /\ run'[r].job = run[r].job /\ forward' = forward
        /\ \A q \in Runs \ {r} : run'[q] = run[q]
        /\ j # run[r].job => job'[j] = job[j]
    BY <1>3, OwnRunOnly
  <2>2. CASE j = run[r].job /\ Attends(run'[r])
    BY <2>1, <2>2
  <2>3. CASE ~(j = run[r].job /\ Attends(run'[r]))
    <3>1. job[j].status \in Unfinal /\ (j = run[r].job => ~Attends(run[r]))
      BY <1>3, <2>1, <2>3, StepAttends
    <3> QED BY <1>2, <2>0, <2>1, <3>1
  <2> QED BY <2>2, <2>3
<1>4. ASSUME NEW i \in Jobs, NEW r \in Runs, Deliver(i, r) \/ Repost(i, r)
      PROVE  \/ forward'[j] = "scheduled"
             \/ \E q \in Runs : Attends(run'[q]) /\ run'[q].job = j
  <2>1. /\ run[r].pc = "free" /\ run'[r].pc = "accept" /\ run'[r].job = i /\ job' = job
        /\ \A q \in Runs \ {r} : run'[q] = run[q]
        /\ i # j => forward'[j] = forward[j]
    BY <1>1, <1>4 DEF Deliver, Repost, Take, At, RunType
  <2>2. faults = 0
    BY <1>1, <1>4 DEF Deliver, Repost, bounds
  <2>3. ~run'[r].loaded => Attends(run'[r])
    BY <2>1 DEF Attends, LastRead
  <2>4. Attends(run'[r]) /\ ~Attends(run[r])
    BY <2>1 DEF Attends, LastRead
  <2>5. CASE i = j
    BY <2>1, <2>4, <2>5
  <2>6. CASE i # j
    BY <1>2, <2>1, <2>2, <2>4, <2>6
  <2> QED BY <2>5, <2>6
<1>5. ASSUME NEW i \in Jobs, Submit(i)
      PROVE  \/ forward'[j] = "scheduled"
             \/ \E q \in Runs : Attends(run'[q]) /\ run'[q].job = j
  <2>1. CASE i = j
    BY <1>1, <1>5, <2>1 DEF Submit
  <2>2. CASE i # j
    <3>1. job'[j] = job[j] /\ forward'[j] = forward[j] /\ run' = run /\ faults = 0
      BY <1>1, <1>5, <2>2 DEF Submit, bounds
    <3> QED BY <1>2, <3>1
  <2> QED BY <2>1, <2>2
<1>6. ASSUME NEW i \in Jobs, ForwardLost(i)
      PROVE  FALSE
  BY <1>1, <1>6 DEF ForwardLost, Fault
<1>7. ASSUME NEW r \in Runs, ArtifactError(r) \/ DatabaseError(r) \/ LostAck(r)
      PROVE  FALSE
  BY <1>1, <1>7 DEF ArtifactError, DatabaseError, LostAck, Fault
<1>8. ~Restart
  BY <1>1 DEF Restart, Fault
<1>9. CASE UNCHANGED vars
  BY <1>2, <1>9 DEF vars, bounds
<1> QED BY <1>3, <1>4, <1>5, <1>6, <1>7, <1>8, <1>9 DEF Next

\* No exit of execute_pipeline leaves its job unfinished, however often the job was
\* posted and however its runs overwrite each other, as long as no fault strikes.
THEOREM NoOrphans == Spec => []NoOrphanJob
<1>1. Init => WorkUnloaded /\ JobsAttended
  BY DEF Init, FreeRun, NoJobRow, WorkUnloaded, JobsAttended, Attended, Unfinal
<1>2. IInv /\ WorkUnloaded /\ JobsAttended /\ [Next]_vars => WorkUnloaded' /\ JobsAttended'
  BY WorkUnloadedStep, AttendedStep
<1>3. JobsAttended => NoOrphanJob
  BY DEF JobsAttended, Attended, Attends, Unfinal, NoOrphanJob, Runnings, Active, Ended,
         At, JobOf
<1> QED BY <1>1, <1>2, <1>3, AlwaysIInv, PTL DEF Spec

-----------------------------------------------------------------------------
(* A job that is posted once, by commits whose acknowledgements arrive.    *)

\* A flush of what was read is an assignment.
LEMMA FlushRead ==
  ASSUME NEW now \in JobRow, NEW new \in JobRow
  PROVE  Flush(now, now, new) = new
<1>1. /\ DOMAIN now = {"status", "stage", "attempts", "error", "result", "completed"}
      /\ DOMAIN new = {"status", "stage", "attempts", "error", "result", "completed"}
  BY DEF JobRow
<1>2. new = [column \in DOMAIN new |-> new[column]]
  BY DEF JobRow
<1>3. Flush(now, now, new) = [column \in DOMAIN new |-> new[column]]
  BY <1>1 DEF Flush
<1> QED BY <1>2, <1>3

\* The points at which a session holds the row of its job.
Holds(k) == k.loaded \/ k.pc \in {"accept", "publish", "write"}

Done == {"artifacts", "ended"}

\* What a run knows of a job that no other run writes to.
InStep(k, row) ==
  /\ Holds(k) => k.seen = row
  /\ k.pc \in {"accept", "begin"} => row.status = "queued"
  /\ k.pc \in {"enter", "work", "publish", "write", "fail"} => row.status = "running"
  /\ k.pc = "artifacts" => row.status = "complete"

OneRun ==
  /\ \A j \in Jobs : /\ job[j].status = "absent" => forward[j] = "none"
                     /\ forward[j] = "scheduled" => job[j].status = "queued"
  /\ \A r \in Runs : run[r].pc # "free" =>
       /\ forward[run[r].job] = "done"
       /\ InStep(run[r], job[run[r].job])
  /\ \A r, q \in Runs : run[r].pc # "free" /\ run[q].pc # "free"
                          /\ run[r].job = run[q].job => r = q
  /\ \A t \in Tools : tools[t] # NoRow =>
       /\ run[tools[t].by].pc \in Done
       /\ job[run[tools[t].by].job].status = "complete"

\* How a step moves a job of JobLifecycle.
Stays(j) == job'[j].status = job[j].status /\ job'[j].result = job[j].result
Moves(j, from, to) ==
  job[j].status = from /\ job'[j].status = to /\ job'[j].result = job[j].result
Completes(j, t) ==
  /\ job[j].status = "running" /\ job'[j].status = "complete" /\ job'[j].result = t
  /\ tools'[t] # NoRow
  /\ \A u \in Tools \ {t} : tools'[u] = tools[u]

\* What a step makes of its own run and job, when no other run has the job.
InStepAfter(r) ==
  LET j == run[r].job
  IN  /\ InStep(run'[r], job'[j])
      /\ \/ /\ UNCHANGED tools
            /\ run[r].pc \in Done => run'[r].pc \in Done /\ Stays(j)
            /\ Stays(j) \/ Moves(j, "queued", "running") \/ Moves(j, "running", "failed")
         \/ /\ Completes(j, run[r].tool) /\ run[r].tool \in Tools
            /\ tools'[run[r].tool].by \in Runs
            /\ run'[r].pc \in Done
            /\ tools'[run[r].tool].by # r =>
                 /\ tools[run[r].tool] # NoRow
                 /\ tools'[run[r].tool].by = tools[run[r].tool].by

\* A transaction on a row that only this run writes to.
LEMMA SaveExact ==
  ASSUME IInv, NEW r \in Runs, run[r].pc # "free", run[r].seen = job[run[r].job],
         NEW new \in JobRow, Save(r, new)
  PROVE  job'[run[r].job] = new
<1>1. /\ run[r].job \in Jobs /\ job[run[r].job] \in JobRow /\ job \in [Jobs -> JobRow]
  BY DEF IInv, RunsOK, RunOK, JobsOK
<1> QED BY <1>1, FlushRead DEF Save, JobOf

LEMMA LeftInStep ==
  ASSUME IInv, NEW r \in Runs, NEW row,
         NEW p \in {"begin", "work", "artifacts", "fail", "ended"}, Go(r, p),
         p = "begin" => row.status = "queued",
         p \in {"work", "fail"} => row.status = "running",
         p = "artifacts" => row.status = "complete"
  PROVE  InStep(run'[r], row) /\ run'[r].pc = p
<1>1. run \in [Runs -> RunType]
  BY DEF IInv, RunsOK
<1>2. run'[r].pc = p /\ run'[r].loaded = FALSE
  BY <1>1 DEF Go, Leave, RunType
<1>3. ~Holds(run'[r])
  BY <1>2 DEF Holds
<1> QED BY <1>2, <1>3 DEF InStep

LEMMA EnteredInStep ==
  ASSUME IInv, NEW r \in Runs, NEW row, row.status = "running",
         NEW s \in Stages, Enter(r, s)
  PROVE  InStep(run'[r], row) /\ run'[r].pc = "enter"
<1>1. run \in [Runs -> RunType]
  BY DEF IInv, RunsOK
<1>2. run'[r].pc = "enter" /\ run'[r].loaded = FALSE
  BY <1>1 DEF Enter, Leave, RunType
<1>3. ~Holds(run'[r])
  BY <1>2 DEF Holds
<1> QED BY <1>2, <1>3 DEF InStep

\* The transactions that save the job row and move on.
LEMMA SavesInStep ==
  ASSUME IInv, NEW r \in Runs, InStep(run[r], job[run[r].job]),
         Accept(r) \/ Begin(r) \/ Reject(r) \/ MarkFailed(r)
  PROVE  InStepAfter(r)
<1> DEFINE j == run[r].job
           row == job[j]
<1>1. /\ run[r].pc # "free" /\ run[r].pc \notin Done /\ Holds(run[r])
      /\ UNCHANGED tools
  BY DEF Accept, Begin, Reject, MarkFailed, At, Holds, Done
<1>2. run[r].seen = row /\ row \in JobRow
  BY <1>1 DEF InStep, IInv, RunsOK, RunOK, JobsOK
<1>a. "discovery" \in Stages
  BY DEF Stages
<1>b. Queued(row) \in JobRow /\ Running(row) \in JobRow /\ Failed(row) \in JobRow
  BY <1>a, <1>2, Assigned
<1>3. CASE Accept(r)
  <2>1. Save(r, Queued(row)) /\ Go(r, "begin") /\ row.status = "queued"
    BY <1>2, <1>3 DEF Accept, At, InStep
  <2>2. job'[j] = Queued(row)
    BY <1>1, <1>2, <2>1, <1>b, SaveExact
  <2>3. job'[j].status = "queued" /\ job'[j].result = row.result
    BY <1>2, <2>2 DEF Queued, JobRow
  <2>4. InStep(run'[r], job'[j])
    BY <2>1, <2>3, LeftInStep
  <2> QED BY <1>1, <2>1, <2>3, <2>4 DEF InStepAfter, Stays
<1>4. CASE Begin(r)
  <2>1. Save(r, Running(row)) /\ Enter(r, "discovery") /\ row.status = "queued"
    BY <1>2, <1>4 DEF Begin, At, InStep
  <2>2. job'[j] = Running(row)
    BY <1>1, <1>2, <2>1, <1>b, SaveExact
  <2>3. job'[j].status = "running" /\ job'[j].result = row.result
    BY <1>2, <2>2 DEF Running, JobRow
  <2>4. InStep(run'[r], job'[j])
    BY <1>a, <2>1, <2>3, EnteredInStep
  <2> QED BY <1>1, <2>1, <2>3, <2>4 DEF InStepAfter, Moves
<1>5. CASE Reject(r) \/ MarkFailed(r)
  <2>1. Save(r, Failed(row)) /\ Go(r, "ended") /\ row.status = "running"
    BY <1>2, <1>5 DEF Reject, MarkFailed, At, InStep
  <2>2. job'[j] = Failed(row)
    BY <1>1, <1>2, <2>1, <1>b, SaveExact
  <2>3. job'[j].status = "failed" /\ job'[j].result = row.result
    BY <1>2, <2>2 DEF Failed, JobRow
  <2>4. InStep(run'[r], job'[j])
    BY <2>1, LeftInStep
  <2> QED BY <1>1, <2>1, <2>3, <2>4 DEF InStepAfter, Moves
<1> QED BY <1>3, <1>4, <1>5

\* _set_stage saves the row, and the session of the publish stage keeps it.
LEMMA EnterStageInStep ==
  ASSUME IInv, NEW r \in Runs, InStep(run[r], job[run[r].job]), EnterStage(r)
  PROVE  InStepAfter(r)
<1> DEFINE j == run[r].job
           row == job[j]
           new == Staged(row, run[r].stage)
<1>1. /\ run[r].pc = "enter" /\ Holds(run[r]) /\ UNCHANGED tools
      /\ run[r].stage \in Stages /\ run \in [Runs -> RunType]
  <2>1. run \in [Runs -> RunType] /\ run[r] \in RunType
    BY DEF IInv, RunsOK
  <2>2. run[r].stage \in Stages
    BY <2>1 DEF RunType
  <2>3. run[r].pc = "enter" /\ UNCHANGED tools
    BY DEF EnterStage, At
  <2>4. Holds(run[r])
    BY Zenon DEF EnterStage, Holds
  <2> QED BY <2>1, <2>2, <2>3, <2>4
<1>2. run[r].seen = row /\ row \in JobRow /\ row.status = "running"
  BY <1>1 DEF InStep, IInv, RunsOK, RunOK, JobsOK
<1>3. new \in JobRow /\ new.status = "running" /\ new.result = row.result
  <2>1. new \in JobRow /\ new.result = row.result
    BY <1>1, <1>2, Assigned
  <2>2. new.status = "running"
    BY <1>2 DEF Staged, JobRow
  <2> QED BY <2>1, <2>2
<1>4. job'[j] = new
  BY <1>1, <1>2, <1>3, SaveExact DEF EnterStage
<1>5. CASE Go(r, "work")
  BY <1>1, <1>2, <1>3, <1>4, <1>5, LeftInStep DEF InStepAfter, Stays, Done
<1>6. CASE run' = [run EXCEPT ![r].pc = "publish", ![r].loaded = FALSE, ![r].seen = new]
  <2>1. run'[r].pc = "publish" /\ run'[r].seen = new
    BY <1>1, <1>6 DEF RunType
  <2>2. InStep(run'[r], job'[j])
    BY <2>1, <1>3, <1>4 DEF InStep
  <2> QED BY <1>1, <1>2, <1>3, <1>4, <2>2 DEF InStepAfter, Stays, Done
<1> QED BY <1>2, <1>5, <1>6 DEF EnterStage

\* The steps that leave every row alone.
LEMMA IdleInStep ==
  ASSUME IInv, NEW r \in Runs, InStep(run[r], job[run[r].job]),
         LoadJob(r) \/ Read(r) \/ Generate(r) \/ Test(r) \/ GiveUp(r)
           \/ SelectTool(r) \/ IntegrityError(r)
  PROVE  InStepAfter(r)
<1> DEFINE row == job[run[r].job]
<1>1. UNCHANGED <<job, tools>> /\ run \in [Runs -> RunType] /\ run[r].pc \notin Done
  BY DEF LoadJob, Read, Generate, Test, GiveUp, SelectTool, IntegrityError, At, Working,
         Done, IInv, RunsOK
<1>2. InStep(run'[r], row) => InStepAfter(r)
  BY <1>1 DEF InStepAfter, Stays
<1>3. CASE LoadJob(r)
  <2>1. run'[r].pc = run[r].pc /\ run'[r].seen = row
    BY <1>1, <1>3 DEF LoadJob, JobOf, RunType
  <2> QED BY <1>2, <2>1 DEF InStep
<1>4. CASE Read(r) \/ GiveUp(r)
  <2>1. row.status = "running"
    BY <1>4 DEF Read, GiveUp, Working, At, InStep
  <2>2. \A s \in {"discovery", "reader"} : NextStage[s] \in Stages
    BY DEF NextStage, Stages
  <2>3. (\E s \in Stages : Enter(r, s)) \/ Go(r, "fail")
    BY <1>4, <2>2 DEF Read, GiveUp, Working, Stages
  <2> QED BY <1>2, <2>1, <2>3, EnteredInStep, LeftInStep
<1>5. CASE Generate(r) \/ Test(r)
  <2>1. row.status = "running" /\ run[r].pc = "work"
    BY <1>5 DEF Generate, Test, Working, At, InStep
  <2>2. CASE Go(r, "fail")
    BY <1>2, <2>1, <2>2, LeftInStep
  <2>3. CASE ~Go(r, "fail")
    <3>1. /\ run'[r].pc \in {"enter", "work"}
          /\ run'[r].loaded = run[r].loaded /\ run'[r].seen = run[r].seen
      BY <1>5, <2>3, WorkKeeps
    <3>2. Holds(run'[r]) => Holds(run[r])
      BY <2>1, <3>1 DEF Holds
    <3> QED BY <1>2, <2>1, <3>1, <3>2 DEF InStep
  <2> QED BY <2>2, <2>3
<1>6. CASE SelectTool(r)
  <2>1. run[r].pc = "publish" /\ run'[r].pc = "write" /\ run'[r].seen = run[r].seen
    BY <1>1, <1>6 DEF SelectTool, At, RunType
  <2> QED BY <1>2, <2>1 DEF InStep, Holds
<1>7. CASE IntegrityError(r)
  <2>1. row.status = "running" /\ Go(r, "fail")
    BY <1>7 DEF IntegrityError, At, InStep
  <2> QED BY <1>2, <2>1, LeftInStep
<1> QED BY <1>3, <1>4, <1>5, <1>6, <1>7

\* The files of a completed job, and the faults that end a session.
LEMMA EndsInStep ==
  ASSUME IInv, NEW r \in Runs, InStep(run[r], job[run[r].job]),
         WriteArtifacts(r) \/ ArtifactError(r) \/ DatabaseError(r)
  PROVE  InStepAfter(r)
<1> DEFINE row == job[run[r].job]
<1>1. UNCHANGED <<job, tools>>
  BY DEF WriteArtifacts, ArtifactError, DatabaseError
<1>2. CASE Go(r, "ended")
  BY <1>1, <1>2, LeftInStep DEF InStepAfter, Stays, Done
<1>3. CASE ~Go(r, "ended")
  <2>1. /\ Go(r, "fail")
        /\ run[r].pc \in {"enter", "publish", "write"}
    BY <1>3 DEF WriteArtifacts, ArtifactError, DatabaseError, Caught
  <2>2. row.status = "running" /\ run[r].pc \notin Done
    BY <2>1 DEF InStep, Done
  <2> QED BY <1>1, <2>1, <2>2, LeftInStep DEF InStepAfter, Stays
<1> QED BY <1>2, <1>3

\* The commit that puts the tool into the catalog completes the job.
LEMMA PublishInStep ==
  ASSUME IInv, NEW r \in Runs, InStep(run[r], job[run[r].job]), Publish(r)
  PROVE  InStepAfter(r)
<1> DEFINE j == run[r].job
           row == job[j]
           t == run[r].tool
           new == Completed(row, t)
<1>1. /\ run[r].pc = "write" /\ Holds(run[r])
      /\ t \in Tools /\ tools \in [Tools -> ToolRow \cup {NoRow}]
      /\ ~NameTaken(r) /\ WriteRow(r) /\ Go(r, "artifacts")
      /\ run[r].row \in ToolRow \cup {NoRow} /\ run[r].status \in ToolStatus
  BY DEF Publish, At, Holds, IInv, RunsOK, RunOK, ToolsOK, RunType
<1>2. run[r].seen = row /\ row \in JobRow /\ row.status = "running"
  BY <1>1 DEF InStep, IInv, RunsOK, RunOK, JobsOK
<1>3. new \in JobRow /\ new.status = "complete" /\ new.result = t
  BY <1>1, <1>2 DEF Completed, JobRow, Stages
<1>4. job'[j] = new
  BY <1>1, <1>2, <1>3, SaveExact DEF Publish
<1>5. InStep(run'[r], job'[j]) /\ run'[r].pc \in Done /\ run[r].pc \notin Done
  BY <1>1, <1>3, <1>4, LeftInStep DEF Done
<1>6. Row(r) \in ToolRow /\ Row(r).by = r
  BY <1>1 DEF Row, ToolRow
<1>7. /\ tools'[t] \in ToolRow
      /\ tools'[t].by # r => tools[t] # NoRow /\ tools'[t].by = tools[t].by
  <2>1. CASE run[r].row = NoRow
    BY <1>1, <1>6, <2>1 DEF WriteRow
  <2>2. CASE run[r].row # NoRow
    <3>1. tools[t] # NoRow
      BY <1>1, <2>2 DEF IInv, ToolsOK
    <3>2. tools'[t] = Flush(tools[t], run[r].row, Row(r))
      BY <1>1, <2>2 DEF WriteRow
    <3> QED BY <1>1, <1>6, <2>2, <3>1, <3>2, FlushTool
  <2> QED BY <2>1, <2>2
<1>8. \A u \in Tools \ {t} : tools'[u] = tools[u]
  BY <1>1 DEF WriteRow
<1>9. tools'[t] # NoRow /\ tools'[t].by \in Runs
  BY <1>7, PipelineAssumption DEF ToolRow, ToolStatus
<1>c. Completes(j, t)
  BY <1>2, <1>3, <1>4, <1>8, <1>9 DEF Completes
<1> HIDE DEF j, row, t, new
<1> QED BY <1>1, <1>5, <1>7, <1>9, <1>c DEF InStepAfter, j, t

LEMMA StepInStep ==
  ASSUME IInv, NEW r \in Runs, InStep(run[r], job[run[r].job]),
         Step(r) \/ ArtifactError(r) \/ DatabaseError(r)
  PROVE  InStepAfter(r)
BY SavesInStep, EnterStageInStep, IdleInStep, EndsInStep, PublishInStep DEF Step

\* A step that is in step with its own job disturbs no other.
LEMMA StepOneRun ==
  ASSUME IInv, OneRun, NEW r \in Runs,
         Step(r) \/ ArtifactError(r) \/ DatabaseError(r)
  PROVE  OneRun' /\ InStepAfter(r)
<1> DEFINE j == run[r].job
<1>1. /\ run[r].pc # "free" /\ run'[r].pc # "free" /\ j \in Jobs
      /\ run'[r].job = j
      /\ \A q \in Runs \ {r} : run'[q] = run[q]
      /\ \A i \in Jobs \ {j} : job'[i] = job[i]
      /\ forward' = forward
  BY OwnRunOnly
<1>2. InStep(run[r], job[j]) /\ forward[j] = "done"
  BY <1>1 DEF OneRun
<1>3. InStepAfter(r)
  BY <1>2, StepInStep
<1>4. ASSUME NEW q \in Runs, q # r, run[q].pc # "free"
      PROVE  run[q].job \in Jobs \ {j} /\ job'[run[q].job] = job[run[q].job]
  BY <1>1, <1>4 DEF OneRun, IInv, RunsOK, RunOK
<1>5. ASSUME NEW i \in Jobs
      PROVE  /\ job'[i].status = "absent" => forward'[i] = "none"
             /\ forward'[i] = "scheduled" => job'[i].status = "queued"
  <2>1. CASE i # j
    BY <1>1, <2>1 DEF OneRun
  <2>2. job'[j].status # "absent"
    BY <1>1, <1>2, <1>3 DEF InStepAfter, Stays, Moves, Completes, OneRun
  <2> QED BY <1>1, <1>2, <2>1, <2>2
<1>6. ASSUME NEW q \in Runs, run'[q].pc # "free"
      PROVE  forward'[run'[q].job] = "done" /\ InStep(run'[q], job'[run'[q].job])
  <2>1. CASE q = r
    BY <1>1, <1>2, <1>3, <2>1 DEF InStepAfter
  <2>2. CASE q # r
    BY <1>1, <1>4, <1>6, <2>2 DEF OneRun
  <2> QED BY <2>1, <2>2
<1>7. ASSUME NEW q \in Runs, NEW p \in Runs, run'[q].pc # "free", run'[p].pc # "free",
             run'[q].job = run'[p].job
      PROVE  q = p
  BY <1>1, <1>7 DEF OneRun
<1>8. ASSUME NEW t \in Tools, tools'[t] # NoRow
      PROVE  /\ run'[tools'[t].by].pc \in Done
             /\ job'[run'[tools'[t].by].job].status = "complete"
  <2>1. ASSUME tools[t] # NoRow, tools'[t].by = tools[t].by,
               tools[t].by = r => run'[r].pc \in Done /\ Stays(j)
        PROVE  /\ run'[tools'[t].by].pc \in Done
               /\ job'[run'[tools'[t].by].job].status = "complete"
    <3> DEFINE q == tools[t].by
    <3>1. /\ q \in Runs /\ run[q].pc \in Done
          /\ job[run[q].job].status = "complete"
      BY <2>1 DEF IInv, ToolsOK, ToolRow, OneRun
    <3>2. run[q].pc # "free"
      BY <3>1 DEF Done
    <3>3. CASE q = r
      BY <1>1, <2>1, <3>1, <3>3 DEF Stays
    <3>4. CASE q # r
      BY <1>1, <1>4, <2>1, <3>1, <3>2, <3>4
    <3> QED BY <3>3, <3>4
  <2>2. CASE /\ tools' = tools
             /\ run[r].pc \in Done => run'[r].pc \in Done /\ Stays(j)
    BY <1>8, <2>1, <2>2 DEF OneRun
  <2>3. CASE /\ Completes(j, run[r].tool) /\ run[r].tool \in Tools
             /\ run'[r].pc \in Done
             /\ tools'[run[r].tool].by # r =>
                  /\ tools[run[r].tool] # NoRow
                  /\ tools'[run[r].tool].by = tools[run[r].tool].by
    <3>1. job[j].status = "running" /\ job'[j].status = "complete"
      BY <2>3 DEF Completes
    <3>2. \A u \in Tools : tools[u] # NoRow => tools[u].by # r
      BY <1>1, <3>1 DEF OneRun
    <3>3. CASE t # run[r].tool
      <4>1. tools'[t] = tools[t]
        BY <2>3, <3>3 DEF Completes
      <4> QED BY <1>8, <2>1, <3>2, <4>1
    <3>4. CASE t = run[r].tool /\ tools'[t].by # r
      BY <2>1, <2>3, <3>2, <3>4
    <3>5. CASE t = run[r].tool /\ tools'[t].by = r
      BY <1>1, <2>3, <3>1, <3>5
    <3> QED BY <3>3, <3>4, <3>5
  <2> QED BY <1>3, <2>2, <2>3 DEF InStepAfter
<1> QED BY <1>3, <1>5, <1>6, <1>7, <1>8 DEF OneRun

\* The platform's steps and the restart.
LEMMA OthersOneRun ==
  ASSUME IInv, OneRun,
         Restart \/ UNCHANGED vars
           \/ \E j \in Jobs : \/ Submit(j) \/ ForwardLost(j)
                              \/ \E r \in Runs : Deliver(j, r)
  PROVE  OneRun'
<1>0. /\ run \in [Runs -> RunType] /\ job \in [Jobs -> JobRow]
      /\ forward \in [Jobs -> {"none", "scheduled", "done"}]
      /\ \A r \in Runs : run[r].pc # "free" => run[r].job \in Jobs
      /\ \A t \in Tools : tools[t] # NoRow => tools[t].by \in Runs
  BY DEF IInv, RunsOK, RunOK, JobsOK, RestType, ToolsOK, ToolRow
<1>1. ASSUME NEW j \in Jobs, Submit(j)
      PROVE  OneRun'
  <2>1. /\ job[j].status = "absent" /\ UNCHANGED <<run, tools>>
        /\ forward' = [forward EXCEPT ![j] = "scheduled"]
        /\ job' = [job EXCEPT ![j].status = "queued"]
    BY <1>1 DEF Submit
  <2>2. job'[j].status = "queued" /\ forward'[j] = "scheduled"
    BY <1>0, <2>1 DEF JobRow
  <2>3. \A i \in Jobs \ {j} : job'[i] = job[i] /\ forward'[i] = forward[i]
    BY <1>0, <2>1
  <2>4. \A r \in Runs : run[r].pc # "free" => run[r].job \in Jobs \ {j}
    BY <1>0, <2>1 DEF OneRun
  <2>5. \A t \in Tools : tools[t] # NoRow => run[tools[t].by].job \in Jobs \ {j}
    BY <1>0, <2>4 DEF OneRun, Done
  <2> QED BY <2>1, <2>2, <2>3, <2>4, <2>5 DEF OneRun
<1>2. ASSUME NEW j \in Jobs, ForwardLost(j)
      PROVE  OneRun'
  <2>1. UNCHANGED <<job, run, tools>> /\ forward' = [forward EXCEPT ![j] = "done"]
        /\ forward[j] = "scheduled"
    BY <1>2 DEF ForwardLost
  <2>2. job[j].status = "queued"
    BY <2>1 DEF OneRun
  <2> QED BY <1>0, <2>1, <2>2 DEF OneRun
<1>3. ASSUME NEW j \in Jobs, NEW r \in Runs, Deliver(j, r)
      PROVE  OneRun'
  <2>1. /\ UNCHANGED <<job, tools>> /\ run[r].pc = "free"
        /\ forward[j] = "scheduled" /\ forward' = [forward EXCEPT ![j] = "done"]
    BY <1>3 DEF Deliver, Take, At
  <2>2. /\ run'[r].pc = "accept" /\ run'[r].job = j /\ run'[r].seen = job[j]
        /\ \A q \in Runs \ {r} : run'[q] = run[q]
    <3>1. run' = [run EXCEPT ![r] = [run[r] EXCEPT !.pc = "accept", !.job = j,
                                                   !.seen = job[j]]]
      BY <1>0, <1>3 DEF Deliver, Take
    <3>2. run[r] \in RunType
      BY <1>0
    <3> QED BY <1>0, <3>1, <3>2 DEF RunType
  <2>3. job[j].status = "queued"
    BY <2>1 DEF OneRun
  <2>4. InStep(run'[r], job[j])
    BY <2>2, <2>3 DEF InStep
  <2>5. \A q \in Runs \ {r} : run[q].pc # "free" => run[q].job # j
    BY <2>1 DEF OneRun
  <2>6. \A t \in Tools : tools[t] # NoRow => tools[t].by \in Runs \ {r}
    BY <1>0, <2>1 DEF OneRun, Done
  <2>7. \A i \in Jobs : forward'[i] = IF i = j THEN "done" ELSE forward[i]
    BY <1>0, <2>1
  <2>8. \A i \in Jobs : /\ job'[i].status = "absent" => forward'[i] = "none"
                        /\ forward'[i] = "scheduled" => job'[i].status = "queued"
    BY <2>1, <2>3, <2>7 DEF OneRun
  <2>9. \A q \in Runs : run'[q].pc # "free" =>
          forward'[run'[q].job] = "done" /\ InStep(run'[q], job'[run'[q].job])
    BY <1>0, <2>1, <2>2, <2>4, <2>7 DEF OneRun
  <2>10. \A q, p \in Runs : run'[q].pc # "free" /\ run'[p].pc # "free"
                              /\ run'[q].job = run'[p].job => q = p
    BY <2>2, <2>5 DEF OneRun
  <2> QED BY <2>1, <2>2, <2>6, <2>8, <2>9, <2>10 DEF OneRun
<1>4. CASE Restart
  <2>1. UNCHANGED <<job, forward, tools>>
    BY <1>4 DEF Restart
  <2>2. ASSUME NEW r \in Runs
        PROVE  /\ run[r].pc = "free" => run'[r] = run[r]
               /\ run[r].pc # "free" => /\ run'[r].pc = "ended" /\ ~run'[r].loaded
                                        /\ run'[r].job = run[r].job
    <3>1. run[r] \in RunType
      BY <1>0
    <3>2. /\ Leave(run[r], "ended").pc = "ended" /\ ~Leave(run[r], "ended").loaded
          /\ Leave(run[r], "ended").job = run[r].job
      BY <3>1 DEF Leave, RunType
    <3>3. run'[r] = IF run[r].pc = "free" THEN run[r] ELSE Leave(run[r], "ended")
      BY <1>4 DEF Restart, At
    <3> QED BY <3>2, <3>3
  <2>3. \A r \in Runs : run[r].pc # "free" => \A row : InStep(run'[r], row)
    BY <2>2 DEF InStep, Holds
  <2>4. \A t \in Tools : tools[t] # NoRow =>
          run'[tools[t].by].pc \in Done /\ run'[tools[t].by].job = run[tools[t].by].job
    BY <1>0, <2>2 DEF OneRun, Done
  <2> QED BY <2>1, <2>2, <2>3, <2>4 DEF OneRun
<1>5. CASE UNCHANGED vars
  BY <1>5 DEF vars, OneRun
<1> QED BY <1>1, <1>2, <1>3, <1>4, <1>5

\* The steps left when no acknowledgement is lost and no job is posted twice.
PostedOnce == "lost_ack" \notin FaultKinds /\ MaxReposts = 0

Others ==
  Restart \/ UNCHANGED vars
    \/ \E j \in Jobs : \/ Submit(j) \/ ForwardLost(j)
                       \/ \E r \in Runs : Deliver(j, r)

LEMMA PostedOnceSteps ==
  ASSUME PostedOnce, IInv, [Next]_vars
  PROVE  Others \/ \E r \in Runs : Step(r) \/ ArtifactError(r) \/ DatabaseError(r)
<1>1. ASSUME NEW r \in Runs, LostAck(r)
      PROVE  FALSE
  BY <1>1 DEF PostedOnce, LostAck, Fault
<1>2. ASSUME NEW j \in Jobs, NEW r \in Runs, Repost(j, r)
      PROVE  FALSE
  BY <1>2 DEF PostedOnce, Repost, IInv, RestType
<1> QED BY <1>1, <1>2 DEF Next, Others

LEMMA AlwaysOneRun ==
  ASSUME PostedOnce
  PROVE  Spec => []OneRun
<1>1. Init => OneRun
  BY DEF Init, FreeRun, NoJobRow, OneRun
<1>2. IInv /\ OneRun /\ [Next]_vars => OneRun'
  BY PostedOnceSteps, StepOneRun, OthersOneRun DEF Others
<1> QED BY <1>1, <1>2, AlwaysIInv, PTL DEF Spec

\* A job that is posted once never ends as failed with its tool in the catalog,
\* provided that a commit that is applied is also acknowledged: whatever raises after
\* publish_tool has committed does not reach the handler that fails the job.
THEOREM FailedPublishesNothingAlways ==
  ASSUME "lost_ack" \notin FaultKinds, MaxReposts = 0
  PROVE  Spec => []FailedPublishesNothing
<1>1. PostedOnce
  BY DEF PostedOnce
<1>2. OneRun => FailedPublishesNothing
  BY DEF OneRun, FailedPublishesNothing, JobOf
<1> QED BY <1>1, <1>2, AlwaysOneRun, PTL

\* What a step of a run is to whoever polls the job.
LEMMA StepLifecycle ==
  ASSUME IInv, OneRun, NEW r \in Runs,
         Step(r) \/ ArtifactError(r) \/ DatabaseError(r)
  PROVE  [Lifecycle!Next]_(Lifecycle!vars)
<1> DEFINE j == run[r].job
           t == run[r].tool
           status == [i \in Jobs |-> job[i].status]
           result == [i \in Jobs |-> job[i].result]
           catalog == {u \in Tools : tools[u] # NoRow}
<1>1. j \in Jobs /\ \A i \in Jobs \ {j} : job'[i] = job[i]
  BY OwnRunOnly
<1>2. InStepAfter(r)
  BY StepOneRun
<1>3. CASE Stays(j) /\ UNCHANGED tools
  <2>1. UNCHANGED <<status, result, catalog>>
    BY <1>1, <1>3 DEF Stays
  <2> QED BY <2>1 DEF Lifecycle!vars
<1>4. ASSUME NEW from, NEW to, Moves(j, from, to), UNCHANGED tools
      PROVE  Lifecycle!Move(j, from, to) /\ UNCHANGED <<result, catalog>>
  BY <1>1, <1>4 DEF Moves, Lifecycle!Move
<1>5. CASE Completes(j, t) /\ t \in Tools
  <2>1. Lifecycle!Move(j, "running", "complete")
    BY <1>1, <1>5 DEF Completes, Lifecycle!Move
  <2>2. result' = [result EXCEPT ![j] = t]
    BY <1>1, <1>5 DEF Completes
  <2>3. catalog' = catalog \cup {t}
    BY <1>5 DEF Completes
  <2> QED BY <1>1, <1>5, <2>1, <2>2, <2>3 DEF Lifecycle!Next, Lifecycle!Complete
<1>6. CASE Moves(j, "queued", "running") /\ UNCHANGED tools
  BY <1>1, <1>4, <1>6 DEF Lifecycle!Next, Lifecycle!Start
<1>7. CASE Moves(j, "running", "failed") /\ UNCHANGED tools
  BY <1>1, <1>4, <1>7 DEF Lifecycle!Next, Lifecycle!Fail
<1> QED BY <1>2, <1>3, <1>5, <1>6, <1>7 DEF InStepAfter

LEMMA OthersLifecycle ==
  ASSUME IInv, Others
  PROVE  [Lifecycle!Next]_(Lifecycle!vars)
<1> DEFINE status == [i \in Jobs |-> job[i].status]
           result == [i \in Jobs |-> job[i].result]
           catalog == {u \in Tools : tools[u] # NoRow}
<1>1. ASSUME NEW j \in Jobs, Submit(j)
      PROVE  Lifecycle!Queue(j)
  <2>1. /\ job[j].status = "absent" /\ UNCHANGED tools
        /\ job' = [job EXCEPT ![j].status = "queued"]
    BY <1>1 DEF Submit
  <2>2. job \in [Jobs -> JobRow]
    BY DEF IInv, JobsOK
  <2>3. /\ job'[j].status = "queued" /\ job'[j].result = job[j].result
        /\ \A i \in Jobs \ {j} : job'[i] = job[i]
    BY <2>1, <2>2 DEF JobRow
  <2>4. status' = [status EXCEPT ![j] = "queued"] /\ result' = result
    BY <2>3
  <2> QED BY <2>1, <2>4 DEF Lifecycle!Queue, Lifecycle!Move
<1>2. CASE UNCHANGED <<job, tools>>
  BY <1>2 DEF Lifecycle!vars
<1>3. UNCHANGED <<job, tools>> \/ \E j \in Jobs : Submit(j)
  BY DEF Others, ForwardLost, Deliver, Restart, vars
<1> QED BY <1>1, <1>2, <1>3 DEF Lifecycle!Next

\* Posted once, with commits acknowledged, a job is what whoever polls it may rely on:
\* every transaction of execute_pipeline and publish_tool, and every fault between
\* them, is one step of JobLifecycle or none.
THEOREM PipelineImplementsLifecycle ==
  ASSUME "lost_ack" \notin FaultKinds, MaxReposts = 0
  PROVE  Spec => ImplementsLifecycle
<1>0. PostedOnce
  BY DEF PostedOnce
<1>1. Init => Lifecycle!Init
  BY DEF Init, NoJobRow, Lifecycle!Init
<1>2. IInv /\ OneRun /\ [Next]_vars => [Lifecycle!Next]_(Lifecycle!vars)
  BY <1>0, PostedOnceSteps, StepLifecycle, OthersLifecycle
<1>3. Spec => []OneRun
  BY <1>0, AlwaysOneRun
<1> QED BY <1>1, <1>2, <1>3, AlwaysIInv, PTL DEF Spec, ImplementsLifecycle, Lifecycle!Spec
=============================================================================

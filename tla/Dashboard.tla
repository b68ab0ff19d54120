----------------------------- MODULE Dashboard -----------------------------
(***************************************************************************)
(* The two pages of the web client that follow integration jobs, in one    *)
(* browser: apps/web/app/integrate/page.tsx polls the job it has           *)
(* submitted, apps/web/app/feed/page.tsx lists recent jobs and those that  *)
(* this browser has tracked (lib/jobs.ts).                                 *)
(*                                                                         *)
(* A page runs one handler at a time; its requests are answered in any     *)
(* order, or not at all.  The jobs belong to the services: Pipeline has    *)
(* how they come to move as they do here.                                  *)
(***************************************************************************)
EXTENDS Integers, Sequences, FiniteSets, SequencesExt

CONSTANTS
  Jobs, NoJob,
  Stages,          \* the keys of pipelineSteps, in order
  Limit,           \* jobs that are listed, shown, and tracked: 20
  Slots,           \* bound: status requests in flight of the integrate page
  Loads,           \* the calls of load() that may be under way
  Lapsing,         \* bound: the jobs that leave their order, and
  MaxLapses,       \* how often each of them does
  NoPhase, NoRequest, NoShown

\* status and current_stage of a job, or of a card; history: how often the job had left
\* its order by then
StageNames == {"queued"} \cup {Stages[i] : i \in DOMAIN Stages}
Phase == [status: {"queued", "running", "complete", "failed"}, stage: StageNames,
          lapses: 0..MaxLapses]
Queued == [status |-> "queued", stage |-> "queued", lapses |-> 0]
Final(phase) == phase.status \in {"complete", "failed"}

ASSUME DashboardAssumption ==
  /\ NoJob \notin Jobs /\ {"idle", "sent"} \cap Jobs = {}
  /\ Stages \in Seq(STRING) /\ Len(Stages) > 0 /\ IsInjective(Stages) /\ ~Contains(Stages, "queued")
  /\ Limit \in Nat \ {0} /\ MaxLapses \in Nat
  /\ NoPhase \notin Phase

VARIABLES
  job,      \* the rows of integration_jobs
  made,     \* in the order of created_at
  page,     \* the page that is open
  view,     \* the state of the integrate page
  polls,    \* its status requests in flight
  crossed,  \* history: such a request was in flight when a later job came
  tracked,  \* localStorage: fusekit.integrationJobIds
  loads, cards  \* the feed: its calls of load(), and what it shows

vars == <<job, made, page, view, polls, crossed, tracked, loads, cards>>

Request == [job: Jobs, read: Phase \cup {NoPhase}]
Shown == [job: Jobs, phase: Phase]
View ==
  [form: {"idle", "sent"} \cup Jobs,  \* onSubmit: no request, one that has not arrived,
                                      \* or the answer that created a job
   id: Jobs \cup {NoJob},             \* jobId
   shown: Shown \cup {NoShown},       \* jobStatus
   polling: Jobs \cup {NoJob}]        \* what the effect's interval asks for
Load ==
  [pc: {"idle", "list", "status"}, list: Seq(Jobs),
   answers: UNION {[D -> Phase] : D \in SUBSET Jobs}, waiting: SUBSET Jobs]

Blank == [form |-> "idle", id |-> NoJob, shown |-> NoShown, polling |-> NoJob]
Empty == [j \in {} |-> Queued]
NoLoad == [pc |-> "idle", list |-> <<>>, answers |-> Empty, waiting |-> {}]

Init ==
  /\ job = [j \in Jobs |-> NoPhase]
  /\ made = <<>>
  /\ page = "integrate"
  /\ view = Blank
  /\ polls = [i \in Slots |-> NoRequest]
  /\ crossed = FALSE
  /\ tracked = <<>>
  /\ loads = [l \in Loads |-> NoLoad]
  /\ cards = Empty

integrateVars == <<view, polls, crossed>>
feedVars == <<loads, cards>>
jobVars == <<job, made>>

-----------------------------------------------------------------------------
(* The jobs (external): created here or by others, then a stage at a time. *)

Insert(j) ==
  /\ job[j] = NoPhase
  /\ job' = [job EXCEPT ![j] = Queued]
  /\ made' = Append(made, j)

CreateElsewhere(j) ==
  /\ Insert(j)
  /\ UNCHANGED <<page, integrateVars, feedVars, tracked>>

\* One run of the pipeline.
StageAfter(stage) ==
  {Stages[i] : i \in {k \in DOMAIN Stages : (<<"queued">> \o Stages)[k] = stage}}
InOrder(p) ==
  CASE p.status = "queued" -> {[p EXCEPT !.status = "running"]}
    [] p.status = "running" ->
         {[p EXCEPT !.status = "failed"]}
         \cup {[p EXCEPT !.stage = next] : next \in StageAfter(p.stage)}
         \cup (IF p.stage = Last(Stages) THEN {[p EXCEPT !.status = "complete"]} ELSE {})
    [] OTHER -> {}

\* A job leaves this order when the commit that completed it is not acknowledged, so that
\* its failure is written over it, or when it is posted again and a second run takes it
\* up, or the first one writes a stage of its own over that of the second.
Lapse(p) ==
  {q \in Phase : /\ q.lapses = p.lapses + 1
                 /\ \/ p.status = "complete" /\ q.status = "failed" /\ q.stage = p.stage
                    \/ q.status = "queued" /\ q.stage = "queued"
                    \/ q.status = "running"}
NextPhases(j) == InOrder(job[j]) \cup (IF j \in Lapsing THEN Lapse(job[j]) ELSE {})

JobMoves(j) ==
  /\ job[j] # NoPhase
  /\ \E p \in NextPhases(j) : job' = [job EXCEPT ![j] = p]
  /\ UNCHANGED <<made, page, integrateVars, feedVars, tracked>>

-----------------------------------------------------------------------------
(* lib/jobs.ts.  NoCut is a seeded fault that stands in for First.         *)

NoCut(ids) == ids
First(ids) == SubSeq(ids, 1, IF Len(ids) < Limit THEN Len(ids) ELSE Limit)
AddTrackedJobId(ids, j) == IF Contains(ids, j) THEN ids ELSE First(<<j>> \o ids)

-----------------------------------------------------------------------------
(* The integrate page.  ByStatusOnly, OnlyRunning and NoGuard are seeded   *)
(* faults that stand in for the definition below them.                     *)

\* The form is disabled while a submission is under way.
Submit ==
  /\ page = "integrate" /\ view.form = "idle"
  /\ view' = [view EXCEPT !.form = "sent"]
  /\ UNCHANGED <<jobVars, page, polls, crossed, feedVars, tracked>>

Create(j) ==
  /\ view.form = "sent"
  /\ Insert(j)
  /\ view' = [view EXCEPT !.form = j]
  /\ UNCHANGED <<page, polls, crossed, feedVars, tracked>>

\* The request or its answer is lost; the job may have been created.
SubmitFails ==
  /\ view.form # "idle"
  /\ view' = [view EXCEPT !.form = "idle"]
  /\ UNCHANGED <<jobVars, page, polls, crossed, feedVars, tracked>>

\* useEffect with [jobId, jobStatus?.status]: runs again when one of them is another
\* than before, and polls jobId unless the status is final.
OnlyRunning(id, phase) == IF phase.status # "running" THEN NoJob ELSE id
Polled(id, phase) == IF Final(phase) THEN NoJob ELSE id

ByStatusOnly(v, id, phase) == v.shown # NoShown /\ v.shown.phase.status = phase.status
SameDeps(v, id, phase) ==
  v.id = id /\ v.shown # NoShown /\ v.shown.phase.status = phase.status

Set(v, id, shown) ==
  [v EXCEPT !.id = id, !.shown = shown,
            !.polling = IF SameDeps(v, id, shown.phase) THEN @ ELSE Polled(id, shown.phase)]

Submitted ==
  /\ view.form \in Jobs
  /\ LET j == view.form
     IN  /\ view' = [Set(view, j, [job |-> j, phase |-> Queued]) EXCEPT !.form = "idle"]
         /\ tracked' = AddTrackedJobId(tracked, j)
         /\ crossed' = (crossed \/ \E i \in Slots : polls[i] # NoRequest)
  /\ UNCHANGED <<jobVars, page, polls, feedVars>>

\* poll(), from the effect or its interval
Poll(i) ==
  /\ view.polling # NoJob /\ polls[i] = NoRequest
  /\ polls' = [polls EXCEPT ![i] = [job |-> view.polling, read |-> NoPhase]]
  /\ UNCHANGED <<jobVars, page, view, crossed, feedVars, tracked>>

Read(i) ==
  /\ polls[i] # NoRequest /\ polls[i].read = NoPhase
  /\ polls' = [polls EXCEPT ![i].read = job[polls[i].job]]
  /\ UNCHANGED <<jobVars, page, view, crossed, feedVars, tracked>>

\* Whatever arrives is set: the cleanup stops the interval, not its requests.
Arrive(i) ==
  /\ polls[i] # NoRequest /\ polls[i].read # NoPhase
  /\ view' = Set(view, view.id, [job |-> polls[i].job, phase |-> polls[i].read])
  /\ polls' = [polls EXCEPT ![i] = NoRequest]
  /\ UNCHANGED <<jobVars, page, crossed, feedVars, tracked>>

PollFails(i) ==
  /\ polls[i] # NoRequest
  /\ polls' = [polls EXCEPT ![i] = NoRequest]
  /\ UNCHANGED <<jobVars, page, view, crossed, feedVars, tracked>>

-----------------------------------------------------------------------------
(* The feed: load() asks for the newest jobs, shows them, and then asks    *)
(* for the status of each tracked one.                                     *)

NoGuard(l) == loads[l].pc = "idle"
MayLoad(l) == \A k \in Loads : loads[k].pc = "idle"

BeginLoad(l) ==
  /\ page = "feed" /\ MayLoad(l)
  /\ loads' = [loads EXCEPT ![l] = [NoLoad EXCEPT !.pc = "list"]]
  /\ UNCHANGED <<jobVars, page, integrateVars, cards, tracked>>

Phases(ids) == [j \in Range(ids) |-> job[j]]

\* Without a tracked job the load ends here.
StatusesOf(l, list, ids) ==
  loads' = [loads EXCEPT ![l] =
              IF ids = <<>> THEN NoLoad
              ELSE [pc |-> "status", list |-> list, answers |-> Phases(list), waiting |-> Range(ids)]]

ListAnswers(l) ==
  /\ loads[l].pc = "list"
  /\ LET list == First(Reverse(made))
     IN  /\ tracked' = FoldLeft(AddTrackedJobId, tracked, list)
         /\ cards' = Phases(list)
         /\ StatusesOf(l, list, tracked')
  /\ UNCHANGED <<jobVars, page, integrateVars>>

ListFails(l) ==
  /\ loads[l].pc = "list"
  /\ StatusesOf(l, <<>>, tracked)
  /\ cards' = IF tracked = <<>> THEN Empty ELSE cards
  /\ UNCHANGED <<jobVars, page, integrateVars, tracked>>

StatusAnswers(l, j) ==
  /\ j \in loads[l].waiting
  /\ loads' = [loads EXCEPT ![l].waiting = @ \ {j},
                            ![l].answers = [k \in DOMAIN @ \cup {j} |-> IF k = j THEN job[j] ELSE @[k]]]
  /\ UNCHANGED <<jobVars, page, integrateVars, cards, tracked>>

\* Promise.allSettled; a job whose status fails keeps what the list said of it.
StatusFails(l, j) ==
  /\ j \in loads[l].waiting
  /\ loads' = [loads EXCEPT ![l].waiting = @ \ {j}]
  /\ UNCHANGED <<jobVars, page, integrateVars, cards, tracked>>

\* A Map keeps a job where it was put first: the listed ones, then the tracked ones
\* that answered.
Put(answers, ids, j) == IF j \in DOMAIN answers /\ ~Contains(ids, j) THEN Append(ids, j) ELSE ids
Deduped(answers, list, ids) == FoldLeft(LAMBDA map, j : Put(answers, map, j), list, ids)

Merge(l) ==
  /\ loads[l].pc = "status" /\ loads[l].waiting = {}
  /\ LET answers == loads[l].answers
     IN  cards' = [j \in Range(First(Deduped(answers, loads[l].list, tracked))) |-> answers[j]]
  /\ loads' = [loads EXCEPT ![l] = NoLoad]
  /\ UNCHANGED <<jobVars, page, integrateVars, tracked>>

-----------------------------------------------------------------------------

\* The other page is opened, between submissions: what the first one was waiting for
\* no longer matters, and what was tracked stays.
Open ==
  /\ view.form = "idle"
  /\ page' = IF page = "feed" THEN "integrate" ELSE "feed"
  /\ view' = Blank
  /\ polls' = [i \in Slots |-> NoRequest]
  /\ crossed' = FALSE
  /\ loads' = [l \in Loads |-> NoLoad]
  /\ cards' = Empty
  /\ UNCHANGED <<jobVars, tracked>>

Next ==
  \/ \E j \in Jobs : CreateElsewhere(j) \/ JobMoves(j) \/ Create(j)
  \/ Submit \/ SubmitFails \/ Submitted \/ Open
  \/ \E i \in Slots : Poll(i) \/ Read(i) \/ Arrive(i) \/ PollFails(i)
  \/ \E l \in Loads : \/ BeginLoad(l) \/ ListAnswers(l) \/ ListFails(l) \/ Merge(l)
                      \/ \E j \in Jobs : StatusAnswers(l, j) \/ StatusFails(l, j)

\* The interval fires, and a request that is made again and again is answered some time.
Fairness ==
  \A i \in Slots : WF_vars(Poll(i)) /\ SF_vars(Read(i)) /\ SF_vars(Arrive(i))
Spec == Init /\ [][Next]_vars /\ Fairness

-----------------------------------------------------------------------------
(* What a card says, by LiveFeed.tsx.                                      *)

ActiveStageIndex(phase) ==
  IF phase.status = "complete" THEN Len(Stages)
  ELSE CHOOSE i \in 0..Len(Stages) : (<<"queued">> \o Stages)[i + 1] = phase.stage

StepState(step, phase) ==
  LET active == ActiveStageIndex(phase)
      now == IF phase.status = "failed" THEN "failed" ELSE "current"
  IN  IF phase.status = "complete" \/ step < active THEN "done"
      ELSE IF step = active \/ (active = 0 /\ step = 1 /\ now = "failed") THEN now ELSE "pending"

-----------------------------------------------------------------------------
(* Properties.                                                             *)

\* The integrate page shows the status of another job than the one it says only if it
\* had asked for that one before the later job came: no poll starts for the wrong job.
StrayOnlyIfCrossed == view.shown # NoShown /\ view.shown.job # view.id => crossed

\* Once its job has ended, and unless it is taken up again, the integrate page shows how,
\* however its requests were delayed, overtaken or lost: an old answer that arrives late
\* makes it poll again.  It stays with the first end that it shows: what a job that left
\* its order comes to after that is not shown.
ShowsEnd(j) ==
  /\ view.shown # NoShown /\ view.shown.job = j /\ Final(view.shown.phase)
  /\ view.shown.phase = job[j] \/ view.shown.phase.lapses < job[j].lapses
EndIsShown ==
  \A j \in Jobs :
    view.id = j /\ job[j] # NoPhase /\ Final(job[j]) /\ ~crossed
      ~> view.id # j \/ crossed \/ ~Final(job[j]) \/ ShowsEnd(j)

\* On the feed a job that has ended stays as it ended, and a step that is done stays
\* done, from one refresh to the next, whichever requests fail, unless the job itself
\* left its order in between; and a job is never shown as it was before it did.
CardMovesOn(old, new) ==
  \/ new.lapses > old.lapses
  \/ /\ new.lapses = old.lapses
     /\ Final(old) => new = old
     /\ \A step \in DOMAIN Stages : StepState(step, old) = "done" => StepState(step, new) = "done"
CardsMoveOn == [][\A j \in DOMAIN cards \cap DOMAIN cards' : CardMovesOn(cards[j], cards'[j])]_vars

\* Every variable holds a value of its kind: what the browser keeps of its jobs does
\* not grow, however often they are submitted and listed.
TypeOK ==
  /\ job \in [Jobs -> Phase \cup {NoPhase}] /\ made \in Seq(Jobs)
  /\ page \in {"integrate", "feed"}
  /\ view \in View /\ polls \in [Slots -> Request \cup {NoRequest}] /\ crossed \in BOOLEAN
  /\ tracked \in Seq(Jobs) /\ Len(tracked) <= Limit
  /\ loads \in [Loads -> Load] /\ DOMAIN cards \subseteq Jobs
=============================================================================

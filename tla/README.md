# FuseKit: verification project

FuseKit is a marketplace of callable API tools. A FastAPI *platform* serves the
catalog over HTTP and MCP, charges a prepaid credit wallet for every tool call
and runs the tool; a second FastAPI service, the *integrator*, turns a missing
tool into a published one with a pipeline of LLM-driven stages; a Next.js
dashboard shows both. This directory holds TLA+ modules translated from that
code, TLC configurations that check them on small instances, and theorems
checked by TLAPS.

Paths below are relative to `src/`; `platform/` stands for
`services/platform/app/`, `integrator/` for `services/integrator/app/` and
`web/` for `apps/web/`.

## 1. Inventory

| Component | State it keeps | Operations | Hard behaviour |
|---|---|---|---|
| Wallet (`platform/services/wallet_service.py`, `platform/api/wallet.py`) | `users.wallet_balance`, `wallet_transactions` | `check_and_deduct`, `refund`, `topup`, history | racing transactions on one row, aborts, lost commit acknowledgements, 32-bit column |
| Execution (`platform/services/capabilities_service.py`, `platform/api/execute.py`, `platform/mcp_server.py`) | one call's locals, `tool_call_logs` | `execute_capability`, HTTP and MCP entry points | charge, effect, log and refund are four transactions with a provider call between; a crash or a database error between any two |
| Tool registry (`platform/tools/registry.py`, `platform/services/artifact_store.py`) | process-wide cache of executors, `/tmp/fusekit_dynamic_tools` | `get_executor`, `load_dynamic`, `load_all` | a cached executor outlives its file and its row; downloads race with publications |
| Integration jobs (`platform/services/integrations_service.py`, `platform/api/integrations.py`, `platform/tools/request_integration.py`) | `integration_jobs` rows | create, best-effort forward, status | forward lost or answered 503/404 and never retried; one job per miss |
| Integrator and pipeline (`integrator/main.py`, `integrator/pipeline.py`, `integrator/agents/*`) | set of background tasks, job row | `POST /integrate`, the five stages, test-and-fix loop, failure handler, shutdown | cancelled tasks, two pipelines on one job, failure handler that fails |
| Publisher (`integrator/publishers/db_writer.py`, both `artifact_store.py`) | `tool_definitions`, files, S3 objects | `publish_tool`, upload, download | row committed before its artifact; two publishes of one name |
| Provider credentials (`platform/services/provider_credentials.py`, `platform/api/credentials.py`) | `provider_credentials`, status of tools | set, list, status | write skew of two upserts; credentials that arrive before the tool |
| GitHub publishing (`integrator/publishers/github_pr/*`) | branches, commits and pull requests at GitHub | `publish`, branch, commit, ensure PR | retries after a crash between remote calls |
| Manifest (`platform/services/manifest_service.py`) | files, S3 | `load_manifest` | fallback order over places written at different times |
| Removal script (`scripts/remove_generated_tool.py`) | rows, files, objects | `remove_generated_tool` | three places cleared one after another while publications run |
| Docs fetcher (`integrator/docs_fetcher.py`) | one call's locals | `fetch_docs_bundle`, `_candidate_links`, `fetch_document` | redirects, other hosts, pages that fail, two limits on the number of pages |
| Code generation policy (`integrator/agents/codegen.py`) | none | `run_codegen`: name, status, schema and credential policy | the input is whatever a language model answers, key by key |
| Discovery and reader agents (`integrator/agents/discovery.py`, `reader.py`) | none | read a bundle, ask a model, default what it left out | what one agent defaults is what the next one decides by |
| Seeding and start (`platform/seed.py`, `platform/db_init.py`, `scripts/seed_demo_tools.py`, `infra/docker-compose.yml`) | all tables | `wait_for_db`, `create_tables`, `run_seed` | replicas and the script start together, die and start again; a publisher writes the same names |
| Migrations (`infra/alembic`) | tables, `alembic_version` | `upgrade` | run beside `create_all`, which makes the same tables |
| Dashboard (`web/app/integrate/page.tsx`, `web/app/feed/page.tsx`, `web/lib/*`, `web/components/LiveFeed.tsx`) | React state, local storage | polling effects, `load`, tracked job ids, cards | answers that are overtaken, late, lost, or about another job |
| Built-in tools, LLM client | none | one call to a provider or a model | pure I/O |
| Contracts, demo script | none | a JSON schema, a sequence of requests | no logic of their own |

How they interact. An agent calls the platform over MCP, a deployed application
over HTTP; both reach `execute_capability`, which reads the tool row, charges the
wallet, finds an executor in the registry, awaits it and writes a call log. A
miss over MCP creates a job row and posts it to the integrator without waiting.
The integrator runs the pipeline in a background task on the *same database*,
which is how job status and published tools come back: there is no reply
channel. Its first three stages fetch documentation, have a model describe the API,
and make a tool of what the model proposes. The publisher then writes the artifact
that the registry of the platform later loads. The dashboard polls job rows through
the platform. A platform that starts creates the tables and seeds the demo user and the
built-in tools, whose rows a publication may later take over by their names.

What makes each of them correct:

- **Wallet.** The balance of a user is what the committed ledger entries add up to,
  never negative for non-negative prices, every call is one atomic ledger step and
  is answered.
- **Execution.** The answer tells what was paid; a refund matches its charge and
  happens once; no provider acts for an unpaid call; every call ends.
- **Pipeline and publisher.** Only a tested tool gets a row; a complete job names a
  tool of the catalog; a failed job publishes nothing; job rows follow one life cycle.
- **Artifacts.** What runs under a name was published under that name, unless it is the name of a
  built-in tool; row, files and objects agree when nobody is at work on them; no process goes back to older code.
- **Credentials.** A published tool that asks for credentials is live only with the keys of its
  provider stored, and never listed as live beside a provider without them; a store
  that completes a provider activates what waits.
- **GitHub publishing.** An acknowledged publication stays in its branch; the base
  branch moves by merges only; one pull request per branch; no branch left behind.
- **Docs fetcher and code generation.** A bundle costs a bounded number of requests,
  takes the best links first and repeats none of its own accord; a generated tool is live only
  for an API that asks for no keys, and the schema of a managed provider shows no secret.
- **Seeding and start.** What serves has been created and seeded; no start resets or removes a row
  that is somebody else's; seeders never all fail of one another; a start ends.
- **Dashboard.** A page asks for the job it says, shows how that job ended first, and no card moves back unless its job did.

## 2. Modules

| Module | What it is | Proofs | TLC |
|---|---|---|---|
| `Accounts` | the rows of users and wallet transactions, declared for the modules that share them | | |
| `WalletLedger` | abstract specification: a ledger of atomic debits and credits | | |
| `Wallet` | transactions with row locks, aborts and lost acknowledgements | `ExecutionProofs` | `MCWallet` |
| `Execution` | `execute_capability` from both entry points, over `WalletLedger`'s operators | `ExecutionProofs` | `MCExecution` |
| `JobLifecycle` | abstract specification: what a poller of a job may see | | |
| `Pipeline` | forwarding, `POST /integrate`, `execute_pipeline`, `publish_tool`, shutdown | `PipelineProofs` | `MCPipeline` |
| `Artifacts` | row, files, object store, registry, manifests and removal of a published tool | `ArtifactsProofs` | `MCArtifacts` |
| `Credentials` | stores and listings of the keys of providers, and who writes the catalog beside them: publications, seed, removals | `CredentialsProofs` | `MCCredentials` |
| `GitHubPublish` | the remote calls of one publication, GitHub and people | `GitHubProofs` | `MCGitHubPublish` |
| `DocsFetcher` | which pages `fetch_docs_bundle` asks for, step by step | `GenerationProofs` | `MCGeneration` |
| `Codegen` | what `run_codegen` makes of a proposal, as operators | `GenerationProofs` | `MCGeneration` |
| `Generation` | discovery, reader and codegen, composed of the two | `GenerationProofs` | `MCGeneration` |
| `Bootstrap` | starts of replicas and script, migrations, and a publication in between | `BootstrapProofs` | `MCBootstrap` |
| `Dashboard` | the two polling pages of one browser and their requests | `DashboardProofs` | `MCDashboard` |

The exact lines that each definition translates are in `PROJECT.json` under `map`.
In every module an action is what happens between two points where somebody else
can act: between two `await`s of a coroutine, between two SQL statements where the
isolation level lets another transaction through, or between two file or network
operations of another process. A definition that a comment of the module calls a
*seeded fault* is never used by the specification; it is what the definition next to
it would be with a plausible bug, and shows that a property can fail.

### Wallet

`balance` is `users.wallet_balance`, `ledger` the `wallet_transactions` of a user,
`lock` the row lock of `SELECT ... FOR UPDATE`, `req` and `pc` the request and
the progress of a database session, `seen` the balance it read, `clock` the number
of transactions started. `StartCharge`, `StartRefund`, `StartTopUp` begin
`check_and_deduct`, `refund` and `topup`; `LockRow` gets the lock and reads; the
rest are the balance and overflow checks, the update, the commit, an abort at any
moment (`raise`, cancelled task, dead process) and a commit whose acknowledgement is
lost. The column is a 32-bit integer: `MinInt..MaxInt` stands for its range and a value
outside it makes the statement raise.

`WalletLedger` is one step per committed transaction; `ImplementsLedger` is the
refinement (`Atomic!Spec` with the committed state). The names of its specification begin with
`Wallet`, so that the proofs can speak of it beside `Execution`.

### Execution

One record per call holds the locals of `execute_capability`: the tool row that was
read once, the cost, the executor. Steps are the lookup, the charge, finding the
executor, awaiting it, the success log, the refund and the error log, and the
creation of a job on a miss; the faults are database errors before or after the
commit, a provider that raises, a task cancelled, a crash. Wallet transactions are
single steps here: `Wallet` shows that they are atomic. `Republish` gives a tool another cost and status
between any two steps, `TopUp` adds credits.

### Pipeline

`job` is the row of each job, `forward` the platform's forwarding task, `run` the
background tasks of the integrator, `tool` the catalog by name. A run goes through
discovery, docs, codegen, test-and-fix and publish; each stage entry is a
transaction, and the objects of SQLAlchemy write only the columns they changed,
which is why two runs of one job can overwrite each other's columns. The failure
handler, its own failure, a restart that cancels all runs and a publishing commit
whose acknowledgement is lost are actions. `JobLifecycle` says what a poller may
see (`queued`, then `running` through its stages, then `complete` or `failed` for good).

### Artifacts

`row` says which publication inserted the row of a tool and which wrote it last,
`disk` holds the module and manifest files of each host, `bucket` the objects,
`registry` the executors each platform process has cached. A *version* stands for
what one publication generated. `Select` and `Commit` are the session of
`publish_tool`; `WriteModule` to `PutManifest` follow its commit and await nothing, so
no other publication of the integrator runs between them, but the platform and the script are
other processes and do. `PutError` is the swallowed exception of `upload_text`,
`WriteError` that of the writing block. `FindExecutor` is `get_executor` with the first
half of `load_dynamic`, `Download` and `StoreDownload` boto3's download to a
temporary file that is moved into place, `Load` the execution of the module.
`ManifestOf` is `load_manifest`. A host differs from another by its `/tmp`. `disturbed` remembers that a
fault struck or that two actors were at work on one tool: on the integrator's host and the objects
`Busy`, on another host `FetchedBeside`, two processes that fetch it into the directory they share. The job rows
that the removal script deletes are left out, and so is its abort by a foreign key when a job
completes inside its transaction, which is one way of `RemovalCut`. `Loaded` is what `load_all` leaves in the registry of a process that starts,
the code of the names in `BuiltIn`: the built-in tools whose names codegen may give. `get_executor` finds it before
`load_dynamic` looks for anything published. No name has a row at first, as is so for `send_sms`, whose row
the seed takes away; what becomes of rows that the seed inserted is in `Bootstrap`.

### Credentials

`Request`, `FindExisting`, `FlushAndSelectTools`, `Commit` and `Abort` are the statements of
`set_provider_credentials`: the rows of the provider, the inserts and updates per key, the reading of the
tools, the activation and the commit. Stores of one provider overlap as READ COMMITTED allows. Listings read tools
and keys by two SELECTs.

`status` and `source` are the columns of `tool_definitions`, which three others write. `PublishTool` is
the commit of `publish_tool`, whatever `run_codegen` made of the status. `SeedLooks` and `SeedCommits` are the
transaction of `run_seed` at the start of a platform: it inserts its tools as `live` without a look at
keys, and takes retired ones away, which an old database has (`Init`). `RemoveTool` is the removal script. A store
whose UPDATE comes after such a deletion can only fail (`stale`). `Published` are the tools that ask for credentials and
whose row a publication wrote last; the properties speak of these, since what the seed inserts is live without keys
(section 5).

Two things are assumed. A name stands for one API, of one provider, which asks for credentials or does not
(`ProviderOf`, `BornLive`): no publication gives a row another provider. And a publication is one step, so that two of
one name do not mix their columns. Section 5 says what happens without.

### GitHubPublish

A repository is a set of branches, a history of commits with whole trees, and pull
requests. Every remote call of `publish_via_pull_request` is one step that may fail,
get no answer, or, for a write, land later. People merge with merge commits, close
pull requests and delete branches. Titles, bodies and the checks on the payload are
data; the HTTP errors of GitHub are one outcome, `raised`.

### DocsFetcher, Codegen, Generation

`bundle` holds the locals of `fetch_docs_bundle`: `pages` (each by the address it was asked
for and the one it has after redirects), `seen`, the candidates that are `left`, and the
limit of the caller. A site is a response for each address, by what
`fetch_document` looks at to choose a parser and whether that parser raises, and the anchors of
each page; `Rank` is the order of the pairs `_candidate_links` sorts, which are all different. A
request may fail at any time; a failure of the root page ends the stage, one of another page is
skipped. `Codegen` has the policies as operators on what a model may propose, any key of which may
be `Absent`: text is known by what the code asks of it (`FullName` and `ShortName` are the
normalized names of a credential, `InternalFields` those with an internal token in them).
`Generation` puts the stages together: discovery's bundle of two pages, the reader's of the default,
the provider that is handed on, the authentication that is not, and `run_codegen`. `Pipeline` has the
same stages as steps that succeed or fail; their transactions are there.

### Bootstrap

`proc` is the progress of each replica (`python -m app.db_init && uvicorn`) or script, with the
keys its transaction has inserted but not committed; `tables`, `stamp` and `rows` are what the
database has, a row by who inserted it and who wrote it last. `Look` is one SELECT of the seed with
the flush that SQLAlchemy's session does before it: whoever flushes a key another transaction holds
waits, and fails on the UNIQUE column when that one has committed. `DeadlockVictim` is PostgreSQL's
answer to two that wait for each other. `Create` fails if a table has appeared since `Inspect`. The
rest is the world: a database that comes late, kills, `alembic upgrade head` in one transaction, and
the SELECT and the commit of one `publish_tool`. When a start has failed it may be started again;
nothing in `docker-compose.yml` does so by itself.

### Dashboard

`view` is the state of the integrate page: the submission under way, `jobId`, `jobStatus` and what the
effect's interval asks for. `Set` is a state change with the effect that it triggers: the effect runs
again only when the job or its status is another. `polls` are status requests in flight, which are read
at the server and arrive in any order or not at all; the cleanup of an effect stops its interval, not
its requests. `loads` are calls of the feed's `load()`, `cards` what it shows, `tracked` the ids in local
storage. The jobs move as `Pipeline` says, a stage at a time (`InOrder`),
or leave that order (`Lapse`): a publishing commit whose acknowledgement is lost makes a complete job failed, a
second run takes a job up again, and two runs of one job overwrite each other's stage. `lapses` counts, in each phase
that is shown or read, how often the job had left its order by then. One browser, one tab; a page that is left
is gone with all it was waiting for. `Deduped` is the `Map` of `load()`, in which a job keeps the place
where it was put first. `ActiveStageIndex` and `StepState` are those of `LiveFeed.tsx`.

## 3. Runs

| Run | Instance | What it shows |
|---|---|---|
| `wallet` | 2 sessions, 1 user, costs 1 and 2, balance 2, range -4..3, 4 transactions | balance, ledger, refinement, every call answered |
| `execution` | 2 calls, 1 tool to be found as artifact, one fault of any kind, one republication or top-up | charge, answer, refund, log and miss agree; every call ends |
| `pipeline` | 2 jobs, 2 runs, 2 tool names, 2 attempts, one fault but a lost acknowledgement | the life cycle; a failed job publishes nothing |
| `pipeline_repost` | 1 job posted twice, one fault of any kind | what survives two runs on one row; without a fault the job ends |
| `pipeline_untested` | 1 job, no fault | **violated**: `PublishedCodeTested` |
| `credentials` | 2 sessions, 2 keys, 1 reader, a seeded and a retired tool, at most 3 stores and 2 publications, seeds or removals, four of these together | activation, listing, doubled keys |
| `github` | 3 publications, 4 requests, one fault, 2 acts of people | acknowledged work, base branch, pull requests |
| `github_retry` | 3 publications of one request, one fault | **violated**: `SafeRetries` |
| `artifacts` | 2 publications of one name, 3 platforms (one beside the integrator, two in one directory elsewhere), one fault, 3 restarts, cleanings or removals; both backends; a second name that is built in | origin of what runs, agreement of the places, no older code |
| `generation` | 5 addresses on 2 hosts, every single redirect, every list of 4 anchors, one odd response, 3 pages, 3 links; 3 providers, proposals with each key absent or odd | requests, repetitions and order of a bundle; soundness of a generated tool |
| `bootstrap` | 2 replicas and the script, at most 2 at a time, 2 seed tools and a retired one, an empty and an old database, one publication | what serves is seeded, rows are kept, one succeeds, starts end |
| `dashboard` | 2 jobs of 2 stages, 2 requests in flight, 2 loads, a limit of 1 job; the first job leaves its order once | the page's job, its end, the cards, the tracked ids |

**Bounds.** Two sessions, calls, runs or publications are what an interleaving of the
code needs: every conflict is about one row, one name or one branch, and a third
party only repeats what the second does; `github` has three because a late write and a
retry are already two. One fault suffices because the handlers are one level deep:
after the first fault the code either recovers, and is where it was, or has ended.
The amounts 1 and 2 against a balance of 2 give a wallet that covers one of two
calls, both, or none; the range is small so that overflow happens. Two fix attempts give a
last one, one before it, and a fix between them. `MaxEvents = 3` lets a removal meet a process that loses
both its directory and its cache, which it must to fall back to older code. The constraints of `artifacts` bound what
follows a disturbance to one event and to one platform at work at a time, `disturbed` being never reset, and
what follows the first use of the built-in name to one event or fault and to the platform beside the integrator. Of what comes after
the one only `OnlyOwnCodeRuns` speaks, of the built-in name mostly; it is proved for any number of all of these, as are the
other two.
In `credentials`, `FourInAll` lets a third store come with one write of the catalog: two stores can then wait for a row
of the first, and two writes meet two stores. One provider suffices, since no step is about two. In `dashboard`, one
job leaves its order (`Lapsing`), once (`MaxLapses`), to wherever it may; `OneAfterTheOther` has the second job move
only while the first has kept to its order and no request for it is in flight. A job that moves while an answer about
another is late is then left out, which nothing the pages do looks at; the safety properties are proved without that bound.
In `generation` four anchors against a cut at three links and three pages make each cut leave something
out, and two pages of the caller are fewer than the candidates. In `bootstrap` two at a time
(`MaxTogether`) give every conflict of two transactions, and a third start meets what they leave; two seed
tools are the fewest that can be seeded in two orders. A limit of one job makes the feed of two jobs
drop one. `Slots` bounds the requests in flight only; `Loads = 2` is one more than the code allows.
`CHECK_DEADLOCK FALSE` is set because the bounded instances really stop: all calls are
over and no bound is left. Symmetry is used in runs without liveness
properties only.

**Fairness.** `Wallet`: strong fairness of `LockRow` is PostgreSQL's queue of lock
waiters, which serves each of them; weak fairness of a session's other steps is that the event loop
runs a ready coroutine and every await of the driver returns or raises. `Execution`:
weak fairness of every step of a call, for the same reason, but not of a generated module: a
built-in tool has the timeout of its HTTP client, a generated one is awaited without any.
`Pipeline`: weak fairness of the delivery of a job that was posted, and of the steps of a run
but the test of generated code, which nothing bounds either: LLM and HTTP calls have timeouts and
raise. `EveryCallEnds` and `UndisturbedJobsEnd` therefore allow a call or a job
to be for ever in generated code, and nowhere else. `Bootstrap`: strong fairness of a seeder's steps, since
PostgreSQL grants a lock in the order it was asked for and ends deadlocks; that the database comes up is
not assumed. `Dashboard`: weak fairness of the interval, strong fairness of a request being read and
arriving, that is, one that is made again and again is answered some time. No fairness is assumed of
faults, restarts, people, republications, or of anybody who might retry.

**Properties that depend on nobody interfering.** `ArtifactsMatchRows` and `NeverRunsOlder`
hold until a fault strikes or two actors are at work on one tool; `disturbed` records
that. `KeysStoredOnce` and `SerialStoreActivates` speak of stores that do not overlap,
`NoBranchLeftBehind` of histories in which every call was answered,
`FailedPublishesNothing` of commits whose acknowledgement arrives, `UndisturbedJobsEnd`
of jobs no fault touched, `OneSucceeds` of seeders that only other seeders got in the way of,
`EndIsShown` of a page no request for an earlier job was in flight for, and of the first end that it shows: a job that
leaves its order afterwards is no longer asked for. `CardsMoveOn` compares what two refreshes show of a job that has not left
its order in between, and says that a card is never from before it did. `LiveHasKeys` and `ListedLiveIsConfigured`
speak of tools that a publication wrote last, not of what the seed made live, of names that keep their provider, and of
publications that do not overlap on one name. `OnlyOwnCodeRuns` says of a built-in name that it runs built-in code, whatever is
published under it, and `NeverRunsOlder` leaves these names out. What happens otherwise is listed in section 5.

## 4. Proofs

The runs above check small instances; TLAPS proves the following for all values of
the constants, under the named assumption of each module (`WalletAssumption`,
`ExecutionAssumption`, `PipelineAssumption`, `ArtifactsAssumption`,
`CredentialsAssumption`, `GitHubAssumption`, `FetcherAssumption`, `CodegenAssumption`,
`GenerationAssumption`, `BootstrapAssumption`, `DashboardAssumption`), which say that the constants have their
shapes, that the model values for "nothing" are no members of the sets they stand
beside, and that the bounds are natural numbers. TLC evaluates each assumption in the
runs.

| Module | Theorems | Argument |
|---|---|---|
| `ExecutionProofs`, of `Wallet` | `WalletTypeCorrect`, `LedgerReconcilesAlways`, `NonNegativeAlways`, `WalletImplementsLedger` | `WalletInv` adds `LockProtectsRead` to type and reconciliation: a session past the lock owns the row, and what it read is still committed. Without it the update of a session could not be told from a lost update. `NonNegativeAlways` assumes that no cost is negative, which nothing in the code enforces for generated tools. The module extends `Wallet` beside `Execution`, on the users, amounts, balances and ledger of `Accounts`: what the one takes as one step, the other shows to be one |
| `ExecutionProofs`, of `Execution` | `TypeCorrect`, `CallsAlwaysSound`, `AnswersTellCharges`, `RefundsMatchCharges`, `NoFreeExecutions`, `MissesQueueJobs`, `LogsAlwaysReconcile` | `CallsSound` describes, for each point of a call, exactly what it has paid, logged and requested. It is inductive with the types; the next three follow from it and one step. `MissesQueued` counts: the calls that ended with a miss are at most the jobs of that tool, and a step adds a call to the one side only with a job on the other (`OwnCallOnly`). `CallsUnfaulted` says what a call has logged until a fault strikes, when a call that is refunded has no success row |
| `PipelineProofs` | `TypeCorrect`, `OnlyTestedAlways`, `CompleteHasToolAlways`, `NoOrphans`, `FailedPublishesNothingAlways`, `PipelineImplementsLifecycle` | `RunsOK` (a run that publishes has passed a test; what a session holds of a row is at most as far as the row), `JobsOK`, `ToolsOK`; `SeenOK` and `Grows` carry the column-wise writes: the catalog never loses a row, so a job may point at it whoever wrote the other columns. For `NoOrphans`, `JobsAttended`: an unfinished job is scheduled or has a run that *attends* to it, that is, one that will still write a final status. A run that has read the row for the last time attends only if what it read was not final, since a flush writes only what changed: two runs that each left it to the other would otherwise orphan the job. For the last two, `OneRun`: a run holds exactly the row that is in the database (`InStep`), so that a flush is an assignment; a tool in the catalog belongs to a run past its commit, whose job is complete |
| `ArtifactsProofs` | `TypeCorrect`, `OnlyOwnCodeAlways`, `ArtifactsMatchRowsAlways`, `NeverRunsOlderAlways` | `PlacesPublished`: every place an artifact can come from (files, objects, caches, a download in flight, a publication about to write) holds versions committed for its tool, but for a built-in name, whose code is in the registry from the start and is never searched for. `published` only grows, so a removal or a late write does not disturb it. `Calm`, while nothing is disturbed: one actor at a time works on a tool (`Alone`), what nobody changes agrees (`Settled`), and each actor has written exactly what its point says (`PublicationPhase`, `RemovalPhase`, `FetchPhase`). `Ordering` puts the versions of a tool in line: what a process ran last, its cache, its file, a download on its way and the object, each at most the next, but while a publication has written the file and not yet the object (`Ahead`); a publication under way is the newest of all (`Numbered`, `Newest`) |
| `CredentialsProofs` | `TypeCorrect`, `LiveHasKeysAlways`, `ListedLiveAlwaysConfigured`, `KeysStoredOnceAlways`, `SerialStoresActivate` | `KeysBehindLive`: what a session has read or flushed is stored by the time it activates, since keys are never deleted or blanked. A seed and a removal (`Rewrite`) take tools out of `Published` and put none in, and a listing remembers which were in it when it read the tools. `AloneSeesAll`: while stores do not overlap, what a session has read is all there is |
| `GitHubProofs` | `TypeCorrect`, `AcknowledgedStaysAlways`, `NeverWrittenDirectly`, `CreatedOnceAlways`, `NoBranchEverLeftBehind` | `CommitGraph` and `ShasKnown` (parents are older and every pointer is to a commit), `HeadsStay` (a head that was read remains in the branch: updates are fast-forwards), `OneCreator`, `SomebodySettles` (a branch ahead of its pull requests has a publication on its way to one) |
| `GenerationProofs` | `TypeCorrect`, `RequestsBoundedAlways`, `RepeatsOnlyByRedirectAlways`, `BestLinksFirstAlways`, `GeneratedToolSoundAlways` | `BundleSound`: what has been tried are the best candidates, each once, and what is left ranks below. `CutBounds` counts them: a cut at k by rank leaves at most k, by the pigeonhole principle on the number of better links. `CodegenSound` is about the operators alone: whatever is proposed |
| `BootstrapProofs` | `TypeCorrect`, `ServesSeededAlways`, `SeedingKeepsRowsAlways`, `OneSucceedsAlways` | `Sound` says at each point of a start which tables exist and which keys are there, held by its transaction or still to be looked at. `Fresh`: a key it has inserted has no row and no other holder, so the commit resets nothing. `Begotten`: a row the seed wrote last is one it inserted. `Backed`: whoever is about to insert a key that has a row leaves somebody behind who is up, and once a replica has failed, or is about to create tables that are there, all tables exist and somebody seeds or is up. That all tables exist is what `OneSucceeds` lacks to be inductive: the script fails without them |
| `DashboardProofs` | `TypeCorrect`, `StrayOnlyIfCrossedAlways`, `CardsAlwaysMoveOn` | `InStep`: until a later job came while a request was under way, whatever the integrate page shows or awaits is about the job it polls. `Onward` lines up, for every job, its card, what a load that is under way has been told of it, and the row: each only moves on to the next, so a merge never takes a card back. That needs `OneLoad`, without which an older load could finish last. `JobsMoveOn` is why the row itself moves on: each phase has one place in the order of the stages, and a job that leaves it counts one more lapse, which puts all that is known of it before. What a browser tracks and merges are folds over lists, see below |

`FailedPublishesNothingAlways` and `PipelineImplementsLifecycle` assume that a job is posted once
(`MaxReposts = 0`) and that no acknowledgement of a commit is lost (`"lost_ack" \notin FaultKinds`), as in the run
`pipeline`. Neither is true without: a commit of `publish_tool` that is applied but not acknowledged
fails the job of a published tool, and of two runs on one row the second takes a running job back to `queued`
and may fail one whose tool the first has published.
All other theorems have no hypothesis but the assumption of their module, or the sign of costs in `NonNegativeAlways`.

One thing was found by proving. `Ordering` was not preserved by two processes of one
host away from the integrator that fetch one tool: the slower one stores an older object over the newer one,
and after a restart the other runs it. TLC confirmed that with two such platforms; `disturbed` now counts them, and
`artifacts` has them.

`TypeOK` of each module is proved rather than run; in `Dashboard`, where it says that what the browser keeps is
bounded, it is both.

`Dashboard` folds `addTrackedJobId` over a listing and the assignments to its `Map` over the answers. The induction that
such a fold needs is over its length, and the library states induction with an operator as parameter, which the provers
cannot instantiate. `DashboardProofs` states it with a set instead (`Induction`: a set of numbers with 0, and with each
number the next, has them all), which follows from the least element of a set of numbers (`Least`, from
`NatLessThanWellFounded`). `TrackedFold` and `DedupedFold` say with it that what holds before the fold, and is
kept by each element, holds afterwards.

Every invariant, refinement and action property of a passing run is thus stated by a theorem. Only model-checked is
liveness (`EveryCallAnswered`, `EveryCallEnds`, `UndisturbedJobsEnd`, `StartsEnd`, `EndIsShown`), since liveness under
fairness and `ENABLED` are beyond the prover. The prover does no `RECURSIVE` operators; no module uses one.

## 5. What the checks found

Two runs end in a violation on purpose; each states what the repository says of itself.

| Run | The repository says | The code does |
|---|---|---|
| `pipeline_untested` | `docs/agent-tasks.md:140`: tools are validated before they are published | what is written is the code from before the fixes (`db_writer.py:209`) |
| `github_retry` | `docs/github-pr-publishing.md:282`: safe retries | a retry after the branch moved finds no change and opens no pull request |

Read off the models, without a run of their own:

- *Wallet and execution.* A generated tool may have a negative cost, and its refund then
  takes a wallet below zero. A call that is cancelled or crashes between charge and
  effect stays charged (`idea.md:92`). A lost acknowledgement makes logs and ledger disagree
  (`plan.md:104`). A tool without credentials answers an error text that is charged as a success
  (`docs/flow.md:251-252`). `spending_limit_per_session` (`idea.md:106`) is never read.
  A success log that cannot be written refunds a call whose provider has acted
  (`capabilities_service.py:139`), although users are charged "per actual endpoint execution" (`docs/flow.md:226`).
  `GET /api/wallet/transactions` orders by the start of a transaction, not by its effect.
- *Pipeline.* A restart of the integrator cancels its runs without marking their jobs, which stay
  running: `CancelledError` is no `Exception` and nothing resumes (`main.py:43-48`), although "failures at any stage
  are caught" (`docs/agent-tasks.md:161`). A forward that is lost or refused leaves its job queued (`docs/agent-tasks.md:61`).
  A publishing commit whose acknowledgement is lost marks the job failed although its tool is in
  the catalog. A tool that lost the race for its name fails its job though it passed its
  test (`docs/agent-tasks.md:152`).
- *Artifacts.* After a republication a platform goes on running the code its registry has cached
  (`registry.py:56`), at the new price, although the registry should load it "without a container restart"
  (`db_writer.py:204-205`). Two publications of one name can leave the code of one under the row of
  the other. A host that has a file never downloads a newer object. With the local backend
  a cleaned `/tmp` takes the generated tools away while their rows stay live. `load_all` registers eight built-in
  tools (`registry.py:65-78`), among them `send_sms`, which the seed retires and codegen may be asked for by name
  (`codegen.py:256`, `:274`). What is published under such a name is never run: calls are
  charged the published price, shown the published manifest, and get the built-in code. Removing
  a name without a row compares `resulting_tool_id` with `None`, which becomes `IS NULL`, and deletes
  every job without a result.
- *Credentials.* A publication never looks at stored keys, so a tool published after its keys
  waits until they are stored again, and two complementary stores can both see an
  incomplete provider (`docs/flow.md:101-122`). Two first stores insert a key twice. The seed inserts `send_email`
  as live (`seed.py:47-58`, `:287-288`), a tool of `resend` that needs two keys, although "generated != executable
  until credentials are present" (`docs/flow.md:124-126`): on a fresh database `GET /api/credentials/providers`
  shows it as live beside an unconfigured `resend`. A store judges the provider it has read: a publication that gives the row
  another provider meanwhile, or mixes its columns with those of another one, leaves a live tool whose
  provider has no keys.
- *Documentation and code generation.* The second page of a bundle may be the first again, by a redirect.
  Redirects also lead off the host that `docs/scraping.md` says pages are on; anchors of one page with
  different fragments count as pages; links after the twenty-fifth of a page are never looked at; plain text
  is parsed as YAML. What discovery finds of the authentication never reaches `run_codegen`, so an API whose
  reader leaves `auth` empty gets a live tool (`docs/flow.md:99-113`). The keys of `auth` are taken for secret
  fields, so one called like a public input hides it. A tool that is not Twilio's has the name the model
  gives it, which may be that of a seeded tool, and the publication then overwrites that.
- *Seeding and start.* Two replicas that seed together fail one of them on a unique name or table, and its
  start with it; no restart policy brings it back. `seed.py` and `seed_demo_tools.py` seed in different
  orders, so that one can end as the victim of a deadlock. The retired tool is deleted by its key after it was
  looked up by its source: a publication that takes the row over in between loses it. `alembic upgrade` after
  `create_all` (`SETUP.md:69-70`) fails, and a database at revision 0001 whose `provider_credentials` came from
  `create_all` can never be upgraded. `db_init.py:26-34` goes on without a seed if `seed.py` cannot be imported.
- *Dashboard.* A late answer about the job before ends the polling for the present one, if that job has
  ended (`integrate/page.tsx:30-31`); a job that is shown as complete and then fails, because the acknowledgement of its publishing
  commit was lost (`pipeline.py:152-160`), or is run again, stays complete there, while the feed goes on to
  what it has become; an overtaken answer shows an earlier status until the next. The feed never drops
  the id of a vanished job, although it says stale jobs are cleaned up (`feed/page.tsx:121`): `fetchJson` turns a 404
  into an `EndpointUnavailableError` (`api.ts:122`), for which `feed/page.tsx:99` does not look. A listing of more jobs than
  are tracked drops the newest ids, since it adds the oldest last.

## 6. What is not modelled, and why

- *Text processing*: prompts, LLM answers and their normalisation, HTML, PDF and OpenAPI parsing,
  manifests' contents, pull-request texts. They are payload; a step that may raise stands for each.
- *Read-only endpoints* (catalog, usage, job lists, GitHub and platform health), logging and settings.
- *Built-in tools and the LLM client*: one request to a provider, without state: a step that answers or
  raises in `Execution`, any answer in `Generation`. What `scrape_url` makes of a page is text.
- *The job rows that the removal script deletes.* `Execution` and `Pipeline` have catalogs that only
  grow; `Artifacts` and `Credentials` have removals of tools.
- *Names the seed inserts rows for*, in `Artifacts`: there no name has a row at first. A publication that takes
  over such a row is in `Bootstrap`.
- *A name that changes its provider*, and two publications of one name that mix their columns, in `Credentials`.
- *The already-live check of `request_integration`*, which is advice to the caller.
- *The other pages of the dashboard*, which load once, and a second tab, which shares only local storage.
  A `load()` that is under way when the feed is left could still add the ids of its listing there.
- *Downgrades and columns of migrations*, the offline mode of Alembic, contracts and `scripts/smoke_demo.py`:
  no concurrent logic of their own.

## 7. Plan

| Step | Modules | What is stated | Status |
|---|---|---|---|
| 1 | `WalletLedger`, `Wallet` | atomic ledger, reconciliation, refinement, liveness | checked; safety and refinement proved |
| 2 | `Execution` | charge, answer, refund, log and miss of a call | checked; all safety proved |
| 3 | `JobLifecycle`, `Pipeline` | life cycle of a job, only tested tools | checked; invariants and refinement proved |
| 4 | `Credentials` | activation, listing, doubled keys | checked and proved |
| 5 | `GitHubPublish` | acknowledged work, one pull request | checked and proved |
| 6 | `Artifacts` | origin and agreement of row, files, objects, cache | checked; all safety proved |
| 7 | `DocsFetcher`, `Codegen`, `Generation` | bounds and order of a bundle, soundness of a generated tool | checked and proved |
| 8 | `Bootstrap` | what serves is seeded, rows are kept, one succeeds, starts end | checked; all safety proved |
| 9 | `Dashboard` | the right job, its end, cards that move on | checked; all safety proved |
| 10 | `PipelineProofs`, `ArtifactsProofs`, `ExecutionProofs` | `NoOrphanJob`, `FailedPublishesNothing` and the refinement; `ArtifactsMatchRows`, `NeverRunsOlder`; `MissQueuesJob`, `LogsReconcile` | proved |

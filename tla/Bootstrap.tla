----------------------------- MODULE Bootstrap -----------------------------
(***************************************************************************)
(* How a platform comes up: python -m app.db_init && uvicorn               *)
(* (services/platform/app/db_init.py, app/seed.py, infra/                  *)
(* docker-compose.yml), next to other replicas that start, to the script   *)
(* scripts/seed_demo_tools.py, to the Alembic migrations of infra/, and to *)
(* a publisher that writes tools of the same names.                        *)
(*                                                                         *)
(* A seeder is one of these processes: it seeds in one transaction.  Its   *)
(* session flushes what was added before the next SELECT, so that an       *)
(* inserted key is held, unseen, until the commit: the INSERT of another   *)
(* waits for it, and then fails on the UNIQUE columns.                     *)
(***************************************************************************)
EXTENDS Integers, Sequences, FiniteSets, Functions

CONSTANTS
  Replicas, Scripts,
  User,           \* the row of the demo user, known by its token
  SeedTools,      \* the names in SEED_TOOLS
  Legacy,         \* the one name in LEGACY_REMOVED_SEED_TOOLS
  AppOrder, ScriptOrder,  \* the orders of SEED_TOOLS in seed.py and in the script
  Published,      \* names the pipeline may publish
  Databases,      \* what may be there before: tables, revision, rows
  MaxRetries,     \* wait_for_db: 20
  MaxTogether,    \* bound: how many start at the same time
  NoRow, NoKey

Seeders == Replicas \cup Scripts
Keys == {User, Legacy} \cup SeedTools
InitialTables == {"users", "tool_definitions", "wallet_transactions", "tool_call_logs",
                  "integration_jobs"}
CredentialTables == {"provider_credentials"}
AllTables == InitialTables \cup CredentialTables

\* A row by who inserted it and who wrote it last: the seed, the pipeline, or for the
\* user of an older database a call that moved the wallet.
Writers == {"seed", "pipeline", "wallet"}
Row == [born: Writers, by: Writers]
Database == [tables: SUBSET AllTables, stamp: 0..2, rows: [Keys -> Row \cup {NoRow}]]

ASSUME BootstrapAssumption ==
  /\ Replicas \cap Scripts = {}
  /\ User \notin SeedTools /\ Legacy \notin SeedTools /\ User # Legacy
  /\ AppOrder \in Seq(SeedTools) /\ ScriptOrder \in Seq(SeedTools)
  /\ SeedTools = {AppOrder[i] : i \in DOMAIN AppOrder}
  /\ SeedTools = {ScriptOrder[i] : i \in DOMAIN ScriptOrder}
  /\ IsInjective(AppOrder) /\ IsInjective(ScriptOrder)
  /\ Published \subseteq SeedTools \cup {Legacy}
  /\ Databases \subseteq Database
  \* The seed writes no row that it did not insert.
  /\ \A d \in Databases, k \in Keys :
       d.rows[k] # NoRow /\ d.rows[k].by = "seed" => d.rows[k].born = "seed"
  /\ MaxRetries \in Nat \ {0} /\ MaxTogether \in Nat
  /\ NoRow \notin Row \cup Writers /\ NoKey \notin Keys

VARIABLES
  up,         \* PostgreSQL accepts connections; it may come late, or never
  tables, stamp,  \* what exists, and the revision in alembic_version
  rows,       \* committed
  proc,       \* the seeders
  publisher,  \* one call of publish_tool, between its SELECT and its commit
  disturbed   \* history: a process was killed, the database did not come or was migrated
              \* during a start, or the pipeline wrote a seed tool of its own

vars == <<up, tables, stamp, rows, proc, publisher, disturbed>>

Proc ==
  [pc: {"down", "wait", "inspect", "create", "seed", "ready", "failed"},
   tries: 0..MaxRetries, missing: SUBSET AllTables,
   todo: Seq(Keys),            \* what it has still to look at
   added: Keys \cup {NoKey},   \* in the session, not flushed
   own: SUBSET Keys,           \* inserted, not committed
   legacy: {"kept", "marked", "deleted"},
   doomed: Writers \cup {NoRow}]  \* who inserted the legacy row it found
Down ==
  [pc |-> "down", tries |-> 0, missing |-> {}, todo |-> <<>>, added |-> NoKey,
   own |-> {}, legacy |-> "kept", doomed |-> NoRow]
Publisher == [pc: {"idle", "found", "done"}, name: Keys \cup {NoKey}, born: Writers \cup {NoRow}]
Idle == [pc |-> "idle", name |-> NoKey, born |-> NoRow]

Init ==
  /\ up \in BOOLEAN
  /\ \E d \in Databases : tables = d.tables /\ stamp = d.stamp /\ rows = d.rows
  /\ proc = [s \in Seeders |-> Down]
  /\ publisher = Idle
  /\ disturbed = FALSE

-----------------------------------------------------------------------------
(* Starting.  ServesAnyway, ForeverTries, LooksNever and AnySource are      *)
(* seeded faults that stand in for the definition below them.              *)

Running(s) == proc[s].pc \in {"wait", "inspect", "create", "seed"}
Ended(s) == ~Running(s)
Rollback(pc) == [Down EXCEPT !.pc = pc]

\* An exception or an exit code ends db_init, and && keeps uvicorn from starting.
ServesAnyway(s) == proc' = [proc EXCEPT ![s] = Rollback("ready")]
Fails(s) == proc' = [proc EXCEPT ![s] = Rollback("failed")]

\* run_seed: the user, the legacy tool, then the tools.
SeedOrder(s) == <<User, Legacy>> \o IF s \in Replicas THEN AppOrder ELSE ScriptOrder
Seeding(s) == [Down EXCEPT !.pc = "seed", !.todo = SeedOrder(s)]

\* The script seeds at once; a replica waits for the database.
Start(s) ==
  /\ proc[s].pc \in {"down", "failed"}
  /\ Cardinality({t \in Seeders : Running(t)}) < MaxTogether
  /\ proc' = [proc EXCEPT ![s] = IF s \in Replicas THEN [Down EXCEPT !.pc = "wait"]
                                                   ELSE Seeding(s)]
  /\ UNCHANGED <<up, tables, stamp, rows, publisher, disturbed>>

ForeverTries(tries) == tries
Tries(tries) == tries + 1

\* wait_for_db: the last failure exits.
Connect(s) ==
  /\ proc[s].pc = "wait"
  /\ LET tries == Tries(proc[s].tries)
         gone == ~up /\ tries = MaxRetries
     IN  /\ disturbed' = (disturbed \/ gone)
         /\ proc' = [proc EXCEPT ![s] =
                       IF up THEN [@ EXCEPT !.pc = "inspect"]
                       ELSE IF gone THEN Rollback("failed")
                       ELSE [@ EXCEPT !.tries = tries]]
  /\ UNCHANGED <<up, tables, stamp, rows, publisher>>

\* create_tables: create_all looks for the tables first, and creates those it misses.
Inspect(s) ==
  /\ proc[s].pc = "inspect"
  /\ proc' = [proc EXCEPT ![s].pc = "create", ![s].missing = AllTables \ tables]
  /\ UNCHANGED <<up, tables, stamp, rows, publisher, disturbed>>

Create(s) ==
  /\ proc[s].pc = "create"
  /\ IF proc[s].missing \cap tables # {} THEN Fails(s) /\ UNCHANGED tables
     ELSE /\ tables' = tables \cup proc[s].missing
          /\ proc' = [proc EXCEPT ![s] = Seeding(s)]
  /\ UNCHANGED <<up, stamp, rows, publisher, disturbed>>

-----------------------------------------------------------------------------
(* Seeding.  The database is external: whoever inserts a key that another  *)
(* transaction holds waits for it, and so does whoever deletes its row.    *)

Holders(s) ==
  {t \in Seeders \ {s} :
     \/ proc[s].added \in proc[t].own
     \/ proc[s].legacy = "marked" /\ proc[t].legacy = "deleted"}

Flushes(s) == proc[s].pc = "seed" /\ "tool_definitions" \in tables /\ Holders(s) = {}
Conflicts(s) == proc[s].added # NoKey /\ rows[proc[s].added] # NoRow
Flushed(p) ==
  [p EXCEPT !.own = IF p.added = NoKey THEN @ ELSE @ \cup {p.added}, !.added = NoKey,
            !.legacy = IF @ = "marked" THEN "deleted" ELSE @]

Born(k) == IF rows[k] = NoRow THEN NoRow ELSE rows[k].born
LooksNever(k) == FALSE
Exists(k) == rows[k] # NoRow

\* A legacy tool goes only while it is the seed's own.
AnySource == rows[Legacy] # NoRow
RemovesLegacy == rows[Legacy] # NoRow /\ rows[Legacy].by = "seed"

\* _seed_user, _seed_tools: flush, then look at the next key.
Look(s) ==
  /\ Flushes(s) /\ ~Conflicts(s)
  /\ proc[s].todo # <<>>
  /\ LET p == Flushed(proc[s])
         k == Head(p.todo)
     IN  proc' = [proc EXCEPT ![s] =
           [p EXCEPT !.todo = Tail(@),
                     !.legacy = IF k = Legacy /\ RemovesLegacy THEN "marked" ELSE @,
                     !.doomed = IF k = Legacy THEN Born(k) ELSE @,
                     !.added = IF k # Legacy /\ ~Exists(k) THEN k ELSE @]]
  /\ UNCHANGED <<up, tables, stamp, rows, publisher, disturbed>>

\* The row is deleted by its primary key: not if it is no longer the one.
Seeded(p) ==
  [k \in Keys |->
     IF k \in p.own THEN [born |-> "seed", by |-> "seed"]
     ELSE IF k = Legacy /\ p.legacy = "deleted" /\ Born(k) = p.doomed THEN NoRow
     ELSE rows[k]]

CommitSeed(s) ==
  /\ Flushes(s) /\ ~Conflicts(s)
  /\ proc[s].todo = <<>>
  /\ rows' = Seeded(Flushed(proc[s]))
  /\ proc' = [proc EXCEPT ![s] = Rollback("ready")]
  /\ UNCHANGED <<up, tables, stamp, publisher, disturbed>>

\* A UNIQUE column, or a table that is not there: the exception ends the process.
SeedFails(s) ==
  /\ proc[s].pc = "seed"
  /\ \/ Flushes(s) /\ Conflicts(s)
     \/ "tool_definitions" \notin tables
  /\ Fails(s)
  /\ UNCHANGED <<up, tables, stamp, rows, publisher, disturbed>>

\* PostgreSQL ends one of two transactions that wait for each other.
DeadlockVictim(s) ==
  /\ proc[s].pc = "seed"
  /\ \E t \in Holders(s) : s \in Holders(t)
  /\ Fails(s)
  /\ UNCHANGED <<up, tables, stamp, rows, publisher, disturbed>>

-----------------------------------------------------------------------------
(* The world around the seeders.                                           *)

\* A crash, of the process or of the database under it.
Kill(s) ==
  /\ Running(s) \/ proc[s].pc = "ready"
  /\ proc' = [proc EXCEPT ![s] = Rollback("failed")]
  /\ disturbed' = TRUE
  /\ UNCHANGED <<up, tables, stamp, rows, publisher>>

DatabaseComes ==
  /\ ~up /\ up' = TRUE
  /\ UNCHANGED <<tables, stamp, rows, proc, publisher, disturbed>>

\* alembic upgrade head, one transaction: it fails on a table that is there already.
UpgradeTables ==
  (IF stamp = 0 THEN InitialTables ELSE {}) \cup (IF stamp < 2 THEN CredentialTables ELSE {})
Upgrade ==
  /\ up /\ stamp < 2
  /\ UpgradeTables \cap tables = {}
  /\ tables' = tables \cup UpgradeTables
  /\ stamp' = 2
  /\ disturbed' = (disturbed \/ \E s \in Seeders : Running(s))
  /\ UNCHANGED <<up, rows, proc, publisher>>

\* publish_tool looks for the tool by its name, ...
PublishLooks ==
  /\ up /\ publisher.pc = "idle" /\ "tool_definitions" \in tables
  /\ \E n \in Published : publisher' = [pc |-> "found", name |-> n, born |-> Born(n)]
  /\ UNCHANGED <<up, tables, stamp, rows, proc, disturbed>>

\* ... and inserts it, or updates the row it found, by its primary key: it fails if
\* meanwhile there is another row, or none.
PublishCommits ==
  /\ publisher.pc = "found"
  /\ LET n == publisher.name
         written == [born |-> IF Born(n) = NoRow THEN "pipeline" ELSE Born(n), by |-> "pipeline"]
         held == \E s \in Seeders : \/ n \in proc[s].own
                                    \/ n = Legacy /\ proc[s].legacy = "deleted"
     IN  /\ ~held
         /\ rows' = IF Born(n) = publisher.born THEN [rows EXCEPT ![n] = written] ELSE rows
         /\ disturbed' = (disturbed \/ (n \in SeedTools /\ rows' # rows))
  /\ publisher' = [Idle EXCEPT !.pc = "done"]
  /\ UNCHANGED <<up, tables, stamp, proc>>

-----------------------------------------------------------------------------

SeederStep(s) ==
  Connect(s) \/ Inspect(s) \/ Create(s) \/ Look(s) \/ CommitSeed(s) \/ SeedFails(s)
  \/ DeadlockVictim(s)

Next ==
  \/ \E s \in Seeders : Start(s) \/ SeederStep(s) \/ Kill(s)
  \/ DatabaseComes \/ Upgrade \/ PublishLooks \/ PublishCommits

\* A process that runs takes its steps, PostgreSQL gives a lock in the order it was
\* asked for, so that others who start again and again do not starve it, and ends a
\* deadlock.  That it comes up, or that anybody starts a process, is not assumed.
Fairness == \A s \in Seeders : SF_vars(SeederStep(s))
Spec == Init /\ [][Next]_vars /\ Fairness

-----------------------------------------------------------------------------
(* Properties.                                                             *)

\* Every variable holds a value of its kind.
TypeOK ==
  /\ up \in BOOLEAN /\ disturbed \in BOOLEAN
  /\ tables \subseteq AllTables /\ stamp \in 0..2
  /\ rows \in [Keys -> Row \cup {NoRow}]
  /\ proc \in [Seeders -> Proc]
  /\ publisher \in Publisher

\* uvicorn never runs over a database that lacks a table, the demo user or a tool of
\* the seed, whoever else was seeding, publishing or migrating meanwhile.
ServesSeeded ==
  \A r \in Replicas : proc[r].pc = "ready" =>
    AllTables \subseteq tables /\ \A k \in Keys \ {Legacy} : rows[k] # NoRow

\* "Idempotent - skips existing rows": no start puts the seed's data back into a row
\* that is there, a spent wallet's included, and none removes a row but the legacy
\* tool that a seed inserted.
KeepsRows ==
  \A k \in Keys : rows[k] # NoRow /\ rows'[k] # rows[k] =>
    IF rows'[k] = NoRow THEN k = Legacy /\ rows[k].born = "seed" ELSE rows'[k].by # "seed"
SeedingKeepsRows == [][KeepsRows]_vars

\* Seeders that start together do not all fail of each other: unless something else
\* disturbed them, a replica that failed leaves one behind that is up, or running.
OneSucceeds ==
  ~disturbed /\ (\E r \in Replicas : proc[r].pc = "failed") =>
    \E s \in Seeders : Running(s) \/ proc[s].pc = "ready"

\* A start ends, whatever the database and the other processes do: it gives up on a
\* database that does not come, and waits for no lock for ever.
StartsEnd == \A s \in Seeders : Running(s) ~> Ended(s)
=============================================================================

---------------------------- MODULE Credentials ----------------------------
(***************************************************************************)
(* Platform credentials of API providers (services/platform/app/services/  *)
(* provider_credentials.py and api/credentials.py): storing the keys of a  *)
(* provider, which makes its waiting tools live once all required keys are *)
(* there, and the listing that the dashboard shows.  Tools come from       *)
(* publications, which make none live that asks for credentials, and from  *)
(* the seed of a starting platform (seed.py), which looks at no keys.      *)
(*                                                                         *)
(* A store is one transaction at READ COMMITTED: SELECT the rows of the    *)
(* provider, flush their updates and insertions, SELECT the tools, commit. *)
(* No constraint keeps a key from having two rows, and no code clears      *)
(* is_active, so a row is the value it holds.                              *)
(*                                                                         *)
(* A name stands for one API here: of one provider, which asks for         *)
(* credentials or does not, whoever writes its row.  A publication is one  *)
(* step, so that two of one name do not mix the columns they write.        *)
(***************************************************************************)
EXTENDS Integers, Sequences

CONSTANTS
  Providers, Keys, Values, Tools,
  Required,         \* PROVIDER_REQUIREMENTS: the keys of each provider
  ProviderOf,       \* the provider of each tool
  BornLive,         \* tools whose API asks for no credentials
  SeedTools,        \* SEED_TOOLS: tools the seed inserts
  Retired,          \* LEGACY_REMOVED_SEED_TOOLS: tools it takes away again
  Sessions,         \* concurrent POST /api/credentials/{provider}
  Readers,          \* GET /api/credentials/providers, each once
  Blank,            \* a value that is missing or white space
  MaxStores,        \* bound: stores in a behaviour
  MaxWrites         \* bound: publications, seeds and removals in a behaviour

ASSUME CredentialsAssumption ==
  /\ Providers # {}
  /\ Required \in [Providers -> SUBSET Keys]
  /\ ProviderOf \in [Tools -> Providers]
  /\ BornLive \subseteq Tools
  /\ SeedTools \subseteq Tools /\ Retired \subseteq Tools \ SeedTools
  /\ Blank \notin Values
  /\ MaxStores \in Nat /\ MaxWrites \in Nat

VARIABLES
  stored,      \* provider_credentials: the rows of each key of each provider
  status,      \* tool_definitions: the status of each tool
  source,      \* tool_definitions: who wrote its row last, the seed or the pipeline
  seed,        \* what the seed of a starting platform has found
  store,       \* the state of each storing session
  listing,     \* the state of each listing session
  overlapped,  \* history: two stores, or a store and a publication, overlapped
  stores, writes

catalog == <<status, source>>
bounds == <<stores, writes>>
vars == <<stored, catalog, seed, store, listing, overlapped, bounds>>

ToolStatus == {"live", "pending_credentials", "deprecated"}

\* The columns a session wants to write, and the rows it has found: key k has no
\* row when existing[k] = 0, and read[k] is what the row said.
NewStore(p, values) ==
  [pc |-> "begun", provider |-> p, values |-> values,
   existing |-> [k \in Keys |-> 0], read |-> [k \in Keys |-> Blank], activates |-> {}]
NoStore == [NewStore(CHOOSE p \in Providers : TRUE, [k \in Keys |-> Blank])
              EXCEPT !.pc = "idle"]
NoListing ==
  [pc |-> "idle", tools |-> [t \in Tools |-> "absent"], published |-> {},
   keys |-> [p \in Providers |-> {}]]
NoSeed == [pc |-> "idle", missing |-> {}, retired |-> {}]

\* An old database has retired tools that its seed has inserted.
Init ==
  /\ stored = [p \in Providers |-> [k \in Keys |-> <<>>]]
  /\ \E old \in SUBSET Retired :
       /\ status = [t \in Tools |-> IF t \in old THEN "live" ELSE "absent"]
       /\ source = [t \in Tools |-> IF t \in old THEN "seed" ELSE "none"]
  /\ seed = NoSeed
  /\ store = [s \in Sessions |-> NoStore]
  /\ listing = [r \in Readers |-> NoListing]
  /\ overlapped = FALSE
  /\ stores = 0 /\ writes = 0

-----------------------------------------------------------------------------
(* Vocabulary.  FindNothing, AnyKey, OnlyGivenKeys and KeysFirst are       *)
(* seeded faults that stand in for the definition below them.              *)

Active(s) == store[s].pc \in {"begun", "read", "flushed", "stale"}

\* The end of a session, which forgets what it read.
End(s, answer) == store' = [store EXCEPT ![s] = [NoStore EXCEPT !.pc = answer]]

\* The tools whose rows were last written by a publication that found that their API
\* asks for credentials.
Published == {t \in Tools \ BornLive : source[t] = "pipeline"}

StoredKeys(p) == {k \in Keys : stored[p][k] # <<>>}
Configured(p) == Required[p] # {} /\ Required[p] \subseteq StoredKeys(p)

\* The keys the session stores, and those it believes the provider then has.
Given(s) == {k \in Keys : store[s].values[k] # Blank}
Existing(s) == {k \in Keys : store[s].existing[k] # 0}
OnlyGivenKeys(s) == Given(s)
CombinedKeys(s) == Given(s) \cup Existing(s)

AnyKey(s) == Required[store[s].provider] \cap CombinedKeys(s) # {}
IsComplete(s) == Required[store[s].provider] \subseteq CombinedKeys(s)

\* The row of key k that the flush of session s rewrites, if any.
Rewrites(s, k) ==
  /\ k \in Given(s) \cap Existing(s)
  /\ store[s].values[k] # store[s].read[k]

-----------------------------------------------------------------------------
(* POST /api/credentials/{provider}.                                       *)

\* The handler keeps the required keys with a value, and answers 400 when the
\* provider is not managed or nothing is left.
Request(s) ==
  /\ ~Active(s)
  /\ stores < MaxStores
  /\ stores' = stores + 1
  /\ \E p \in Providers, posted \in [Keys -> Values \cup {Blank}] :
       LET sanitized == [k \in Keys |-> IF k \in Required[p] THEN posted[k] ELSE Blank]
           accepted == \E k \in Keys : sanitized[k] # Blank
       IN  /\ store' = [store EXCEPT ![s] =
                          IF accepted THEN NewStore(p, sanitized)
                                      ELSE [NoStore EXCEPT !.pc = "rejected"]]
           /\ overlapped' = (overlapped \/ (accepted /\ \E o \in Sessions : Active(o)))
  /\ UNCHANGED <<stored, catalog, seed, listing, writes>>

\* existing = {row.key: row}: of two rows of a key, the last in an unordered
\* SELECT wins.
FindNothing(s) ==
  /\ store[s].pc = "begun"
  /\ store' = [store EXCEPT ![s].pc = "read"]
  /\ UNCHANGED <<stored, catalog, seed, listing, overlapped, bounds>>

FindExisting(s) ==
  LET rows == stored[store[s].provider]
  IN  /\ store[s].pc = "begun"
      /\ \E existing \in [Keys -> UNION {0..Len(rows[k]) : k \in Keys}] :
           /\ \A k \in Keys : /\ existing[k] <= Len(rows[k])
                              /\ existing[k] = 0 => rows[k] = <<>>
           /\ store' = [store EXCEPT
                ![s].pc = "read", ![s].existing = existing,
                ![s].read = [k \in Keys |-> IF existing[k] = 0 THEN Blank
                                            ELSE rows[k][existing[k]]]]
      /\ UNCHANGED <<stored, catalog, seed, listing, overlapped, bounds>>

\* The next execute flushes first, and an UPDATE waits for the session that holds
\* the row; then the tools are read.
RowsFree(s) ==
  ~ \E o \in Sessions \ {s}, k \in Keys :
      /\ store[o].pc \in {"flushed", "stale"} /\ store[o].provider = store[s].provider
      /\ Rewrites(s, k) /\ Rewrites(o, k)
      /\ store[o].existing[k] = store[s].existing[k]

FlushAndSelectTools(s) ==
  /\ store[s].pc = "read"
  /\ RowsFree(s)
  /\ store' = [store EXCEPT
       ![s].pc = "flushed",
       ![s].activates = {t \in Tools : /\ ProviderOf[t] = store[s].provider
                                       /\ status[t] = "pending_credentials"
                                       /\ IsComplete(s)}]
  /\ UNCHANGED <<stored, catalog, seed, listing, overlapped, bounds>>

RowsAfter(s, k) ==
  LET rows == stored[store[s].provider][k]
      value == store[s].values[k]
  IN  IF k \in Given(s) \ Existing(s) THEN Append(rows, value)
      ELSE IF Rewrites(s, k) THEN [rows EXCEPT ![store[s].existing[k]] = value]
      ELSE rows

\* The answer "error" stands for a commit whose acknowledgement was lost.
Commit(s, answer) ==
  /\ store[s].pc = "flushed"
  /\ stored' = [stored EXCEPT ![store[s].provider] = [k \in Keys |-> RowsAfter(s, k)]]
  /\ status' = [t \in Tools |-> IF t \in store[s].activates THEN "live" ELSE status[t]]
  /\ End(s, answer)
  /\ UNCHANGED <<source, seed, listing, overlapped, bounds>>

\* A statement fails, be it the UPDATE of a tool whose row is gone ("stale"), or
\* the process dies: the transaction is rolled back.
Abort(s) ==
  /\ Active(s)
  /\ End(s, "error")
  /\ UNCHANGED <<stored, catalog, seed, listing, overlapped, bounds>>

-----------------------------------------------------------------------------
(* GET /api/credentials/providers: list_provider_credential_statuses.      *)

KeysFirst == [first |-> "keys", second |-> "tools"]
SelectOrder == [first |-> "tools", second |-> "keys"]

AskList(r) ==
  /\ listing[r].pc = "idle"
  /\ listing' = [listing EXCEPT ![r].pc = "first"]
  /\ UNCHANGED <<stored, catalog, seed, store, overlapped, bounds>>

\* Two SELECTs, each of which sees what is committed at its own time.
Select(r) ==
  LET point == listing[r].pc
  IN  /\ point \in {"first", "second"}
      /\ listing' = [listing EXCEPT
           ![r].pc = IF point = "first" THEN "second" ELSE "done",
           ![r].tools = IF SelectOrder[point] = "tools" THEN status ELSE @,
           ![r].published = IF SelectOrder[point] = "tools" THEN Published ELSE @,
           ![r].keys = IF SelectOrder[point] = "keys"
                       THEN [p \in Providers |-> StoredKeys(p)] ELSE @]
      /\ UNCHANGED <<stored, catalog, seed, store, overlapped, bounds>>

-----------------------------------------------------------------------------
(* Who else writes the catalog.                                            *)

Writes == writes < MaxWrites /\ writes' = writes + 1 /\ UNCHANGED stores

\* The integrator publishes a tool, for the first time or again; codegen turns
\* live into pending_credentials when the API asks for credentials, and does not
\* look whether they are stored.
PublishTool(t) ==
  /\ Writes
  /\ \E new \in ToolStatus : /\ t \notin BornLive => new # "live"
                             /\ status' = [status EXCEPT ![t] = new]
  /\ source' = [source EXCEPT ![t] = "pipeline"]
  /\ overlapped' = (overlapped \/ \E s \in Sessions : Active(s))
  /\ UNCHANGED <<stored, seed, store, listing>>

\* The rows of some tools are deleted, others inserted as the seed has them.  A store
\* that is about to make a deleted one live can only fail.
Rewrite(deleted, inserted) ==
  /\ status' = [t \in Tools |-> IF t \in inserted THEN "live"
                                ELSE IF t \in deleted THEN "absent" ELSE status[t]]
  /\ source' = [t \in Tools |-> IF t \in inserted THEN "seed"
                                ELSE IF t \in deleted THEN "none" ELSE source[t]]
  /\ store' = [s \in Sessions |->
                 IF store[s].pc = "flushed" /\ store[s].activates \cap deleted # {}
                 THEN [store[s] EXCEPT !.pc = "stale"] ELSE store[s]]

\* run_seed looks for the tools it knows: for retired ones by name and source, for the
\* others by name.
SeedLooks ==
  /\ seed.pc = "idle"
  /\ Writes
  /\ seed' = [pc |-> "looked",
              missing |-> {t \in SeedTools : status[t] = "absent"},
              retired |-> {t \in Retired : source[t] = "seed"}]
  /\ UNCHANGED <<stored, catalog, store, listing, overlapped>>

\* It deletes what it found by key, whoever has written it since, and inserts its own
\* tools as live, whatever keys there are.
SeedCommits ==
  /\ seed.pc = "looked"
  /\ \A t \in seed.missing : status[t] = "absent"
  /\ Rewrite(seed.retired, seed.missing)
  /\ seed' = NoSeed
  /\ UNCHANGED <<stored, listing, overlapped, bounds>>

\* Its commit fails, on a name that has been published since or for another reason.
SeedFails ==
  /\ seed.pc = "looked"
  /\ seed' = NoSeed
  /\ UNCHANGED <<stored, catalog, store, listing, overlapped, bounds>>

\* remove_generated_tool deletes the row of a name.
RemoveTool(t) ==
  /\ Writes
  /\ Rewrite({t}, {})
  /\ UNCHANGED <<stored, seed, listing, overlapped>>

Next ==
  \/ \E s \in Sessions : \/ Request(s) \/ FindExisting(s) \/ FlushAndSelectTools(s)
                         \/ \E answer \in {"done", "error"} : Commit(s, answer)
                         \/ Abort(s)
  \/ \E r \in Readers : AskList(r) \/ Select(r)
  \/ \E t \in Tools : PublishTool(t) \/ RemoveTool(t)
  \/ SeedLooks \/ SeedCommits \/ SeedFails

Spec == Init /\ [][Next]_vars

-----------------------------------------------------------------------------
(* Properties.                                                             *)

StoreType ==
  [pc: {"idle", "begun", "read", "flushed", "stale", "done", "error", "rejected"},
   provider: Providers, values: [Keys -> Values \cup {Blank}], existing: [Keys -> Nat],
   read: [Keys -> Values \cup {Blank}], activates: SUBSET Tools]

ListingType ==
  [pc: {"idle", "first", "second", "done"}, tools: [Tools -> ToolStatus \cup {"absent"}],
   published: SUBSET Tools, keys: [Providers -> SUBSET Keys]]

\* Every variable holds a value of its kind.
TypeOK ==
  /\ stored \in [Providers -> [Keys -> Seq(Values)]]
  /\ status \in [Tools -> ToolStatus \cup {"absent"}]
  /\ source \in [Tools -> {"none", "seed", "pipeline"}]
  /\ seed \in [pc: {"idle", "looked"}, missing: SUBSET Tools, retired: SUBSET Tools]
  /\ store \in [Sessions -> StoreType]
  /\ listing \in [Readers -> ListingType]
  /\ overlapped \in BOOLEAN
  /\ stores \in Nat /\ writes \in Nat

\* A tool whose API asks for credentials and that was last written by a publication is
\* live only when every required key of its provider is stored, whatever stores,
\* publications, removals and seeds race.  (What the seed makes live needs no keys.)
LiveHasKeys ==
  \A t \in Published : status[t] = "live" =>
    Required[ProviderOf[t]] \subseteq StoredKeys(ProviderOf[t])

\* A listing that shows such a tool as live shows its provider as configured,
\* although it reads tools and keys at two times.
ListedLiveIsConfigured ==
  \A r \in Readers : listing[r].pc = "done" =>
    \A t \in listing[r].published : listing[r].tools[t] = "live" =>
      Required[ProviderOf[t]] \subseteq listing[r].keys[ProviderOf[t]]

\* The inductive strengthening of these two: a session activates tools of its own
\* provider only, with keys that are stored already or that it is about to store,
\* and a listing that has read its tools will find their keys.
KeysBehindLive ==
  /\ \A s \in Sessions : store[s].pc \in {"read", "flushed"} =>
       Existing(s) \subseteq StoredKeys(store[s].provider)
  /\ \A s \in Sessions : store[s].pc = "flushed" =>
       \A t \in store[s].activates : IsComplete(s) /\ ProviderOf[t] = store[s].provider
  /\ \A r \in Readers : listing[r].pc = "second" =>
       \A t \in listing[r].published : listing[r].tools[t] = "live" =>
         Required[ProviderOf[t]] \subseteq StoredKeys(ProviderOf[t])

\* As long as nothing overlaps a store, a key has one row, even when a store whose
\* acknowledgement was lost is sent again.
KeysStoredOnce ==
  ~overlapped => \A p \in Providers, k \in Keys : Len(stored[p][k]) <= 1

\* Its strengthening: a session that is alone has found every row there is, and
\* every tool that waits for the keys it completes.
Waiting(p) == {t \in Tools : ProviderOf[t] = p /\ status[t] = "pending_credentials"}
AloneSeesAll ==
  ~overlapped =>
    /\ \A s, o \in Sessions : Active(s) /\ Active(o) => s = o
    /\ \A s \in Sessions, k \in Keys : store[s].pc \in {"read", "flushed"} =>
         store[s].existing[k] = Len(stored[store[s].provider][k])
    /\ \A s \in Sessions : store[s].pc = "flushed" /\ IsComplete(s) =>
         Waiting(store[s].provider) \subseteq store[s].activates

\* A store that completes its provider, be it with one of several keys, and that
\* nothing overlaps leaves no tool of the provider waiting.
SerialStoreActivates ==
  [][\A s \in Sessions, p \in Providers :
       /\ store[s].pc = "flushed" /\ store'[s].pc = "done" /\ store[s].provider = p
       /\ ~overlapped /\ Configured(p)'
       => Waiting(p)' = {}]_vars
=============================================================================

------------------------- MODULE CredentialsProofs -------------------------
(* What Credentials guarantees for every set of providers, keys, tools and *)
(* sessions.                                                               *)
EXTENDS Credentials, TLAPS

USE CredentialsAssumption

\* A fresh session record is one.
LEMMA NewStoreType ==
  ASSUME NEW p \in Providers, NEW v \in [Keys -> Values \cup {Blank}]
  PROVE  /\ NewStore(p, v) \in StoreType
         /\ NewStore(p, v).pc = "begun"
         /\ NewStore(p, v).provider = p
         /\ NewStore(p, v).values = v
  BY DEF NewStore, StoreType

LEMMA NoStoreType ==
  /\ NoStore \in StoreType /\ NoStore.pc = "idle"
  /\ \A answer \in {"idle", "done", "error", "rejected"} :
       /\ [NoStore EXCEPT !.pc = answer] \in StoreType
       /\ [NoStore EXCEPT !.pc = answer].pc = answer
<1>1. PICK p \in Providers : p = CHOOSE q \in Providers : TRUE
  OBVIOUS
<1>2. [k \in Keys |-> Blank] \in [Keys -> Values \cup {Blank}]
  OBVIOUS
<1>3. NewStore(p, [k \in Keys |-> Blank]) \in StoreType
  BY <1>2, NewStoreType
<1> QED
  BY <1>1, <1>3 DEF NoStore, StoreType

\* What a session and a listing become when they read.
LEMMA ReadRowType ==
  ASSUME NEW row \in StoreType, NEW e \in [Keys -> Nat],
         NEW found \in [Keys -> Values \cup {Blank}]
  PROVE  [row EXCEPT !.pc = "read", !.existing = e, !.read = found] \in StoreType
  BY DEF StoreType

LEMMA FlushedRowType ==
  ASSUME NEW row \in StoreType, NEW found \in SUBSET Tools
  PROVE  [row EXCEPT !.pc = "flushed", !.activates = found] \in StoreType
  BY DEF StoreType

LEMMA ListingRowType ==
  ASSUME NEW row \in ListingType, NEW point \in {"second", "done"},
         NEW t \in [Tools -> ToolStatus \cup {"absent"}], NEW u \in SUBSET Tools,
         NEW k \in [Providers -> SUBSET Keys]
  PROVE  [row EXCEPT !.pc = point, !.tools = t, !.published = u, !.keys = k]
           \in ListingType
  BY DEF ListingType

\* The columns a posted body leaves after sanitizing.
LEMMA SanitizedType ==
  ASSUME NEW p \in Providers, NEW posted \in [Keys -> Values \cup {Blank}]
  PROVE  [k \in Keys |-> IF k \in Required[p] THEN posted[k] ELSE Blank]
           \in [Keys -> Values \cup {Blank}]
  OBVIOUS

\* A request is taken up, or answered 400 at once.
LEMMA RequestEffect ==
  ASSUME NEW s \in Sessions, Request(s)
  PROVE  \/ /\ \E p \in Providers, v \in [Keys -> Values \cup {Blank}] :
                 store' = [store EXCEPT ![s] = NewStore(p, v)]
            /\ overlapped' = (overlapped \/ \E o \in Sessions : Active(o))
         \/ /\ store' = [store EXCEPT ![s] = [NoStore EXCEPT !.pc = "rejected"]]
            /\ overlapped' = (overlapped \/ FALSE)
<1> DEFINE sanitized(p, posted) ==
             [k \in Keys |-> IF k \in Required[p] THEN posted[k] ELSE Blank]
<1>1. PICK p \in Providers, posted \in [Keys -> Values \cup {Blank}] :
        LET accepted == \E k \in Keys : sanitized(p, posted)[k] # Blank
        IN  /\ store' = [store EXCEPT ![s] =
                           IF accepted THEN NewStore(p, sanitized(p, posted))
                           ELSE [NoStore EXCEPT !.pc = "rejected"]]
            /\ overlapped' =
                 (overlapped \/ (accepted /\ \E o \in Sessions : Active(o)))
  BY DEF Request
<1>2. sanitized(p, posted) \in [Keys -> Values \cup {Blank}]
  BY SanitizedType
<1> HIDE DEF sanitized
<1>3. CASE \E k \in Keys : sanitized(p, posted)[k] # Blank
  BY <1>1, <1>2, <1>3
<1>4. CASE ~ \E k \in Keys : sanitized(p, posted)[k] # Blank
  BY <1>1, <1>4
<1> QED
  BY <1>3, <1>4

\* A committed store neither invents values nor removes rows.
LEMMA RowsAfterType ==
  ASSUME TypeOK, NEW s \in Sessions, NEW k \in Keys
  PROVE  LET rows == stored[store[s].provider][k]
         IN  /\ RowsAfter(s, k) \in Seq(Values)
             /\ Len(RowsAfter(s, k)) >= Len(rows)
             /\ k \in Given(s) \ Existing(s) => Len(RowsAfter(s, k)) = Len(rows) + 1
             /\ k \notin Given(s) \ Existing(s) => Len(RowsAfter(s, k)) = Len(rows)
<1> DEFINE rows == stored[store[s].provider][k]
           value == store[s].values[k]
<1>1. /\ rows \in Seq(Values)
      /\ value \in Values \cup {Blank}
      /\ store[s].existing[k] \in Nat
  BY DEF TypeOK, StoreType
<1>2. k \in Given(s) => value \in Values
  BY <1>1 DEF Given
<1>3. CASE k \in Given(s) \ Existing(s)
  <2>1. RowsAfter(s, k) = Append(rows, value)
    BY <1>3 DEF RowsAfter
  <2>2. value \in Values
    BY <1>2, <1>3
  <2> HIDE DEF rows, value
  <2>3. /\ Append(rows, value) \in Seq(Values)
        /\ Len(Append(rows, value)) = Len(rows) + 1
        /\ Len(rows) \in Nat
    BY <1>1, <2>2
  <2>4. /\ RowsAfter(s, k) \in Seq(Values)
        /\ Len(RowsAfter(s, k)) >= Len(rows)
        /\ Len(RowsAfter(s, k)) = Len(rows) + 1
    BY <2>1, <2>3
  <2> USE DEF rows
  <2> QED
    BY <1>3, <2>4
<1>4. CASE k \notin Given(s) \ Existing(s) /\ Rewrites(s, k)
  <2>1. RowsAfter(s, k) = [rows EXCEPT ![store[s].existing[k]] = value]
    BY <1>4 DEF RowsAfter
  <2>2. value \in Values
    BY <1>2, <1>4 DEF Rewrites
  <2>3. /\ DOMAIN [rows EXCEPT ![store[s].existing[k]] = value] = 1..Len(rows)
        /\ \A i \in 1..Len(rows) :
             [rows EXCEPT ![store[s].existing[k]] = value][i] \in Values
    BY <1>1, <2>2
  <2>4. [rows EXCEPT ![store[s].existing[k]] = value] \in [1..Len(rows) -> Values]
    BY <2>3, <1>1
  <2>5. /\ [rows EXCEPT ![store[s].existing[k]] = value] \in Seq(Values)
        /\ Len([rows EXCEPT ![store[s].existing[k]] = value]) = Len(rows)
    BY <2>4, <2>3, <1>1
  <2> QED
    BY <2>1, <2>5, <1>1, <1>4
<1>5. CASE k \notin Given(s) \ Existing(s) /\ ~Rewrites(s, k)
  BY <1>1, <1>5 DEF RowsAfter
<1> QED
  BY <1>3, <1>4, <1>5

\* The seed and the removal script change the catalog, and make stores stale.
LEMMA RewriteEffect ==
  ASSUME TypeOK, NEW deleted \in SUBSET Tools, NEW inserted \in SUBSET Tools,
         Rewrite(deleted, inserted)
  PROVE  /\ status' \in [Tools -> ToolStatus \cup {"absent"}]
         /\ source' \in [Tools -> {"none", "seed", "pipeline"}]
         /\ store' \in [Sessions -> StoreType]
         /\ \A t \in Tools : source'[t] = "pipeline" =>
              status'[t] = status[t] /\ source[t] = "pipeline"
         /\ \A t \in Tools : status'[t] = "pending_credentials" => status[t] = status'[t]
         /\ \A s \in Sessions :
              \/ store'[s] = store[s]
              \/ /\ store[s].pc = "flushed" /\ store'[s].pc = "stale"
                 /\ store'[s].provider = store[s].provider
                 /\ store'[s].existing = store[s].existing
<1>1. /\ \A t \in Tools : status'[t] = IF t \in inserted THEN "live"
                                     ELSE IF t \in deleted THEN "absent" ELSE status[t]
      /\ \A t \in Tools : source'[t] = IF t \in inserted THEN "seed"
                                     ELSE IF t \in deleted THEN "none" ELSE source[t]
      /\ \A s \in Sessions : store'[s] =
           IF store[s].pc = "flushed" /\ store[s].activates \cap deleted # {}
           THEN [store[s] EXCEPT !.pc = "stale"] ELSE store[s]
  BY DEF Rewrite
<1>2. status' \in [Tools -> ToolStatus \cup {"absent"}]
  BY DEF Rewrite, TypeOK, ToolStatus
<1>3. source' \in [Tools -> {"none", "seed", "pipeline"}]
  BY DEF Rewrite, TypeOK
<1>4. ASSUME NEW s \in Sessions
      PROVE  [store[s] EXCEPT !.pc = "stale"] \in StoreType
  <2>1. store[s] \in StoreType
    BY DEF TypeOK
  <2> QED
    BY <2>1 DEF StoreType
<1>5. store' \in [Sessions -> StoreType]
  BY <1>1, <1>4 DEF Rewrite, TypeOK
<1>6. \A t \in Tools : source'[t] = "pipeline" =>
        status'[t] = status[t] /\ source[t] = "pipeline"
  BY <1>1
<1>7. \A t \in Tools : status'[t] = "pending_credentials" => status[t] = status'[t]
  BY <1>1
<1>8. \A s \in Sessions :
        \/ store'[s] = store[s]
        \/ /\ store[s].pc = "flushed" /\ store'[s].pc = "stale"
           /\ store'[s].provider = store[s].provider
           /\ store'[s].existing = store[s].existing
  BY <1>1 DEF TypeOK, StoreType
<1> QED
  BY <1>2, <1>3, <1>5, <1>6, <1>7, <1>8

\* What a seed or a removal does, in the words of RewriteEffect.
LEMMA RewriteSteps ==
  ASSUME TypeOK, SeedCommits \/ \E t \in Tools : RemoveTool(t)
  PROVE  /\ \E deleted, inserted \in SUBSET Tools : Rewrite(deleted, inserted)
         /\ UNCHANGED <<stored, listing, overlapped, stores>>
<1>1. CASE SeedCommits
  BY <1>1 DEF SeedCommits, TypeOK, bounds
<1>2. CASE \E t \in Tools : RemoveTool(t)
  BY <1>2 DEF RemoveTool, Writes
<1> QED
  BY <1>1, <1>2

\* Every variable keeps its type.
THEOREM TypeCorrect == Spec => []TypeOK
<1>1. Init => TypeOK
  <2> SUFFICES ASSUME Init PROVE TypeOK
    OBVIOUS
  <2>1. store \in [Sessions -> StoreType]
    BY NoStoreType DEF Init
  <2>2. stored \in [Providers -> [Keys -> Seq(Values)]]
    BY DEF Init
  <2>3. listing \in [Readers -> ListingType]
    BY DEF Init, NoListing, ListingType
  <2>4. /\ status \in [Tools -> ToolStatus \cup {"absent"}]
        /\ source \in [Tools -> {"none", "seed", "pipeline"}]
        /\ seed \in [pc: {"idle", "looked"}, missing: SUBSET Tools, retired: SUBSET Tools]
    BY DEF Init, NoSeed, ToolStatus
  <2> QED
    BY <2>1, <2>2, <2>3, <2>4 DEF Init, TypeOK
<1>2. TypeOK /\ [Next]_vars => TypeOK'
  <2> SUFFICES ASSUME TypeOK, [Next]_vars PROVE TypeOK'
    OBVIOUS
  <2>1. ASSUME NEW s \in Sessions, Request(s) PROVE TypeOK'
    <3>1. PICK new : /\ store' = [store EXCEPT ![s] = new]
                     /\ \/ new = [NoStore EXCEPT !.pc = "rejected"]
                        \/ \E p \in Providers, v \in [Keys -> Values \cup {Blank}] :
                             new = NewStore(p, v)
      BY <2>1, RequestEffect
    <3>2. new \in StoreType
      BY <3>1, NewStoreType, NoStoreType
    <3>3. store' \in [Sessions -> StoreType]
      BY <3>1, <3>2 DEF TypeOK
    <3>4. overlapped' \in BOOLEAN
      BY <2>1, RequestEffect DEF TypeOK
    <3>5. stores' \in Nat
      BY <2>1 DEF Request, TypeOK
    <3> QED
      BY <2>1, <3>3, <3>4, <3>5 DEF TypeOK, Request, catalog
  <2>2. ASSUME NEW s \in Sessions, FindExisting(s) PROVE TypeOK'
    <3> DEFINE rows == stored[store[s].provider]
    <3>1. rows \in [Keys -> Seq(Values)] /\ \A k \in Keys : Len(rows[k]) \in Nat
      BY DEF TypeOK, StoreType
    <3>2. PICK existing \in [Keys -> UNION {0..Len(rows[k]) : k \in Keys}] :
            /\ \A k \in Keys : existing[k] <= Len(rows[k])
            /\ store' = [store EXCEPT
                 ![s].pc = "read", ![s].existing = existing,
                 ![s].read = [k \in Keys |-> IF existing[k] = 0 THEN Blank
                                             ELSE rows[k][existing[k]]]]
      BY <2>2 DEF FindExisting
    <3> HIDE DEF rows
    <3>3. \A k \in Keys : existing[k] \in Nat
      <4> SUFFICES ASSUME NEW k \in Keys PROVE existing[k] \in Nat
        OBVIOUS
      <4>1. PICK l \in Keys : existing[k] \in 0..Len(rows[l])
        BY <3>2
      <4> QED
        BY <3>1, <4>1
    <3>4. existing \in [Keys -> Nat]
      BY <3>2, <3>3
    <3>5. \A k \in Keys : existing[k] # 0 => rows[k][existing[k]] \in Values
      BY <3>1, <3>2, <3>3
    <3> DEFINE found == [k \in Keys |-> IF existing[k] = 0 THEN Blank
                                        ELSE rows[k][existing[k]]]
    <3>6. found \in [Keys -> Values \cup {Blank}]
      BY <3>5
    <3> HIDE DEF found
    <3>7. store' = [store EXCEPT ![s].pc = "read", ![s].existing = existing,
                                 ![s].read = found]
      BY <3>2 DEF found
    <3>8. [store[s] EXCEPT !.pc = "read", !.existing = existing, !.read = found]
            \in StoreType
      BY <3>4, <3>6, ReadRowType DEF TypeOK
    <3>9. store' = [store EXCEPT ![s] =
                      [store[s] EXCEPT !.pc = "read", !.existing = existing, !.read = found]]
      BY <3>7 DEF TypeOK
    <3>10. store' \in [Sessions -> StoreType]
      BY <3>8, <3>9 DEF TypeOK
    <3> QED
      BY <2>2, <3>10 DEF TypeOK, FindExisting, catalog, bounds
  <2>3. ASSUME NEW s \in Sessions, FlushAndSelectTools(s) PROVE TypeOK'
    <3>1. PICK found \in SUBSET Tools :
            store' = [store EXCEPT ![s].pc = "flushed", ![s].activates = found]
      BY <2>3 DEF FlushAndSelectTools
    <3>2. [store[s] EXCEPT !.pc = "flushed", !.activates = found] \in StoreType
      BY FlushedRowType DEF TypeOK
    <3>3. store' = [store EXCEPT ![s] =
                      [store[s] EXCEPT !.pc = "flushed", !.activates = found]]
      BY <3>1 DEF TypeOK
    <3>4. store' \in [Sessions -> StoreType]
      BY <3>2, <3>3 DEF TypeOK
    <3> QED
      BY <2>3, <3>4 DEF TypeOK, FlushAndSelectTools, catalog, bounds
  <2>4. ASSUME NEW s \in Sessions, NEW answer \in {"done", "error"}, Commit(s, answer)
        PROVE  TypeOK'
    <3>1. store' \in [Sessions -> StoreType]
      BY <2>4, NoStoreType DEF Commit, End, TypeOK
    <3>2. \A k \in Keys : RowsAfter(s, k) \in Seq(Values)
      BY RowsAfterType
    <3>3. stored' \in [Providers -> [Keys -> Seq(Values)]]
      BY <2>4, <3>2 DEF Commit, TypeOK
    <3>4. status' \in [Tools -> ToolStatus \cup {"absent"}]
      BY <2>4 DEF Commit, TypeOK, ToolStatus
    <3> QED
      BY <2>4, <3>1, <3>3, <3>4 DEF Commit, TypeOK, bounds
  <2>5. ASSUME NEW s \in Sessions, Abort(s) PROVE TypeOK'
    <3>1. store' \in [Sessions -> StoreType]
      BY <2>5, NoStoreType DEF Abort, End, TypeOK
    <3> QED
      BY <2>5, <3>1 DEF Abort, TypeOK, catalog, bounds
  <2>6. ASSUME NEW r \in Readers, AskList(r) PROVE TypeOK'
    <3>1. [listing[r] EXCEPT !.pc = "first"] \in ListingType
      <4>1. listing[r] \in ListingType
        BY DEF TypeOK
      <4> QED
        BY <4>1 DEF ListingType
    <3>2. listing' \in [Readers -> ListingType]
      BY <2>6, <3>1 DEF AskList, TypeOK
    <3> QED
      BY <2>6, <3>2 DEF AskList, TypeOK, catalog, bounds
  <2>7. ASSUME NEW r \in Readers, Select(r) PROVE TypeOK'
    <3>1. /\ [p \in Providers |-> StoredKeys(p)] \in [Providers -> SUBSET Keys]
          /\ Published \in SUBSET Tools
      BY DEF StoredKeys, Published
    <3>2. PICK tools \in [Tools -> ToolStatus \cup {"absent"}], found \in SUBSET Tools,
               keys \in [Providers -> SUBSET Keys], point \in {"second", "done"} :
            listing' = [listing EXCEPT ![r].pc = point, ![r].tools = tools,
                                       ![r].published = found, ![r].keys = keys]
      BY <2>7, <3>1 DEF Select, TypeOK, ListingType
    <3> DEFINE new == [listing[r] EXCEPT !.pc = point, !.tools = tools,
                                         !.published = found, !.keys = keys]
    <3>3. listing[r] \in ListingType
      BY DEF TypeOK
    <3>4. new \in ListingType
      BY <3>3, ListingRowType
    <3>5. listing' = [listing EXCEPT ![r] = new]
      BY <3>2 DEF TypeOK
    <3> HIDE DEF new
    <3>6. listing' \in [Readers -> ListingType]
      BY <3>4, <3>5 DEF TypeOK
    <3> QED
      BY <2>7, <3>6 DEF Select, TypeOK, catalog, bounds
  <2>8. ASSUME NEW t \in Tools, PublishTool(t) PROVE TypeOK'
    <3>1. status' \in [Tools -> ToolStatus \cup {"absent"}]
      BY <2>8 DEF PublishTool, TypeOK
    <3>2. overlapped' \in BOOLEAN
      BY <2>8 DEF PublishTool, TypeOK
    <3>3. source' \in [Tools -> {"none", "seed", "pipeline"}]
      BY <2>8 DEF PublishTool, TypeOK
    <3> QED
      BY <2>8, <3>1, <3>2, <3>3 DEF PublishTool, Writes, TypeOK
  <2>9. CASE UNCHANGED vars
    BY <2>9 DEF vars, catalog, bounds, TypeOK
  <2>10. ASSUME SeedCommits \/ \E t \in Tools : RemoveTool(t) PROVE TypeOK'
    <3>1. /\ status' \in [Tools -> ToolStatus \cup {"absent"}]
          /\ source' \in [Tools -> {"none", "seed", "pipeline"}]
          /\ store' \in [Sessions -> StoreType]
          /\ UNCHANGED <<stored, listing, overlapped, stores>>
      BY <2>10, RewriteSteps, RewriteEffect
    <3>2. seed' \in [pc: {"idle", "looked"}, missing: SUBSET Tools, retired: SUBSET Tools]
      <4>1. NoSeed \in [pc: {"idle", "looked"}, missing: SUBSET Tools, retired: SUBSET Tools]
        BY DEF NoSeed
      <4>2. seed' = NoSeed \/ seed' = seed
        BY <2>10 DEF SeedCommits, RemoveTool
      <4> QED
        BY <4>1, <4>2 DEF TypeOK
    <3>3. writes' \in Nat
      <4>1. writes' = writes \/ writes' = writes + 1
        BY <2>10 DEF SeedCommits, RemoveTool, Writes, bounds
      <4> QED
        BY <4>1 DEF TypeOK
    <3> QED
      BY <3>1, <3>2, <3>3 DEF TypeOK
  <2>11. ASSUME SeedLooks PROVE TypeOK'
    <3>1. /\ {t \in SeedTools : status[t] = "absent"} \in SUBSET Tools
          /\ {t \in Retired : source[t] = "seed"} \in SUBSET Tools
      OBVIOUS
    <3> QED
      BY <2>11, <3>1 DEF SeedLooks, Writes, catalog, TypeOK
  <2>12. ASSUME SeedFails PROVE TypeOK'
    BY <2>12 DEF SeedFails, NoSeed, catalog, bounds, TypeOK
  <2> QED
    BY <2>1, <2>2, <2>3, <2>4, <2>5, <2>6, <2>7, <2>8, <2>9, <2>10, <2>11, <2>12 DEF Next
<1> QED
  BY <1>1, <1>2, PTL DEF Spec

-----------------------------------------------------------------------------
(* Live tools have their keys.                                             *)

\* A sequence of values is empty exactly when its length is zero.
LEMMA EmptyRows ==
  ASSUME NEW rows \in Seq(Values)
  PROVE  Len(rows) \in Nat /\ (rows # <<>> <=> Len(rows) > 0)
  OBVIOUS

\* A commit stores the keys it was given and removes none.
LEMMA CommitStores ==
  ASSUME TypeOK, KeysBehindLive, NEW s \in Sessions, NEW answer, Commit(s, answer),
         NEW q \in Providers, q = store[s].provider
  PROVE  /\ \A p \in Providers : StoredKeys(p) \subseteq StoredKeys(p)'
         /\ CombinedKeys(s) \subseteq StoredKeys(q)'
<1>1. /\ stored \in [Providers -> [Keys -> Seq(Values)]]
      /\ stored' = [stored EXCEPT ![q] = [k \in Keys |-> RowsAfter(s, k)]]
  BY DEF TypeOK, Commit
<1>2. \A k \in Keys : stored'[q][k] = RowsAfter(s, k)
  BY <1>1
<1>3. \A p \in Providers \ {q} : stored'[p] = stored[p]
  BY <1>1
<1>4. ASSUME NEW k \in Keys, stored[q][k] # <<>>
      PROVE  stored'[q][k] # <<>>
  <2>1. /\ RowsAfter(s, k) \in Seq(Values)
        /\ Len(RowsAfter(s, k)) >= Len(stored[q][k])
    BY RowsAfterType
  <2>2. Len(stored[q][k]) > 0 /\ Len(stored[q][k]) \in Nat
    BY <1>1, <1>4, EmptyRows
  <2> QED
    BY <1>2, <2>1, <2>2, EmptyRows
<1>5. ASSUME NEW k \in Given(s) \ Existing(s)
      PROVE  k \in Keys /\ stored'[q][k] # <<>>
  <2>1. k \in Keys
    BY DEF Given
  <2>2. /\ RowsAfter(s, k) \in Seq(Values)
        /\ Len(RowsAfter(s, k)) = Len(stored[q][k]) + 1
    BY <2>1, RowsAfterType
  <2>3. Len(stored[q][k]) \in Nat
    BY <1>1, <2>1, EmptyRows
  <2> QED
    BY <1>2, <2>1, <2>2, <2>3, EmptyRows
<1>6. Existing(s) \subseteq StoredKeys(q)
  BY DEF KeysBehindLive, Commit
<1>7. \A p \in Providers : StoredKeys(p) \subseteq StoredKeys(p)'
  BY <1>3, <1>4 DEF StoredKeys
<1>8. \A k \in Given(s) \ Existing(s) : k \in StoredKeys(q)'
  BY <1>5 DEF StoredKeys
<1> QED
  BY <1>1, <1>6, <1>7, <1>8 DEF CombinedKeys

\* No step removes a stored key.
LEMMA KeysGrow ==
  ASSUME TypeOK, KeysBehindLive, [Next]_vars
  PROVE  \A p \in Providers : StoredKeys(p) \subseteq StoredKeys(p)'
<1>1. CASE \E s \in Sessions, answer \in {"done", "error"} : Commit(s, answer)
  <2>1. PICK s \in Sessions, answer \in {"done", "error"} : Commit(s, answer)
    BY <1>1
  <2>2. store[s].provider \in Providers
    BY DEF TypeOK, StoreType
  <2> QED
    BY <2>1, <2>2, CommitStores
<1>2. CASE UNCHANGED stored
  BY <1>2 DEF StoredKeys
<1> QED
  BY <1>1, <1>2 DEF Next, vars, Request, FindExisting, FlushAndSelectTools, Abort,
                    AskList, Select, PublishTool, SeedLooks, SeedCommits, SeedFails,
                    RemoveTool

\* The inductive invariant.
IInv == KeysBehindLive /\ LiveHasKeys /\ ListedLiveIsConfigured

LEMMA InitKeys == Init => IInv
<1> SUFFICES ASSUME Init PROVE IInv
  OBVIOUS
<1>1. \A s \in Sessions : store[s].pc = "idle"
  BY NoStoreType DEF Init
<1>2. \A r \in Readers : listing[r].pc = "idle"
  BY DEF Init, NoListing
<1>3. Published = {}
  BY DEF Init, Published
<1> QED
  BY <1>1, <1>2, <1>3 DEF IInv, KeysBehindLive, LiveHasKeys, ListedLiveIsConfigured

\* What a store that neither reads nor flushes owes the invariant: nothing.
LEMMA StoreKeysNext ==
  ASSUME TypeOK, IInv, [Next]_vars
  PROVE  \A s \in Sessions :
           /\ store'[s].pc \in {"read", "flushed"} =>
                Existing(s)' \subseteq StoredKeys(store[s].provider)'
           /\ store'[s].pc = "flushed" =>
                \A t \in store'[s].activates :
                  IsComplete(s)' /\ ProviderOf[t] = store'[s].provider
<1> SUFFICES ASSUME NEW s \in Sessions
             PROVE  /\ store'[s].pc \in {"read", "flushed"} =>
                         Existing(s)' \subseteq StoredKeys(store[s].provider)'
                    /\ store'[s].pc = "flushed" =>
                         \A t \in store'[s].activates :
                           IsComplete(s)' /\ ProviderOf[t] = store'[s].provider
  OBVIOUS
<1>1. store[s] \in StoreType
  BY DEF TypeOK
<1>2. PICK q \in Providers : q = store[s].provider
  BY DEF TypeOK, StoreType
<1>a. StoredKeys(q) \subseteq StoredKeys(q)'
  BY KeysGrow DEF IInv
<1>b. store'[s].provider = q => StoredKeys(store[s].provider)' = StoredKeys(q)'
  BY DEF StoredKeys
<1>3. CASE store'[s] = store[s]
  BY <1>2, <1>a, <1>b, <1>3 DEF IInv, KeysBehindLive, Existing, IsComplete, CombinedKeys, Given
<1>4. CASE store'[s].pc \notin {"read", "flushed"}
  BY <1>4
<1>5. CASE FindExisting(s)
  <2> DEFINE rows == stored[store[s].provider]
  <2>1. PICK existing \in [Keys -> UNION {0..Len(rows[k]) : k \in Keys}] :
          /\ \A k \in Keys : existing[k] <= Len(rows[k])
          /\ \A k \in Keys : existing[k] = 0 => rows[k] = <<>>
          /\ store' = [store EXCEPT
               ![s].pc = "read", ![s].existing = existing,
               ![s].read = [k \in Keys |-> IF existing[k] = 0 THEN Blank
                                           ELSE rows[k][existing[k]]]]
    BY <1>5 DEF FindExisting
  <2>2. /\ store'[s].pc = "read"
        /\ store'[s].existing = existing
        /\ store'[s].provider = store[s].provider
    BY <2>1, <1>1 DEF TypeOK, StoreType
  <2>3. \A k \in Keys : rows[k] \in Seq(Values)
    BY <1>2 DEF TypeOK
  <2> HIDE DEF rows
  <2>4. ASSUME NEW k \in Keys, existing[k] # 0
        PROVE  rows[k] # <<>>
    <3>1. PICK l \in Keys : existing[k] \in 0..Len(rows[l])
      BY <2>1
    <3>2. Len(rows[l]) \in Nat /\ Len(rows[k]) \in Nat
      BY <2>3, EmptyRows
    <3>3. existing[k] <= Len(rows[k])
      BY <2>1
    <3> QED
      BY <2>3, <2>4, <3>1, <3>2, <3>3, EmptyRows
  <2>5. Existing(s)' \subseteq StoredKeys(store[s].provider)
    BY <2>2, <2>4 DEF Existing, StoredKeys, rows
  <2> QED
    BY <1>2, <1>a, <1>b, <2>2, <2>5
<1>6. CASE FlushAndSelectTools(s)
  <2> DEFINE found == {t \in Tools : /\ ProviderOf[t] = store[s].provider
                                     /\ status[t] = "pending_credentials"
                                     /\ IsComplete(s)}
  <2>1. store' = [store EXCEPT ![s].pc = "flushed", ![s].activates = found]
    BY <1>6 DEF FlushAndSelectTools
  <2> HIDE DEF found
  <2>2. /\ store'[s].provider = store[s].provider
        /\ store'[s].existing = store[s].existing
        /\ store'[s].values = store[s].values
        /\ store'[s].activates = found
    BY <2>1, <1>1 DEF TypeOK, StoreType
  <2>3. Existing(s)' = Existing(s) /\ (IsComplete(s)' <=> IsComplete(s))
    BY <2>2 DEF Existing, IsComplete, CombinedKeys, Given
  <2>4. Existing(s) \subseteq StoredKeys(store[s].provider)
    BY <1>6 DEF IInv, KeysBehindLive, FlushAndSelectTools
  <2>5. \A t \in found : IsComplete(s) /\ ProviderOf[t] = store[s].provider
    BY DEF found
  <2> QED
    BY <1>2, <1>a, <1>b, <2>2, <2>3, <2>4, <2>5
<1>7. ASSUME NEW o \in Sessions, Request(o)
      PROVE  store'[s] = store[s] \/ store'[s].pc \notin {"read", "flushed"}
  <2>1. PICK new : /\ store' = [store EXCEPT ![o] = new]
                   /\ \/ new = [NoStore EXCEPT !.pc = "rejected"]
                      \/ \E p \in Providers, v \in [Keys -> Values \cup {Blank}] :
                           new = NewStore(p, v)
    BY <1>7, RequestEffect
  <2>2. [NoStore EXCEPT !.pc = "rejected"].pc = "rejected"
    BY NoStoreType
  <2>3. \A p \in Providers, v \in [Keys -> Values \cup {Blank}] :
          NewStore(p, v).pc = "begun"
    BY NewStoreType
  <2>4. new.pc \in {"begun", "rejected"}
    BY <2>1, <2>2, <2>3
  <2> QED
    BY <2>1, <2>4 DEF TypeOK
<1>8. ASSUME NEW o \in Sessions, NEW answer \in {"done", "error"}, End(o, answer)
      PROVE  store'[s] = store[s] \/ store'[s].pc \notin {"read", "flushed"}
  BY <1>8, NoStoreType DEF End, TypeOK
<1>9. ASSUME NEW o \in Sessions \ {s}, FindExisting(o) \/ FlushAndSelectTools(o)
      PROVE  store'[s] = store[s]
  BY <1>9 DEF FindExisting, FlushAndSelectTools, TypeOK
<1>10. CASE UNCHANGED store
  BY <1>3, <1>10
<1>11. ASSUME SeedCommits \/ \E t \in Tools : RemoveTool(t)
       PROVE  store'[s] = store[s] \/ store'[s].pc \notin {"read", "flushed"}
  BY <1>11, RewriteSteps, RewriteEffect
<1> QED
  BY <1>3, <1>4, <1>5, <1>6, <1>7, <1>8, <1>9, <1>10, <1>11
     DEF Next, vars, Commit, Abort, AskList, Select, PublishTool, SeedLooks, SeedFails

\* A published tool turns live only with the commit of a store, or was published so.
LEMMA LiveNext ==
  ASSUME TypeOK, IInv, [Next]_vars
  PROVE  LiveHasKeys'
<1> SUFFICES ASSUME NEW t \in Tools \ BornLive,
                    source'[t] = "pipeline", status'[t] = "live"
             PROVE  Required[ProviderOf[t]] \subseteq StoredKeys(ProviderOf[t])'
  BY DEF LiveHasKeys, Published
<1>1. ProviderOf[t] \in Providers
  OBVIOUS
<1>2. CASE status[t] = "live" /\ source[t] = "pipeline"
  BY <1>1, <1>2, KeysGrow DEF IInv, LiveHasKeys, Published
<1>3. ASSUME NEW s \in Sessions, NEW answer \in {"done", "error"}, Commit(s, answer),
             status[t] # "live"
      PROVE  Required[ProviderOf[t]] \subseteq StoredKeys(ProviderOf[t])'
  <2>1. t \in store[s].activates
    BY <1>3 DEF Commit
  <2>2. IsComplete(s) /\ ProviderOf[t] = store[s].provider
    BY <1>3, <2>1 DEF IInv, KeysBehindLive, Commit
  <2> QED
    BY <1>1, <1>3, <2>2, CommitStores DEF IInv, IsComplete
<1>4. ASSUME NEW u \in Tools, PublishTool(u)
      PROVE  status[t] = "live" /\ source[t] = "pipeline"
  BY <1>4 DEF PublishTool, TypeOK
<1>5. ASSUME SeedCommits \/ \E u \in Tools : RemoveTool(u)
      PROVE  status[t] = "live" /\ source[t] = "pipeline"
  BY <1>5, RewriteSteps, RewriteEffect
<1>6. ASSUME NEW s \in Sessions, NEW answer \in {"done", "error"}, Commit(s, answer)
      PROVE  source[t] = "pipeline"
  BY <1>6 DEF Commit
<1> QED
  BY <1>2, <1>3, <1>4, <1>5, <1>6
     DEF Next, vars, catalog, Request, FindExisting, FlushAndSelectTools, Abort, AskList,
         Select, SeedLooks, SeedFails

\* A listing reads its tools before its keys, and keys are only added.
LEMMA ListingNext ==
  ASSUME TypeOK, IInv, [Next]_vars, NEW r \in Readers,
         NEW t \in Tools, t \in listing'[r].published, listing'[r].tools[t] = "live"
  PROVE  /\ listing'[r].pc = "second" =>
              Required[ProviderOf[t]] \subseteq StoredKeys(ProviderOf[t])'
         /\ listing'[r].pc = "done" =>
              Required[ProviderOf[t]] \subseteq listing'[r].keys[ProviderOf[t]]
<1>1. ProviderOf[t] \in Providers
  OBVIOUS
<1>2. StoredKeys(ProviderOf[t]) \subseteq StoredKeys(ProviderOf[t])'
  BY <1>1, KeysGrow DEF IInv
<1>3. CASE listing'[r] = listing[r]
  BY <1>2, <1>3 DEF IInv, KeysBehindLive, ListedLiveIsConfigured
<1>4. CASE listing'[r].pc \notin {"second", "done"}
  BY <1>4
<1>5. CASE Select(r)
  <2>1. listing[r] \in ListingType
    BY DEF TypeOK
  <2>2. CASE listing[r].pc = "first"
    <3>1. /\ listing'[r].pc = "second" /\ listing'[r].tools = status
          /\ listing'[r].published = Published
      BY <1>5, <2>1, <2>2 DEF Select, SelectOrder, TypeOK, ListingType
    <3> QED
      BY <1>2, <3>1 DEF IInv, LiveHasKeys
  <2>3. CASE listing[r].pc = "second"
    <3>1. /\ listing'[r].pc = "done"
          /\ listing'[r].tools = listing[r].tools
          /\ listing'[r].published = listing[r].published
          /\ listing'[r].keys = [p \in Providers |-> StoredKeys(p)]
      BY <1>5, <2>1, <2>3 DEF Select, SelectOrder, TypeOK, ListingType
    <3>2. Required[ProviderOf[t]] \subseteq StoredKeys(ProviderOf[t])
      BY <2>3, <3>1 DEF IInv, KeysBehindLive
    <3> QED
      BY <1>1, <3>1, <3>2
  <2> QED
    BY <1>5, <2>2, <2>3 DEF Select
<1>6. ASSUME NEW o \in Readers \ {r}, Select(o) \/ AskList(o)
      PROVE  listing'[r] = listing[r]
  BY <1>6 DEF Select, AskList, TypeOK
<1>7. CASE AskList(r)
  BY <1>4, <1>7 DEF AskList, TypeOK
<1>8. CASE UNCHANGED listing
  BY <1>3, <1>8
<1> QED
  BY <1>3, <1>5, <1>6, <1>7, <1>8
     DEF Next, vars, Request, FindExisting, FlushAndSelectTools, Commit, Abort, PublishTool,
         SeedLooks, SeedCommits, SeedFails, RemoveTool

LEMMA KeysInductive == Spec => []IInv
<1>1. TypeOK /\ TypeOK' /\ IInv /\ [Next]_vars => IInv'
  <2> SUFFICES ASSUME TypeOK, TypeOK', IInv, [Next]_vars PROVE IInv'
    OBVIOUS
  <2>0. \A r \in Readers : listing'[r].published \subseteq Tools
    BY DEF TypeOK, ListingType
  <2>1. KeysBehindLive'
    BY <2>0, StoreKeysNext, ListingNext DEF KeysBehindLive
  <2>2. LiveHasKeys'
    BY LiveNext
  <2>3. ListedLiveIsConfigured'
    BY <2>0, ListingNext DEF ListedLiveIsConfigured
  <2> QED
    BY <2>1, <2>2, <2>3 DEF IInv
<1> QED
  BY <1>1, InitKeys, TypeCorrect, PTL DEF Spec

\* A tool that was published with an API that asks for credentials is live only when
\* they are stored.
THEOREM LiveHasKeysAlways == Spec => []LiveHasKeys
  BY KeysInductive, PTL DEF IInv

\* No listing shows such a tool live under a provider that is not configured.
THEOREM ListedLiveAlwaysConfigured == Spec => []ListedLiveIsConfigured
  BY KeysInductive, PTL DEF IInv

-----------------------------------------------------------------------------
(* What a store does that nothing overlaps.                                *)

AloneInv == AloneSeesAll /\ KeysStoredOnce

LEMMA InitAlone == Init => AloneInv
<1> SUFFICES ASSUME Init PROVE AloneInv
  OBVIOUS
<1>1. \A s \in Sessions : store[s].pc = "idle"
  BY NoStoreType DEF Init
<1>2. \A p \in Providers, k \in Keys : Len(stored[p][k]) <= 1
  BY DEF Init
<1> QED
  BY <1>1, <1>2 DEF AloneInv, AloneSeesAll, KeysStoredOnce, Active

\* The steps of a store leave the other sessions as they are.
LEMMA OthersKeep ==
  ASSUME TypeOK, NEW s \in Sessions,
         \/ Request(s) \/ FindExisting(s) \/ FlushAndSelectTools(s)
         \/ \E answer \in {"done", "error"} : End(s, answer)
  PROVE  \A o \in Sessions \ {s} : store'[o] = store[o]
<1>1. CASE Request(s)
  BY <1>1, RequestEffect DEF TypeOK
<1>2. CASE FindExisting(s)
  BY <1>2 DEF TypeOK, FindExisting
<1>3. CASE FlushAndSelectTools(s)
  BY <1>3 DEF TypeOK, FlushAndSelectTools
<1>4. CASE \E answer \in {"done", "error"} : End(s, answer)
  BY <1>4 DEF TypeOK, End
<1> QED
  BY <1>1, <1>2, <1>3, <1>4

LEMMA EndsInactive ==
  ASSUME TypeOK, NEW s \in Sessions, NEW answer \in {"done", "error"}, End(s, answer)
  PROVE  store'[s].pc = answer
  BY NoStoreType DEF TypeOK, End

\* With one row of a key at most, the row found is the number of rows.
LEMMA FoundIsLength ==
  ASSUME TypeOK, NEW s \in Sessions, FindExisting(s), KeysStoredOnce, ~overlapped
  PROVE  /\ store'[s].pc = "read"
         /\ store'[s].provider = store[s].provider
         /\ \A k \in Keys : store'[s].existing[k] = Len(stored[store[s].provider][k])
<1> DEFINE rows == stored[store[s].provider]
<1>1. /\ \A k \in Keys : rows[k] \in Seq(Values)
      /\ \A k \in Keys : Len(rows[k]) <= 1
  BY DEF TypeOK, StoreType, KeysStoredOnce
<1>2. PICK existing \in [Keys -> UNION {0..Len(rows[k]) : k \in Keys}] :
        /\ \A k \in Keys : existing[k] <= Len(rows[k])
        /\ \A k \in Keys : existing[k] = 0 => rows[k] = <<>>
        /\ store' = [store EXCEPT
             ![s].pc = "read", ![s].existing = existing,
             ![s].read = [k \in Keys |-> IF existing[k] = 0 THEN Blank
                                         ELSE rows[k][existing[k]]]]
  BY DEF FindExisting
<1>3. /\ store'[s].pc = "read"
      /\ store'[s].existing = existing
      /\ store'[s].provider = store[s].provider
  BY <1>2 DEF TypeOK, StoreType
<1> HIDE DEF rows
<1>4. ASSUME NEW k \in Keys PROVE existing[k] = Len(rows[k])
  <2>1. PICK l \in Keys : existing[k] \in 0..Len(rows[l])
    BY <1>2
  <2>2. /\ Len(rows[k]) \in Nat /\ Len(rows[l]) \in Nat
        /\ rows[k] # <<>> <=> Len(rows[k]) > 0
    BY <1>1, EmptyRows
  <2>3. existing[k] <= Len(rows[k]) /\ (existing[k] = 0 => rows[k] = <<>>)
    BY <1>2
  <2> QED
    BY <1>1, <2>1, <2>2, <2>3
<1> QED
  BY <1>3, <1>4 DEF rows

\* While nothing overlaps, a commit leaves one row of each key.
LEMMA CommitOnce ==
  ASSUME TypeOK, AloneInv, ~overlapped, NEW s \in Sessions, NEW answer, Commit(s, answer)
  PROVE  \A p \in Providers, k \in Keys : Len(stored'[p][k]) <= 1
<1> SUFFICES ASSUME NEW p \in Providers, NEW k \in Keys PROVE Len(stored'[p][k]) <= 1
  OBVIOUS
<1> DEFINE q == store[s].provider
<1>1. /\ q \in Providers
      /\ stored \in [Providers -> [Keys -> Seq(Values)]]
      /\ stored' = [stored EXCEPT ![q] = [l \in Keys |-> RowsAfter(s, l)]]
  BY DEF TypeOK, StoreType, Commit
<1>2. Len(stored[p][k]) <= 1 /\ Len(stored[p][k]) \in Nat
  BY <1>1, EmptyRows DEF AloneInv, KeysStoredOnce
<1>3. CASE p # q
  BY <1>1, <1>2, <1>3
<1>4. CASE p = q
  <2>1. stored'[p][k] = RowsAfter(s, k)
    BY <1>1, <1>4
  <2>2. store[s].existing[k] = Len(stored[q][k])
    BY DEF AloneInv, AloneSeesAll, Commit
  <2>3. /\ k \in Given(s) \ Existing(s) => Len(RowsAfter(s, k)) = Len(stored[q][k]) + 1
        /\ k \notin Given(s) \ Existing(s) => Len(RowsAfter(s, k)) = Len(stored[q][k])
    BY RowsAfterType
  <2>4. k \in Given(s) \ Existing(s) => Len(stored[q][k]) = 0
    BY <2>2 DEF Existing
  <2> QED
    BY <1>2, <1>4, <2>1, <2>3, <2>4
<1> QED
  BY <1>3, <1>4

LEMMA AloneNext ==
  ASSUME TypeOK, AloneInv, [Next]_vars
  PROVE  AloneInv'
<1>1. CASE overlapped'
  BY <1>1 DEF AloneInv, AloneSeesAll, KeysStoredOnce
<1>2. CASE ~overlapped'
  <2>1. ~overlapped
    <3>1. \A s \in Sessions : Request(s) => (overlapped => overlapped')
      BY RequestEffect
    <3> QED
      BY <1>2, <3>1 DEF Next, vars, FindExisting, FlushAndSelectTools, Commit, Abort,
                        AskList, Select, PublishTool, SeedLooks, SeedCommits, SeedFails,
                        RemoveTool, bounds
  <2>2. /\ \A s, o \in Sessions : Active(s) /\ Active(o) => s = o
        /\ \A s \in Sessions, k \in Keys : store[s].pc \in {"read", "flushed"} =>
             store[s].existing[k] = Len(stored[store[s].provider][k])
        /\ \A s \in Sessions : store[s].pc = "flushed" /\ IsComplete(s) =>
             Waiting(store[s].provider) \subseteq store[s].activates
        /\ \A p \in Providers, k \in Keys : Len(stored[p][k]) <= 1
    BY <2>1 DEF AloneInv, AloneSeesAll, KeysStoredOnce
  <2>3. ASSUME NEW s \in Sessions, Request(s) PROVE AloneInv'
    <3>1. \A o \in Sessions \ {s} : store'[o] = store[o]
      BY <2>3, OthersKeep
    <3>2. stored' = stored /\ status' = status
      BY <2>3 DEF Request, catalog
    <3>3. CASE store'[s].pc = "rejected"
      BY <2>2, <3>1, <3>2, <3>3
         DEF AloneInv, AloneSeesAll, KeysStoredOnce, Active, Waiting, IsComplete,
             CombinedKeys, Given, Existing
    <3>4. CASE store'[s].pc = "begun" /\ \A o \in Sessions : ~Active(o)
      <4>1. \A o \in Sessions \ {s} : store'[o].pc \notin {"begun", "read", "flushed", "stale"}
        BY <3>1, <3>4 DEF Active
      <4> QED
        BY <2>2, <3>2, <3>4, <4>1 DEF AloneInv, AloneSeesAll, KeysStoredOnce, Active
    <3>5. [NoStore EXCEPT !.pc = "rejected"].pc = "rejected"
      BY NoStoreType
    <3>6. \A p \in Providers, v \in [Keys -> Values \cup {Blank}] :
            NewStore(p, v).pc = "begun"
      BY NewStoreType
    <3>7. \/ store'[s].pc = "rejected"
          \/ /\ store'[s].pc = "begun"
             /\ overlapped' = (overlapped \/ \E o \in Sessions : Active(o))
      <4>1. CASE store' = [store EXCEPT ![s] = [NoStore EXCEPT !.pc = "rejected"]]
        BY <3>5, <4>1 DEF TypeOK
      <4>2. CASE /\ \E p \in Providers, v \in [Keys -> Values \cup {Blank}] :
                      store' = [store EXCEPT ![s] = NewStore(p, v)]
                 /\ overlapped' = (overlapped \/ \E o \in Sessions : Active(o))
        <5>1. store'[s].pc = "begun"
          BY <3>6, <4>2 DEF TypeOK
        <5> QED
          BY <4>2, <5>1
      <4> QED
        BY <2>3, <4>1, <4>2, RequestEffect
    <3> QED
      BY <1>2, <3>3, <3>4, <3>7
  <2>4. ASSUME NEW s \in Sessions, FindExisting(s) PROVE AloneInv'
    <3>1. \A o \in Sessions \ {s} : store'[o] = store[o]
      BY <2>4, OthersKeep
    <3>2. stored' = stored /\ store[s].pc = "begun"
      BY <2>4 DEF FindExisting
    <3>3. /\ store'[s].pc = "read"
          /\ store'[s].provider = store[s].provider
          /\ \A k \in Keys : store'[s].existing[k] = Len(stored[store[s].provider][k])
      BY <2>1, <2>4, FoundIsLength DEF AloneInv
    <3>4. \A o \in Sessions \ {s} : store'[o].pc \notin {"begun", "read", "flushed", "stale"}
      BY <2>2, <3>1, <3>2 DEF Active
    <3> QED
      BY <2>2, <3>2, <3>3, <3>4 DEF AloneInv, AloneSeesAll, KeysStoredOnce, Active
  <2>5. ASSUME NEW s \in Sessions, FlushAndSelectTools(s) PROVE AloneInv'
    <3>1. \A o \in Sessions \ {s} : store'[o] = store[o]
      BY <2>5, OthersKeep
    <3>2. stored' = stored /\ status' = status /\ store[s].pc = "read"
      BY <2>5 DEF FlushAndSelectTools, catalog
    <3> DEFINE found == {t \in Tools : /\ ProviderOf[t] = store[s].provider
                                       /\ status[t] = "pending_credentials"
                                       /\ IsComplete(s)}
    <3>3. store' = [store EXCEPT ![s].pc = "flushed", ![s].activates = found]
      BY <2>5 DEF FlushAndSelectTools
    <3>4. IsComplete(s) => Waiting(store[s].provider) \subseteq found
      BY DEF Waiting
    <3> HIDE DEF found
    <3>5. /\ store'[s].pc = "flushed"
          /\ store'[s].provider = store[s].provider
          /\ store'[s].existing = store[s].existing
          /\ store'[s].values = store[s].values
          /\ store'[s].activates = found
      BY <3>3 DEF TypeOK, StoreType
    <3>6. \A o \in Sessions \ {s} : store'[o].pc \notin {"begun", "read", "flushed", "stale"}
      BY <2>2, <3>1, <3>2 DEF Active
    <3>7. IsComplete(s)' => Waiting(store[s].provider)' \subseteq store'[s].activates
      BY <3>2, <3>4, <3>5 DEF IsComplete, CombinedKeys, Given, Existing, Waiting
    <3>8. \A k \in Keys : store'[s].existing[k] = Len(stored'[store'[s].provider][k])
      BY <2>2, <3>2, <3>5
    <3> QED
      BY <2>2, <3>2, <3>5, <3>6, <3>7, <3>8
         DEF AloneInv, AloneSeesAll, KeysStoredOnce, Active
  <2>6. ASSUME NEW s \in Sessions, NEW answer \in {"done", "error"}, End(s, answer),
               Active(s), \A p \in Providers, k \in Keys : Len(stored'[p][k]) <= 1
        PROVE  AloneInv'
    <3>1. \A o \in Sessions : store'[o].pc \notin {"begun", "read", "flushed", "stale"}
      BY <2>2, <2>6, OthersKeep, EndsInactive DEF Active
    <3> QED
      BY <2>6, <3>1 DEF AloneInv, AloneSeesAll, KeysStoredOnce, Active
  <2>7. ASSUME NEW s \in Sessions, NEW answer \in {"done", "error"}, Commit(s, answer)
        PROVE  AloneInv'
    BY <2>1, <2>6, <2>7, CommitOnce DEF Commit, Active
  <2>8. ASSUME NEW s \in Sessions, Abort(s) PROVE AloneInv'
    BY <2>2, <2>6, <2>8 DEF Abort
  <2>9. ASSUME NEW t \in Tools, PublishTool(t) PROVE AloneInv'
    <3>1. \A s \in Sessions : ~Active(s)
      BY <1>2, <2>9 DEF PublishTool
    <3> QED
      BY <2>2, <2>9, <3>1 DEF PublishTool, AloneInv, AloneSeesAll, KeysStoredOnce, Active
  <2>10. CASE UNCHANGED <<stored, status, store>>
    BY <2>2, <2>10 DEF AloneInv, AloneSeesAll, KeysStoredOnce, Active, Waiting, IsComplete,
                       CombinedKeys, Given, Existing
  <2>11. ASSUME SeedCommits \/ \E t \in Tools : RemoveTool(t) PROVE AloneInv'
    <3>1. /\ stored' = stored
          /\ \A t \in Tools : status'[t] = "pending_credentials" => status[t] = status'[t]
          /\ \A s \in Sessions :
               \/ store'[s] = store[s]
               \/ store[s].pc = "flushed" /\ store'[s].pc = "stale"
      BY <2>11, RewriteSteps, RewriteEffect
    <3>2. \A s, o \in Sessions : Active(s)' /\ Active(o)' => s = o
      BY <2>2, <3>1 DEF Active
    <3>3. \A s \in Sessions : store'[s].pc \in {"read", "flushed"} => store'[s] = store[s]
      BY <3>1
    <3>4. \A s \in Sessions, k \in Keys : store'[s].pc \in {"read", "flushed"} =>
            store'[s].existing[k] = Len(stored'[store'[s].provider][k])
      BY <2>2, <3>1, <3>3
    <3>5. ASSUME NEW s \in Sessions, store'[s].pc = "flushed", IsComplete(s)'
          PROVE  Waiting(store[s].provider)' \subseteq store'[s].activates
      <4>1. store'[s] = store[s]
        BY <3>3, <3>5
      <4>2. IsComplete(s)
        BY <3>5, <4>1 DEF IsComplete, CombinedKeys, Given, Existing
      <4>3. Waiting(store[s].provider)' \subseteq Waiting(store[s].provider)
        BY <3>1, <4>1 DEF Waiting
      <4> QED
        BY <2>2, <3>5, <4>1, <4>2, <4>3
    <3>6. \A p \in Providers, k \in Keys : Len(stored'[p][k]) <= 1
      BY <2>2, <3>1
    <3> QED
      BY <3>2, <3>4, <3>5, <3>6 DEF AloneInv, AloneSeesAll, KeysStoredOnce
  <2> QED
    BY <2>3, <2>4, <2>5, <2>7, <2>8, <2>9, <2>10, <2>11
       DEF Next, vars, catalog, AskList, Select, SeedLooks, SeedFails
<1> QED
  BY <1>1, <1>2

LEMMA AloneInductive == Spec => []AloneInv
  BY InitAlone, AloneNext, TypeCorrect, PTL DEF Spec

\* Stores that never overlap keep one row of each key.
THEOREM KeysStoredOnceAlways == Spec => []KeysStoredOnce
  BY AloneInductive, PTL DEF AloneInv

\* Such a store, when it completes its provider, leaves none of its tools waiting.
THEOREM SerialStoresActivate == Spec => SerialStoreActivates
<1> DEFINE Activates ==
  \A s \in Sessions, p \in Providers :
    /\ store[s].pc = "flushed" /\ store'[s].pc = "done" /\ store[s].provider = p
    /\ ~overlapped /\ Configured(p)'
    => Waiting(p)' = {}
<1>1. TypeOK /\ AloneInv /\ [Next]_vars => Activates
  <2> SUFFICES ASSUME TypeOK, AloneInv, [Next]_vars,
                      NEW s \in Sessions, NEW p \in Providers,
                      store[s].pc = "flushed", store'[s].pc = "done",
                      store[s].provider = p, ~overlapped, Configured(p)'
               PROVE  Waiting(p)' = {}
    OBVIOUS
  <2>1. Commit(s, "done")
    <3>1. ASSUME NEW o \in Sessions \ {s},
                 \/ Request(o) \/ FindExisting(o) \/ FlushAndSelectTools(o)
                 \/ \E answer \in {"done", "error"} : End(o, answer)
          PROVE  FALSE
      BY <3>1, OthersKeep
    <3>2. ~Request(s) /\ ~FindExisting(s) /\ ~FlushAndSelectTools(s)
      BY DEF Request, FindExisting, FlushAndSelectTools, Active
    <3>3. ~End(s, "error")
      BY EndsInactive
    <3>4. store' # store
      OBVIOUS
    <3>5. PICK o \in Sessions :
            \/ Request(o) \/ FindExisting(o) \/ FlushAndSelectTools(o)
            \/ \E answer \in {"done", "error"} : Commit(o, answer)
            \/ Abort(o)
      <4>1. ~ (SeedCommits \/ \E t \in Tools : RemoveTool(t))
        BY RewriteSteps, RewriteEffect
      <4> QED
        BY <3>4, <4>1 DEF Next, vars, AskList, Select, PublishTool, SeedLooks, SeedFails
    <3>6. o = s
      BY <3>1, <3>5 DEF Commit, Abort
    <3> QED
      BY <3>2, <3>3, <3>5, <3>6 DEF Commit, Abort
  <2>2. /\ stored \in [Providers -> [Keys -> Seq(Values)]]
        /\ stored' = [stored EXCEPT ![p] = [l \in Keys |-> RowsAfter(s, l)]]
    BY <2>1 DEF TypeOK, Commit
  <2>3. ASSUME NEW k \in Keys, stored'[p][k] # <<>>
        PROVE  k \in CombinedKeys(s)
    <3>1. store[s].existing[k] = Len(stored[p][k])
      BY <2>1 DEF AloneInv, AloneSeesAll, Commit
    <3>2. CASE k \notin Given(s) \ Existing(s)
      <4>1. /\ RowsAfter(s, k) \in Seq(Values)
            /\ Len(RowsAfter(s, k)) = Len(stored[p][k])
        BY <3>2, RowsAfterType
      <4>2. Len(stored[p][k]) # 0
        BY <2>2, <2>3, <4>1, EmptyRows
      <4> QED
        BY <3>1, <4>2 DEF Existing, CombinedKeys
    <3> QED
      BY <3>2 DEF CombinedKeys
  <2>4. IsComplete(s)
    BY <2>3 DEF Configured, StoredKeys, IsComplete
  <2>5. Waiting(p) \subseteq store[s].activates
    BY <2>1, <2>4 DEF AloneInv, AloneSeesAll, Commit
  <2> QED
    BY <2>1, <2>5 DEF Commit, Waiting
<1>2. Spec => [][Activates]_vars
  BY <1>1, TypeCorrect, AloneInductive, PTL DEF Spec
<1> QED
  BY <1>2 DEF SerialStoreActivates
=============================================================================

--------------------------- MODULE BootstrapProofs ---------------------------
(***************************************************************************)
(* What holds for any number of replicas and scripts, any database and any *)
(* set of seed tools: the types of Bootstrap, that no replica serves over  *)
(* an unseeded database, that seeding keeps the rows that are there, and   *)
(* that seeders do not all fail of one another.                            *)
(***************************************************************************)
EXTENDS Bootstrap, SequenceTheorems, TLAPS

USE BootstrapAssumption

-----------------------------------------------------------------------------
(* What a seeder has still to look at: every key once.                     *)

Has(seq, k) == \E i \in 1..Len(seq) : seq[i] = k
Distinct(seq) == \A i, j \in 1..Len(seq) : seq[i] = seq[j] => i = j

LEMMA SeedOrderComplete ==
  ASSUME NEW s \in Seeders
  PROVE  /\ SeedOrder(s) \in Seq(Keys) /\ Distinct(SeedOrder(s))
         /\ \A k \in Keys : Has(SeedOrder(s), k)
<1> DEFINE order == IF s \in Replicas THEN AppOrder ELSE ScriptOrder
<1>1. /\ order \in Seq(SeedTools) /\ SeedTools = {order[i] : i \in DOMAIN order}
      /\ IsInjective(order)
  OBVIOUS
<1>2. SeedOrder(s) = <<User, Legacy>> \o order
  BY DEF SeedOrder
<1> HIDE DEF order
<1>3. Len(order) \in Nat /\ DOMAIN order = 1..Len(order) /\ order \in Seq(Keys)
  BY <1>1 DEF Keys
<1>4. /\ SeedOrder(s) \in Seq(Keys) /\ Len(SeedOrder(s)) = Len(order) + 2
      /\ SeedOrder(s)[1] = User /\ SeedOrder(s)[2] = Legacy
      /\ \A i \in 1..Len(order) : SeedOrder(s)[i + 2] = order[i]
  BY <1>2, <1>3 DEF Keys
<1>5. \A i \in 1..(Len(order) + 2) :
        i = 1 \/ i = 2 \/ (i - 2 \in 1..Len(order) /\ SeedOrder(s)[i] = order[i - 2])
  <2> TAKE i \in 1..(Len(order) + 2)
  <2>1. i = 1 \/ i = 2 \/ (i - 2 \in 1..Len(order) /\ (i - 2) + 2 = i)
    BY <1>3
  <2> QED
    BY <1>4, <2>1
<1>6. \A i \in 1..Len(order) : order[i] \in SeedTools
  BY <1>1, <1>3
<1>7. \A i, j \in 1..Len(order) : order[i] = order[j] => i = j
  BY <1>1, <1>3 DEF IsInjective
<1>8. Distinct(SeedOrder(s))
  <2> SUFFICES ASSUME NEW i \in 1..(Len(order) + 2), NEW j \in 1..(Len(order) + 2),
                      SeedOrder(s)[i] = SeedOrder(s)[j]
               PROVE  i = j
    BY <1>4 DEF Distinct
  <2>1. i = 1 <=> j = 1
    BY <1>4, <1>5, <1>6
  <2>2. i = 2 <=> j = 2
    BY <1>4, <1>5, <1>6
  <2>3. CASE i \notin {1, 2}
    <3>1. i - 2 \in 1..Len(order) /\ j - 2 \in 1..Len(order) /\ order[i - 2] = order[j - 2]
      BY <1>5, <2>1, <2>2, <2>3
    <3>2. i - 2 = j - 2
      BY <1>7, <3>1
    <3> QED
      BY <1>3, <3>2
  <2> QED
    BY <2>1, <2>2, <2>3
<1>9. ASSUME NEW k \in SeedTools PROVE Has(SeedOrder(s), k)
  <2>1. PICK i \in 1..Len(order) : order[i] = k
    BY <1>1, <1>3
  <2>2. i + 2 \in 1..Len(SeedOrder(s)) /\ SeedOrder(s)[i + 2] = k
    BY <1>3, <1>4, <2>1
  <2> QED
    BY <2>2 DEF Has
<1>10. Has(SeedOrder(s), User) /\ Has(SeedOrder(s), Legacy)
  <2>1. 1 \in 1..Len(SeedOrder(s)) /\ 2 \in 1..Len(SeedOrder(s))
    BY <1>3, <1>4
  <2> QED
    BY <1>4, <2>1 DEF Has
<1> QED
  BY <1>4, <1>8, <1>9, <1>10 DEF Keys

LEMMA TailDistinct ==
  ASSUME NEW seq \in Seq(Keys), seq # <<>>, Distinct(seq)
  PROVE  /\ Head(seq) \in Keys /\ Tail(seq) \in Seq(Keys) /\ Distinct(Tail(seq))
         /\ ~Has(Tail(seq), Head(seq)) /\ Has(seq, Head(seq))
         /\ \A k : Has(Tail(seq), k) => Has(seq, k)
         /\ \A k : Has(seq, k) => k = Head(seq) \/ Has(Tail(seq), k)
<1>1. /\ Head(seq) = seq[1] /\ Head(seq) \in Keys /\ Tail(seq) \in Seq(Keys)
      /\ Len(seq) \in Nat /\ Len(seq) > 0 /\ Len(Tail(seq)) = Len(seq) - 1
      /\ \A i \in 1..Len(Tail(seq)) : Tail(seq)[i] = seq[i + 1]
  OBVIOUS
<1>2. \A i \in 1..Len(Tail(seq)) : i + 1 \in 1..Len(seq) /\ i + 1 # 1
  BY <1>1
<1>3. 1 \in 1..Len(seq)
  BY <1>1
<1>4. Distinct(Tail(seq))
  <2> SUFFICES ASSUME NEW i \in 1..Len(Tail(seq)), NEW j \in 1..Len(Tail(seq)),
                      Tail(seq)[i] = Tail(seq)[j]
               PROVE  i = j
    BY DEF Distinct
  <2>1. i + 1 = j + 1
    BY <1>1, <1>2 DEF Distinct
  <2> QED
    BY <1>1, <2>1
<1>5. ~Has(Tail(seq), Head(seq))
  BY <1>1, <1>2, <1>3 DEF Has, Distinct
<1>6. \A k : Has(Tail(seq), k) => Has(seq, k)
  BY <1>1, <1>2 DEF Has
<1>7. ASSUME NEW k, Has(seq, k), k # Head(seq) PROVE Has(Tail(seq), k)
  <2>1. PICK i \in 1..Len(seq) : seq[i] = k
    BY <1>7 DEF Has
  <2>2. i - 1 \in 1..Len(Tail(seq)) /\ (i - 1) + 1 = i
    BY <1>1, <1>7, <2>1
  <2> QED
    BY <1>1, <2>1, <2>2 DEF Has
<1> QED
  BY <1>1, <1>3, <1>4, <1>5, <1>6, <1>7 DEF Has

-----------------------------------------------------------------------------
(* The invariant.                                                          *)

\* What the point a seeder has reached says of tables T and rows R: a replica seeds
\* over all tables, and each key is there, inserted, about to be, or still to come.
Sound(s, p, T, R) ==
  /\ p.pc = "wait" => p.tries # MaxRetries
  /\ s \in Replicas /\ p.pc = "create" => AllTables \subseteq T \cup p.missing
  /\ s \in Replicas /\ p.pc \in {"seed", "ready"} => AllTables \subseteq T
  /\ p.pc = "seed" =>
       \A k \in Keys \ {Legacy} : R[k] # NoRow \/ k \in p.own \/ k = p.added \/ Has(p.todo, k)
  /\ p.pc = "ready" => \A k \in Keys \ {Legacy} : R[k] # NoRow
  /\ Distinct(p.todo)
  /\ Has(p.todo, Legacy) => p.legacy = "kept"
  /\ p.legacy # "kept" => p.doomed = "seed"

\* A key that is inserted and not committed has no row, and no other seeder.
Fresh(s, own) ==
  \A k \in own : rows[k] = NoRow /\ \A t \in Seeders \ {s} : k \notin proc[t].own

Begotten == \A k \in Keys : rows[k] # NoRow /\ rows[k].by = "seed" => rows[k].born = "seed"

IInv ==
  /\ TypeOK
  /\ \A s \in Seeders : Sound(s, proc[s], tables, rows) /\ Fresh(s, proc[s].own)
  /\ Begotten

WorldOK ==
  /\ up \in BOOLEAN /\ disturbed \in BOOLEAN
  /\ tables \subseteq AllTables /\ stamp \in 0..2
  /\ publisher \in Publisher

\* Tables and rows that come do no harm to a seeder.
LEMMA SoundStays ==
  ASSUME NEW s, NEW p, NEW T, NEW T2, NEW R, NEW R2, Sound(s, p, T, R), T \subseteq T2,
         \A k \in Keys \ {Legacy} : R[k] # NoRow => R2[k] # NoRow
  PROVE  Sound(s, p, T2, R2)
BY DEF Sound

LEMMA DownIsProc == Down \in Proc
BY DEF Down, Proc

\* A process that rolled back, or has only begun.
LEMMA NothingIsSound ==
  ASSUME NEW s, NEW T, NEW R, NEW pc \in {"down", "wait", "failed"}
  PROVE  Rollback(pc) \in Proc /\ Sound(s, Rollback(pc), T, R) /\ Rollback(pc).own = {}
<1>1. Len(<<>>) = 0 /\ Down.todo = <<>> /\ Down.own = {} /\ Down.legacy = "kept" /\ Down.tries = 0
  BY DEF Down
<1>2. /\ Rollback(pc) \in Proc /\ Rollback(pc).pc = pc /\ Rollback(pc).todo = Down.todo
      /\ Rollback(pc).tries = Down.tries
      /\ Rollback(pc).own = Down.own /\ Rollback(pc).legacy = Down.legacy
  BY DownIsProc DEF Rollback, Proc
<1>3. ~Has(<<>>, Legacy) /\ Distinct(<<>>)
  BY <1>1 DEF Has, Distinct
<1> QED
  BY <1>1, <1>2, <1>3 DEF Sound

LEMMA SeedingIsSound ==
  ASSUME NEW s \in Seeders, NEW T, NEW R, s \in Replicas => AllTables \subseteq T
  PROVE  Seeding(s) \in Proc /\ Sound(s, Seeding(s), T, R) /\ Seeding(s).own = {}
<1>1. Down.own = {} /\ Down.legacy = "kept"
  BY DEF Down
<1>2. SeedOrder(s) \in Seq(Keys) /\ Distinct(SeedOrder(s)) /\ \A k \in Keys : Has(SeedOrder(s), k)
  BY SeedOrderComplete
<1>3. /\ Seeding(s) \in Proc /\ Seeding(s).pc = "seed" /\ Seeding(s).todo = SeedOrder(s)
      /\ Seeding(s).own = {} /\ Seeding(s).legacy = "kept"
  BY <1>1, <1>2, DownIsProc DEF Seeding, Proc
<1> QED
  BY <1>2, <1>3 DEF Sound

\* A step of one seeder that commits no row.
LEMMA SeederMoves ==
  ASSUME IInv, WorldOK', tables \subseteq tables', rows' = rows,
         NEW s \in Seeders, NEW p \in Proc, proc' = [proc EXCEPT ![s] = p],
         Sound(s, p, tables', rows), Fresh(s, p.own)
  PROVE  IInv'
<1>1. proc' \in [Seeders -> Proc] /\ proc'[s] = p /\ \A t \in Seeders \ {s} : proc'[t] = proc[t]
  BY DEF IInv, TypeOK
<1>2. TypeOK'
  BY <1>1 DEF IInv, TypeOK, WorldOK
<1>3. ASSUME NEW t \in Seeders PROVE Sound(t, proc'[t], tables', rows')
  <2>1. CASE t = s
    BY <1>1, <2>1
  <2>2. CASE t # s
    BY <1>1, <2>2, SoundStays DEF IInv
  <2> QED
    BY <2>1, <2>2
<1>4. ASSUME NEW t \in Seeders PROVE Fresh(t, proc[t].own)'
  <2> SUFFICES ASSUME NEW k \in proc'[t].own
               PROVE  rows[k] = NoRow /\ \A u \in Seeders \ {t} : k \notin proc'[u].own
    BY DEF Fresh
  <2>1. CASE t = s
    BY <1>1, <2>1 DEF Fresh
  <2>2. CASE t # s
    <3>1. k \in proc[t].own /\ rows[k] = NoRow /\ \A u \in Seeders \ {t} : k \notin proc[u].own
      BY <1>1, <2>2 DEF IInv, Fresh
    <3>2. k \notin p.own
      BY <2>2, <3>1 DEF Fresh
    <3> QED
      BY <1>1, <3>1, <3>2
  <2> QED
    BY <2>1, <2>2
<1>5. Begotten'
  BY DEF IInv, Begotten
<1> QED
  BY <1>2, <1>3, <1>4, <1>5 DEF IInv

\* A seeder that comes to nothing.
LEMMA SeederFails ==
  ASSUME IInv, WorldOK', tables \subseteq tables', rows' = rows,
         NEW s \in Seeders, NEW pc \in {"down", "wait", "failed"},
         proc' = [proc EXCEPT ![s] = Rollback(pc)]
  PROVE  IInv'
<1>1. /\ Rollback(pc) \in Proc /\ Sound(s, Rollback(pc), tables', rows)
      /\ Rollback(pc).own = {}
  BY NothingIsSound
<1>2. Fresh(s, Rollback(pc).own)
  BY <1>1 DEF Fresh
<1> QED
  BY <1>1, <1>2, SeederMoves

-----------------------------------------------------------------------------
(* Seeding.                                                                *)

LEMMA FlushedFacts ==
  ASSUME NEW p \in Proc
  PROVE  LET q == Flushed(p)
         IN  /\ q \in Proc /\ q.pc = p.pc /\ q.todo = p.todo /\ q.doomed = p.doomed
             /\ q.added = NoKey /\ q.legacy \in {"kept", "deleted"}
             /\ q.legacy = "kept" <=> p.legacy = "kept"
             /\ q.own = IF p.added = NoKey THEN p.own ELSE p.own \cup {p.added}
BY DEF Flushed, Proc

\* After the locks were free and no UNIQUE column objected, what the flush inserted is
\* still nobody else's.
LEMMA FlushIsFresh ==
  ASSUME IInv, NEW s \in Seeders, Flushes(s), ~Conflicts(s)
  PROVE  Fresh(s, Flushed(proc[s]).own)
<1>1. proc[s] \in Proc /\ Fresh(s, proc[s].own)
  BY DEF IInv, TypeOK
<1>2. proc[s].added # NoKey => rows[proc[s].added] = NoRow
  BY DEF Conflicts
<1>3. \A t \in Seeders \ {s} : proc[s].added \notin proc[t].own
  BY DEF Flushes, Holders
<1>4. \A k \in Flushed(proc[s]).own : k \in proc[s].own \/ (k = proc[s].added /\ k # NoKey)
  BY <1>1 DEF Flushed, Proc
<1> QED
  BY <1>1, <1>2, <1>3, <1>4 DEF Fresh

LEMMA LookKeepsIInv ==
  ASSUME IInv, NEW s \in Seeders, Look(s)
  PROVE  IInv'
<1> DEFINE q == Flushed(proc[s])
           k == Head(q.todo)
           marks == k = Legacy /\ RemovesLegacy
           adds == k # Legacy /\ ~Exists(k)
           p == [q EXCEPT !.todo = Tail(@),
                          !.legacy = IF marks THEN "marked" ELSE @,
                          !.doomed = IF k = Legacy THEN Born(k) ELSE @,
                          !.added = IF adds THEN k ELSE @]
<1>1. /\ Flushes(s) /\ ~Conflicts(s) /\ proc[s].todo # <<>>
      /\ proc' = [proc EXCEPT ![s] = p]
      /\ UNCHANGED <<up, tables, stamp, rows, publisher, disturbed>>
  BY DEF Look
<1>2. proc[s] \in Proc /\ proc[s].pc = "seed" /\ Sound(s, proc[s], tables, rows)
  BY <1>1 DEF IInv, TypeOK, Flushes
<1>3. /\ q \in Proc /\ q.pc = "seed" /\ q.todo = proc[s].todo /\ q.doomed = proc[s].doomed
      /\ q.added = NoKey /\ q.legacy \in {"kept", "deleted"}
      /\ q.legacy = "kept" <=> proc[s].legacy = "kept"
      /\ q.own = IF proc[s].added = NoKey THEN proc[s].own ELSE proc[s].own \cup {proc[s].added}
  BY <1>2, FlushedFacts
<1> HIDE DEF q
<1>4. /\ q.todo \in Seq(Keys) /\ q.todo # <<>> /\ Distinct(q.todo)
  BY <1>1, <1>2, <1>3 DEF Proc, Sound
<1>5. /\ k \in Keys /\ Tail(q.todo) \in Seq(Keys) /\ Distinct(Tail(q.todo))
      /\ ~Has(Tail(q.todo), k) /\ Has(q.todo, k)
      /\ \A i : Has(Tail(q.todo), i) => Has(q.todo, i)
      /\ \A i : Has(q.todo, i) => i = k \/ Has(Tail(q.todo), i)
  BY <1>4, TailDistinct
<1>6. rows \in [Keys -> Row \cup {NoRow}] /\ Born(k) \in Writers \cup {NoRow}
  BY <1>5 DEF IInv, TypeOK, Born, Row
<1>7. marks => rows[Legacy] # NoRow /\ Born(Legacy) = "seed"
  BY DEF RemovesLegacy, Born, IInv, Begotten, Keys
<1>8. adds \/ k = Legacy \/ rows[k] # NoRow
  BY DEF Exists
<1> HIDE DEF k, marks, adds
<1>9. /\ p \in Proc /\ p.pc = "seed" /\ p.todo = Tail(q.todo) /\ p.own = q.own
      /\ p.legacy = (IF marks THEN "marked" ELSE q.legacy)
      /\ p.doomed = (IF k = Legacy THEN Born(k) ELSE q.doomed)
      /\ p.added = (IF adds THEN k ELSE NoKey)
  BY <1>3, <1>5, <1>6 DEF Proc
<1> HIDE DEF p
<1>10. Sound(s, p, tables, rows)
  <2>1. s \in Replicas => AllTables \subseteq tables
    BY <1>2 DEF Sound
  <2>2. ASSUME NEW i \in Keys \ {Legacy}
        PROVE  rows[i] # NoRow \/ i \in p.own \/ i = p.added \/ Has(p.todo, i)
    <3>1. rows[i] # NoRow \/ i \in proc[s].own \/ i = proc[s].added \/ Has(q.todo, i)
      BY <1>2, <1>3 DEF Sound
    <3>2. i # NoKey
      OBVIOUS
    <3> QED
      BY <1>3, <1>5, <1>8, <1>9, <3>1, <3>2
  <2>3. Has(p.todo, Legacy) => p.legacy = "kept"
    <3>1. SUFFICES ASSUME Has(Tail(q.todo), Legacy) PROVE p.legacy = "kept"
      BY <1>9
    <3>2. q.legacy = "kept" /\ k # Legacy
      BY <1>2, <1>3, <1>5, <3>1 DEF Sound
    <3> QED
      BY <1>9, <3>2 DEF marks
  <2>4. p.legacy # "kept" => p.doomed = "seed"
    <3>1. CASE marks
      BY <1>7, <1>9, <3>1 DEF marks
    <3>2. CASE ~marks /\ k = Legacy
      <4>1. q.legacy = "kept"
        BY <1>2, <1>3, <1>5, <3>2 DEF Sound
      <4> QED
        BY <1>9, <3>2, <4>1
    <3>3. CASE ~marks /\ k # Legacy
      BY <1>2, <1>3, <1>9, <3>3 DEF Sound
    <3> QED
      BY <3>1, <3>2, <3>3
  <2> QED
    BY <1>5, <1>9, <2>1, <2>2, <2>3, <2>4 DEF Sound
<1>11. Fresh(s, p.own)
  BY <1>1, <1>9, FlushIsFresh DEF q
<1>12. WorldOK' /\ tables \subseteq tables' /\ Sound(s, p, tables', rows)
  BY <1>1, <1>10 DEF IInv, TypeOK, WorldOK
<1> QED
  BY <1>1, <1>9, <1>11, <1>12, SeederMoves

\* What a commit does to the rows.
LEMMA CommitFacts ==
  ASSUME IInv, NEW s \in Seeders, CommitSeed(s)
  PROVE  /\ proc' = [proc EXCEPT ![s] = Rollback("ready")]
         /\ UNCHANGED <<up, tables, stamp, publisher, disturbed>>
         /\ rows' \in [Keys -> Row \cup {NoRow}]
         /\ \A k \in Keys :
              \/ rows'[k] = rows[k]
              \/ /\ k \in Flushed(proc[s]).own /\ rows[k] = NoRow
                 /\ rows'[k] = [born |-> "seed", by |-> "seed"]
              \/ /\ k = Legacy /\ rows'[k] = NoRow
                 /\ rows[k] # NoRow => rows[k].born = "seed"
         /\ \A k \in Keys \ {Legacy} : rows'[k] # NoRow
<1> DEFINE q == Flushed(proc[s])
<1>1. /\ Flushes(s) /\ ~Conflicts(s) /\ proc[s].todo = <<>> /\ rows' = Seeded(q)
      /\ proc' = [proc EXCEPT ![s] = Rollback("ready")]
      /\ UNCHANGED <<up, tables, stamp, publisher, disturbed>>
  BY DEF CommitSeed
<1>2. proc[s] \in Proc /\ proc[s].pc = "seed" /\ Sound(s, proc[s], tables, rows)
  BY <1>1 DEF IInv, TypeOK, Flushes
<1>3. /\ q \in Proc /\ q.doomed = proc[s].doomed
      /\ q.legacy \in {"kept", "deleted"}
      /\ q.legacy = "kept" <=> proc[s].legacy = "kept"
      /\ q.own = IF proc[s].added = NoKey THEN proc[s].own ELSE proc[s].own \cup {proc[s].added}
  BY <1>2, FlushedFacts
<1>4. Fresh(s, q.own)
  BY <1>1, FlushIsFresh
<1> HIDE DEF q
<1>5. rows \in [Keys -> Row \cup {NoRow}]
  BY DEF IInv, TypeOK
<1>6. \A k \in Keys :
        rows'[k] = IF k \in q.own THEN [born |-> "seed", by |-> "seed"]
                   ELSE IF k = Legacy /\ q.legacy = "deleted" /\ Born(k) = q.doomed THEN NoRow
                   ELSE rows[k]
  BY <1>1 DEF Seeded
<1>7. rows' \in [Keys -> Row \cup {NoRow}]
  BY <1>1, <1>5 DEF Seeded, Row, Writers
<1>8. q.legacy = "deleted" => q.doomed = "seed"
  BY <1>2, <1>3 DEF Sound
<1>9. \A k \in q.own : rows[k] = NoRow
  BY <1>4 DEF Fresh
<1>10. ASSUME NEW k \in Keys
       PROVE  \/ rows'[k] = rows[k]
              \/ k \in q.own /\ rows[k] = NoRow /\ rows'[k] = [born |-> "seed", by |-> "seed"]
              \/ k = Legacy /\ rows'[k] = NoRow /\ (rows[k] # NoRow => rows[k].born = "seed")
  BY <1>6, <1>8, <1>9 DEF Born
<1>11. ASSUME NEW k \in Keys \ {Legacy} PROVE rows'[k] # NoRow
  <2>1. ~Has(<<>>, k) /\ k # NoKey
    BY DEF Has
  <2>2. rows[k] # NoRow \/ k \in q.own
    BY <1>1, <1>2, <1>3, <2>1 DEF Sound
  <2>3. [born |-> "seed", by |-> "seed"] # NoRow
    BY DEF Row, Writers
  <2> QED
    BY <1>6, <2>2, <2>3
<1> QED
  BY <1>1, <1>7, <1>10, <1>11 DEF q

LEMMA CommitKeepsIInv ==
  ASSUME IInv, NEW s \in Seeders, CommitSeed(s)
  PROVE  IInv'
<1> DEFINE p == Rollback("ready")
<1>1. /\ Flushes(s) /\ ~Conflicts(s)
  BY DEF CommitSeed
<1>2. /\ p \in Proc /\ p.pc = "ready" /\ p.own = {} /\ p.todo = <<>> /\ p.legacy = "kept"
  <2>1. Down.own = {} /\ Down.todo = <<>> /\ Down.legacy = "kept"
    BY DEF Down
  <2> QED
    BY <2>1, DownIsProc DEF Rollback, Proc
<1> HIDE DEF p
<1>3. /\ proc' \in [Seeders -> Proc] /\ proc'[s] = p
      /\ \A t \in Seeders \ {s} : proc'[t] = proc[t]
  BY <1>2, CommitFacts DEF IInv, TypeOK, p
<1>4. TypeOK'
  BY <1>3, CommitFacts DEF IInv, TypeOK
<1>5. ASSUME NEW t \in Seeders PROVE Sound(t, proc'[t], tables', rows')
  <2>1. CASE t = s
    <3>1. s \in Replicas => AllTables \subseteq tables
      BY <1>1 DEF IInv, Sound, Flushes
    <3>2. Distinct(<<>>) /\ ~Has(<<>>, Legacy)
      BY DEF Distinct, Has
    <3> QED
      BY <1>2, <1>3, <2>1, <3>1, <3>2, CommitFacts DEF Sound
  <2>2. CASE t # s
    <3>1. Sound(t, proc[t], tables, rows)
      BY DEF IInv
    <3>2. tables \subseteq tables' /\ \A k \in Keys \ {Legacy} : rows[k] # NoRow => rows'[k] # NoRow
      BY CommitFacts
    <3> QED
      BY <1>3, <2>2, <3>1, <3>2, SoundStays
  <2> QED
    BY <2>1, <2>2
<1>6. ASSUME NEW t \in Seeders, NEW k \in proc'[t].own
      PROVE  rows'[k] = NoRow /\ \A u \in Seeders \ {t} : k \notin proc'[u].own
  <2>1. t # s /\ k \in proc[t].own /\ k \in Keys
    BY <1>2, <1>3, <1>6 DEF IInv, TypeOK, Proc
  <2>2. rows[k] = NoRow /\ \A u \in Seeders \ {t} : k \notin proc[u].own
    BY <2>1 DEF IInv, Fresh
  <2>3. k \notin Flushed(proc[s]).own
    BY <1>1, <2>1, FlushIsFresh DEF Fresh
  <2>4. rows'[k] = NoRow
    BY <2>1, <2>2, <2>3, CommitFacts
  <2> QED
    BY <1>2, <1>3, <2>1, <2>2, <2>4
<1>7. Begotten'
  <2> SUFFICES ASSUME NEW k \in Keys, rows'[k] # NoRow, rows'[k].by = "seed"
               PROVE  rows'[k].born = "seed"
    BY DEF Begotten
  <2> QED
    BY CommitFacts DEF IInv, Begotten
<1>8. \A t \in Seeders : Fresh(t, proc[t].own)'
  BY <1>6 DEF Fresh
<1> QED
  BY <1>4, <1>5, <1>7, <1>8 DEF IInv

-----------------------------------------------------------------------------
(* The other steps.                                                        *)

LEMMA InitIInv == Init => IInv
<1> SUFFICES ASSUME Init PROVE IInv
  OBVIOUS
<1>1. PICK d \in Databases : tables = d.tables /\ stamp = d.stamp /\ rows = d.rows
  BY DEF Init
<1>2. d \in Database
  OBVIOUS
<1>3. proc = [s \in Seeders |-> Down] /\ publisher = Idle /\ up \in BOOLEAN /\ disturbed = FALSE
  BY DEF Init
<1>4. TypeOK
  <2>1. Idle \in Publisher
    BY DEF Idle, Publisher
  <2> QED
    BY <1>1, <1>2, <1>3, <2>1, DownIsProc DEF TypeOK, Database
<1>5. ASSUME NEW s \in Seeders PROVE Sound(s, proc[s], tables, rows) /\ Fresh(s, proc[s].own)
  <2>1. proc[s] = Down /\ Down.own = {}
    BY <1>3 DEF Down
  <2>2. Rollback("down") = Down
    BY DownIsProc DEF Rollback, Proc, Down
  <2> QED
    BY <2>1, <2>2, NothingIsSound DEF Fresh
<1>6. Begotten
  BY <1>1 DEF Begotten
<1> QED
  BY <1>4, <1>5, <1>6 DEF IInv

LEMMA StartKeepsIInv ==
  ASSUME IInv, NEW s \in Seeders, Start(s)
  PROVE  IInv'
<1>1. /\ proc' = [proc EXCEPT ![s] = IF s \in Replicas THEN Rollback("wait") ELSE Seeding(s)]
      /\ UNCHANGED <<up, tables, stamp, rows, publisher, disturbed>>
  BY DEF Start, Rollback
<1>2. WorldOK' /\ tables \subseteq tables'
  BY <1>1 DEF IInv, TypeOK, WorldOK
<1>3. CASE s \in Replicas
  BY <1>1, <1>2, <1>3, SeederFails
<1>4. CASE s \notin Replicas
  <2>1. /\ Seeding(s) \in Proc /\ Sound(s, Seeding(s), tables', rows) /\ Seeding(s).own = {}
    BY <1>4, SeedingIsSound
  <2>2. Fresh(s, Seeding(s).own)
    BY <2>1 DEF Fresh
  <2> QED
    BY <1>1, <1>2, <1>4, <2>1, <2>2, SeederMoves
<1> QED
  BY <1>3, <1>4

LEMMA ConnectKeepsIInv ==
  ASSUME IInv, NEW s \in Seeders, Connect(s)
  PROVE  IInv'
<1> DEFINE tries == Tries(proc[s].tries)
           gone == ~up /\ tries = MaxRetries
<1>1. /\ proc[s].pc = "wait"
      /\ disturbed' = (disturbed \/ gone)
      /\ proc' = [proc EXCEPT ![s] =
                    IF up THEN [@ EXCEPT !.pc = "inspect"]
                    ELSE IF gone THEN Rollback("failed")
                    ELSE [@ EXCEPT !.tries = tries]]
      /\ UNCHANGED <<up, tables, stamp, rows, publisher>>
  BY DEF Connect
<1>2. WorldOK' /\ tables \subseteq tables'
  BY <1>1 DEF IInv, TypeOK, WorldOK
<1>3. proc[s] \in Proc /\ Sound(s, proc[s], tables', rows) /\ Fresh(s, proc[s].own)
  BY <1>1 DEF IInv, TypeOK
<1>4. CASE up
  <2> DEFINE p == [proc[s] EXCEPT !.pc = "inspect"]
  <2>1. /\ p \in Proc /\ p.pc = "inspect" /\ p.own = proc[s].own /\ p.todo = proc[s].todo
        /\ p.legacy = proc[s].legacy /\ p.doomed = proc[s].doomed
    BY <1>3 DEF Proc
  <2>2. proc' = [proc EXCEPT ![s] = p]
    BY <1>1, <1>4
  <2> HIDE DEF p
  <2>3. Sound(s, p, tables', rows)
    BY <1>3, <2>1 DEF Sound
  <2> QED
    BY <1>1, <1>2, <1>3, <2>1, <2>2, <2>3, SeederMoves
<1>5. CASE gone
  BY <1>1, <1>2, <1>5, SeederFails
<1>6. CASE ~up /\ ~gone
  <2> DEFINE p == [proc[s] EXCEPT !.tries = tries]
  <2>1. tries \in 0..MaxRetries
    <3>1. proc[s].tries \in 0..MaxRetries
      BY <1>3 DEF Proc
    <3>2. proc[s].tries # MaxRetries
      BY <1>1, <1>3 DEF Sound
    <3> QED
      BY <3>1, <3>2 DEF Tries
  <2>2. tries # MaxRetries
    BY <1>6
  <2> HIDE DEF tries
  <2>3. /\ p \in Proc /\ p.pc = "wait" /\ p.own = proc[s].own /\ p.todo = proc[s].todo
        /\ p.legacy = proc[s].legacy /\ p.doomed = proc[s].doomed /\ p.tries = tries
    BY <1>1, <1>3, <2>1 DEF Proc
  <2>4. proc' = [proc EXCEPT ![s] = p]
    BY <1>1, <1>6
  <2> HIDE DEF p
  <2>5. Sound(s, p, tables', rows)
    BY <1>3, <2>2, <2>3 DEF Sound
  <2> QED
    BY <1>1, <1>2, <1>3, <2>3, <2>4, <2>5, SeederMoves
<1> QED
  BY <1>4, <1>5, <1>6

LEMMA InspectKeepsIInv ==
  ASSUME IInv, NEW s \in Seeders, Inspect(s)
  PROVE  IInv'
<1> DEFINE p == [proc[s] EXCEPT !.pc = "create", !.missing = AllTables \ tables]
<1>1. /\ proc' = [proc EXCEPT ![s] = p]
      /\ UNCHANGED <<up, tables, stamp, rows, publisher, disturbed>>
  <2>1. proc' = [proc EXCEPT ![s].pc = "create", ![s].missing = AllTables \ tables]
    BY DEF Inspect
  <2> QED
    BY <2>1 DEF Inspect, IInv, TypeOK
<1>2. WorldOK' /\ tables \subseteq tables'
  BY <1>1 DEF IInv, TypeOK, WorldOK
<1>3. proc[s] \in Proc /\ Sound(s, proc[s], tables, rows) /\ Fresh(s, proc[s].own)
  BY DEF IInv, TypeOK
<1>4. /\ p \in Proc /\ p.pc = "create" /\ p.missing = AllTables \ tables
      /\ p.own = proc[s].own /\ p.todo = proc[s].todo
      /\ p.legacy = proc[s].legacy /\ p.doomed = proc[s].doomed
  BY <1>3 DEF Proc
<1> HIDE DEF p
<1>5. Sound(s, p, tables', rows)
  BY <1>1, <1>3, <1>4 DEF Sound
<1> QED
  BY <1>1, <1>2, <1>3, <1>4, <1>5, SeederMoves

LEMMA CreateKeepsIInv ==
  ASSUME IInv, NEW s \in Seeders, Create(s)
  PROVE  IInv'
<1>1. proc[s].pc = "create" /\ UNCHANGED <<up, stamp, rows, publisher, disturbed>>
  BY DEF Create
<1>2. proc[s] \in Proc /\ Sound(s, proc[s], tables, rows)
  BY DEF IInv, TypeOK
<1>3. CASE proc[s].missing \cap tables # {}
  <2>1. proc' = [proc EXCEPT ![s] = Rollback("failed")] /\ tables' = tables
    BY <1>3 DEF Create, Fails
  <2>2. WorldOK'
    BY <1>1, <2>1 DEF IInv, TypeOK, WorldOK
  <2> QED
    BY <1>1, <2>1, <2>2, SeederFails
<1>4. CASE proc[s].missing \cap tables = {}
  <2>1. proc' = [proc EXCEPT ![s] = Seeding(s)] /\ tables' = tables \cup proc[s].missing
    BY <1>4 DEF Create
  <2>2. WorldOK' /\ tables \subseteq tables'
    BY <1>1, <1>2, <2>1 DEF IInv, TypeOK, WorldOK, Proc
  <2>3. s \in Replicas => AllTables \subseteq tables'
    BY <1>1, <1>2, <2>1 DEF Sound
  <2>4. /\ Seeding(s) \in Proc /\ Sound(s, Seeding(s), tables', rows) /\ Seeding(s).own = {}
    BY <2>3, SeedingIsSound
  <2>5. Fresh(s, Seeding(s).own)
    BY <2>4 DEF Fresh
  <2> QED
    BY <1>1, <2>1, <2>2, <2>4, <2>5, SeederMoves
<1> QED
  BY <1>3, <1>4

\* Steps of the world, in which no seeder moves, and rows are written but never removed,
\* by others than the seed, and not where a seeder has inserted one.
LEMMA WorldMoves ==
  ASSUME IInv, WorldOK', tables \subseteq tables', proc' = proc,
         rows' \in [Keys -> Row \cup {NoRow}],
         \A k \in Keys : \/ rows'[k] = rows[k]
                         \/ /\ rows'[k] # NoRow /\ rows'[k].by # "seed"
                            /\ \A s \in Seeders : k \notin proc[s].own
  PROVE  IInv'
<1>1. TypeOK'
  BY DEF IInv, TypeOK, WorldOK
<1>2. ASSUME NEW s \in Seeders PROVE Sound(s, proc'[s], tables', rows')
  <2>1. \A k \in Keys \ {Legacy} : rows[k] # NoRow => rows'[k] # NoRow
    OBVIOUS
  <2> QED
    BY <2>1, SoundStays DEF IInv
<1>3. ASSUME NEW s \in Seeders PROVE Fresh(s, proc[s].own)'
  <2>1. proc[s].own \subseteq Keys
    BY DEF IInv, TypeOK, Proc
  <2> QED
    BY <2>1 DEF IInv, Fresh
<1>4. Begotten'
  BY DEF IInv, Begotten
<1> QED
  BY <1>1, <1>2, <1>3, <1>4 DEF IInv

LEMMA PublisherKeepsIInv ==
  ASSUME IInv, PublishLooks \/ PublishCommits
  PROVE  IInv'
<1>1. CASE PublishLooks
  <2>1. PICK n \in Published : publisher' = [pc |-> "found", name |-> n, born |-> Born(n)]
    BY <1>1 DEF PublishLooks
  <2>2. n \in Keys
    BY DEF Keys
  <2>3. Born(n) \in Writers \cup {NoRow}
    BY <2>2 DEF IInv, TypeOK, Born, Row
  <2>4. publisher' \in Publisher
    BY <2>1, <2>2, <2>3 DEF Publisher
  <2>5. UNCHANGED <<up, tables, stamp, rows, proc, disturbed>>
    BY <1>1 DEF PublishLooks
  <2>6. WorldOK' /\ rows' \in [Keys -> Row \cup {NoRow}]
    BY <2>4, <2>5 DEF IInv, TypeOK, WorldOK
  <2> QED
    BY <2>5, <2>6, WorldMoves
<1>2. CASE PublishCommits
  <2> DEFINE n == publisher.name
             written == [born |-> IF Born(n) = NoRow THEN "pipeline" ELSE Born(n),
                         by |-> "pipeline"]
  <2>1. /\ \A s \in Seeders : n \notin proc[s].own
        /\ rows' = IF Born(n) = publisher.born THEN [rows EXCEPT ![n] = written] ELSE rows
        /\ disturbed' \in BOOLEAN
        /\ publisher' = [Idle EXCEPT !.pc = "done"]
        /\ UNCHANGED <<up, tables, stamp, proc>>
    BY <1>2 DEF PublishCommits, IInv, TypeOK
  <2>2. publisher' \in Publisher
    BY <2>1 DEF Publisher, Idle
  <2>3. rows \in [Keys -> Row \cup {NoRow}]
    BY DEF IInv, TypeOK
  <2>4. n \in Keys => written \in Row
    BY <2>3 DEF Row, Writers, Born
  <2>5. written.by = "pipeline"
    OBVIOUS
  <2> HIDE DEF written, n
  <2>6. rows' \in [Keys -> Row \cup {NoRow}]
    BY <2>1, <2>3, <2>4
  <2>7. WorldOK'
    BY <2>1, <2>2 DEF IInv, TypeOK, WorldOK
  <2>8. ASSUME NEW k \in Keys
        PROVE  rows'[k] = rows[k] \/ (k = n /\ rows'[k] = written /\ written \in Row)
    BY <2>1, <2>3, <2>4
  <2>9. \A k \in Keys : \/ rows'[k] = rows[k]
                         \/ /\ rows'[k] # NoRow /\ rows'[k].by # "seed"
                            /\ \A s \in Seeders : k \notin proc[s].own
    BY <2>1, <2>5, <2>8
  <2> QED
    BY <2>1, <2>6, <2>7, <2>9, WorldMoves
<1> QED
  BY <1>1, <1>2

LEMMA NextIInv == IInv /\ [Next]_vars => IInv'
<1> SUFFICES ASSUME IInv, [Next]_vars PROVE IInv'
  OBVIOUS
<1>1. ASSUME NEW s \in Seeders, Start(s) PROVE IInv'
  BY <1>1, StartKeepsIInv
<1>2. ASSUME NEW s \in Seeders, SeederStep(s) PROVE IInv'
  <2>1. CASE SeedFails(s) \/ DeadlockVictim(s)
    <3>1. proc' = [proc EXCEPT ![s] = Rollback("failed")]
          /\ UNCHANGED <<up, tables, stamp, rows, publisher, disturbed>>
      BY <2>1 DEF SeedFails, DeadlockVictim, Fails
    <3>2. WorldOK' /\ tables \subseteq tables'
      BY <3>1 DEF IInv, TypeOK, WorldOK
    <3> QED
      BY <3>1, <3>2, SeederFails
  <2> QED
    BY <1>2, <2>1, ConnectKeepsIInv, InspectKeepsIInv, CreateKeepsIInv, LookKeepsIInv,
       CommitKeepsIInv DEF SeederStep
<1>3. ASSUME NEW s \in Seeders, Kill(s) PROVE IInv'
  <2>1. /\ proc' = [proc EXCEPT ![s] = Rollback("failed")] /\ disturbed' = TRUE
        /\ UNCHANGED <<up, tables, stamp, rows, publisher>>
    BY <1>3 DEF Kill
  <2>2. WorldOK' /\ tables \subseteq tables'
    BY <2>1 DEF IInv, TypeOK, WorldOK
  <2> QED
    BY <2>1, <2>2, SeederFails
<1>4. CASE DatabaseComes \/ UNCHANGED vars
  <2>1. up' \in BOOLEAN /\ UNCHANGED <<tables, stamp, rows, proc, publisher, disturbed>>
    BY <1>4 DEF DatabaseComes, vars, IInv, TypeOK
  <2>2. WorldOK' /\ tables \subseteq tables' /\ rows' \in [Keys -> Row \cup {NoRow}]
    BY <2>1 DEF IInv, TypeOK, WorldOK
  <2> QED
    BY <2>1, <2>2, WorldMoves
<1>5. CASE Upgrade
  <2>1. /\ tables' = tables \cup UpgradeTables /\ stamp' = 2 /\ disturbed' \in BOOLEAN
        /\ UNCHANGED <<up, rows, proc, publisher>>
    BY <1>5 DEF Upgrade, IInv, TypeOK
  <2>2. WorldOK' /\ tables \subseteq tables' /\ rows' \in [Keys -> Row \cup {NoRow}]
    BY <2>1 DEF IInv, TypeOK, WorldOK, UpgradeTables, AllTables
  <2> QED
    BY <2>1, <2>2, WorldMoves
<1>6. CASE PublishLooks \/ PublishCommits
  BY <1>6, PublisherKeepsIInv
<1> QED
  BY <1>1, <1>2, <1>3, <1>4, <1>5, <1>6 DEF Next

LEMMA IInvHolds == Spec => []IInv
BY InitIInv, NextIInv, PTL DEF Spec

-----------------------------------------------------------------------------

\* Whatever databases, seeders and publishers there are, what they keep is of its kind.
THEOREM TypeCorrect == Spec => []TypeOK
<1>1. IInv => TypeOK
  BY DEF IInv
<1> QED
  BY <1>1, IInvHolds, PTL

\* However many replicas and scripts seed together, fail, are killed or overtaken by a
\* publisher or a migration: uvicorn serves only over a database that has it all.
THEOREM ServesSeededAlways == Spec => []ServesSeeded
<1>1. IInv => ServesSeeded
  BY DEF IInv, Sound, ServesSeeded, Seeders
<1> QED
  BY <1>1, IInvHolds, PTL

LEMMA StepsKeepRows == IInv /\ [Next]_vars => KeepsRows \/ UNCHANGED vars
<1> SUFFICES ASSUME IInv, Next,
                    NEW k \in Keys, rows[k] # NoRow, rows'[k] # rows[k]
             PROVE  IF rows'[k] = NoRow THEN k = Legacy /\ rows[k].born = "seed"
                                        ELSE rows'[k].by # "seed"
  BY DEF KeepsRows
<1>1. ASSUME NEW s \in Seeders, CommitSeed(s)
      PROVE  rows'[k] = NoRow /\ k = Legacy /\ rows[k].born = "seed"
  BY <1>1, CommitFacts
<1>2. CASE PublishCommits
  <2> DEFINE n == publisher.name
             written == [born |-> IF Born(n) = NoRow THEN "pipeline" ELSE Born(n),
                         by |-> "pipeline"]
  <2>1. rows' \in {rows, [rows EXCEPT ![n] = written]} /\ rows \in [Keys -> Row \cup {NoRow}]
    BY <1>2 DEF PublishCommits, IInv, TypeOK
  <2>2. Born(k) \in Writers
    BY <2>1 DEF Born, Row
  <2>3. k = n => written \in Row
    BY <2>2 DEF Row, Writers
  <2>4. written.by = "pipeline"
    OBVIOUS
  <2> HIDE DEF n, written
  <2>5. k = n /\ rows'[k] = written
    BY <2>1
  <2> QED
    BY <2>3, <2>4, <2>5
<1>3. (\E s \in Seeders : CommitSeed(s)) \/ PublishCommits
  BY DEF Next, SeederStep, Start, Connect, Inspect, Create, Look, SeedFails, DeadlockVictim,
         Kill, DatabaseComes, Upgrade, PublishLooks
<1> QED
  BY <1>1, <1>2, <1>3

\* No start of any number of seeders puts the seed's data back into a row that is there
\* or removes one that the seed did not insert.
THEOREM SeedingKeepsRowsAlways == Spec => SeedingKeepsRows
<1>1. IInv /\ [Next]_vars => [KeepsRows]_vars
  BY StepsKeepRows
<1>2. Spec => [][Next]_vars
  BY PTL DEF Spec
<1> QED
  BY <1>1, <1>2, IInvHolds, PTL DEF SeedingKeepsRows

-----------------------------------------------------------------------------
(* Why seeders that start together do not all fail.  A replica fails, when *)
(* nothing disturbs it, of tables that another one created after it had    *)
(* looked, of a key that another one committed, or of a deadlock with      *)
(* another one: each time the other is further than it was, and seeds or   *)
(* is up.  That nobody seeds before the tables are there would not hold of *)
(* the script, so that a failed replica also has to find them all.         *)

\* Only replicas wait and create, and only who seeds holds anything; what is looked for
\* by the publisher is a name it may publish.
InPhase(s, p) ==
  /\ p.pc \in {"wait", "inspect", "create"} => s \in Replicas
  /\ p.pc # "seed" => p.added = NoKey /\ p.own = {} /\ p.legacy = "kept"
  /\ p.added # Legacy
Phases ==
  /\ \A s \in Seeders : InPhase(s, proc[s])
  /\ publisher.pc = "found" => publisher.name \in Published

SomeReady == \E t \in Seeders : proc[t].pc = "ready"
Alive == \E t \in Seeders : proc[t].pc \in {"seed", "ready"}

\* The replica failed, or is going to create tables that are there.
Overtaken(r) == proc[r].pc = "create" /\ proc[r].missing \cap tables # {}
Troubled(r) == proc[r].pc = "failed" \/ Overtaken(r)

Backed ==
  /\ \A s \in Seeders : Conflicts(s) => SomeReady
  /\ \A r \in Replicas : Troubled(r) => AllTables \subseteq tables /\ Alive
UndisturbedBacked == ~disturbed => Backed

LEMMA RollbackInPhase ==
  ASSUME NEW s, NEW pc \in {"ready", "failed", "down", "wait"}, pc = "wait" => s \in Replicas
  PROVE  InPhase(s, Rollback(pc)) /\ Rollback(pc).pc = pc
<1>1. Down.added = NoKey /\ Down.own = {} /\ Down.legacy = "kept"
  BY DEF Down
<1>2. /\ Rollback(pc).pc = pc /\ Rollback(pc).added = Down.added
      /\ Rollback(pc).own = Down.own /\ Rollback(pc).legacy = Down.legacy
  BY DownIsProc DEF Rollback, Proc
<1>3. NoKey # Legacy
  BY DEF Keys
<1> QED
  BY <1>1, <1>2, <1>3 DEF InPhase

LEMMA SeedingInPhase ==
  ASSUME NEW s
  PROVE  InPhase(s, Seeding(s)) /\ Seeding(s).pc = "seed"
<1>1. Seeding(s).pc = "seed" /\ Seeding(s).added = NoKey
  BY DEF Seeding, Down
<1>2. NoKey # Legacy
  BY DEF Keys
<1> QED
  BY <1>1, <1>2 DEF InPhase

\* Looking at a key leaves the seeder seeding, with nothing added but a tool or the user
\* that had no row.
LEMMA LookMoves ==
  ASSUME IInv, NEW s \in Seeders, Look(s)
  PROVE  /\ proc'[s].pc = "seed"
         /\ proc'[s].added # NoKey => rows[proc'[s].added] = NoRow
         /\ proc'[s].added # Legacy
         /\ \A t \in Seeders \ {s} : proc'[t] = proc[t]
<1> DEFINE q == Flushed(proc[s])
           k == Head(q.todo)
           added == IF k # Legacy /\ ~Exists(k) THEN k ELSE q.added
           p == [q EXCEPT !.todo = Tail(@),
                          !.legacy = IF k = Legacy /\ RemovesLegacy THEN "marked" ELSE @,
                          !.doomed = IF k = Legacy THEN Born(k) ELSE @,
                          !.added = IF k # Legacy /\ ~Exists(k) THEN k ELSE @]
<1>1. proc[s].pc = "seed" /\ proc' = [proc EXCEPT ![s] = p]
  BY DEF Look, Flushes
<1>2. proc \in [Seeders -> Proc] /\ NoKey # Legacy
  BY DEF IInv, TypeOK, Keys
<1>3. q \in Proc /\ q.pc = "seed" /\ q.added = NoKey
  BY <1>1, <1>2, FlushedFacts
<1> HIDE DEF q
<1>4. p.pc = "seed" /\ p.added = added
  BY <1>3 DEF Proc
<1>5. added # NoKey => rows[added] = NoRow
  BY <1>3 DEF Exists
<1>6. added # Legacy
  BY <1>2, <1>3
<1> HIDE DEF p, added
<1> QED
  BY <1>1, <1>2, <1>4, <1>5, <1>6

\* The step of one seeder, by the state that it leaves the seeder in.
LEMMA SeederInPhase ==
  ASSUME IInv, Phases, NEW s \in Seeders, Start(s) \/ SeederStep(s) \/ Kill(s)
  PROVE  /\ InPhase(s, proc'[s])
         /\ \A t \in Seeders \ {s} : proc'[t] = proc[t]
         /\ UNCHANGED publisher
<1> DEFINE old == proc[s]
<1>1. proc \in [Seeders -> Proc] /\ old \in Proc /\ InPhase(s, old) /\ NoKey # Legacy
  BY DEF IInv, TypeOK, Phases, Keys
<1>2. CASE Start(s)
  <2>1. proc' = [proc EXCEPT ![s] = IF s \in Replicas THEN Rollback("wait") ELSE Seeding(s)]
    BY <1>2 DEF Start, Rollback
  <2> QED
    BY <1>1, <1>2, <2>1, RollbackInPhase, SeedingInPhase DEF Start
<1>3. CASE Connect(s)
  <2>1. /\ old.pc = "wait" /\ UNCHANGED publisher
        /\ \/ proc' = [proc EXCEPT ![s] = Rollback("failed")]
           \/ proc' = [proc EXCEPT ![s].pc = "inspect"]
           \/ proc' = [proc EXCEPT ![s].tries = Tries(proc[s].tries)]
    BY <1>3 DEF Connect
  <2>2. CASE proc' = [proc EXCEPT ![s] = Rollback("failed")]
    BY <1>1, <2>1, <2>2, RollbackInPhase
  <2>3. CASE \/ proc' = [proc EXCEPT ![s].pc = "inspect"]
             \/ proc' = [proc EXCEPT ![s].tries = Tries(proc[s].tries)]
    <3>1. /\ proc'[s].pc \in {"wait", "inspect"} /\ proc'[s].added = old.added
          /\ proc'[s].own = old.own /\ proc'[s].legacy = old.legacy
          /\ \A t \in Seeders \ {s} : proc'[t] = proc[t]
      BY <1>1, <2>1, <2>3 DEF Proc
    <3> QED
      BY <1>1, <2>1, <3>1 DEF InPhase
  <2> QED
    BY <2>1, <2>2, <2>3
<1>4. CASE Inspect(s)
  BY <1>1, <1>4 DEF Inspect, InPhase, Proc
<1>5. CASE Create(s)
  <2>1. \/ proc' = [proc EXCEPT ![s] = Rollback("failed")]
        \/ proc' = [proc EXCEPT ![s] = Seeding(s)]
    BY <1>5 DEF Create, Fails
  <2> QED
    BY <1>1, <1>5, <2>1, RollbackInPhase, SeedingInPhase DEF Create
<1>6. CASE Look(s)
  <2>1. /\ proc'[s].pc = "seed" /\ proc'[s].added # Legacy
        /\ \A t \in Seeders \ {s} : proc'[t] = proc[t]
    BY <1>6, LookMoves
  <2> QED
    BY <1>6, <2>1 DEF InPhase, Look
<1>7. CASE CommitSeed(s)
  BY <1>1, <1>7, RollbackInPhase DEF CommitSeed
<1>8. CASE SeedFails(s) \/ DeadlockVictim(s) \/ Kill(s)
  <2>1. proc' = [proc EXCEPT ![s] = Rollback("failed")] /\ UNCHANGED publisher
    BY <1>8 DEF SeedFails, DeadlockVictim, Kill, Fails
  <2> QED
    BY <1>1, <2>1, RollbackInPhase
<1> QED
  BY <1>2, <1>3, <1>4, <1>5, <1>6, <1>7, <1>8 DEF SeederStep

LEMMA PhasesInit == Init => Phases
<1> SUFFICES ASSUME Init PROVE Phases
  OBVIOUS
<1>1. proc = [s \in Seeders |-> Down] /\ publisher = Idle
  BY DEF Init
<1>2. Rollback("down") = Down
  BY DownIsProc DEF Rollback, Proc, Down
<1> QED
  BY <1>1, <1>2, RollbackInPhase DEF Phases, Idle

LEMMA PhasesStep ==
  ASSUME IInv, Phases, [Next]_vars
  PROVE  Phases'
<1>1. ASSUME NEW s \in Seeders, Start(s) \/ SeederStep(s) \/ Kill(s)
      PROVE  Phases'
  BY <1>1, SeederInPhase DEF Phases
<1>2. CASE DatabaseComes \/ Upgrade \/ UNCHANGED vars
  BY <1>2 DEF Phases, DatabaseComes, Upgrade, vars
<1>3. CASE PublishLooks \/ PublishCommits
  <2>1. UNCHANGED proc
    BY <1>3 DEF PublishLooks, PublishCommits
  <2>2. publisher'.pc = "found" => publisher'.name \in Published
    BY <1>3 DEF PublishLooks, PublishCommits, Idle
  <2> QED
    BY <2>1, <2>2 DEF Phases
<1> QED
  BY <1>1, <1>2, <1>3 DEF Next

\* What was disturbed stays so, and undisturbed nobody who is up goes down.
LEMMA DisturbedStays ==
  ASSUME IInv, [Next]_vars, ~disturbed'
  PROVE  ~disturbed
<1>1. UNCHANGED disturbed \/ disturbed' = TRUE \/ \E b \in BOOLEAN : disturbed' = (disturbed \/ b)
  <2>1. ASSUME NEW s \in Seeders, Connect(s)
        PROVE  \E b \in BOOLEAN : disturbed' = (disturbed \/ b)
    BY <2>1 DEF Connect
  <2>2. ASSUME NEW s \in Seeders, Start(s) \/ SeederStep(s) \/ Kill(s), ~Connect(s)
        PROVE  UNCHANGED disturbed \/ disturbed' = TRUE
    BY <2>2 DEF Start, SeederStep, Inspect, Create, Look, CommitSeed, SeedFails,
                DeadlockVictim, Kill
  <2>3. CASE Upgrade \/ PublishCommits
    BY <2>3 DEF Upgrade, PublishCommits
  <2>4. CASE DatabaseComes \/ PublishLooks \/ UNCHANGED vars
    BY <2>4 DEF DatabaseComes, PublishLooks, vars
  <2> QED
    BY <2>1, <2>2, <2>3, <2>4 DEF Next
<1> QED
  BY <1>1 DEF IInv, TypeOK

\* A step of the world, in which no seeder moves.
Worldly == DatabaseComes \/ Upgrade \/ PublishLooks \/ PublishCommits \/ UNCHANGED vars

LEMMA WorldlyStaysPut == ASSUME Worldly PROVE UNCHANGED proc
BY DEF Worldly, DatabaseComes, Upgrade, PublishLooks, PublishCommits, vars

LEMMA ReadyStays ==
  ASSUME IInv, Phases, [Next]_vars, ~disturbed', NEW t \in Seeders, proc[t].pc = "ready"
  PROVE  proc'[t].pc = "ready"
<1>1. ASSUME NEW s \in Seeders, Start(s) \/ SeederStep(s) \/ Kill(s)
      PROVE  s # t
  BY <1>1 DEF Start, SeederStep, Connect, Inspect, Create, Look, CommitSeed, SeedFails,
              Flushes, DeadlockVictim, Kill
<1>2. CASE Worldly
  BY <1>2, WorldlyStaysPut
<1> QED
  BY <1>1, <1>2, SeederInPhase DEF Next, Worldly

\* Who is going to insert a key that has a row by now leaves a seeder behind that is up:
\* its own look found no row, and no publisher wrote one undisturbed.
LEMMA ConflictsBacked ==
  ASSUME IInv, Phases, Backed, [Next]_vars, ~disturbed', NEW s \in Seeders, Conflicts(s)'
  PROVE  SomeReady'
<1> DEFINE k == proc'[s].added
<1>0. k # NoKey /\ rows'[k] # NoRow
  BY DEF Conflicts
<1>1. CASE SomeReady
  BY <1>1, ReadyStays DEF SomeReady
<1>2. CASE \E t \in Seeders : CommitSeed(t)
  <2>1. PICK t \in Seeders : CommitSeed(t)
    BY <1>2
  <2>2. proc' = [proc EXCEPT ![t] = Rollback("ready")]
    BY <2>1 DEF CommitSeed
  <2>3. proc'[t].pc = "ready"
    BY <2>2, RollbackInPhase DEF IInv, TypeOK
  <2> QED
    BY <2>3 DEF SomeReady
<1>3. CASE ~SomeReady /\ ~\E t \in Seeders : CommitSeed(t)
  <2>1. ~Conflicts(s)
    BY <1>3 DEF Backed
  <2>3. k = proc[s].added
    <3>1. CASE Look(s)
      <4>1. rows' = rows
        BY <3>1 DEF Look
      <4> QED
        BY <1>0, <3>1, <4>1, LookMoves
    <3>2. CASE Worldly
      BY <3>2, WorldlyStaysPut
    <3>3. ASSUME NEW t \in Seeders, Start(t) \/ SeederStep(t) \/ Kill(t), ~Look(s)
          PROVE  k = proc[s].added
      <4>1. CASE t # s
        BY <3>3, <4>1, SeederInPhase
      <4>2. CASE t = s
        <5>1. proc'[s].pc # "seed" => k = NoKey
          BY <3>3, <4>2, SeederInPhase DEF InPhase
        <5>2. proc'[s].pc = "seed" => k = NoKey
          <6>1. CASE Start(s) \/ Create(s)
            <7>1. proc'[s] \in {Rollback("wait"), Rollback("failed"), Seeding(s)}
              BY <6>1 DEF Start, Create, Fails, Rollback, IInv, TypeOK
            <7>2. /\ Rollback("wait").added = NoKey /\ Rollback("failed").added = NoKey
                  /\ Seeding(s).added = NoKey
              BY DEF Rollback, Seeding, Down
            <7> QED
              BY <7>1, <7>2
          <6>2. CASE Connect(s) \/ Inspect(s) \/ Kill(s) \/ SeedFails(s) \/ DeadlockVictim(s)
            <7>1. proc[s] \in Proc /\ proc \in [Seeders -> Proc]
              BY DEF IInv, TypeOK
            <7>2. Rollback("failed").pc # "seed"
              BY RollbackInPhase
            <7>3. \/ proc' = [proc EXCEPT ![s] = Rollback("failed")]
                  \/ proc' = [proc EXCEPT ![s].pc = "inspect"]
                  \/ /\ proc' = [proc EXCEPT ![s].tries = Tries(proc[s].tries)]
                     /\ proc[s].pc = "wait"
                  \/ proc' = [proc EXCEPT ![s].pc = "create", ![s].missing = AllTables \ tables]
              BY <6>2 DEF Connect, Inspect, Kill, SeedFails, DeadlockVictim, Fails
            <7>4. CASE proc' = [proc EXCEPT ![s] = Rollback("failed")]
              BY <7>1, <7>2, <7>4
            <7>5. CASE proc' = [proc EXCEPT ![s].pc = "inspect"]
              BY <7>1, <7>5 DEF Proc
            <7>6. CASE /\ proc' = [proc EXCEPT ![s].tries = Tries(proc[s].tries)]
                       /\ proc[s].pc = "wait"
              BY <7>1, <7>6 DEF Proc
            <7>7. CASE proc' = [proc EXCEPT ![s].pc = "create", ![s].missing = AllTables \ tables]
              BY <7>1, <7>7 DEF Proc
            <7> QED
              BY <7>3, <7>4, <7>5, <7>6, <7>7
          <6> QED
            BY <1>3, <3>3, <4>2, <6>1, <6>2 DEF SeederStep
        <5> QED
          BY <1>0, <5>1, <5>2
      <4> QED
        BY <4>1, <4>2
    <3> QED
      BY <3>1, <3>2, <3>3 DEF Next, Worldly
  <2>4. proc[s] \in Proc /\ rows \in [Keys -> Row \cup {NoRow}]
    BY DEF IInv, TypeOK
  <2>5. k \in Keys /\ k # Legacy
    BY <1>0, <2>3, <2>4 DEF Proc, Phases, InPhase
  <2>6. rows[k] = NoRow
    BY <1>0, <2>1, <2>3 DEF Conflicts
  <2>7. CASE PublishCommits
    <3>1. publisher.name \in Published
      BY <2>7 DEF PublishCommits, Phases
    <3>2. rows' # rows => publisher.name = Legacy
      BY <2>7, <3>1 DEF PublishCommits
    <3>3. rows'[k] = rows[k]
      BY <2>4, <2>5, <2>7, <3>2 DEF PublishCommits
    <3> QED
      BY <1>0, <2>6, <3>3
  <2>8. CASE UNCHANGED rows
    BY <1>0, <2>6, <2>8
  <2>9. UNCHANGED rows \/ PublishCommits
    BY <1>3 DEF Next, Start, SeederStep, Connect, Inspect, Create, Look, SeedFails,
                DeadlockVictim, Kill, DatabaseComes, Upgrade, PublishLooks, vars
  <2> QED
    BY <2>7, <2>8, <2>9
<1> QED
  BY <1>1, <1>2, <1>3

\* A step of a seeder that leaves the tables alone brings trouble to that seeder only,
\* and who is alive besides it stays so.
LEMMA OthersBacked ==
  ASSUME Backed, NEW s \in Seeders, NEW r \in Replicas, Troubled(r)', UNCHANGED tables,
         \A t \in Seeders \ {s} : proc'[t] = proc[t],
         r # s \/ Troubled(s),
         proc[s].pc \notin {"seed", "ready"} \/ proc'[s].pc \in {"seed", "ready"}
  PROVE  AllTables \subseteq tables' /\ Alive'
<1>1. r \in Seeders
  BY DEF Seeders
<1>2. \E u \in Replicas : Troubled(u)
  BY <1>1 DEF Troubled, Overtaken
<1>3. AllTables \subseteq tables /\ Alive
  BY <1>2 DEF Backed
<1> QED
  BY <1>3 DEF Alive

\* The seeder that fails of another one, or after another replica failed.
LEMMA FailsOfAnother ==
  ASSUME IInv, Phases, Backed, [Next]_vars, ~disturbed', NEW s \in Seeders,
         SeedFails(s) \/ DeadlockVictim(s), NEW r \in Replicas, Troubled(r)'
  PROVE  AllTables \subseteq tables' /\ Alive'
<1>1. /\ proc[s].pc = "seed" /\ UNCHANGED tables
      /\ \A t \in Seeders \ {s} : proc'[t] = proc[t]
  BY SeederInPhase DEF SeedFails, DeadlockVictim, SeederStep
<1>2. AllTables \subseteq tables
  <2>1. CASE r = s
    BY <1>1, <2>1 DEF IInv, Sound
  <2>2. CASE r # s
    BY <1>1, <2>2 DEF Backed, Troubled, Overtaken, Seeders
  <2> QED
    BY <2>1, <2>2
<1>3. CASE SeedFails(s)
  <2>1. Conflicts(s)
    BY <1>2, <1>3 DEF SeedFails, AllTables, InitialTables
  <2>2. PICK t \in Seeders : proc[t].pc = "ready"
    BY <2>1 DEF Backed, SomeReady
  <2>3. proc'[t].pc = "ready"
    BY <2>2, ReadyStays
  <2> QED
    BY <1>1, <1>2, <2>3 DEF Alive
<1>4. CASE DeadlockVictim(s)
  <2>1. PICK t \in Holders(s) : s \in Holders(t)
    BY <1>4 DEF DeadlockVictim
  <2>2. t \in Seeders /\ t # s /\ proc[s] \in Proc
    BY <2>1 DEF Holders, IInv, TypeOK
  <2>3. proc[t].added \in proc[s].own \/ proc[t].legacy = "marked"
    BY <2>1 DEF Holders
  <2>4. proc[t].added # NoKey \/ proc[t].legacy # "kept"
    BY <2>2, <2>3 DEF Proc
  <2>5. proc'[t].pc = "seed"
    BY <1>1, <2>2, <2>4 DEF Phases, InPhase
  <2> QED
    BY <1>1, <1>2, <2>2, <2>5 DEF Alive
<1> QED
  BY <1>3, <1>4

LEMMA TroubledBacked ==
  ASSUME IInv, Phases, Backed, [Next]_vars, ~disturbed', NEW r \in Replicas, Troubled(r)'
  PROVE  AllTables \subseteq tables' /\ Alive'
<1>0. r \in Seeders /\ proc \in [Seeders -> Proc]
  BY DEF Seeders, IInv, TypeOK
<1>1. ASSUME NEW s \in Seeders, Start(s)
      PROVE  AllTables \subseteq tables' /\ Alive'
  <2>1. proc' = [proc EXCEPT ![s] = IF s \in Replicas THEN Rollback("wait") ELSE Seeding(s)]
    BY <1>1 DEF Start, Rollback
  <2>2. proc'[s].pc \in {"wait", "seed"}
    BY <1>0, <2>1, RollbackInPhase, SeedingInPhase
  <2> QED
    BY <1>0, <1>1, <2>1, <2>2, OthersBacked DEF Start, Troubled, Overtaken
<1>2. ASSUME NEW s \in Seeders, Connect(s)
      PROVE  AllTables \subseteq tables' /\ Alive'
  <2>1. /\ proc[s].pc = "wait" /\ UNCHANGED tables
        /\ \/ proc' = [proc EXCEPT ![s].pc = "inspect"]
           \/ proc' = [proc EXCEPT ![s].tries = Tries(proc[s].tries)]
    BY <1>2 DEF Connect
  <2>2. proc'[s].pc \in {"wait", "inspect"} /\ \A t \in Seeders \ {s} : proc'[t] = proc[t]
    BY <1>0, <2>1 DEF Proc
  <2> QED
    BY <1>0, <2>1, <2>2, OthersBacked DEF Troubled, Overtaken
<1>3. ASSUME NEW s \in Seeders, Inspect(s)
      PROVE  AllTables \subseteq tables' /\ Alive'
  <2>1. /\ proc[s].pc = "inspect" /\ UNCHANGED tables
        /\ proc' = [proc EXCEPT ![s].pc = "create", ![s].missing = AllTables \ tables]
    BY <1>3 DEF Inspect
  <2>2. /\ proc'[s].pc = "create" /\ proc'[s].missing = AllTables \ tables
        /\ \A t \in Seeders \ {s} : proc'[t] = proc[t]
    BY <1>0, <2>1 DEF Proc
  <2> QED
    BY <1>0, <2>1, <2>2, OthersBacked DEF Troubled, Overtaken
<1>4. ASSUME NEW s \in Seeders, Create(s)
      PROVE  AllTables \subseteq tables' /\ Alive'
  <2>1. proc[s].pc = "create" /\ s \in Replicas
    BY <1>4 DEF Create, Phases, InPhase
  <2>2. CASE Overtaken(s)
    <3>1. proc' = [proc EXCEPT ![s] = Rollback("failed")] /\ UNCHANGED tables
      BY <1>4, <2>2 DEF Create, Overtaken, Fails
    <3> QED
      BY <1>0, <2>1, <2>2, <3>1, OthersBacked DEF Troubled
  <2>3. CASE ~Overtaken(s)
    <3>1. proc' = [proc EXCEPT ![s] = Seeding(s)] /\ tables' = tables \cup proc[s].missing
      BY <1>4, <2>1, <2>3 DEF Create, Overtaken
    <3>2. AllTables \subseteq tables \cup proc[s].missing
      BY <2>1 DEF IInv, Sound
    <3>3. proc'[s].pc = "seed"
      BY <1>0, <3>1, SeedingInPhase
    <3> QED
      BY <3>1, <3>2, <3>3 DEF Alive
  <2> QED
    BY <2>2, <2>3
<1>5. ASSUME NEW s \in Seeders, Look(s) \/ CommitSeed(s)
      PROVE  AllTables \subseteq tables' /\ Alive'
  <2>1. proc'[s].pc \in {"seed", "ready"} /\ \A t \in Seeders \ {s} : proc'[t] = proc[t]
    BY <1>0, <1>5, LookMoves, RollbackInPhase DEF CommitSeed
  <2> QED
    BY <1>0, <1>5, <2>1, OthersBacked DEF Look, CommitSeed, Troubled, Overtaken
<1>6. ASSUME NEW s \in Seeders, SeedFails(s) \/ DeadlockVictim(s)
      PROVE  AllTables \subseteq tables' /\ Alive'
  BY <1>6, FailsOfAnother
<1>7. ASSUME NEW s \in Seeders, Kill(s) PROVE FALSE
  BY <1>7 DEF Kill
<1>8. CASE Upgrade
  <2>1. ~\E s \in Seeders : Running(s)
    BY <1>8 DEF Upgrade
  <2>2. proc[r].pc = "failed" /\ UNCHANGED proc /\ tables \subseteq tables'
    BY <1>0, <1>8, <2>1 DEF Upgrade, Troubled, Overtaken, Running
  <2> QED
    BY <2>2 DEF Backed, Troubled, Alive
<1>9. CASE DatabaseComes \/ PublishLooks \/ PublishCommits \/ UNCHANGED vars
  <2>1. UNCHANGED <<proc, tables>>
    BY <1>9 DEF DatabaseComes, PublishLooks, PublishCommits, vars
  <2> QED
    BY <2>1 DEF Backed, Troubled, Overtaken, Alive
<1> QED
  BY <1>1, <1>2, <1>3, <1>4, <1>5, <1>6, <1>7, <1>8, <1>9 DEF Next, SeederStep

LEMMA UndisturbedBackedHolds == Spec => [](IInv /\ Phases /\ UndisturbedBacked)
<1>1. Init => UndisturbedBacked
  <2> SUFFICES ASSUME Init PROVE Backed
    BY DEF UndisturbedBacked
  <2>1. \A s \in Seeders : proc[s].pc = "down" /\ proc[s].added = NoKey
    BY DEF Init, Down
  <2> QED
    BY <2>1 DEF Backed, Conflicts, Troubled, Overtaken, Seeders
<1>2. IInv /\ IInv' /\ Phases /\ UndisturbedBacked /\ [Next]_vars => UndisturbedBacked'
  <2> SUFFICES ASSUME IInv, Phases, UndisturbedBacked, [Next]_vars, ~disturbed'
               PROVE  Backed'
    BY DEF UndisturbedBacked
  <2>1. Backed
    BY DisturbedStays DEF UndisturbedBacked
  <2> QED
    BY <2>1, ConflictsBacked, TroubledBacked DEF Backed
<1>3. IInv /\ Phases /\ [Next]_vars => Phases'
  BY PhasesStep
<1> QED
  BY <1>1, <1>2, <1>3, PhasesInit, IInvHolds, PTL DEF Spec

\* However many seeders start together, on whatever database and in whatever order each
\* writes the tools: unless something else disturbed them, a replica that failed leaves
\* one behind that is up, or still seeding.
THEOREM OneSucceedsAlways == Spec => []OneSucceeds
<1>1. UndisturbedBacked => OneSucceeds
  BY DEF UndisturbedBacked, Backed, OneSucceeds, Troubled, Alive, Running
<1> QED
  BY <1>1, UndisturbedBackedHolds, PTL
=============================================================================

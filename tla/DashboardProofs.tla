-------------------------- MODULE DashboardProofs --------------------------
(***************************************************************************)
(* What the pages show of their jobs, for every number of jobs, stages,    *)
(* and requests under way, and every limit of the lists.                   *)
(*                                                                         *)
(* Two of the lists are folds.  The induction theorems of the library      *)
(* cannot be instantiated here, so that Induction states the principle for *)
(* a set of numbers, from the least element of its complement.             *)
(***************************************************************************)
EXTENDS Dashboard, SequenceTheorems, WellFoundedInduction, TLAPS

-----------------------------------------------------------------------------
(* Induction.                                                              *)

\* A set of natural numbers that is not empty has a least element.
LEMMA Least ==
  ASSUME NEW S \in SUBSET Nat, S # {}
  PROVE  \E n \in S : \A m \in S : n <= m
<1> DEFINE R == {p \in Nat \X Nat : p[1] < p[2]}
<1>1. IsWellFoundedOn(R, Nat)
  BY NatLessThanWellFounded DEF OpToRel
<1>2. PICK n \in S : \A m \in S : <<m, n>> \notin R
  BY <1>1, WFMin
<1>3. ASSUME NEW m \in S PROVE n <= m
  <2>1. m \in Nat /\ n \in Nat /\ ~(m < n)
    BY <1>2
  <2> QED BY <2>1
<1> QED BY <1>3

\* A set that contains 0, and with each number the next, contains them all.
LEMMA Induction ==
  ASSUME NEW S, 0 \in S, \A k \in Nat : k \in S => k + 1 \in S
  PROVE  Nat \subseteq S
<1> SUFFICES ASSUME Nat \ S # {} PROVE FALSE
  OBVIOUS
<1>1. PICK n \in Nat \ S : \A m \in Nat \ S : n <= m
  BY Least
<1>2. n - 1 \in Nat /\ n - 1 \notin Nat \ S /\ (n - 1) + 1 = n
  BY <1>1
<1> QED BY <1>1, <1>2

\* The greatest number of a set that goes up to k.
LEMMA MaxIsEnd ==
  ASSUME NEW k \in Nat, NEW s \in SUBSET (1..k), k \in s
  PROVE  Max(s) = k
<1>1. \A y \in s : y \in Int /\ k >= y
  OBVIOUS
<1>2. \A x \in s : (\A y \in s : x >= y) => x = k
  BY <1>1
<1> QED BY <1>1, <1>2 DEF Max

LEMMA MaxOfInterval ==
  ASSUME NEW k \in Nat \ {0}
  PROVE  Max(1..k) = k /\ (1..k) \ {k} = 1..(k - 1)
BY MaxIsEnd

\* What a fold holds after k elements, along the beginnings of a sequence.
LEMMA AlongIntervals ==
  ASSUME NEW K, NEW n \in Nat, NEW g, g[{}] \in K,
         \A k \in 1..n : g[1..(k - 1)] \in K => g[1..k] \in K
  PROVE  g[1..n] \in K
<1> DEFINE S == {k \in Nat : k <= n => g[1..k] \in K}
<1>1. 0 \in S
  <2>1. 1..0 = {}
    OBVIOUS
  <2> QED BY <2>1
<1>2. ASSUME NEW k \in Nat, k \in S PROVE k + 1 \in S
  <2>1. (k + 1) - 1 = k
    OBVIOUS
  <2> QED BY <1>2, <2>1
<1> HIDE DEF S
<1>3. n \in S
  BY <1>1, <1>2, Induction
<1> QED BY <1>3 DEF S

-----------------------------------------------------------------------------
(* The folds.                                                              *)

FoldsTracked(g, base, list, n) ==
  g = [s \in SUBSET (1..n) |->
         IF s = {} THEN base ELSE AddTrackedJobId(g[s \ {Max(s)}], list[Max(s)])]

\* The recursion of a fold of AddTrackedJobId has a solution.
LEMMA TrackedFoldExists ==
  ASSUME NEW base, NEW list, NEW n \in Nat
  PROVE  \E g : FoldsTracked(g, base, list, n)
<1> DEFINE S == {k \in Nat : \E g : FoldsTracked(g, base, list, k)}
<1>1. 0 \in S
  <2> DEFINE g == [s \in SUBSET (1..0) |-> base]
  <2>1. \A s \in SUBSET (1..0) : s = {}
    OBVIOUS
  <2>2. FoldsTracked(g, base, list, 0)
    BY <2>1 DEF FoldsTracked
  <2> QED BY <2>2
<1>2. ASSUME NEW k \in Nat, k \in S PROVE k + 1 \in S
  <2>1. PICK g : FoldsTracked(g, base, list, k)
    BY <1>2
  <2> DEFINE h == [s \in SUBSET (1..(k + 1)) |->
                     IF s \in SUBSET (1..k) THEN g[s]
                     ELSE IF s = {} THEN base
                     ELSE AddTrackedJobId(g[s \ {Max(s)}], list[Max(s)])]
  <2>2. ASSUME NEW s \in SUBSET (1..(k + 1)), s # {}
        PROVE  h[s] = AddTrackedJobId(h[s \ {Max(s)}], list[Max(s)])
    <3>1. CASE s \in SUBSET (1..k)
      <4>1. s \ {Max(s)} \in SUBSET (1..k) /\ s \ {Max(s)} \in SUBSET (1..(k + 1))
        BY <3>1
      <4>2. h[s \ {Max(s)}] = g[s \ {Max(s)}] /\ h[s] = g[s]
        BY <3>1, <4>1
      <4>3. g[s] = AddTrackedJobId(g[s \ {Max(s)}], list[Max(s)])
        BY <2>1, <2>2, <3>1 DEF FoldsTracked
      <4> QED BY <4>2, <4>3
    <3>2. CASE s \notin SUBSET (1..k)
      <4>1. k + 1 \in s
        BY <3>2
      <4>2. Max(s) = k + 1
        BY <4>1, MaxIsEnd
      <4>3. s \ {Max(s)} \in SUBSET (1..k) /\ s \ {Max(s)} \in SUBSET (1..(k + 1))
        BY <4>2
      <4> QED BY <3>2, <4>3, <2>2
    <3> QED BY <3>1, <3>2
  <2>3. h[{}] = base
    BY <2>1 DEF FoldsTracked
  <2>4. h = [s \in SUBSET (1..(k + 1)) |-> h[s]]
    OBVIOUS
  <2> HIDE DEF h
  <2>5. \A s \in SUBSET (1..(k + 1)) :
          h[s] = IF s = {} THEN base
                 ELSE AddTrackedJobId(h[s \ {Max(s)}], list[Max(s)])
    BY <2>2, <2>3
  <2>6. FoldsTracked(h, base, list, k + 1)
    BY <2>4, <2>5 DEF FoldsTracked
  <2> QED BY <2>6
<1>3. n \in S
  <2> HIDE DEF S
  <2> QED BY <1>1, <1>2, Induction
<1> QED BY <1>3

\* What holds of the tracked jobs before, and is kept by each job that is added, holds
\* after the listed ones have been added.
LEMMA TrackedFold ==
  ASSUME NEW K, NEW J, NEW base \in K, NEW list \in Seq(J),
         \A ids \in K, j \in J : AddTrackedJobId(ids, j) \in K
  PROVE  FoldLeft(AddTrackedJobId, base, list) \in K
<1> DEFINE n == Len(list)
           g == CHOOSE f : FoldsTracked(f, base, list, n)
<1>1. n \in Nat /\ DOMAIN list = 1..n /\ \A i \in 1..n : list[i] \in J
  BY LenProperties, ElementOfSeq
<1>2. FoldLeft(AddTrackedJobId, base, list) = g[1..n]
  BY <1>1 DEF FoldLeft, MapThenFoldSet, FoldsTracked
<1>3. \E f : FoldsTracked(f, base, list, n)
  BY <1>1, TrackedFoldExists
<1>4. FoldsTracked(g, base, list, n)
  BY <1>3
<1> HIDE DEF g
<1>5. g[{}] \in K
  BY <1>4 DEF FoldsTracked
<1>6. ASSUME NEW k \in 1..n, g[1..(k - 1)] \in K PROVE g[1..k] \in K
  <2>1. /\ k \in Nat \ {0} /\ list[k] \in J
        /\ 1..k \subseteq 1..n /\ k \in 1..k
    BY <1>1
  <2>2. Max(1..k) = k /\ (1..k) \ {k} = 1..(k - 1)
    BY <2>1, MaxOfInterval
  <2>3. g[1..k] = AddTrackedJobId(g[1..(k - 1)], list[k])
    BY <1>4, <2>1, <2>2 DEF FoldsTracked
  <2> QED BY <1>6, <2>1, <2>3
<1> QED BY <1>1, <1>2, <1>5, <1>6, AlongIntervals

FoldsDeduped(g, answers, base, list, n) ==
  g = [s \in SUBSET (1..n) |->
         IF s = {} THEN base ELSE Put(answers, g[s \ {Max(s)}], list[Max(s)])]

\* So has the recursion of a fold of Put.
LEMMA DedupedFoldExists ==
  ASSUME NEW answers, NEW base, NEW list, NEW n \in Nat
  PROVE  \E g : FoldsDeduped(g, answers, base, list, n)
<1> DEFINE S == {k \in Nat : \E g : FoldsDeduped(g, answers, base, list, k)}
<1>1. 0 \in S
  <2> DEFINE g == [s \in SUBSET (1..0) |-> base]
  <2>1. \A s \in SUBSET (1..0) : s = {}
    OBVIOUS
  <2>2. FoldsDeduped(g, answers, base, list, 0)
    BY <2>1 DEF FoldsDeduped
  <2> QED BY <2>2
<1>2. ASSUME NEW k \in Nat, k \in S PROVE k + 1 \in S
  <2>1. PICK g : FoldsDeduped(g, answers, base, list, k)
    BY <1>2
  <2> DEFINE h == [s \in SUBSET (1..(k + 1)) |->
                     IF s \in SUBSET (1..k) THEN g[s]
                     ELSE IF s = {} THEN base
                     ELSE Put(answers, g[s \ {Max(s)}], list[Max(s)])]
  <2>2. ASSUME NEW s \in SUBSET (1..(k + 1)), s # {}
        PROVE  h[s] = Put(answers, h[s \ {Max(s)}], list[Max(s)])
    <3>1. CASE s \in SUBSET (1..k)
      <4>1. s \ {Max(s)} \in SUBSET (1..k) /\ s \ {Max(s)} \in SUBSET (1..(k + 1))
        BY <3>1
      <4>2. h[s \ {Max(s)}] = g[s \ {Max(s)}] /\ h[s] = g[s]
        BY <3>1, <4>1
      <4>3. g[s] = Put(answers, g[s \ {Max(s)}], list[Max(s)])
        BY <2>1, <2>2, <3>1 DEF FoldsDeduped
      <4> QED BY <4>2, <4>3
    <3>2. CASE s \notin SUBSET (1..k)
      <4>1. k + 1 \in s
        BY <3>2
      <4>2. Max(s) = k + 1
        BY <4>1, MaxIsEnd
      <4>3. s \ {Max(s)} \in SUBSET (1..k) /\ s \ {Max(s)} \in SUBSET (1..(k + 1))
        BY <4>2
      <4> QED BY <3>2, <4>3, <2>2
    <3> QED BY <3>1, <3>2
  <2>3. h[{}] = base
    BY <2>1 DEF FoldsDeduped
  <2>4. h = [s \in SUBSET (1..(k + 1)) |-> h[s]]
    OBVIOUS
  <2> HIDE DEF h
  <2>5. \A s \in SUBSET (1..(k + 1)) :
          h[s] = IF s = {} THEN base
                 ELSE Put(answers, h[s \ {Max(s)}], list[Max(s)])
    BY <2>2, <2>3
  <2>6. FoldsDeduped(h, answers, base, list, k + 1)
    BY <2>4, <2>5 DEF FoldsDeduped
  <2> QED BY <2>6
<1>3. n \in S
  <2> HIDE DEF S
  <2> QED BY <1>1, <1>2, Induction
<1> QED BY <1>3

\* The same for the jobs that are put into a Map.
LEMMA DedupedFold ==
  ASSUME NEW K, NEW J, NEW answers, NEW base \in K, NEW list \in Seq(J),
         \A ids \in K, j \in J : Put(answers, ids, j) \in K
  PROVE  Deduped(answers, base, list) \in K
<1> DEFINE n == Len(list)
           g == CHOOSE f : FoldsDeduped(f, answers, base, list, n)
<1>1. n \in Nat /\ DOMAIN list = 1..n /\ \A i \in 1..n : list[i] \in J
  BY LenProperties, ElementOfSeq
<1>2. Deduped(answers, base, list) = g[1..n]
  BY <1>1 DEF Deduped, FoldLeft, MapThenFoldSet, FoldsDeduped
<1>3. \E f : FoldsDeduped(f, answers, base, list, n)
  BY <1>1, DedupedFoldExists
<1>4. FoldsDeduped(g, answers, base, list, n)
  BY <1>3
<1> HIDE DEF g
<1>5. g[{}] \in K
  BY <1>4 DEF FoldsDeduped
<1>6. ASSUME NEW k \in 1..n, g[1..(k - 1)] \in K PROVE g[1..k] \in K
  <2>1. /\ k \in Nat \ {0} /\ list[k] \in J
        /\ 1..k \subseteq 1..n /\ k \in 1..k
    BY <1>1
  <2>2. Max(1..k) = k /\ (1..k) \ {k} = 1..(k - 1)
    BY <2>1, MaxOfInterval
  <2>3. g[1..k] = Put(answers, g[1..(k - 1)], list[k])
    BY <1>4, <2>1, <2>2 DEF FoldsDeduped
  <2> QED BY <1>6, <2>1, <2>3
<1> QED BY <1>1, <1>2, <1>5, <1>6, AlongIntervals

-----------------------------------------------------------------------------
(* The invariant.                                                          *)

\* Jobs that were created; phases by job.
Created == {j \in Jobs : job[j] # NoPhase}
PhasesOf(D) == [D -> Phase]

\* A variable of its kind, and the jobs a browser has heard of are jobs that were
\* created.
Kinds ==
  /\ job \in [Jobs -> Phase \cup {NoPhase}]
  /\ made \in Seq(Created)
  /\ page \in {"integrate", "feed"}
  /\ view \in View /\ (view.form \in Jobs => view.form \in Created)
  /\ polls \in [Slots -> Request \cup {NoRequest}] /\ crossed \in BOOLEAN
  /\ tracked \in Seq(Created) /\ Len(tracked) <= Limit

LoadOK(load) ==
  /\ load \in [pc: {"idle", "list", "status"}, list: Seq(Created),
               answers: UNION {PhasesOf(D) : D \in SUBSET Created}, waiting: SUBSET Created]
  /\ Range(load.list) \subseteq DOMAIN load.answers
  /\ load.pc # "status" => load = [NoLoad EXCEPT !.pc = load.pc]

LoadsOK ==
  /\ loads \in [Loads -> Load]
  /\ \A l \in Loads : LoadOK(loads[l])
  /\ cards \in UNION {PhasesOf(D) : D \in SUBSET Created}

\* The integrate page asks only for the job it shows the name of; until a later job
\* came while a request was under way, whatever it has and awaits is about that one.
PollsOwnJob == view.polling \in {view.id, NoJob}
InStep ==
  ~crossed =>
    /\ view.shown # NoShown => view.shown.job = view.id
    /\ \A i \in Slots : polls[i] # NoRequest => polls[i].job = view.id

\* The feed loads once at a time.  From what it shows, over what it has been told since,
\* to what is the case, a job only moves on.
OneLoad == \A k, l \in Loads : loads[k].pc # "idle" /\ loads[l].pc # "idle" => k = l
Ahead(older, newer) == \A j \in DOMAIN older \cap DOMAIN newer : CardMovesOn(older[j], newer[j])
Onward ==
  /\ Ahead(cards, job)
  /\ \A l \in Loads : loads[l].pc = "status" => Ahead(cards, loads[l].answers) /\ Ahead(loads[l].answers, job)

IInv == Kinds /\ LoadsOK /\ PollsOwnJob /\ InStep /\ OneLoad /\ Onward

-----------------------------------------------------------------------------
(* Cards.                                                                  *)

Places == <<"queued">> \o Stages

\* The stages have one place each, after "queued".
LEMMA PlacesDiffer ==
  /\ Len(Stages) \in Nat \ {0} /\ DOMAIN Stages = 1..Len(Stages)
  /\ Places[1] = "queued"
  /\ \A i \in 1..Len(Stages) : Places[i + 1] = Stages[i]
  /\ \A i, k \in 0..Len(Stages) : Places[i + 1] = Places[k + 1] => i = k
<1>1. Stages \in Seq(STRING) /\ Len(Stages) \in Nat \ {0} /\ DOMAIN Stages = 1..Len(Stages)
  BY DashboardAssumption, LenProperties
<1>2. Stages \in Seq(StageNames) /\ <<"queued">> \in Seq(StageNames)
  <2>1. \A i \in 1..Len(Stages) : Stages[i] \in StageNames
    BY <1>1 DEF StageNames
  <2>2. Stages = [i \in 1..Len(Stages) |-> Stages[i]]
    BY <1>1, LenProperties
  <2>3. Stages \in Seq(StageNames)
    BY <1>1, <2>1, <2>2, IsASeq
  <2>4. "queued" \in StageNames
    BY DEF StageNames
  <2> QED BY <2>3, <2>4
<1>3. /\ Places[1] = "queued"
      /\ \A i \in 1..Len(Stages) : Places[i + 1] = Stages[i]
  <2>1. Len(<<"queued">>) = 1 /\ <<"queued">>[1] = "queued"
    OBVIOUS
  <2> QED BY <1>1, <1>2, <2>1, ConcatProperties DEF Places
<1>4. \A i, k \in 1..Len(Stages) : Stages[i] = Stages[k] => i = k
  BY <1>1, DashboardAssumption DEF IsInjective
<1>5. \A i \in 1..Len(Stages) : Stages[i] # "queued"
  BY DashboardAssumption DEF Contains
<1>6. ASSUME NEW i \in 0..Len(Stages), NEW k \in 0..Len(Stages), Places[i + 1] = Places[k + 1]
      PROVE  i = k
  <2>1. CASE i = 0 /\ k = 0
    BY <2>1
  <2>2. CASE i = 0 /\ k # 0
    <3>1. k \in 1..Len(Stages) /\ Places[i + 1] = "queued"
      BY <2>2, <1>1, <1>3
    <3> QED BY <3>1, <1>3, <1>5, <1>6
  <2>3. CASE i # 0 /\ k = 0
    <3>1. i \in 1..Len(Stages) /\ Places[k + 1] = "queued"
      BY <2>3, <1>1, <1>3
    <3> QED BY <3>1, <1>3, <1>5, <1>6
  <2>4. CASE i # 0 /\ k # 0
    <3>1. i \in 1..Len(Stages) /\ k \in 1..Len(Stages)
      BY <2>4, <1>1
    <3> QED BY <3>1, <1>3, <1>4, <1>6
  <2> QED BY <2>1, <2>2, <2>3, <2>4
<1> QED BY <1>1, <1>3, <1>6

\* The active step of a job that is not complete is the place of its stage.
LEMMA ActiveIsPlace ==
  ASSUME NEW p \in Phase, p.status # "complete", NEW i \in 0..Len(Stages), Places[i + 1] = p.stage
  PROVE  ActiveStageIndex(p) = i
<1>1. \A k \in 0..Len(Stages) : Places[k + 1] = p.stage => k = i
  BY PlacesDiffer
<1> QED BY <1>1 DEF ActiveStageIndex, Places

\* Every phase has a place.
LEMMA PhaseHasPlace ==
  ASSUME NEW p \in Phase
  PROVE  \E i \in 0..Len(Stages) : Places[i + 1] = p.stage
<1>1. p.stage \in StageNames
  BY DEF Phase
<1>2. CASE p.stage = "queued"
  <2>1. 0 \in 0..Len(Stages) /\ Places[0 + 1] = "queued"
    BY PlacesDiffer
  <2> QED BY <2>1, <1>2
<1>3. ASSUME NEW i \in DOMAIN Stages, p.stage = Stages[i] PROVE \E k \in 0..Len(Stages) : Places[k + 1] = p.stage
  <2>1. i \in 0..Len(Stages) /\ Places[i + 1] = p.stage
    BY <1>3, PlacesDiffer
  <2> QED BY <2>1
<1> QED BY <1>1, <1>2, <1>3 DEF StageNames

\* A job that was just created.
LEMMA QueuedIsPhase == Queued \in Phase
<1>1. 0 \in 0..MaxLapses
  BY DashboardAssumption
<1> QED BY <1>1 DEF Queued, Phase, StageNames

\* A step is done once the job is complete or past it.
LEMMA DoneIsPast ==
  ASSUME NEW p, NEW step
  PROVE  StepState(step, p) = "done" <=> p.status = "complete" \/ step < ActiveStageIndex(p)
BY DEF StepState

\* A card moves on when it stays, and moves on twice when it moves on from where it
\* had moved on to.
LEMMA MovesOnReflexive == \A p : CardMovesOn(p, p)
BY DEF CardMovesOn

LEMMA MovesOnTransitive ==
  ASSUME NEW p \in Phase, NEW q \in Phase, NEW r \in Phase, CardMovesOn(p, q), CardMovesOn(q, r)
  PROVE  CardMovesOn(p, r)
<1>1. p.lapses \in Int /\ q.lapses \in Int /\ r.lapses \in Int
  BY DashboardAssumption DEF Phase
<1>2. CASE q.lapses > p.lapses \/ r.lapses > q.lapses
  <2>1. r.lapses > p.lapses
    BY <1>1, <1>2 DEF CardMovesOn
  <2> QED BY <2>1 DEF CardMovesOn
<1>3. CASE ~(q.lapses > p.lapses \/ r.lapses > q.lapses)
  BY <1>3 DEF CardMovesOn
<1> QED BY <1>2, <1>3

\* A job moves from phase to phase in the order of a run, and its card with it.
LEMMA InOrderMovesOn ==
  ASSUME NEW p \in Phase, NEW q \in InOrder(p)
  PROVE  q \in Phase /\ CardMovesOn(p, q)
<1>t. /\ p.status \in {"queued", "running", "complete", "failed"} /\ p.stage \in StageNames
      /\ p.lapses \in 0..MaxLapses
      /\ p = [status |-> p.status, stage |-> p.stage, lapses |-> p.lapses]
  BY DEF Phase
<1> DEFINE Past(x, y) == \A step \in DOMAIN Stages :
                           StepState(step, x) = "done" => StepState(step, y) = "done"
<1>1. CASE \/ p.status = "queued" /\ q = [p EXCEPT !.status = "running"]
           \/ p.status = "running" /\ q = [p EXCEPT !.status = "failed"]
  <2>1. /\ q \in Phase /\ q.status # "complete" /\ q.stage = p.stage /\ q.lapses = p.lapses
        /\ p.status # "complete"
    BY <1>1, <1>t DEF Phase
  <2>2. PICK i \in 0..Len(Stages) : Places[i + 1] = p.stage
    BY PhaseHasPlace
  <2>3. ActiveStageIndex(p) = i /\ ActiveStageIndex(q) = i
    BY <2>1, <2>2, ActiveIsPlace
  <2>4. Past(p, q)
    BY <2>1, <2>3, DoneIsPast
  <2> QED BY <1>1, <2>1, <2>4 DEF CardMovesOn, Final
<1>2. CASE p.status = "running" /\ q = [p EXCEPT !.status = "complete"]
  <2>1. q \in Phase /\ q.status = "complete" /\ q.lapses = p.lapses
    BY <1>2, <1>t DEF Phase
  <2>2. Past(p, q)
    BY <2>1, DoneIsPast
  <2> QED BY <1>2, <2>1, <2>2 DEF CardMovesOn, Final
<1>3. ASSUME p.status = "running", NEW k \in 1..Len(Stages), Places[k] = p.stage,
             q = [p EXCEPT !.stage = Stages[k]]
      PROVE  q \in Phase /\ CardMovesOn(p, q)
  <2>1. /\ Places[k + 1] = Stages[k] /\ k \in DOMAIN Stages
        /\ k - 1 \in 0..Len(Stages) /\ (k - 1) + 1 = k /\ k \in 0..Len(Stages)
    BY PlacesDiffer
  <2>2. q \in Phase /\ q.status = "running" /\ q.stage = Places[k + 1] /\ q.lapses = p.lapses
    BY <1>3, <1>t, <2>1 DEF Phase, StageNames
  <2>3. ActiveStageIndex(p) = k - 1 /\ ActiveStageIndex(q) = k
    BY <1>3, <2>1, <2>2, ActiveIsPlace
  <2>4. \A step \in DOMAIN Stages : step < k - 1 => step < k
    BY PlacesDiffer
  <2>5. Past(p, q)
    BY <1>3, <2>3, <2>4, DoneIsPast
  <2> QED BY <1>3, <2>2, <2>5 DEF CardMovesOn, Final
<1>4. CASE p.status = "queued"
  <2>1. q = [p EXCEPT !.status = "running"]
    BY <1>4 DEF InOrder
  <2> QED BY <1>1, <1>4, <2>1
<1>5. CASE p.status = "running"
  <2>1. \/ q = [p EXCEPT !.status = "failed"] \/ q = [p EXCEPT !.status = "complete"]
        \/ \E next \in StageAfter(p.stage) : q = [p EXCEPT !.stage = next]
    BY <1>5 DEF InOrder
  <2>2. ASSUME NEW next \in StageAfter(p.stage), q = [p EXCEPT !.stage = next]
        PROVE  \E k \in 1..Len(Stages) : Places[k] = p.stage /\ q = [p EXCEPT !.stage = Stages[k]]
    BY <2>2, PlacesDiffer DEF StageAfter, Places
  <2> QED BY <1>1, <1>2, <1>3, <1>5, <2>1, <2>2
<1> QED BY <1>4, <1>5, <1>t DEF InOrder

\* When a job leaves that order, everything that is known of it is known from before.
LEMMA JobsMoveOn ==
  ASSUME NEW j \in Jobs, job[j] \in Phase, NEW q \in NextPhases(j)
  PROVE  q \in Phase /\ CardMovesOn(job[j], q)
<1>1. CASE q \in InOrder(job[j])
  BY <1>1, InOrderMovesOn
<1>2. CASE q \in Lapse(job[j])
  <2>1. job[j].lapses \in Int /\ q \in Phase /\ q.lapses = job[j].lapses + 1
    BY <1>2, DashboardAssumption DEF Phase, Lapse
  <2>2. q.lapses > job[j].lapses
    BY <2>1
  <2> QED BY <2>1, <2>2 DEF CardMovesOn
<1> QED BY <1>1, <1>2 DEF NextPhases

-----------------------------------------------------------------------------
(* Lists.                                                                  *)

\* The beginning of a list is a list of at most Limit of its elements.
LEMMA FirstOf ==
  ASSUME NEW S, NEW ids \in Seq(S)
  PROVE  First(ids) \in Seq(S) /\ Len(First(ids)) <= Limit
<1> DEFINE n == IF Len(ids) < Limit THEN Len(ids) ELSE Limit
<1>1. Len(ids) \in Nat /\ Limit \in Nat
  BY LenProperties, DashboardAssumption
<1>2. n \in 0..Len(ids) /\ n <= Limit
  BY <1>1
<1> HIDE DEF n
<1>3. /\ SubSeq(ids, 1, n) \in Seq(S)
      /\ Len(SubSeq(ids, 1, n)) = n
  <2>1. 1 \in Int /\ n \in Int /\ \A i \in 1..n : ids[i] \in S
    BY <1>1, <1>2, ElementOfSeq
  <2>2. /\ SubSeq(ids, 1, n) \in Seq(S)
        /\ Len(SubSeq(ids, 1, n)) = IF 1 <= n THEN n - 1 + 1 ELSE 0
    BY <2>1, SubSeqProperties
  <2> QED BY <2>2, <1>2
<1> QED BY <1>2, <1>3 DEF First, n

\* The elements of a list.
LEMMA RangeOfList ==
  ASSUME NEW S, NEW ids \in Seq(S)
  PROVE  Range(ids) \subseteq S
BY ElementOfSeq, LenProperties DEF Range

LEMMA ListOfRange ==
  ASSUME NEW S, NEW T, NEW ids \in Seq(S), Range(ids) \subseteq T
  PROVE  ids \in Seq(T)
<1>1. Len(ids) \in Nat /\ ids = [i \in 1..Len(ids) |-> ids[i]] /\ DOMAIN ids = 1..Len(ids)
  BY LenProperties
<1>2. \A i \in 1..Len(ids) : ids[i] \in T
  BY <1>1 DEF Range
<1> QED BY <1>1, <1>2, IsASeq

\* A job that is added is the first of a list that is no longer than before.
LEMMA AddTracked ==
  ASSUME NEW S, NEW ids \in Seq(S), Len(ids) <= Limit, NEW j \in S
  PROVE  AddTrackedJobId(ids, j) \in Seq(S) /\ Len(AddTrackedJobId(ids, j)) <= Limit
<1>1. <<j>> \o ids \in Seq(S)
  <2>1. <<j>> \in Seq(S)
    OBVIOUS
  <2> QED BY <2>1, ConcatProperties
<1> QED BY <1>1, FirstOf DEF AddTrackedJobId

\* So are the tracked jobs after a listing.
LEMMA TrackAll ==
  ASSUME NEW S, NEW ids \in Seq(S), Len(ids) <= Limit, NEW list \in Seq(S)
  PROVE  LET all == FoldLeft(AddTrackedJobId, ids, list)
         IN  all \in Seq(S) /\ Len(all) <= Limit
<1> DEFINE K == {t \in Seq(S) : Len(t) <= Limit}
<1>1. ids \in K
  OBVIOUS
<1>2. \A t \in K, j \in S : AddTrackedJobId(t, j) \in K
  BY AddTracked
<1> HIDE DEF K
<1>3. FoldLeft(AddTrackedJobId, ids, list) \in K
  BY <1>1, <1>2, TrackedFold
<1> QED BY <1>3 DEF K

\* What a Map of answers holds are answers, if the listed jobs have one.
LEMMA DedupedAnswered ==
  ASSUME NEW answers, NEW S, NEW list \in Seq(S), NEW ids \in Seq(S),
         Range(list) \subseteq DOMAIN answers
  PROVE  Range(First(Deduped(answers, list, ids))) \subseteq DOMAIN answers
<1> DEFINE K == Seq(DOMAIN answers)
<1>1. list \in K
  BY ListOfRange
<1>2. ASSUME NEW t \in K, NEW j \in S PROVE Put(answers, t, j) \in K
  BY AppendProperties DEF Put
<1> HIDE DEF K
<1>3. Deduped(answers, list, ids) \in K
  BY <1>1, <1>2, DedupedFold
<1> QED BY <1>3, FirstOf, RangeOfList DEF K

\* The newest jobs first.
LEMMA ReverseOf ==
  ASSUME NEW S, NEW ids \in Seq(S)
  PROVE  Reverse(ids) \in Seq(S)
<1>1. Len(ids) \in Nat /\ \A i \in 1..Len(ids) : ids[i] \in S
  BY LenProperties, ElementOfSeq
<1>2. \A i \in 1..Len(ids) : (Len(ids) - i) + 1 \in 1..Len(ids)
  BY <1>1
<1>3. \A i \in 1..Len(ids) : ids[(Len(ids) - i) + 1] \in S
  BY <1>1, <1>2
<1> QED BY <1>1, <1>3, IsASeq DEF Reverse

-----------------------------------------------------------------------------
(* The steps.                                                              *)

\* A browser that has just been opened.
LEMMA NoLoadOK == LoadOK(NoLoad) /\ NoLoad \in Load /\ Empty \in UNION {PhasesOf(D) : D \in SUBSET Created}
<1>1. DOMAIN Empty = {} /\ Empty \in PhasesOf({}) /\ Empty \in [{} -> Phase]
  BY DEF Empty, PhasesOf
<1>2. {} \in SUBSET Created /\ {} \in SUBSET Jobs /\ Range(<<>>) = {}
  BY DEF Range
<1>3. NoLoad \in Load
  BY <1>1, <1>2 DEF Load, NoLoad
<1>4. LoadOK(NoLoad)
  BY <1>1, <1>2 DEF LoadOK, NoLoad
<1> QED BY <1>1, <1>2, <1>3, <1>4

LEMMA InitEstablishes == Init => IInv
<1> SUFFICES ASSUME Init PROVE IInv
  OBVIOUS
<1>1. Kinds
  <2>1. Blank \in View /\ Blank.form \notin Jobs
    BY DashboardAssumption DEF Blank, View
  <2>2. Len(<<>>) = 0 /\ 0 <= Limit
    BY DashboardAssumption
  <2>3. view = Blank /\ tracked = <<>> /\ made = <<>>
    BY DEF Init
  <2>4. view \in View /\ view.form \notin Jobs
    BY <2>1, <2>3
  <2>5. made \in Seq(Created) /\ tracked \in Seq(Created) /\ Len(tracked) <= Limit
    BY <2>2, <2>3, EmptySeq
  <2> QED BY <2>4, <2>5 DEF Init, Kinds
<1>2. LoadsOK
  BY NoLoadOK DEF Init, LoadsOK
<1>3. PollsOwnJob /\ InStep
  BY DEF Init, Blank, PollsOwnJob, InStep
<1>4. OneLoad /\ Onward
  BY DEF Init, NoLoad, Empty, OneLoad, Onward, Ahead
<1> QED BY <1>1, <1>2, <1>3, <1>4 DEF IInv

\* The jobs move on: what a browser has seen of them is behind them all the more.
LEMMA JobsStep ==
  ASSUME IInv, UNCHANGED <<page, polls, crossed, tracked, feedVars>>,
         job' \in [Jobs -> Phase \cup {NoPhase}], made' \in Seq(Created'),
         \A j \in Created : j \in Created' /\ CardMovesOn(job[j], job'[j]),
         \/ view' = view
         \/ \E j \in Created' : view' = [view EXCEPT !.form = j]
  PROVE  IInv'
<1> USE DEF feedVars
<1>c. Created \subseteq Created' /\ Created' \subseteq Jobs
  BY DEF Created
<1>k. Kinds /\ LoadsOK /\ PollsOwnJob /\ InStep /\ OneLoad /\ Onward
  BY DEF IInv
<1>v. /\ view' \in View /\ (view'.form \in Jobs => view'.form \in Created')
      /\ view'.id = view.id /\ view'.shown = view.shown /\ view'.polling = view.polling
  BY <1>k, <1>c DEF Kinds, View
<1>1. Kinds'
  <2>1. tracked \in Seq(Created')
    BY <1>c, <1>k, SeqMonotonic DEF Kinds
  <2> QED BY <1>k, <1>v, <2>1 DEF Kinds
<1>2. LoadsOK'
  <2>1. ASSUME NEW l \in Loads PROVE LoadOK(loads[l])'
    <3>1. loads[l] \in [pc: {"idle", "list", "status"}, list: Seq(Created),
                        answers: UNION {PhasesOf(D) : D \in SUBSET Created}, waiting: SUBSET Created]
      BY <1>k DEF LoadsOK, LoadOK
    <3>2. Seq(Created) \subseteq Seq(Created')
      BY <1>c, SeqMonotonic
    <3>3. UNION {PhasesOf(D) : D \in SUBSET Created} \subseteq UNION {PhasesOf(D) : D \in SUBSET Created'}
      BY <1>c
    <3>4. loads[l] \in [pc: {"idle", "list", "status"}, list: Seq(Created'),
                        answers: UNION {PhasesOf(D) : D \in SUBSET Created'}, waiting: SUBSET Created']
      BY <3>1, <3>2, <3>3, <1>c
    <3> QED BY <3>4, <1>k DEF LoadsOK, LoadOK
  <2>2. cards \in UNION {PhasesOf(D) : D \in SUBSET Created'}
    BY <1>c, <1>k DEF LoadsOK
  <2> QED BY <2>1, <2>2, <1>k DEF LoadsOK
<1>3. PollsOwnJob' /\ InStep' /\ OneLoad'
  BY <1>k, <1>v DEF PollsOwnJob, InStep, OneLoad
<1>4. Onward'
  <2>1. ASSUME NEW f \in UNION {PhasesOf(D) : D \in SUBSET Created}, Ahead(f, job) PROVE Ahead(f, job')
    <3> SUFFICES ASSUME NEW j \in DOMAIN f PROVE CardMovesOn(f[j], job'[j])
      BY DEF Ahead
    <3>1. j \in Created /\ j \in DOMAIN job
      BY <1>k DEF PhasesOf, Kinds, Created
    <3>2. CardMovesOn(f[j], job[j]) /\ CardMovesOn(job[j], job'[j])
      BY <2>1, <3>1 DEF Ahead
    <3>3. f[j] \in Phase /\ job[j] \in Phase /\ job'[j] \in Phase
      BY <3>1, <1>k, <1>c DEF PhasesOf, Kinds, Created
    <3> QED BY <3>2, <3>3, MovesOnTransitive
  <2>2. Ahead(cards, job')
    BY <2>1, <1>k DEF LoadsOK, Onward
  <2>3. \A l \in Loads : loads[l].pc = "status" => Ahead(loads[l].answers, job')
    BY <2>1, <1>k DEF LoadsOK, LoadOK, Onward
  <2> QED BY <2>2, <2>3, <1>k DEF Onward
<1> QED BY <1>1, <1>2, <1>3, <1>4 DEF IInv

\* A job is created.
LEMMA InsertStep ==
  ASSUME IInv, NEW j \in Jobs, Insert(j)
  PROVE  /\ job' \in [Jobs -> Phase \cup {NoPhase}] /\ made' \in Seq(Created')
         /\ j \in Created' /\ \A k \in Created : k \in Created' /\ CardMovesOn(job[k], job'[k])
<1>k. Kinds
  BY DEF IInv
<1>1. Queued \in Phase /\ Queued # NoPhase
  BY DashboardAssumption, QueuedIsPhase
<1>2. job' = [job EXCEPT ![j] = Queued] /\ job \in [Jobs -> Phase \cup {NoPhase}] /\ j \notin Created
  BY <1>k DEF Insert, Kinds, Created
<1>3. job' \in [Jobs -> Phase \cup {NoPhase}] /\ j \in Created' /\ \A k \in Created : job'[k] = job[k] /\ k \in Created'
  BY <1>1, <1>2 DEF Created
<1>4. made \in Seq(Created')
  BY <1>3, <1>k, SeqMonotonic DEF Kinds
<1>5. made' \in Seq(Created')
  BY <1>3, <1>4, AppendProperties DEF Insert
<1> QED BY <1>3, <1>5, MovesOnReflexive

LEMMA JobSteps ==
  ASSUME IInv, NEW j \in Jobs, CreateElsewhere(j) \/ JobMoves(j) \/ Create(j)
  PROVE  IInv'
<1>k. Kinds
  BY DEF IInv
<1>1. CASE CreateElsewhere(j)
  BY <1>1, InsertStep, JobsStep DEF CreateElsewhere, integrateVars, feedVars
<1>2. CASE Create(j)
  BY <1>2, InsertStep, JobsStep DEF Create
<1>3. CASE JobMoves(j)
  <2>1. PICK p \in NextPhases(j) : job' = [job EXCEPT ![j] = p]
    BY <1>3 DEF JobMoves
  <2>2. job[j] \in Phase /\ job \in [Jobs -> Phase \cup {NoPhase}]
    BY <1>3, <1>k DEF JobMoves, Kinds
  <2>3. p \in Phase /\ CardMovesOn(job[j], p) /\ p # NoPhase
    BY <2>2, JobsMoveOn, DashboardAssumption
  <2>4. job' \in [Jobs -> Phase \cup {NoPhase}] /\ Created' = Created
    BY <2>1, <2>2, <2>3, DashboardAssumption DEF Created
  <2>5. \A k \in Created : CardMovesOn(job[k], job'[k])
    BY <2>1, <2>2, <2>3, MovesOnReflexive DEF Created
  <2>6. made' \in Seq(Created')
    BY <1>3, <1>k, <2>4 DEF JobMoves, Kinds
  <2> QED BY <1>3, <2>4, <2>5, <2>6, JobsStep DEF JobMoves, integrateVars, feedVars
<1> QED BY <1>1, <1>2, <1>3

\* What a step of the integrate page may do.
LEMMA PageStep ==
  ASSUME IInv, UNCHANGED <<jobVars, page, feedVars>>,
         view' \in View, view'.form \in Jobs => view'.form \in Created,
         polls' \in [Slots -> Request \cup {NoRequest}], crossed' \in BOOLEAN,
         tracked' \in Seq(Created), Len(tracked') <= Limit,
         PollsOwnJob', InStep'
  PROVE  IInv'
<1> USE DEF jobVars, feedVars
<1>1. Created' = Created
  BY DEF Created
<1>2. Kinds'
  BY <1>1 DEF IInv, Kinds
<1>3. LoadsOK'
  BY <1>1 DEF IInv, LoadsOK, LoadOK
<1>4. OneLoad' /\ Onward'
  BY DEF IInv, OneLoad, Onward
<1> QED BY <1>2, <1>3, <1>4 DEF IInv

\* What is shown is of the job that is polled, and so is what is polled from then on.
LEMMA SetShows ==
  ASSUME NEW v \in View, v.polling \in {v.id, NoJob}, NEW id \in Jobs \cup {NoJob}, NEW shown \in Shown,
         id = NoJob => v.id = NoJob
  PROVE  LET w == Set(v, id, shown)
         IN  /\ w \in View /\ w.form = v.form /\ w.id = id /\ w.shown = shown
             /\ w.polling \in {id, NoJob}
<1>1. shown.phase \in Phase /\ Polled(id, shown.phase) \in {id, NoJob}
  BY DEF Shown, Polled
<1>2. SameDeps(v, id, shown.phase) => v.polling \in {id, NoJob}
  BY DEF SameDeps
<1> HIDE DEF Shown
<1> QED BY <1>1, <1>2 DEF Set, View

LEMMA FormSteps ==
  ASSUME IInv, Submit \/ SubmitFails \/ Submitted
  PROVE  IInv'
<1>k. Kinds /\ PollsOwnJob /\ InStep
  BY DEF IInv
<1>1. CASE Submit \/ SubmitFails
  <2>1. /\ UNCHANGED <<jobVars, page, polls, crossed, feedVars, tracked>>
        /\ \E f \in {"idle", "sent"} : view' = [view EXCEPT !.form = f]
    BY <1>1 DEF Submit, SubmitFails
  <2>2. /\ view' \in View /\ view'.form \notin Jobs
        /\ view'.id = view.id /\ view'.shown = view.shown /\ view'.polling = view.polling
    BY <2>1, <1>k, DashboardAssumption DEF Kinds, View
  <2>3. PollsOwnJob' /\ InStep'
    BY <2>1, <2>2, <1>k DEF PollsOwnJob, InStep
  <2> QED BY <2>1, <2>2, <2>3, <1>k, PageStep DEF Kinds
<1>2. CASE Submitted
  <2> DEFINE j == view.form
             shown == [job |-> j, phase |-> Queued]
             w == Set(view, j, shown)
  <2>1. /\ j \in Created /\ j \in Jobs /\ UNCHANGED <<jobVars, page, polls, feedVars>>
        /\ view' = [w EXCEPT !.form = "idle"]
        /\ tracked' = AddTrackedJobId(tracked, j)
        /\ crossed' = (crossed \/ \E i \in Slots : polls[i] # NoRequest)
    BY <1>2, <1>k DEF Submitted, Kinds
  <2>2. shown \in Shown /\ j # NoJob
    BY <2>1, DashboardAssumption, QueuedIsPhase DEF Shown
  <2>3. w \in View /\ w.id = j /\ w.shown = shown /\ w.polling \in {j, NoJob}
    BY <1>k, <2>1, <2>2, SetShows DEF Kinds, PollsOwnJob
  <2> HIDE DEF w
  <2>4. /\ view' \in View /\ view'.form \notin Jobs
        /\ view'.id = j /\ view'.shown = shown /\ view'.polling \in {j, NoJob}
    BY <2>1, <2>3, DashboardAssumption DEF View
  <2>5. tracked' \in Seq(Created) /\ Len(tracked') <= Limit
    BY <2>1, <1>k, AddTracked DEF Kinds
  <2>6. PollsOwnJob' /\ InStep'
    <3>1. ~crossed' => \A i \in Slots : polls[i] = NoRequest
      BY <2>1
    <3>2. polls' = polls /\ shown.job = j
      BY <2>1
    <3> HIDE DEF shown, j
    <3>3. PollsOwnJob'
      BY <2>4 DEF PollsOwnJob
    <3>4. InStep'
      BY <2>4, <3>1, <3>2 DEF InStep
    <3> QED BY <3>3, <3>4
  <2>7. polls' \in [Slots -> Request \cup {NoRequest}] /\ crossed' \in BOOLEAN
    BY <2>1, <1>k DEF Kinds
  <2> QED BY <2>1, <2>4, <2>5, <2>6, <2>7, PageStep
<1> QED BY <1>1, <1>2

LEMMA PollSteps ==
  ASSUME IInv, NEW i \in Slots, Poll(i) \/ Read(i) \/ Arrive(i) \/ PollFails(i)
  PROVE  IInv'
<1>k. Kinds /\ PollsOwnJob /\ InStep
  BY DEF IInv
<1>u. UNCHANGED <<jobVars, page, crossed, feedVars, tracked>>
  BY DEF Poll, Read, Arrive, PollFails
<1>1. CASE Poll(i)
  <2>1. /\ view.polling \in Jobs /\ view.polling = view.id /\ view' = view
        /\ polls' = [polls EXCEPT ![i] = [job |-> view.polling, read |-> NoPhase]]
    BY <1>1, <1>k DEF Poll, Kinds, View, PollsOwnJob
  <2>2. polls' \in [Slots -> Request \cup {NoRequest}]
    BY <2>1, <1>k DEF Kinds, Request
  <2>3. \A k \in Slots : polls'[k] # polls[k] => polls'[k].job = view.id
    BY <2>1, <1>k DEF Kinds
  <2>4. PollsOwnJob' /\ InStep'
    BY <2>1, <2>3, <1>u, <1>k DEF PollsOwnJob, InStep
  <2> QED BY <2>1, <2>2, <2>4, <1>u, <1>k, PageStep DEF Kinds
<1>2. CASE Read(i)
  <2>1. /\ polls[i] \in Request /\ view' = view
        /\ polls' = [polls EXCEPT ![i] = [polls[i] EXCEPT !.read = job[polls[i].job]]]
    BY <1>2, <1>k DEF Read, Kinds
  <2>2. job[polls[i].job] \in Phase \cup {NoPhase}
    BY <2>1, <1>k DEF Kinds, Request
  <2>3. [polls[i] EXCEPT !.read = job[polls[i].job]] \in Request
    BY <2>1, <2>2 DEF Request
  <2>4. polls' \in [Slots -> Request \cup {NoRequest}]
    BY <2>1, <2>3, <1>k DEF Kinds
  <2>5. \A k \in Slots : polls[k] # NoRequest => polls'[k].job = polls[k].job
    BY <2>1, <1>k DEF Kinds, Request
  <2>6. \A k \in Slots : polls'[k] # NoRequest => polls[k] # NoRequest
    BY <2>1, <1>2, <1>k DEF Kinds, Read
  <2>7. PollsOwnJob' /\ InStep'
    BY <2>1, <2>5, <2>6, <1>u, <1>k DEF PollsOwnJob, InStep
  <2> QED BY <2>1, <2>4, <2>7, <1>u, <1>k, PageStep DEF Kinds
<1>3. CASE Arrive(i)
  <2> DEFINE shown == [job |-> polls[i].job, phase |-> polls[i].read]
  <2>1. /\ polls[i] \in Request /\ polls[i] # NoRequest /\ polls[i].read # NoPhase
        /\ view' = Set(view, view.id, shown)
        /\ polls' = [polls EXCEPT ![i] = NoRequest]
    BY <1>3, <1>k DEF Arrive, Kinds
  <2>2. shown \in Shown
    BY <2>1 DEF Shown, Request
  <2>3. view \in View /\ view.id \in Jobs \cup {NoJob}
    BY <1>k DEF Kinds, View
  <2>4. /\ view' \in View /\ view'.form = view.form /\ view'.id = view.id /\ view'.shown = shown
        /\ view'.polling \in {view.id, NoJob}
    BY <1>k, <2>1, <2>2, <2>3, SetShows DEF PollsOwnJob
  <2>5. polls' \in [Slots -> Request \cup {NoRequest}]
    BY <2>1, <1>k DEF Kinds
  <2>6. \A k \in Slots : polls'[k] # NoRequest => polls'[k] = polls[k]
    BY <2>1, <1>k DEF Kinds
  <2>7. PollsOwnJob' /\ InStep'
    BY <2>1, <2>4, <2>6, <1>u, <1>k DEF PollsOwnJob, InStep
  <2> QED BY <2>4, <2>5, <2>7, <1>u, <1>k, PageStep DEF Kinds
<1>4. CASE PollFails(i)
  <2>1. view' = view /\ polls' = [polls EXCEPT ![i] = NoRequest]
    BY <1>4 DEF PollFails
  <2>2. polls' \in [Slots -> Request \cup {NoRequest}]
    BY <2>1, <1>k DEF Kinds
  <2>3. \A k \in Slots : polls'[k] # NoRequest => polls'[k] = polls[k]
    BY <2>1, <1>k DEF Kinds
  <2>4. PollsOwnJob' /\ InStep'
    BY <2>1, <2>3, <1>u, <1>k DEF PollsOwnJob, InStep
  <2> QED BY <2>1, <2>2, <2>4, <1>u, <1>k, PageStep DEF Kinds
<1> QED BY <1>1, <1>2, <1>3, <1>4

\* What is known of jobs that were created.
Answers == UNION {PhasesOf(D) : D \in SUBSET Created}

LEMMA AnswersOf ==
  ASSUME NEW D \in SUBSET Created, NEW f \in [D -> Phase]
  PROVE  f \in Answers /\ DOMAIN f = D
BY DEF Answers, PhasesOf

\* The present phases of listed jobs are those of Answers, and nothing is ahead of them.
LEMMA PhasesAreCurrent ==
  ASSUME Kinds, NEW list \in Seq(Created)
  PROVE  /\ Phases(list) \in Answers /\ DOMAIN Phases(list) = Range(list)
         /\ Ahead(Phases(list), job)
         /\ \A f : Ahead(f, job) => Ahead(f, Phases(list))
<1>1. Range(list) \in SUBSET Created
  BY RangeOfList
<1>2. DOMAIN job = Jobs /\ \A j \in Range(list) : j \in Jobs /\ job[j] \in Phase
  BY <1>1 DEF Kinds, Created
<1>3. Phases(list) \in [Range(list) -> Phase] /\ \A j \in Range(list) : Phases(list)[j] = job[j]
  BY <1>2 DEF Phases
<1>4. Phases(list) \in Answers /\ DOMAIN Phases(list) = Range(list)
  BY <1>1, <1>3, AnswersOf
<1> QED BY <1>2, <1>3, <1>4, MovesOnReflexive DEF Ahead

\* What a step of one load may do, while no other is under way.
LEMMA LoadStep ==
  ASSUME IInv, NEW l \in Loads, NEW load, \A k \in Loads \ {l} : loads[k].pc = "idle",
         UNCHANGED <<jobVars, page, integrateVars>>,
         loads' = [loads EXCEPT ![l] = load], LoadOK(load),
         tracked' \in Seq(Created), Len(tracked') <= Limit,
         cards' \in Answers, Ahead(cards', job),
         load.pc = "status" => Ahead(cards', load.answers) /\ Ahead(load.answers, job)
  PROVE  IInv'
<1> USE DEF jobVars, integrateVars
<1>k. Kinds /\ LoadsOK /\ PollsOwnJob /\ InStep
  BY DEF IInv
<1>c. Created' = Created
  BY DEF Created
<1>l. \A k \in Loads : loads'[k] = IF k = l THEN load ELSE loads[k]
  BY <1>k DEF LoadsOK
<1>1. Kinds'
  BY <1>k, <1>c DEF Kinds
<1>2. LoadsOK'
  <2>1. load \in Load
    <3>1. Created \subseteq Jobs /\ Seq(Created) \subseteq Seq(Jobs)
      BY SeqMonotonic DEF Created
    <3>2. Answers \subseteq UNION {[D -> Phase] : D \in SUBSET Jobs}
      BY <3>1 DEF Answers, PhasesOf
    <3>3. load \in [pc: {"idle", "list", "status"}, list: Seq(Created),
                    answers: Answers, waiting: SUBSET Created]
      BY DEF LoadOK, Answers
    <3> QED BY <3>1, <3>2, <3>3 DEF Load
  <2>2. loads' \in [Loads -> Load]
    BY <2>1, <1>k DEF LoadsOK
  <2>3. \A k \in Loads : LoadOK(loads'[k])
    BY <1>l, <1>k DEF LoadsOK
  <2>4. \A k \in Loads : LoadOK(loads[k])'
    BY <2>3, <1>c DEF LoadOK
  <2> QED BY <2>2, <2>4, <1>c DEF LoadsOK, Answers
<1>3. PollsOwnJob' /\ InStep'
  BY <1>k DEF PollsOwnJob, InStep
<1>4. OneLoad'
  BY <1>l DEF OneLoad
<1>5. Onward'
  BY <1>l DEF Onward
<1> QED BY <1>1, <1>2, <1>3, <1>4, <1>5 DEF IInv

\* The list has been answered or not: what is shown then, each job at its present phase,
\* is what the statuses that are asked for can only be ahead of.
LEMMA StatusesStep ==
  ASSUME IInv, NEW l \in Loads, loads[l].pc = "list", NEW list \in Seq(Created),
         UNCHANGED <<jobVars, page, integrateVars>>,
         tracked' \in Seq(Created), Len(tracked') <= Limit,
         StatusesOf(l, list, tracked'),
         cards' \in Answers, Ahead(cards', job)
  PROVE  IInv'
<1> DEFINE status == [pc |-> "status", list |-> list, answers |-> Phases(list), waiting |-> Range(tracked')]
           load == IF tracked' = <<>> THEN NoLoad ELSE status
<1>k. Kinds
  BY DEF IInv
<1>1. \A k \in Loads \ {l} : loads[k].pc = "idle"
  BY DEF IInv, OneLoad
<1>2. /\ Phases(list) \in Answers /\ DOMAIN Phases(list) = Range(list)
      /\ Ahead(Phases(list), job) /\ Ahead(cards', Phases(list))
  BY <1>k, PhasesAreCurrent
<1>3. Range(tracked') \subseteq Created
  BY RangeOfList
<1>4. LoadOK(status)
  BY <1>2, <1>3 DEF LoadOK, Answers
<1>5. LoadOK(load) /\ (load.pc = "status" => load = status)
  BY <1>4, NoLoadOK DEF NoLoad
<1>6. loads' = [loads EXCEPT ![l] = load]
  BY DEF StatusesOf
<1>7. load.pc = "status" => Ahead(cards', load.answers) /\ Ahead(load.answers, job)
  BY <1>2, <1>5
<1> HIDE DEF load, status
<1> QED BY <1>1, <1>5, <1>6, <1>7, LoadStep

LEMMA ListSteps ==
  ASSUME IInv, NEW l \in Loads, ListAnswers(l) \/ ListFails(l)
  PROVE  IInv' /\ Ahead(cards, cards')
<1>k. Kinds /\ cards \in Answers /\ Ahead(cards, job)
  BY DEF IInv, LoadsOK, Answers, Onward
<1>1. CASE ListAnswers(l)
  <2> DEFINE list == First(Reverse(made))
  <2>1. list \in Seq(Created)
    BY <1>k, ReverseOf, FirstOf DEF Kinds
  <2>2. /\ loads[l].pc = "list" /\ UNCHANGED <<jobVars, page, integrateVars>>
        /\ tracked' = FoldLeft(AddTrackedJobId, tracked, list)
        /\ cards' = Phases(list) /\ StatusesOf(l, list, tracked')
    BY <1>1 DEF ListAnswers
  <2> HIDE DEF list
  <2>3. tracked' \in Seq(Created) /\ Len(tracked') <= Limit
    BY <1>k, <2>1, <2>2, TrackAll DEF Kinds
  <2>4. cards' \in Answers /\ Ahead(cards', job) /\ Ahead(cards, cards')
    BY <1>k, <2>1, <2>2, PhasesAreCurrent
  <2> QED BY <2>1, <2>2, <2>3, <2>4, StatusesStep
<1>2. CASE ListFails(l)
  <2>1. /\ loads[l].pc = "list" /\ UNCHANGED <<jobVars, page, integrateVars>>
        /\ tracked' = tracked /\ StatusesOf(l, <<>>, tracked')
        /\ cards' \in {Empty, cards}
    BY <1>2 DEF ListFails
  <2>2. <<>> \in Seq(Created) /\ tracked' \in Seq(Created) /\ Len(tracked') <= Limit
    BY <1>k, <2>1, EmptySeq DEF Kinds
  <2>3. Empty \in Answers /\ Ahead(Empty, job) /\ Ahead(cards, Empty)
    BY NoLoadOK DEF Answers, Ahead, Empty
  <2>4. Ahead(cards, cards)
    BY MovesOnReflexive DEF Ahead
  <2>5. cards' \in Answers /\ Ahead(cards', job) /\ Ahead(cards, cards')
    BY <1>k, <2>1, <2>3, <2>4
  <2> QED BY <2>1, <2>2, <2>5, StatusesStep
<1> QED BY <1>1, <1>2

\* The status of a tracked job is its present phase: ahead of what is shown of it.
LEMMA StatusSteps ==
  ASSUME IInv, NEW l \in Loads, NEW j \in Jobs, StatusAnswers(l, j) \/ StatusFails(l, j)
  PROVE  IInv'
<1> DEFINE old == loads[l]
           rest == old.waiting \ {j}
           told == [k \in DOMAIN old.answers \cup {j} |-> IF k = j THEN job[j] ELSE old.answers[k]]
<1>k. Kinds /\ LoadOK(old) /\ cards \in Answers /\ Ahead(cards, job)
  BY DEF IInv, LoadsOK, Answers, Onward
<1>u. /\ j \in old.waiting
      /\ UNCHANGED <<jobVars, page, integrateVars>> /\ cards' = cards
      /\ tracked' \in Seq(Created) /\ Len(tracked') <= Limit
  BY <1>k DEF StatusAnswers, StatusFails, Kinds
<1>1. /\ old \in [pc: {"idle", "list", "status"}, list: Seq(Created),
                  answers: Answers, waiting: SUBSET Created]
      /\ Range(old.list) \subseteq DOMAIN old.answers
  BY <1>k DEF LoadOK, Answers
<1>2. old.pc = "status" /\ j \in Created
  BY <1>k, <1>u, <1>1 DEF LoadOK, NoLoad
<1>3. /\ \A k \in Loads \ {l} : loads[k].pc = "idle"
      /\ Ahead(cards, old.answers) /\ Ahead(old.answers, job)
  BY <1>2 DEF IInv, OneLoad, Onward
<1>4. /\ told \in Answers /\ DOMAIN told = DOMAIN old.answers \cup {j}
      /\ Ahead(cards, told) /\ Ahead(told, job)
  <2>1. PICK D \in SUBSET Created : old.answers \in [D -> Phase]
    BY <1>1 DEF Answers, PhasesOf
  <2>2. job[j] \in Phase /\ j \in DOMAIN job
    BY <1>k, <1>2 DEF Kinds, Created
  <2>3. D \cup {j} \in SUBSET Created /\ told \in [D \cup {j} -> Phase]
    BY <1>2, <2>1, <2>2
  <2>4. told \in Answers /\ DOMAIN told = DOMAIN old.answers \cup {j}
    BY <2>1, <2>3, AnswersOf
  <2>5. Ahead(cards, told)
    BY <1>3, <1>k, <2>2 DEF Ahead
  <2>6. Ahead(told, job)
    BY <1>3, <2>2, MovesOnReflexive DEF Ahead
  <2> QED BY <2>4, <2>5, <2>6
<1>5. CASE StatusAnswers(l, j)
  <2> DEFINE load == [old EXCEPT !.waiting = rest, !.answers = told]
  <2>1. loads' = [loads EXCEPT ![l] = load]
    BY <1>5 DEF StatusAnswers
  <2>2. LoadOK(load) /\ load.answers = told
    <3> HIDE DEF told
    <3>1. /\ load \in [pc: {"idle", "list", "status"}, list: Seq(Created),
                       answers: Answers, waiting: SUBSET Created]
          /\ load.pc = "status" /\ load.answers = told /\ load.list = old.list
      BY <1>1, <1>2, <1>4
    <3>2. Range(load.list) \subseteq DOMAIN load.answers
      BY <3>1, <1>1, <1>4
    <3> HIDE DEF load
    <3> QED BY <3>1, <3>2 DEF LoadOK, Answers
  <2> HIDE DEF load, told
  <2> QED BY <1>3, <1>4, <1>k, <1>u, <2>1, <2>2, LoadStep
<1>6. CASE StatusFails(l, j)
  <2> DEFINE load == [old EXCEPT !.waiting = rest]
  <2>1. loads' = [loads EXCEPT ![l] = load]
    BY <1>6 DEF StatusFails
  <2>2. LoadOK(load) /\ load.answers = old.answers
    <3>1. /\ load \in [pc: {"idle", "list", "status"}, list: Seq(Created),
                       answers: Answers, waiting: SUBSET Created]
          /\ load.pc = "status" /\ load.answers = old.answers /\ load.list = old.list
      BY <1>1, <1>2
    <3> HIDE DEF load
    <3> QED BY <3>1, <1>1 DEF LoadOK, Answers
  <2> HIDE DEF load
  <2> QED BY <1>3, <1>k, <1>u, <2>1, <2>2, LoadStep
<1> QED BY <1>5, <1>6

LEMMA MergeStep ==
  ASSUME IInv, NEW l \in Loads, Merge(l)
  PROVE  IInv' /\ Ahead(cards, cards')
<1> DEFINE answers == loads[l].answers
           shown == Range(First(Deduped(answers, loads[l].list, tracked)))
<1>1. /\ loads[l].pc = "status" /\ cards' = [j \in shown |-> answers[j]]
      /\ loads' = [loads EXCEPT ![l] = NoLoad] /\ UNCHANGED <<jobVars, page, integrateVars, tracked>>
  BY DEF Merge
<1>k. /\ tracked \in Seq(Created) /\ Len(tracked) <= Limit /\ loads[l].list \in Seq(Created)
      /\ answers \in Answers /\ Range(loads[l].list) \subseteq DOMAIN answers
  BY DEF IInv, Kinds, LoadsOK, LoadOK, Answers
<1>2. \A k \in Loads \ {l} : loads[k].pc = "idle"
  BY <1>1 DEF IInv, OneLoad
<1>3. Ahead(cards, answers) /\ Ahead(answers, job)
  BY <1>1 DEF IInv, Onward
<1>4. shown \subseteq DOMAIN answers
  BY <1>k, DedupedAnswered
<1>5. cards' \in Answers
  <2>1. PICK D \in SUBSET Created : answers \in [D -> Phase]
    BY <1>k DEF Answers, PhasesOf
  <2>2. shown \in SUBSET Created /\ cards' \in [shown -> Phase]
    BY <2>1, <1>1, <1>4
  <2> QED BY <2>2, AnswersOf
<1> HIDE DEF shown
<1>6. Ahead(cards, cards') /\ Ahead(cards', job)
  BY <1>1, <1>3, <1>4 DEF Ahead
<1>7. NoLoad.pc # "status"
  BY DEF NoLoad
<1> QED BY <1>1, <1>2, <1>k, <1>5, <1>6, <1>7, NoLoadOK, LoadStep

LEMMA BeginStep ==
  ASSUME IInv, NEW l \in Loads, BeginLoad(l)
  PROVE  IInv'
<1> DEFINE load == [NoLoad EXCEPT !.pc = "list"]
<1>1. /\ \A k \in Loads \ {l} : loads[k].pc = "idle"
      /\ loads' = [loads EXCEPT ![l] = load] /\ UNCHANGED <<jobVars, page, integrateVars, cards, tracked>>
  BY DEF BeginLoad, MayLoad
<1>2. /\ tracked \in Seq(Created) /\ Len(tracked) <= Limit
      /\ cards \in Answers /\ Ahead(cards, job)
  BY DEF IInv, Kinds, LoadsOK, Answers, Onward
<1>3. LoadOK(load) /\ load.pc = "list"
  BY NoLoadOK DEF LoadOK, NoLoad
<1> HIDE DEF load
<1> QED BY <1>1, <1>2, <1>3, LoadStep

\* A page is left and the other opened.
LEMMA OpenStep ==
  ASSUME IInv, Open
  PROVE  IInv' /\ Ahead(cards, cards')
<1>1. Created' = Created
  BY DEF Open, jobVars, Created
<1>2. Blank \in View /\ Blank.form \notin Jobs
  BY DashboardAssumption DEF Blank, View
<1>3. /\ page' \in {"integrate", "feed"} /\ view' = Blank /\ crossed' = FALSE
      /\ polls' = [i \in Slots |-> NoRequest] /\ loads' = [l \in Loads |-> NoLoad] /\ cards' = Empty
      /\ UNCHANGED <<job, made, tracked>>
  BY DEF Open, jobVars
<1>4. Kinds'
  <2>1. view' \in View /\ view'.form \notin Jobs
    BY <1>2, <1>3
  <2>2. polls' \in [Slots -> Request \cup {NoRequest}] /\ crossed' \in BOOLEAN
    BY <1>3
  <2> QED BY <1>1, <1>3, <2>1, <2>2 DEF IInv, Kinds
<1>5. LoadsOK'
  <2>1. \A l \in Loads : LoadOK(loads'[l])
    BY <1>3, NoLoadOK
  <2>2. \A l \in Loads : LoadOK(loads[l])'
    BY <2>1, <1>1 DEF LoadOK
  <2> QED BY <1>1, <1>3, <2>2, NoLoadOK DEF LoadsOK
<1>6. PollsOwnJob' /\ InStep'
  BY <1>3 DEF Blank, PollsOwnJob, InStep
<1>7. OneLoad' /\ Onward' /\ Ahead(cards, cards')
  BY <1>3 DEF NoLoad, Empty, OneLoad, Onward, Ahead
<1> QED BY <1>4, <1>5, <1>6, <1>7 DEF IInv

\* Every step keeps the invariant, and moves the cards on.
LEMMA StepPreserves ==
  ASSUME IInv, [Next]_vars
  PROVE  IInv' /\ Ahead(cards, cards')
<1>r. cards' = cards => Ahead(cards, cards')
  BY MovesOnReflexive DEF Ahead
<1>1. CASE UNCHANGED vars
  <2>1. Created' = Created
    BY <1>1 DEF vars, Created
  <2> QED BY <1>1, <2>1, <1>r
          DEF vars, IInv, Kinds, LoadsOK, LoadOK, PollsOwnJob, InStep, OneLoad, Onward
<1>2. ASSUME NEW j \in Jobs, CreateElsewhere(j) \/ JobMoves(j) \/ Create(j)
      PROVE  IInv' /\ Ahead(cards, cards')
  BY <1>2, <1>r, JobSteps DEF CreateElsewhere, JobMoves, Create, feedVars
<1>3. CASE Submit \/ SubmitFails \/ Submitted
  BY <1>3, <1>r, FormSteps DEF Submit, SubmitFails, Submitted, feedVars
<1>4. ASSUME NEW i \in Slots, Poll(i) \/ Read(i) \/ Arrive(i) \/ PollFails(i)
      PROVE  IInv' /\ Ahead(cards, cards')
  BY <1>4, <1>r, PollSteps DEF Poll, Read, Arrive, PollFails, feedVars
<1>5. ASSUME NEW l \in Loads, BeginLoad(l)
      PROVE  IInv' /\ Ahead(cards, cards')
  BY <1>5, <1>r, BeginStep DEF BeginLoad
<1>6. ASSUME NEW l \in Loads, NEW j \in Jobs, StatusAnswers(l, j) \/ StatusFails(l, j)
      PROVE  IInv' /\ Ahead(cards, cards')
  BY <1>6, <1>r, StatusSteps DEF StatusAnswers, StatusFails
<1> QED BY <1>1, <1>2, <1>3, <1>4, <1>5, <1>6, ListSteps, MergeStep, OpenStep DEF Next

LEMMA Inductive == Spec => []IInv
<1>1. IInv /\ [Next]_vars => IInv'
  BY StepPreserves
<1> QED BY InitEstablishes, <1>1, PTL DEF Spec

-----------------------------------------------------------------------------
(* The theorems.                                                           *)

\* Every reachable state is well typed; what the browser keeps of its jobs is bounded,
\* by a fold that cuts the list each time it adds to it.
THEOREM TypeCorrect == Spec => []TypeOK
<1>1. IInv => TypeOK
  <2> SUFFICES ASSUME IInv PROVE TypeOK
    OBVIOUS
  <2>1. made \in Seq(Jobs) /\ tracked \in Seq(Jobs)
    <3>1. Created \subseteq Jobs
      BY DEF Created
    <3> QED BY <3>1, SeqMonotonic DEF IInv, Kinds
  <2>2. DOMAIN cards \subseteq Jobs
    BY DEF IInv, LoadsOK, PhasesOf, Created
  <2> QED BY <2>1, <2>2 DEF IInv, Kinds, LoadsOK, TypeOK
<1> QED BY Inductive, <1>1, PTL

\* However its requests are overtaken, delayed or lost, the integrate page shows another
\* job than its own only if it had asked for that one before the later job came.
THEOREM StrayOnlyIfCrossedAlways == Spec => []StrayOnlyIfCrossed
<1>1. IInv => StrayOnlyIfCrossed
  BY DEF IInv, InStep, Kinds, StrayOnlyIfCrossed
<1> QED BY Inductive, <1>1, PTL

\* No card of the feed moves back, in any order in which the requests of a load are
\* answered, and whichever of them fail, unless its job did; and none shows a job as it was
\* before it left its order.
THEOREM CardsAlwaysMoveOn == Spec => CardsMoveOn
<1>1. IInv /\ [Next]_vars
        => [\A j \in DOMAIN cards \cap DOMAIN cards' : CardMovesOn(cards[j], cards'[j])]_vars
  BY StepPreserves DEF Ahead
<1> QED BY Inductive, <1>1, PTL DEF Spec, CardsMoveOn
=============================================================================

---------------------------- MODULE GitHubProofs ----------------------------
(* What GitHubPublish guarantees for every repository, set of requests and *)
(* number of publications, lost answers and interventions.                 *)
EXTENDS GitHubPublish, TLAPS

USE GitHubAssumption

Known == TypeOK /\ CommitGraph /\ ShasKnown

-----------------------------------------------------------------------------
(* The graph of commits.                                                   *)

\* Histories contain the histories of their members.
LEMMA HistoryClosed ==
  ASSUME TypeOK, CommitGraph, NEW i \in DOMAIN commits
  PROVE  /\ History(i) \subseteq DOMAIN commits
         /\ i \in History(i)
         /\ \A j \in History(i) : History(j) \subseteq History(i)
<1>1. DOMAIN commits = 1..Len(commits) /\ Len(commits) \in Nat
  BY DEF TypeOK
<1>2. commits[i] \in Commits
  BY <1>1 DEF TypeOK
<1>3. commits[i].past \subseteq DOMAIN commits
  BY <1>1, <1>2 DEF CommitGraph, Commits
<1> QED
  BY <1>1, <1>3 DEF History, CommitGraph

\* A new commit leaves every other commit, and its history, as they are.
LEMMA AppendCommit ==
  ASSUME TypeOK, CommitGraph, NEW tree \in Trees, NEW past, NEW m \in BOOLEAN,
         past \subseteq DOMAIN commits,
         \A j \in past : commits[j].past \subseteq past,
         commits' = Append(commits, [tree |-> tree, past |-> past, merges |-> m])
  PROVE  /\ commits' \in Seq(Commits) /\ CommitGraph'
         /\ Len(commits') = Len(commits) + 1
         /\ commits'[Len(commits) + 1] = [tree |-> tree, past |-> past, merges |-> m]
         /\ \A i \in DOMAIN commits : i \in DOMAIN commits' /\ commits'[i] = commits[i]
<1> DEFINE new == [tree |-> tree, past |-> past, merges |-> m]
<1>1. DOMAIN commits = 1..Len(commits) /\ Len(commits) \in Nat /\ commits \in Seq(Commits)
  BY DEF TypeOK
<1>2. new \in Commits
  BY <1>1 DEF Commits
<1>3. new.past = past
  OBVIOUS
<1> HIDE DEF new
<1>4. /\ commits' \in Seq(Commits) /\ Len(commits') = Len(commits) + 1
      /\ DOMAIN commits' = 1..Len(commits) + 1
      /\ commits'[Len(commits) + 1] = new
      /\ \A i \in DOMAIN commits : i \in DOMAIN commits' /\ commits'[i] = commits[i]
  <2>1. commits' = Append(commits, new)
    BY DEF new
  <2> QED
    BY <1>1, <1>2, <2>1
<1>5. CommitGraph'
  <2> SUFFICES ASSUME NEW i \in DOMAIN commits', NEW j \in commits'[i].past
               PROVE  j < i /\ commits'[j].past \subseteq commits'[i].past
    BY DEF CommitGraph
  <2>1. CASE i \in DOMAIN commits
    <3>1. j \in History(i)
      BY <1>4, <2>1 DEF History
    <3>2. j \in DOMAIN commits
      BY <2>1, <3>1, HistoryClosed
    <3>3. commits'[i] = commits[i] /\ commits'[j] = commits[j] /\ j \in commits[i].past
      BY <1>4, <2>1, <3>2
    <3>4. j < i /\ commits[j].past \subseteq commits[i].past
      BY <2>1, <3>3 DEF CommitGraph
    <3> QED
      BY <3>3, <3>4
  <2>2. CASE i = Len(commits) + 1
    <3>1. j \in past
      BY <1>3, <1>4, <2>2
    <3>2. commits'[i].past = past
      BY <1>3, <1>4, <2>2
    <3>3. j \in DOMAIN commits
      BY <3>1
    <3>4. commits'[j] = commits[j]
      BY <1>4, <3>3
    <3>5. commits'[j].past \subseteq past
      BY <3>1, <3>4
    <3>6. j < i
      BY <1>1, <2>2, <3>3
    <3> QED
      BY <3>2, <3>5, <3>6
  <2>3. i \in DOMAIN commits \/ i = Len(commits) + 1
    <3>1. i \in 1..Len(commits) + 1 /\ Len(commits) \in Nat /\ DOMAIN commits = 1..Len(commits)
      BY <1>1, <1>4
    <3> QED
      BY <3>1
  <2> QED
    BY <2>1, <2>2, <2>3
<1> QED
  BY <1>4, <1>5 DEF new

\* What every step does to the commits.
CommitsGrow ==
  /\ commits' \in Seq(Commits) /\ CommitGraph'
  /\ \A i \in DOMAIN commits :
       /\ i \in DOMAIN commits' /\ commits'[i] = commits[i]
       /\ History(i)' = History(i)

LEMMA SameCommitsGrow ==
  ASSUME TypeOK, CommitGraph, UNCHANGED commits
  PROVE  CommitsGrow
  BY DEF CommitsGrow, TypeOK, CommitGraph, History

LEMMA AppendCommitGrows ==
  ASSUME TypeOK, CommitGraph, NEW tree \in Trees, NEW past, NEW m \in BOOLEAN,
         past \subseteq DOMAIN commits,
         \A j \in past : commits[j].past \subseteq past,
         commits' = Append(commits, [tree |-> tree, past |-> past, merges |-> m])
  PROVE  CommitsGrow
<1>1. /\ commits' \in Seq(Commits) /\ CommitGraph'
      /\ \A i \in DOMAIN commits : i \in DOMAIN commits' /\ commits'[i] = commits[i]
  BY AppendCommit
<1> QED
  BY <1>1 DEF CommitsGrow, History

\* The tree that a publication commits.
LEMMA TreeType ==
  ASSUME TypeOK, NEW c \in Publications, pub[c].head \in DOMAIN commits
  PROVE  TreeOf(c) \in Trees
<1>1. commits[pub[c].head] \in Commits
  BY DEF TypeOK
<1>2. commits[pub[c].head].tree \in Trees
  BY <1>1 DEF Commits
<1>3. pub[c].request \in Requests
  BY DEF TypeOK, PublicationType
<1> QED
  BY <1>2, <1>3 DEF TreeOf, Files, Trees

LEMMA CommitGrows ==
  ASSUME Known, NEW c \in Publications, Commit(c)
  PROVE  CommitsGrow
<1>1. pub[c].head \in DOMAIN commits
  BY DEF Known, ShasKnown, PublicationKnown, Commit
<1>2. TreeOf(c) \in Trees
  BY <1>1, TreeType DEF Known
<1>3. CASE UNCHANGED commits
  BY <1>3, SameCommitsGrow DEF Known
<1>4. CASE commits' = Append(commits, [tree |-> TreeOf(c), past |-> History(pub[c].head),
                                      merges |-> FALSE])
  <2>1. /\ History(pub[c].head) \subseteq DOMAIN commits
        /\ \A j \in History(pub[c].head) : History(j) \subseteq History(pub[c].head)
    BY <1>1, HistoryClosed DEF Known
  <2>2. \A j \in History(pub[c].head) : commits[j].past \subseteq History(pub[c].head)
    BY <2>1 DEF History
  <2> QED
    BY <1>2, <1>4, <2>1, <2>2, AppendCommitGrows DEF Known
<1> QED
  BY <1>3, <1>4 DEF Commit

LEMMA MergeGrows ==
  ASSUME Known, NEW n \in DOMAIN prs, Merge(n)
  PROVE  /\ CommitsGrow
         /\ Len(commits') = Len(commits) + 1
         /\ commits'[Len(commits) + 1].past
              = History(refs[prs[n].head]) \cup History(refs[Base])
<1> DEFINE head == refs[prs[n].head]
           base == refs[Base]
<1>1. head \in DOMAIN commits /\ base \in DOMAIN commits
  <2>1. /\ refs \in [Branches -> 0..Len(commits)] /\ Len(commits) \in Nat
        /\ DOMAIN commits = 1..Len(commits)
    BY DEF Known, TypeOK
  <2>3. prs[n] \in PullRequests
    BY DEF Known, TypeOK
  <2>4. prs[n].head \in Branches
    BY <2>3 DEF PullRequests
  <2>2. head # 0 /\ base # 0
    BY DEF Known, ShasKnown, RemoteKnown, Merge
  <2> QED
    BY <2>1, <2>2, <2>4
<1> HIDE DEF head, base
<1>2. PICK tree \in Trees :
        commits' = Append(commits, [tree |-> tree, merges |-> TRUE,
                                    past |-> History(head) \cup History(base)])
  BY DEF Merge, head, base
<1>3. /\ History(head) \subseteq DOMAIN commits
      /\ \A j \in History(head) : History(j) \subseteq History(head)
      /\ History(base) \subseteq DOMAIN commits
      /\ \A j \in History(base) : History(j) \subseteq History(base)
  BY <1>1, HistoryClosed DEF Known
<1>4. \A j \in History(head) \cup History(base) :
        commits[j].past \subseteq History(head) \cup History(base)
  BY <1>3 DEF History
<1>5. [tree |-> tree, merges |-> TRUE, past |-> History(head) \cup History(base)]
        = [tree |-> tree, past |-> History(head) \cup History(base), merges |-> TRUE]
  OBVIOUS
<1>6. commits' = Append(commits, [tree |-> tree, past |-> History(head) \cup History(base),
                                  merges |-> TRUE])
  BY <1>2, <1>5
<1> DEFINE past == History(head) \cup History(base)
<1>7. past \subseteq DOMAIN commits /\ \A j \in past : commits[j].past \subseteq past
  BY <1>3, <1>4
<1> HIDE DEF past
<1>8. commits' = Append(commits, [tree |-> tree, past |-> past, merges |-> TRUE])
  BY <1>6 DEF past
<1>9. CommitsGrow
  BY <1>7, <1>8, AppendCommitGrows DEF Known
<1>10. /\ Len(commits') = Len(commits) + 1
       /\ commits'[Len(commits) + 1] = [tree |-> tree, past |-> past, merges |-> TRUE]
  BY <1>7, <1>8, AppendCommit DEF Known
<1> QED
  BY <1>9, <1>10 DEF past, head, base

-----------------------------------------------------------------------------
(* The branches.                                                           *)

\* What every step does to them: a branch only moves forward until it is deleted.
BranchesGrow ==
  /\ deleted \subseteq deleted'
  /\ \A b \in Branches \ deleted' : refs[b] # 0 =>
       refs'[b] # 0 /\ History(refs[b]) \subseteq History(refs[b])'

LEMMA SameBranchesGrow ==
  ASSUME TypeOK, CommitsGrow, UNCHANGED refs, deleted \subseteq deleted'
  PROVE  BranchesGrow
<1>1. \A b \in Branches : refs[b] # 0 => refs[b] \in DOMAIN commits
  BY DEF TypeOK
<1> QED
  BY <1>1 DEF BranchesGrow, CommitsGrow

\* A write that GitHub accepts.
LEMMA CarryOutGrows ==
  ASSUME Known, UNCHANGED <<commits, deleted>>,
         NEW r \in Writes, WriteKnown(r),
         Accepts(r), CarryOut(r)
  PROVE  /\ BranchesGrow
         /\ refs' \in [Branches -> 0..Len(commits)]
         /\ refs'[Base] = refs[Base]
         /\ \A b \in Branches : refs[b] # 0 => refs'[b] # 0
         /\ r.kind # "create_pull_request" => refs'[r.branch] = r.sha /\ UNCHANGED prs
         /\ r.kind = "create_pull_request" =>
              /\ UNCHANGED refs /\ refs[r.branch] # 0
              /\ prs' = Append(prs, [head |-> r.branch, state |-> "open"])
<1>1. CommitsGrow
  BY SameCommitsGrow DEF Known
<1>2. r.branch \in Branches /\ refs \in [Branches -> 0..Len(commits)] /\ Len(commits) \in Nat
  BY DEF Writes, WriteKnown, Known, TypeOK
<1>3. CASE r.kind = "create_pull_request"
  BY <1>1, <1>2, <1>3, SameBranchesGrow DEF CarryOut, Accepts, Known
<1>4. CASE r.kind # "create_pull_request"
  <2>1. /\ refs' = [refs EXCEPT ![r.branch] = r.sha] /\ UNCHANGED prs
        /\ r.sha \in DOMAIN commits /\ r.sha \in 1..Len(commits)
    BY <1>4 DEF CarryOut, WriteKnown, Known, TypeOK
  <2>2. refs[r.branch] = 0 \/ refs[r.branch] \in History(r.sha)
    BY <1>4 DEF Accepts, Writes
  <2>3. refs[r.branch] # 0 => History(refs[r.branch]) \subseteq History(r.sha)
    BY <2>1, <2>2, HistoryClosed DEF Known
  <2>4. BranchesGrow
    <3> SUFFICES ASSUME NEW b \in Branches \ deleted', refs[b] # 0
                 PROVE  refs'[b] # 0 /\ History(refs[b]) \subseteq History(refs[b])'
      BY DEF BranchesGrow
    <3>1. refs[b] \in DOMAIN commits
      BY <1>2 DEF Known, TypeOK
    <3>2. History(refs[b])' = History(refs'[b])
      BY DEF History
    <3> QED
      BY <1>1, <1>2, <2>1, <2>3, <3>1, <3>2 DEF CommitsGrow
  <2> QED
    BY <1>2, <1>4, <2>1, <2>4 DEF WriteKnown
<1> QED
  BY <1>3, <1>4

-----------------------------------------------------------------------------
(* Types, and what each step knows.                                        *)

\* A publication that a step does not touch knows what it knew.
LEMMA UntouchedKnown ==
  ASSUME Known, CommitsGrow, NEW c \in Publications, pub'[c] = pub[c]
  PROVE  PublicationKnown(c)'
<1>1. PublicationKnown(c)
  BY DEF Known, ShasKnown
<1>2. pub[c].head \in DOMAIN commits => TreeOf(c)' = TreeOf(c)
  BY DEF TreeOf, Files, CommitsGrow
<1>3. Branch(c)' = Branch(c)
  BY DEF Branch
<1> QED
  BY <1>1, <1>2, <1>3 DEF PublicationKnown, CommitsGrow, HasCommit

\* The rest of Known follows from the parts that a step changes.
LEMMA KnownAfter ==
  ASSUME Known, CommitsGrow,
         refs' \in [Branches -> 0..Len(commits')], prs' \in Seq(PullRequests), RemoteKnown',
         late' \subseteq Writes, \A r \in late' : WriteKnown(r)',
         pub' \in [Publications -> PublicationType],
         \A c \in Publications : pub'[c] = pub[c] \/ PublicationKnown(c)',
         deleted' \subseteq Branches, faults' \in Nat, events' \in Nat
  PROVE  Known'
<1>1. TypeOK'
  BY DEF CommitsGrow, TypeOK
<1>2. \A c \in Publications : PublicationKnown(c)'
  BY UntouchedKnown
<1>3. CommitGraph'
  BY DEF CommitsGrow
<1> QED
  BY <1>1, <1>2, <1>3 DEF Known, ShasKnown

\* What is on its way stays known, and so does the repository if nothing changes it.
LEMMA LateStaysKnown ==
  ASSUME Known, CommitsGrow, NEW r \in late
  PROVE  WriteKnown(r)'
  BY DEF Known, ShasKnown, WriteKnown, CommitsGrow

LEMMA SameRemoteKnown ==
  ASSUME Known, CommitsGrow, UNCHANGED <<refs, prs, deleted>>
  PROVE  /\ refs' \in [Branches -> 0..Len(commits')]
         /\ prs' \in Seq(PullRequests) /\ RemoteKnown'
<1>1. /\ DOMAIN commits = 1..Len(commits) /\ Len(commits) \in Nat
      /\ DOMAIN commits' = 1..Len(commits') /\ Len(commits') \in Nat
  BY DEF Known, TypeOK, CommitsGrow
<1>2. \A i \in 1..Len(commits) : i \in 1..Len(commits')
  BY <1>1 DEF CommitsGrow
<1>3. \A b \in Branches : refs'[b] \in 0..Len(commits')
  BY <1>1, <1>2 DEF Known, TypeOK
<1> QED
  BY <1>3 DEF Known, TypeOK, ShasKnown, RemoteKnown

\* The write of a publication is known.
LEMMA OwnWrite ==
  ASSUME Known, NEW c \in Publications, Writing(c)
  PROVE  Write(c) \in Writes /\ WriteKnown(Write(c))
<1>1. pub[c] \in PublicationType /\ PublicationKnown(c)
  BY DEF Known, TypeOK, ShasKnown
<1>2. Branch(c) \in Branches
  BY <1>1 DEF PublicationType, Branch
<1> QED
  BY <1>1, <1>2 DEF Write, Writing, Writes, WriteKnown, PublicationKnown, PublicationType,
                    HasCommit

\* After a write that GitHub carries out.
LEMMA CarriedOutKnown ==
  ASSUME Known, UNCHANGED <<commits, deleted>>,
         NEW r \in Writes, WriteKnown(r), Accepts(r), CarryOut(r)
  PROVE  /\ refs' \in [Branches -> 0..Len(commits')]
         /\ prs' \in Seq(PullRequests) /\ RemoteKnown'
<1>1. /\ refs' \in [Branches -> 0..Len(commits)]
      /\ refs'[Base] = refs[Base]
      /\ \A b \in Branches : refs[b] # 0 => refs'[b] # 0
      /\ r.kind # "create_pull_request" => UNCHANGED prs
      /\ r.kind = "create_pull_request" =>
           /\ UNCHANGED refs /\ refs[r.branch] # 0
           /\ prs' = Append(prs, [head |-> r.branch, state |-> "open"])
  BY CarryOutGrows
<1>2. /\ prs \in Seq(PullRequests)
      /\ RemoteKnown
  BY DEF Known, TypeOK, ShasKnown
<1>3. CASE r.kind = "create_pull_request"
  <2> DEFINE new == [head |-> r.branch, state |-> "open"]
  <2>1. /\ new \in PullRequests /\ new.head # Base /\ refs'[new.head] # 0
    BY <1>1, <1>3 DEF PullRequests, Writes, WriteKnown
  <2> HIDE DEF new
  <2>2. prs' = Append(prs, new)
    BY <1>1, <1>3 DEF new
  <2>3. /\ prs' \in Seq(PullRequests)
        /\ \A n \in DOMAIN prs' : prs'[n] = new \/ (n \in DOMAIN prs /\ prs'[n] = prs[n])
    BY <1>2, <2>1, <2>2
  <2>4. RemoteKnown'
    <3>1. refs' = refs /\ refs[Base] # 0 /\ Base \notin deleted'
      BY <1>1, <1>2, <1>3 DEF RemoteKnown
    <3>2. ASSUME NEW n \in DOMAIN prs'
          PROVE  prs'[n].head # Base /\ (prs'[n].state = "open" => refs'[prs'[n].head] # 0)
      <4>1. CASE prs'[n] = new
        BY <2>1, <4>1
      <4>2. CASE n \in DOMAIN prs /\ prs'[n] = prs[n]
        BY <1>2, <3>1, <4>2 DEF RemoteKnown
      <4> QED
        BY <2>3, <4>1, <4>2
    <3> QED
      BY <3>1, <3>2 DEF RemoteKnown
  <2>5. refs' \in [Branches -> 0..Len(commits')]
    BY <1>1
  <2> QED
    BY <2>3, <2>4, <2>5
<1>4. CASE r.kind # "create_pull_request"
  <2>1. /\ UNCHANGED prs
        /\ \A n \in DOMAIN prs : prs[n] \in PullRequests
    BY <1>1, <1>2, <1>4
  <2>2. \A n \in DOMAIN prs : prs[n].head \in Branches
    BY <2>1 DEF PullRequests
  <2> QED
    BY <1>1, <1>2, <2>1, <2>2 DEF RemoteKnown
<1> QED
  BY <1>3, <1>4

\* Which publications a step may touch.
Untouched(c) == \A d \in Publications : d # c => pub'[d] = pub[d]

LEMMA PublishKnown ==
  ASSUME Known, NEW c \in Publications, Publish(c)
  PROVE  Known' /\ CommitsGrow
<1>1. PICK q \in Requests :
        pub' = [pub EXCEPT ![c].request = q,
                           ![c].pc = IF Invalid(q) THEN "raised" ELSE "get_base"]
  BY DEF Publish
<1>2. pub \in [Publications -> PublicationType]
  BY DEF Known, TypeOK
<1>3. /\ pub' \in [Publications -> PublicationType]
      /\ pub'[c].request = q /\ pub'[c].pc \in {"raised", "get_base"}
      /\ pub'[c].pc = "get_base" => q.branch # Base
      /\ Untouched(c)
  BY <1>1, <1>2 DEF PublicationType, Invalid, Untouched
<1>4. PublicationKnown(c)'
  BY <1>3 DEF PublicationKnown, HasCommit, Branch
<1>5. CommitsGrow
  BY SameCommitsGrow DEF Known, Publish
<1>6. \A d \in Publications : pub'[d] = pub[d] \/ PublicationKnown(d)'
  BY <1>3, <1>4 DEF Untouched
<1>7. /\ UNCHANGED <<refs, prs, deleted>>
      /\ late' \subseteq Writes /\ \A r \in late' : WriteKnown(r)'
      /\ deleted' \subseteq Branches /\ faults' \in Nat /\ events' \in Nat
  BY <1>5, LateStaysKnown DEF Publish, Known, TypeOK
<1> QED
  BY <1>3, <1>5, <1>6, <1>7, SameRemoteKnown, KnownAfter

\* A step of a publication that goes on to point, with the repository as it is.
LEMMA PointKnown ==
  ASSUME Known, NEW c \in Publications, NEW row \in PublicationType,
         pub' = [pub EXCEPT ![c] = row], PublicationKnown(c)',
         UNCHANGED <<commits, refs, prs, late, deleted, faults, events>>
  PROVE  Known' /\ CommitsGrow /\ Untouched(c) /\ pub'[c] = row
<1>1. pub \in [Publications -> PublicationType]
  BY DEF Known, TypeOK
<1>2. /\ pub' \in [Publications -> PublicationType] /\ pub'[c] = row
      /\ Untouched(c)
  BY <1>1 DEF Untouched
<1>3. CommitsGrow
  BY SameCommitsGrow DEF Known
<1>4. \A d \in Publications : pub'[d] = pub[d] \/ PublicationKnown(d)'
  BY <1>2 DEF Untouched
<1>5. /\ UNCHANGED <<refs, prs, deleted>>
      /\ late' \subseteq Writes /\ \A r \in late' : WriteKnown(r)'
      /\ deleted' \subseteq Branches /\ faults' \in Nat /\ events' \in Nat
  BY <1>3, LateStaysKnown DEF Known, TypeOK
<1> QED
  BY <1>2, <1>3, <1>4, <1>5, SameRemoteKnown, KnownAfter

LEMMA GetBaseKnown ==
  ASSUME Known, NEW c \in Publications, GetBase(c)
  PROVE  Known' /\ CommitsGrow
<1> DEFINE row == [pub[c] EXCEPT !.pc = "create_ref", !.head = refs[Base]]
<1>1. /\ pub[c] \in PublicationType /\ PublicationKnown(c) /\ pub[c].pc = "get_base"
      /\ pub' = [pub EXCEPT ![c] = row]
      /\ UNCHANGED <<commits, refs, prs, late, deleted, faults, events>>
  BY DEF Known, TypeOK, ShasKnown, GetBase
<1>2. refs[Base] \in DOMAIN commits /\ refs[Base] \in Nat
  BY DEF Known, TypeOK, ShasKnown, RemoteKnown
<1>3. row \in PublicationType /\ row.pc = "create_ref" /\ row.head = refs[Base]
      /\ row.request = pub[c].request
  BY <1>1, <1>2 DEF PublicationType
<1>4. pub'[c] = row
  BY <1>1 DEF Known, TypeOK
<1>5. PublicationKnown(c)'
  BY <1>1, <1>2, <1>3, <1>4 DEF PublicationKnown, HasCommit, Branch
<1> QED
  BY <1>1, <1>3, <1>5, PointKnown

LEMMA GetBranchKnown ==
  ASSUME Known, NEW c \in Publications, GetBranch(c)
  PROVE  Known' /\ CommitsGrow
<1>1. /\ pub[c] \in PublicationType /\ PublicationKnown(c) /\ pub[c].pc = "get_branch"
      /\ UNCHANGED <<commits, refs, prs, late, deleted, faults, events>>
      /\ pub \in [Publications -> PublicationType]
  BY DEF Known, TypeOK, ShasKnown, GetBranch
<1>2. CASE refs[Branch(c)] = 0
  <2> DEFINE row == [pub[c] EXCEPT !.pc = "raised"]
  <2>1. row \in PublicationType /\ row.pc = "raised" /\ pub' = [pub EXCEPT ![c] = row]
        /\ pub'[c] = row
    BY <1>1, <1>2 DEF PublicationType, GetBranch, To
  <2>2. PublicationKnown(c)'
    BY <2>1 DEF PublicationKnown, HasCommit
  <2> QED
    BY <1>1, <2>1, <2>2, PointKnown
<1>3. CASE refs[Branch(c)] # 0
  <2> DEFINE row == [pub[c] EXCEPT !.pc = "commit", !.head = refs[Branch(c)]]
  <2>1. Branch(c) \in Branches /\ Branch(c) # Base
    BY <1>1 DEF PublicationType, Branch, PublicationKnown
  <2>2. refs[Branch(c)] \in DOMAIN commits /\ refs[Branch(c)] \in Nat
    BY <1>3, <2>1 DEF Known, TypeOK
  <2>3. row \in PublicationType /\ row.pc = "commit" /\ row.head = refs[Branch(c)]
        /\ row.request = pub[c].request
    BY <1>1, <2>2 DEF PublicationType
  <2>4. pub' = [pub EXCEPT ![c] = row] /\ pub'[c] = row
    BY <1>1, <1>3 DEF GetBranch
  <2>5. PublicationKnown(c)'
    BY <1>1, <2>1, <2>2, <2>3, <2>4 DEF PublicationKnown, HasCommit, Branch
  <2> QED
    BY <1>1, <2>3, <2>4, <2>5, PointKnown
<1> QED
  BY <1>2, <1>3

\* A publication that goes on, or answers, with the commit it has.
LEMMA GoOnRow ==
  ASSUME Known, NEW c \in Publications, pub[c].pc \in HasCommit, CommitsGrow,
         \/ \E point \in HasCommit \cup {"raised"} : To(c, point)
         \/ \E status \in {"created", "updated", "already_open", "no_changes"} :
              Answer(c, status)
  PROVE  /\ pub' \in [Publications -> PublicationType] /\ Untouched(c)
         /\ PublicationKnown(c)'
         /\ pub'[c].sha = pub[c].sha /\ pub'[c].head = pub[c].head
         /\ pub'[c].request = pub[c].request /\ pub'[c].created = pub[c].created
<1>1. /\ pub[c] \in PublicationType /\ PublicationKnown(c)
      /\ pub \in [Publications -> PublicationType]
  BY DEF Known, TypeOK, ShasKnown
<1>2. /\ pub' \in [Publications -> PublicationType] /\ Untouched(c)
      /\ pub'[c].sha = pub[c].sha /\ pub'[c].head = pub[c].head
      /\ pub'[c].request = pub[c].request /\ pub'[c].created = pub[c].created
      /\ pub'[c].pc \in HasCommit \cup {"raised"}
  <2>1. CASE \E point \in HasCommit \cup {"raised"} : To(c, point)
    BY <1>1, <2>1 DEF To, PublicationType, Untouched, HasCommit
  <2>2. CASE \E status \in {"created", "updated", "already_open", "no_changes"} :
               Answer(c, status)
    BY <1>1, <2>2 DEF Answer, PublicationType, Untouched, HasCommit
  <2> QED
    BY <2>1, <2>2
<1>3. /\ pub[c].head \in DOMAIN commits /\ pub[c].sha \in DOMAIN commits
      /\ pub[c].head \in History(pub[c].sha)
      /\ commits[pub[c].sha].tree = TreeOf(c)
      /\ Branch(c) # Base
  BY <1>1 DEF PublicationKnown, HasCommit
<1>4. PublicationKnown(c)'
  <2>1. TreeOf(c)' = TreeOf(c) /\ Branch(c)' = Branch(c)
    BY <1>2, <1>3 DEF TreeOf, Files, Branch, CommitsGrow
  <2>2. History(pub[c].sha)' = History(pub[c].sha)
    BY <1>2, <1>3 DEF History, CommitsGrow
  <2> QED
    BY <1>2, <1>3, <2>1, <2>2 DEF PublicationKnown, HasCommit, CommitsGrow
<1> QED
  BY <1>2, <1>4

LEMMA AskKnown ==
  ASSUME Known, NEW c \in Publications, Find(c) \/ LookUp(c)
  PROVE  Known' /\ CommitsGrow
<1>1. /\ pub[c].pc \in HasCommit
      /\ UNCHANGED <<commits, refs, prs, late, deleted, faults, events>>
      /\ \/ \E point \in HasCommit \cup {"raised"} : To(c, point)
         \/ \E status \in {"created", "updated", "already_open", "no_changes"} :
              Answer(c, status)
  BY DEF Find, LookUp, HasCommit
<1>2. CommitsGrow
  BY <1>1, SameCommitsGrow DEF Known
<1>3. /\ pub' \in [Publications -> PublicationType] /\ Untouched(c)
      /\ PublicationKnown(c)'
  BY <1>1, <1>2, GoOnRow
<1>4. /\ \A d \in Publications : pub'[d] = pub[d] \/ PublicationKnown(d)'
      /\ late' \subseteq Writes /\ \A r \in late' : WriteKnown(r)'
      /\ deleted' \subseteq Branches /\ faults' \in Nat /\ events' \in Nat
  BY <1>1, <1>2, <1>3, LateStaysKnown DEF Known, TypeOK, Untouched
<1> QED
  BY <1>1, <1>2, <1>3, <1>4, SameRemoteKnown, KnownAfter

\* A step of a publication that may have GitHub carry out its write.
LEMMA WriteStepKnown ==
  ASSUME Known, NEW c \in Publications, UNCHANGED <<commits, late, deleted, faults, events>>,
         pub' \in [Publications -> PublicationType], Untouched(c), PublicationKnown(c)',
         \/ UNCHANGED <<refs, prs>>
         \/ Writing(c) /\ Accepts(Write(c)) /\ CarryOut(Write(c))
  PROVE  Known'
<1>1. CommitsGrow
  BY SameCommitsGrow DEF Known
<1>2. /\ \A d \in Publications : pub'[d] = pub[d] \/ PublicationKnown(d)'
      /\ late' \subseteq Writes /\ \A r \in late' : WriteKnown(r)'
      /\ deleted' \subseteq Branches /\ faults' \in Nat /\ events' \in Nat
  BY <1>1, LateStaysKnown DEF Known, TypeOK, Untouched
<1>3. /\ refs' \in [Branches -> 0..Len(commits')]
      /\ prs' \in Seq(PullRequests) /\ RemoteKnown'
  <2>1. CASE UNCHANGED <<refs, prs>>
    BY <1>1, <2>1, SameRemoteKnown
  <2>2. CASE Writing(c) /\ Accepts(Write(c)) /\ CarryOut(Write(c))
    BY <2>2, OwnWrite, CarriedOutKnown
  <2> QED
    BY <2>1, <2>2
<1> QED
  BY <1>1, <1>2, <1>3, KnownAfter

LEMMA CreateBranchKnown ==
  ASSUME Known, NEW c \in Publications, CreateBranch(c)
  PROVE  Known' /\ CommitsGrow
<1>1. /\ pub[c] \in PublicationType /\ PublicationKnown(c)
      /\ pub \in [Publications -> PublicationType]
      /\ pub[c].pc = "create_ref" /\ Writing(c)
      /\ UNCHANGED <<commits, late, deleted, faults, events>>
  BY DEF Known, TypeOK, ShasKnown, CreateBranch, Writing
<1>2. CommitsGrow
  BY <1>1, SameCommitsGrow DEF Known
<1>3. /\ pub' \in [Publications -> PublicationType] /\ Untouched(c)
      /\ pub'[c].pc \in {"commit", "get_branch", "raised"}
      /\ pub'[c].head = pub[c].head /\ pub'[c].request = pub[c].request
  BY <1>1 DEF CreateBranch, To, PublicationType, Untouched
<1>4. PublicationKnown(c)'
  BY <1>1, <1>3 DEF PublicationKnown, HasCommit, Branch
<1>5. \/ UNCHANGED <<refs, prs>>
      \/ Writing(c) /\ Accepts(Write(c)) /\ CarryOut(Write(c))
  BY <1>1 DEF CreateBranch
<1> QED
  BY <1>1, <1>2, <1>3, <1>4, <1>5, WriteStepKnown

LEMMA UpdateBranchKnown ==
  ASSUME Known, NEW c \in Publications, UpdateBranch(c)
  PROVE  Known' /\ CommitsGrow
<1>1. /\ pub[c].pc = "update_ref" /\ pub[c].pc \in HasCommit /\ Writing(c)
      /\ UNCHANGED <<commits, late, deleted, faults, events>>
      /\ \E point \in HasCommit \cup {"raised"} : To(c, point)
      /\ \/ UNCHANGED <<refs, prs>>
         \/ Writing(c) /\ Accepts(Write(c)) /\ CarryOut(Write(c))
  BY DEF UpdateBranch, Moves, HasCommit, Writing
<1>2. CommitsGrow
  BY <1>1, SameCommitsGrow DEF Known
<1> QED
  BY <1>1, <1>2, GoOnRow, WriteStepKnown

LEMMA OpenPullRequestKnown ==
  ASSUME Known, NEW c \in Publications, OpenPullRequest(c)
  PROVE  Known' /\ CommitsGrow
<1>1. /\ pub[c].pc = "create_pull_request" /\ pub[c].pc \in HasCommit /\ Writing(c)
      /\ UNCHANGED <<commits, late, deleted, faults, events>>
      /\ \/ \E point \in HasCommit \cup {"raised"} : To(c, point)
         \/ \E status \in {"created", "updated", "already_open", "no_changes"} :
              Answer(c, status)
      /\ \/ UNCHANGED <<refs, prs>>
         \/ Writing(c) /\ Accepts(Write(c)) /\ CarryOut(Write(c))
  BY DEF OpenPullRequest, HasCommit, Writing
<1>2. CommitsGrow
  BY <1>1, SameCommitsGrow DEF Known
<1> QED
  BY <1>1, <1>2, GoOnRow, WriteStepKnown

\* The history of a commit after a step.
HistoryAfter(sha) == commits'[sha].past \cup {sha}

LEMMA CommitKnown ==
  ASSUME Known, NEW c \in Publications, Commit(c)
  PROVE  /\ Known' /\ CommitsGrow
         /\ pub'[c].pc \in {"look_up", "update_ref"} /\ Untouched(c)
         /\ pub'[c].pc = "look_up" => pub'[c].sha = pub[c].head
         /\ pub'[c].head = pub[c].head /\ pub'[c].request = pub[c].request
         /\ pub'[c].created = pub[c].created
<1> DEFINE head == pub[c].head
           new == [tree |-> TreeOf(c), past |-> History(head), merges |-> FALSE]
<1>1. /\ pub[c] \in PublicationType /\ PublicationKnown(c) /\ pub[c].pc = "commit"
      /\ pub \in [Publications -> PublicationType]
      /\ UNCHANGED <<refs, prs, late, deleted, faults, events>>
  BY DEF Known, TypeOK, ShasKnown, Commit
<1>2. head \in DOMAIN commits /\ Branch(c) # Base
  BY <1>1 DEF PublicationKnown
<1>3. CommitsGrow
  BY CommitGrows
<1>4. /\ TreeOf(c) \in Trees
      /\ History(head) \subseteq DOMAIN commits /\ head \in History(head)
      /\ \A j \in History(head) : commits[j].past \subseteq History(head)
      /\ DOMAIN commits = 1..Len(commits) /\ Len(commits) \in Nat
      /\ DOMAIN commits' = 1..Len(commits')
  <2>1. \A j \in History(head) : History(j) \subseteq History(head)
    BY <1>2, HistoryClosed DEF Known
  <2> QED
    BY <1>2, <1>3, <2>1, TreeType, HistoryClosed DEF Known, TypeOK, History, CommitsGrow
<1>5. PICK point \in {"look_up", "update_ref"}, sha \in DOMAIN commits' :
        /\ pub' = [pub EXCEPT ![c].pc = point, ![c].sha = sha]
        /\ commits'[sha].tree = TreeOf(c) /\ head \in HistoryAfter(sha)
        /\ point = "look_up" => sha = head
  <2>1. CASE TreeOf(c) = commits[head].tree
    <3>1. /\ pub' = [pub EXCEPT ![c].pc = "look_up", ![c].sha = head]
          /\ UNCHANGED commits
      BY <2>1 DEF Commit
    <3>2. /\ head \in HistoryAfter(head) /\ head \in DOMAIN commits'
          /\ commits'[head].tree = TreeOf(c)
      BY <1>2, <1>3, <2>1 DEF CommitsGrow, HistoryAfter
    <3> QED
      BY <3>1, <3>2
  <2>2. CASE /\ commits' = Append(commits, new)
             /\ pub' = [pub EXCEPT ![c].pc = "update_ref", ![c].sha = Len(commits) + 1]
    <3>1. /\ Len(commits') = Len(commits) + 1
          /\ commits'[Len(commits) + 1] = new
      BY <1>4, <2>2, AppendCommit DEF Known
    <3>2. Len(commits) + 1 \in DOMAIN commits'
      BY <1>4, <3>1
    <3>3. new.tree = TreeOf(c) /\ new.past = History(head)
      OBVIOUS
    <3> HIDE DEF new
    <3>4. head \in HistoryAfter(Len(commits) + 1)
      BY <1>4, <3>1, <3>3 DEF HistoryAfter
    <3> QED
      BY <2>2, <3>1, <3>2, <3>3, <3>4
  <2>3. CASE /\ \E i \in DOMAIN commits :
                  /\ commits[i] = new
                  /\ pub' = [pub EXCEPT ![c].pc = "update_ref", ![c].sha = i]
             /\ UNCHANGED commits
    <3>1. PICK i \in DOMAIN commits :
            commits[i] = new /\ pub' = [pub EXCEPT ![c].pc = "update_ref", ![c].sha = i]
      BY <2>3
    <3>2. new.tree = TreeOf(c) /\ new.past = History(head)
      OBVIOUS
    <3> HIDE DEF new
    <3>3. head \in HistoryAfter(i)
      BY <1>4, <2>3, <3>1, <3>2 DEF HistoryAfter
    <3> QED
      BY <2>3, <3>1, <3>2, <3>3
  <2> QED
    BY <2>1, <2>2, <2>3 DEF Commit
<1>6. sha \in Nat
  BY <1>3, <1>5 DEF CommitsGrow
<1>7. /\ pub' \in [Publications -> PublicationType] /\ Untouched(c)
      /\ pub'[c].pc = point /\ pub'[c].sha = sha
      /\ pub'[c].head = head /\ pub'[c].request = pub[c].request
      /\ pub'[c].created = pub[c].created
  BY <1>1, <1>5, <1>6 DEF PublicationType, Untouched
<1>8. PublicationKnown(c)'
  <2>1. TreeOf(c)' = TreeOf(c) /\ Branch(c)' = Branch(c)
    BY <1>2, <1>3, <1>7 DEF TreeOf, Files, Branch, CommitsGrow
  <2>2. History(pub[c].sha)' = HistoryAfter(sha)
    BY <1>7 DEF History, HistoryAfter
  <2>3. head \in DOMAIN commits'
    BY <1>2, <1>3 DEF CommitsGrow
  <2> QED
    BY <1>2, <1>5, <1>7, <2>1, <2>2, <2>3 DEF PublicationKnown, HasCommit
<1>9. /\ \A d \in Publications : pub'[d] = pub[d] \/ PublicationKnown(d)'
      /\ late' \subseteq Writes /\ \A r \in late' : WriteKnown(r)'
      /\ deleted' \subseteq Branches /\ faults' \in Nat /\ events' \in Nat
  BY <1>1, <1>3, <1>7, <1>8, LateStaysKnown DEF Known, TypeOK, Untouched
<1>10. Known'
  BY <1>1, <1>3, <1>7, <1>9, SameRemoteKnown, KnownAfter
<1> QED
  BY <1>3, <1>5, <1>7, <1>10

LEMMA FailKnown ==
  ASSUME Known, NEW c \in Publications, Fail(c)
  PROVE  Known' /\ CommitsGrow
<1>1. /\ pub \in [Publications -> PublicationType] /\ faults \in Nat
      /\ late \subseteq Writes /\ deleted \subseteq Branches /\ events \in Nat
      /\ UNCHANGED <<commits, refs, prs, deleted, events>>
  BY DEF Known, TypeOK, Fail
<1>2. CommitsGrow
  BY <1>1, SameCommitsGrow DEF Known
<1>3. /\ pub' \in [Publications -> PublicationType] /\ Untouched(c)
      /\ pub'[c].pc = "raised"
  BY <1>1 DEF Fail, To, PublicationType, Untouched
<1>4. \A d \in Publications : pub'[d] = pub[d] \/ PublicationKnown(d)'
  BY <1>3 DEF Untouched, PublicationKnown, HasCommit
<1>5. late' \subseteq Writes /\ \A r \in late' : WriteKnown(r)'
  <2>1. late' = late \/ (Writing(c) /\ late' = late \cup {Write(c)})
    BY DEF Fail
  <2>2. Writing(c) => Write(c) \in Writes /\ WriteKnown(Write(c))
    BY OwnWrite
  <2>3. \A r \in late' : r \in Writes /\ WriteKnown(r)
    BY <1>1, <2>1, <2>2 DEF Known, ShasKnown
  <2> QED
    BY <1>2, <2>3 DEF WriteKnown, CommitsGrow
<1>6. faults' \in Nat
  BY <1>1 DEF Fail
<1> QED
  BY <1>1, <1>2, <1>3, <1>4, <1>5, <1>6, SameRemoteKnown, KnownAfter

LEMMA LandKnown ==
  ASSUME Known, NEW r \in late, Land(r)
  PROVE  Known' /\ CommitsGrow
<1>1. /\ UNCHANGED <<commits, pub, deleted, faults, events>> /\ late' \subseteq late
      /\ r \in Writes /\ WriteKnown(r)
  BY DEF Known, TypeOK, ShasKnown, Land
<1>2. CommitsGrow
  BY <1>1, SameCommitsGrow DEF Known
<1>3. /\ refs' \in [Branches -> 0..Len(commits')]
      /\ prs' \in Seq(PullRequests) /\ RemoteKnown'
  BY <1>1, <1>2, CarriedOutKnown, SameRemoteKnown DEF Land
<1>4. /\ \A q \in late' : WriteKnown(q)'
      /\ late' \subseteq Writes
      /\ pub' \in [Publications -> PublicationType]
      /\ deleted' \subseteq Branches /\ faults' \in Nat /\ events' \in Nat
  BY <1>1, <1>2, LateStaysKnown DEF Known, TypeOK
<1> QED
  BY <1>1, <1>2, <1>3, <1>4, KnownAfter

\* People change branches and pull requests; no publication notices.
LEMMA PeopleKnown ==
  ASSUME Known, CommitsGrow, UNCHANGED <<late, pub, faults>>, events' \in Nat,
         refs' \in [Branches -> 0..Len(commits')], prs' \in Seq(PullRequests), RemoteKnown',
         deleted' \subseteq Branches
  PROVE  Known'
<1>1. /\ \A q \in late' : WriteKnown(q)'
      /\ late' \subseteq Writes
      /\ pub' \in [Publications -> PublicationType]
      /\ faults' \in Nat
  BY LateStaysKnown DEF Known, TypeOK
<1> QED
  BY <1>1, KnownAfter

LEMMA MergeKnown ==
  ASSUME Known, NEW n \in DOMAIN prs, Merge(n)
  PROVE  /\ CommitsGrow /\ BranchesGrow
         /\ refs' \in [Branches -> 0..Len(commits')] /\ prs' \in Seq(PullRequests)
         /\ RemoteKnown' /\ deleted' \subseteq Branches
<1>1. /\ prs[n] \in PullRequests /\ prs[n].state = "open" /\ prs[n].head # Base
      /\ refs[Base] # 0 /\ refs[prs[n].head] # 0 /\ Base \notin deleted
      /\ prs \in Seq(PullRequests)
      /\ refs \in [Branches -> 0..Len(commits)] /\ Len(commits) \in Nat
      /\ DOMAIN commits = 1..Len(commits)
      /\ UNCHANGED deleted
  BY DEF Known, TypeOK, ShasKnown, RemoteKnown, Merge
<1>2. /\ CommitsGrow
      /\ Len(commits') = Len(commits) + 1
      /\ commits'[Len(commits) + 1].past
           = History(refs[prs[n].head]) \cup History(refs[Base])
  BY MergeGrows
<1>3. /\ refs' = [refs EXCEPT ![Base] = Len(commits) + 1]
      /\ prs' = [prs EXCEPT ![n].state = "merged"]
  BY DEF Merge
<1>4. /\ prs' \in Seq(PullRequests) /\ DOMAIN prs' = DOMAIN prs
      /\ \A k \in DOMAIN prs : /\ prs'[k].head = prs[k].head
                               /\ k # n => prs'[k] = prs[k]
      /\ prs'[n].state = "merged"
  <2> DEFINE new == [prs[n] EXCEPT !.state = "merged"]
  <2>1. new \in PullRequests /\ new.head = prs[n].head /\ new.state = "merged"
    BY <1>1 DEF PullRequests
  <2>2. prs' = [prs EXCEPT ![n] = new]
    BY <1>3
  <2> HIDE DEF new
  <2> QED
    BY <1>1, <2>1, <2>2
<1>5. /\ refs' \in [Branches -> 0..Len(commits')]
      /\ \A b \in Branches : b # Base => refs'[b] = refs[b]
      /\ refs'[Base] = Len(commits) + 1
  BY <1>1, <1>2, <1>3
<1>6. RemoteKnown'
  <2>1. ASSUME NEW k \in DOMAIN prs'
        PROVE  prs'[k].head # Base /\ (prs'[k].state = "open" => refs'[prs'[k].head] # 0)
    <3>1. /\ k \in DOMAIN prs /\ prs'[k].head = prs[k].head
          /\ prs[k].head # Base
          /\ prs[k].state = "open" => refs[prs[k].head] # 0
          /\ prs[k] \in PullRequests
      BY <1>1, <1>4 DEF Known, ShasKnown, RemoteKnown
    <3>2. prs[k].head \in Branches
      BY <3>1 DEF PullRequests
    <3> QED
      BY <1>4, <1>5, <3>1, <3>2
  <2> QED
    BY <1>1, <1>5, <2>1 DEF RemoteKnown
<1>7. BranchesGrow
  <2> SUFFICES ASSUME NEW b \in Branches, refs[b] # 0
               PROVE  refs'[b] # 0 /\ History(refs[b]) \subseteq History(refs[b])'
    BY <1>1 DEF BranchesGrow
  <2>1. refs[b] \in DOMAIN commits
    BY <1>1
  <2>2. CASE b = Base
    BY <1>1, <1>2, <1>5, <2>2 DEF History
  <2>3. CASE b # Base
    BY <1>2, <1>5, <2>1, <2>3 DEF CommitsGrow, History
  <2> QED
    BY <2>2, <2>3
<1>8. deleted' \subseteq Branches
  BY <1>1 DEF Known, TypeOK
<1> QED
  BY <1>2, <1>4, <1>5, <1>6, <1>7, <1>8

LEMMA CloseKnown ==
  ASSUME Known, NEW n \in DOMAIN prs, Close(n)
  PROVE  /\ CommitsGrow /\ BranchesGrow
         /\ refs' \in [Branches -> 0..Len(commits')] /\ prs' \in Seq(PullRequests)
         /\ RemoteKnown' /\ deleted' \subseteq Branches
<1>1. /\ UNCHANGED <<commits, refs, deleted>>
      /\ prs' = [prs EXCEPT ![n].state = "closed"]
      /\ prs \in Seq(PullRequests) /\ prs[n] \in PullRequests
      /\ deleted \subseteq Branches
      /\ RemoteKnown /\ refs \in [Branches -> 0..Len(commits)]
  BY DEF Known, TypeOK, ShasKnown, Close
<1>2. CommitsGrow
  BY <1>1, SameCommitsGrow DEF Known
<1>3. /\ prs' \in Seq(PullRequests) /\ DOMAIN prs' = DOMAIN prs
      /\ \A k \in DOMAIN prs : prs'[k].head = prs[k].head
      /\ \A k \in DOMAIN prs : prs'[k].state = "open" => prs[k].state = "open"
  BY <1>1 DEF PullRequests
<1>4. RemoteKnown'
  BY <1>1, <1>3 DEF RemoteKnown
<1> QED
  BY <1>1, <1>2, <1>3, <1>4, SameBranchesGrow DEF Known

LEMMA DeleteKnown ==
  ASSUME Known, NEW b \in Branches, Delete(b)
  PROVE  /\ CommitsGrow /\ BranchesGrow
         /\ refs' \in [Branches -> 0..Len(commits')] /\ prs' \in Seq(PullRequests)
         /\ RemoteKnown' /\ deleted' \subseteq Branches
<1>1. /\ UNCHANGED commits /\ b # Base
      /\ refs' = [refs EXCEPT ![b] = 0] /\ deleted' = deleted \cup {b}
      /\ prs' = [n \in DOMAIN prs |->
                   IF n \in OpenOn(b) THEN [prs[n] EXCEPT !.state = "closed"] ELSE prs[n]]
      /\ prs \in Seq(PullRequests)
      /\ deleted \subseteq Branches
      /\ RemoteKnown /\ refs \in [Branches -> 0..Len(commits)] /\ Len(commits) \in Nat
  BY DEF Known, TypeOK, ShasKnown, Delete
<1>2. CommitsGrow
  BY <1>1, SameCommitsGrow DEF Known
<1>3. /\ DOMAIN prs' = DOMAIN prs
      /\ \A k \in DOMAIN prs : prs'[k] \in PullRequests /\ prs'[k].head = prs[k].head
      /\ \A k \in DOMAIN prs : prs'[k].state = "open" =>
           prs[k].state = "open" /\ prs[k].head # b
  <2> SUFFICES ASSUME NEW k \in DOMAIN prs
               PROVE  /\ prs'[k] \in PullRequests /\ prs'[k].head = prs[k].head
                      /\ prs'[k].state = "open" => prs[k].state = "open" /\ prs[k].head # b
    BY <1>1
  <2>1. prs[k] \in PullRequests
    BY <1>1
  <2>2. prs'[k] = IF k \in OpenOn(b) THEN [prs[k] EXCEPT !.state = "closed"] ELSE prs[k]
    BY <1>1
  <2> QED
    BY <2>1, <2>2 DEF PullRequests, OpenOn
<1>4. prs' \in Seq(PullRequests)
  <2>1. DOMAIN prs' = 1..Len(prs) /\ Len(prs) \in Nat
    BY <1>1, <1>3
  <2>2. prs' \in [1..Len(prs) -> PullRequests]
    BY <1>1, <1>3, <2>1
  <2> QED
    BY <2>1, <2>2
<1>5. /\ refs' \in [Branches -> 0..Len(commits')]
      /\ refs'[b] = 0 /\ \A d \in Branches : d # b => refs'[d] = refs[d]
  BY <1>1
<1>6. RemoteKnown'
  <2>1. \A k \in DOMAIN prs : prs[k].head \in Branches
    <3>1. \A k \in DOMAIN prs : prs[k] \in PullRequests
      BY <1>1
    <3> QED
      BY <3>1 DEF PullRequests
  <2> QED
    BY <1>1, <1>3, <1>5, <2>1 DEF RemoteKnown
<1>7. BranchesGrow
  <2> SUFFICES ASSUME NEW d \in Branches, d # b, refs[d] # 0
               PROVE  refs'[d] # 0 /\ History(refs[d]) \subseteq History(refs[d])'
    BY <1>1 DEF BranchesGrow
  <2> QED
    BY <1>1, <1>5 DEF History
<1> QED
  BY <1>1, <1>2, <1>4, <1>5, <1>6, <1>7

\* What every step of the specification keeps and what it does to commits and branches.
LEMMA NextKnown ==
  ASSUME Known, [Next]_vars
  PROVE  Known' /\ CommitsGrow /\ BranchesGrow
<1>1. ASSUME NEW c \in Publications, Step(c)
      PROVE  Known' /\ CommitsGrow /\ BranchesGrow
  <2>1. Known' /\ CommitsGrow
    BY <1>1, PublishKnown, GetBaseKnown, CreateBranchKnown, GetBranchKnown, CommitKnown,
       UpdateBranchKnown, AskKnown, OpenPullRequestKnown, FailKnown DEF Step
  <2>2. CASE UNCHANGED <<refs, deleted>>
    BY <2>1, <2>2, SameBranchesGrow DEF Known
  <2>3. CASE /\ Writing(c) /\ Accepts(Write(c)) /\ CarryOut(Write(c))
             /\ UNCHANGED <<commits, deleted>>
    BY <2>1, <2>3, OwnWrite, CarryOutGrows
  <2> QED
    BY <1>1, <2>2, <2>3 DEF Step, Publish, GetBase, CreateBranch, GetBranch, Commit,
       UpdateBranch, Moves, Find, LookUp, OpenPullRequest, Fail, Writing
<1>2. ASSUME NEW r \in late, Land(r)
      PROVE  Known' /\ CommitsGrow /\ BranchesGrow
  <2>1. Known' /\ CommitsGrow
    BY <1>2, LandKnown
  <2>2. /\ UNCHANGED <<commits, deleted>> /\ r \in Writes /\ WriteKnown(r)
        /\ UNCHANGED <<refs, prs>> \/ (Accepts(r) /\ CarryOut(r))
    BY <1>2 DEF Land, Known, TypeOK, ShasKnown
  <2> QED
    BY <2>1, <2>2, SameBranchesGrow, CarryOutGrows DEF Known
<1>3. ASSUME People
      PROVE  Known' /\ CommitsGrow /\ BranchesGrow
  <2>1. UNCHANGED <<late, pub, faults>> /\ events' \in Nat
    BY <1>3 DEF People, Known, TypeOK
  <2>2. /\ CommitsGrow /\ BranchesGrow
        /\ refs' \in [Branches -> 0..Len(commits')] /\ prs' \in Seq(PullRequests)
        /\ RemoteKnown' /\ deleted' \subseteq Branches
    BY <1>3, MergeKnown, CloseKnown, DeleteKnown DEF People
  <2> QED
    BY <2>1, <2>2, PeopleKnown
<1>4. ASSUME UNCHANGED vars
      PROVE  Known' /\ CommitsGrow /\ BranchesGrow
  <2>1. CommitsGrow /\ BranchesGrow
    BY <1>4, SameCommitsGrow, SameBranchesGrow DEF Known, vars
  <2>2. events' \in Nat /\ deleted' \subseteq Branches
    BY <1>4 DEF vars, Known, TypeOK
  <2> QED
    BY <1>4, <2>1, <2>2, SameRemoteKnown, PeopleKnown DEF vars
<1> QED
  BY <1>1, <1>2, <1>3, <1>4 DEF Next

LEMMA InitKnown ==
  ASSUME Init
  PROVE  Known
<1>1. NoPublication \in PublicationType /\ NoPublication.pc = "idle"
  BY DEF NoPublication, PublicationType
<1>2. [tree |-> InitialTree, past |-> {}, merges |-> FALSE] \in Commits
  BY DEF Commits
<1>3. commits \in Seq(Commits) /\ Len(commits) = 1 /\ commits[1].past = {}
  BY <1>2 DEF Init
<1>4. TypeOK
  BY <1>1, <1>3 DEF Init, TypeOK
<1>5. CommitGraph
  BY <1>3 DEF CommitGraph
<1>6. RemoteKnown
  BY DEF Init, RemoteKnown
<1>7. \A c \in Publications : PublicationKnown(c)
  BY <1>1 DEF Init, PublicationKnown, HasCommit
<1> QED
  BY <1>4, <1>5, <1>6, <1>7 DEF Known, ShasKnown, Init

\* Every commit has a whole tree, every branch that exists points to a commit, and
\* every variable holds a value of its kind, in every behaviour.
THEOREM TypeCorrect == Spec => []TypeOK
<1>1. Init => Known
  BY InitKnown
<1>2. Known /\ [Next]_vars => Known'
  BY NextKnown
<1>3. Known => TypeOK
  BY DEF Known
<1> QED
  BY <1>1, <1>2, <1>3, PTL DEF Spec

-----------------------------------------------------------------------------
(* What was read or written stays in the branch.                           *)

LEMMA InBranchKept ==
  ASSUME BranchesGrow, NEW b \in Branches, NEW sha, InBranch(sha, b)
  PROVE  InBranch(sha, b)'
  BY DEF InBranch, BranchesGrow

LEMMA BranchType ==
  ASSUME Known, NEW c \in Publications
  PROVE  Branch(c) \in Branches
<1>1. pub[c] \in PublicationType
  BY DEF Known, TypeOK
<1> QED
  BY <1>1 DEF PublicationType, Branch

\* A publication that has not moved, or goes on with the head or commit it has.
LEMMA StaysKept ==
  ASSUME Known, BranchesGrow, RemoteKnown', NEW c \in Publications, HeadStays(c),
         pub'[c].request = pub[c].request, pub'[c].head = pub[c].head,
         pub'[c].sha = pub[c].sha,
         \/ pub'[c].pc = pub[c].pc
         \/ pub[c].pc \in Moved /\ pub'[c].pc \in Moved
         \/ pub'[c].pc \in {"get_branch", "raised"}
  PROVE  HeadStays(c)'
<1>1. Branch(c) \in Branches /\ Branch(c)' = Branch(c)
  BY BranchType DEF Branch
<1>2. InBranch(pub[c].head, Branch(c)) => InBranch(pub[c].head, Branch(c))'
  <2> DEFINE h == pub[c].head
             b == Branch(c)
  <2>1. h' = h /\ b' = b
    BY <1>1
  <2>2. ASSUME NEW i, i = h, NEW d \in Branches, d = b, InBranch(i, d)
        PROVE  InBranch(h, b)'
    <3>1. InBranch(i, d)'
      BY <2>2, InBranchKept
    <3> QED
      BY <2>1, <2>2, <3>1 DEF InBranch
  <2> QED
    BY <1>1, <2>2
<1>3. InBranch(pub[c].sha, Branch(c)) => InBranch(pub[c].sha, Branch(c))'
  <2> DEFINE h == pub[c].sha
             b == Branch(c)
  <2>1. h' = h /\ b' = b
    BY <1>1
  <2>2. ASSUME NEW i, i = h, NEW d \in Branches, d = b, InBranch(i, d)
        PROVE  InBranch(h, b)'
    <3>1. InBranch(i, d)'
      BY <2>2, InBranchKept
    <3> QED
      BY <2>1, <2>2, <3>1 DEF InBranch
  <2> QED
    BY <1>1, <2>2
<1>4. History(refs[Base]) \subseteq History(refs[Base])'
  BY DEF Known, ShasKnown, RemoteKnown, BranchesGrow
<1> QED
  BY <1>2, <1>3, <1>4 DEF HeadStays, Moved

LEMMA StepStays ==
  ASSUME Known, HeadsStay, Known', CommitsGrow, BranchesGrow,
         NEW c \in Publications, Step(c)
  PROVE  HeadsStay'
<1>1. /\ pub \in [Publications -> PublicationType] /\ pub[c] \in PublicationType
      /\ HeadStays(c) /\ RemoteKnown /\ RemoteKnown' /\ PublicationKnown(c)
  BY DEF Known, TypeOK, ShasKnown, HeadsStay
<1>2. Branch(c) \in Branches
  BY BranchType
<1>3. Untouched(c)
  BY <1>1 DEF Step, Publish, GetBase, CreateBranch, GetBranch, Commit, UpdateBranch, Find,
     OpenPullRequest, LookUp, Fail, To, Answer, Untouched
<1>4. ASSUME NEW d \in Publications, d # c
      PROVE  HeadStays(d)'
  BY <1>1, <1>3, <1>4, StaysKept DEF Untouched, HeadsStay
<1>5. HeadStays(c)'
  <2>1. CASE Publish(c)
    <3>1. pub'[c].pc \in {"raised", "get_base"}
      BY <1>1, <2>1 DEF Publish, PublicationType
    <3> QED
      BY <3>1 DEF HeadStays, Moved
  <2>2. CASE GetBase(c)
    <3>1. /\ pub'[c].pc = "create_ref" /\ pub'[c].head = refs[Base]
          /\ UNCHANGED <<refs, commits>>
      BY <1>1, <2>2 DEF GetBase, PublicationType
    <3> QED
      BY <3>1 DEF HeadStays, Moved, History
  <2>3. CASE CreateBranch(c)
    <3>1. pub[c].pc = "create_ref" /\ UNCHANGED commits
      BY <2>3 DEF CreateBranch
    <3>2. CASE Accepts(Write(c))
      <4>1. /\ pub'[c].pc = "commit" /\ pub'[c].head = pub[c].head
            /\ pub'[c].request = pub[c].request
            /\ refs' = [refs EXCEPT ![Branch(c)] = pub[c].head]
        BY <1>1, <2>3, <3>1, <3>2 DEF CreateBranch, CarryOut, Write, PublicationType
      <4>2. refs'[Branch(c)] = pub[c].head /\ pub[c].head \in DOMAIN commits
            /\ pub[c].head # 0
        BY <1>1, <1>2, <3>1, <4>1 DEF PublicationKnown, HasCommit, Known, TypeOK
      <4> QED
        BY <4>1, <4>2 DEF HeadStays, Moved, InBranch, Branch, History
    <3>3. CASE ~Accepts(Write(c))
      <4>1. pub'[c].pc \in {"get_branch", "raised"}
        BY <1>1, <2>3, <3>3 DEF CreateBranch, To, PublicationType
      <4> QED
        BY <4>1 DEF HeadStays, Moved
    <3> QED
      BY <3>2, <3>3
  <2>4. CASE GetBranch(c)
    <3>1. UNCHANGED <<refs, commits>>
      BY <2>4 DEF GetBranch
    <3>2. \/ pub'[c].pc = "raised"
          \/ /\ pub'[c].pc = "commit" /\ pub'[c].head = refs[Branch(c)]
             /\ pub'[c].request = pub[c].request /\ refs[Branch(c)] # 0
      BY <1>1, <2>4 DEF GetBranch, To, PublicationType
    <3> QED
      BY <3>1, <3>2 DEF HeadStays, Moved, InBranch, Branch, History
  <2>5. CASE Commit(c)
    <3>1. /\ pub[c].pc = "commit" /\ UNCHANGED <<refs, deleted>>
          /\ pub'[c].pc \in {"look_up", "update_ref"}
          /\ pub'[c].pc = "look_up" => pub'[c].sha = pub[c].head
          /\ pub'[c].head = pub[c].head /\ pub'[c].request = pub[c].request
      BY <2>5, CommitKnown DEF Commit
    <3>2. ASSUME NEW i, i = pub[c].head, NEW b \in Branches, b = Branch(c)
          PROVE  InBranch(i, b)'
      <4>1. InBranch(i, b)
        BY <1>1, <3>1, <3>2 DEF HeadStays
      <4> QED
        BY <4>1, InBranchKept
    <3>3. Branch(c)' = Branch(c)
      BY <3>1 DEF Branch
    <3>4. InBranch(pub[c].head, Branch(c))'
      BY <1>2, <3>1, <3>2, <3>3 DEF InBranch
    <3> QED
      BY <3>1, <3>4 DEF HeadStays, Moved, InBranch
  <2>6. CASE UpdateBranch(c)
    <3>1. pub[c].pc = "update_ref" /\ UNCHANGED commits
      BY <2>6 DEF UpdateBranch
    <3>2. CASE Moves(c)
      <4>1. /\ pub'[c].pc \in {"find", "create_pull_request"} /\ pub'[c].sha = pub[c].sha
            /\ pub'[c].request = pub[c].request
            /\ refs' = [refs EXCEPT ![Branch(c)] = pub[c].sha]
        BY <1>1, <2>6, <3>1, <3>2 DEF UpdateBranch, To, CarryOut, Write, PublicationType
      <4>2. refs'[Branch(c)] = pub[c].sha /\ pub[c].sha \in DOMAIN commits
            /\ pub[c].sha # 0
        BY <1>1, <1>2, <3>1, <4>1 DEF PublicationKnown, HasCommit, Known, TypeOK
      <4> QED
        BY <4>1, <4>2 DEF HeadStays, Moved, InBranch, Branch, History
    <3>3. CASE ~Moves(c)
      <4>1. pub'[c].pc = "raised"
        BY <1>1, <2>6, <3>3 DEF UpdateBranch, To, PublicationType
      <4> QED
        BY <4>1 DEF HeadStays, Moved
    <3> QED
      BY <3>2, <3>3
  <2>7. CASE Find(c) \/ LookUp(c) \/ OpenPullRequest(c)
    <3>1. /\ pub[c].pc \in Moved /\ pub[c].pc \in HasCommit
          /\ \/ \E point \in (HasCommit \ {"update_ref"}) \cup {"raised"} : To(c, point)
             \/ \E status \in {"created", "updated", "already_open", "no_changes"} :
                  Answer(c, status)
      BY <2>7 DEF Find, LookUp, OpenPullRequest, Moved, HasCommit
    <3>2. /\ pub'[c].request = pub[c].request /\ pub'[c].head = pub[c].head
          /\ pub'[c].sha = pub[c].sha
          /\ pub'[c].pc \in Moved \cup {"raised"}
      BY <1>1, <3>1 DEF To, Answer, PublicationType, HasCommit, Moved
    <3> QED
      BY <1>1, <3>1, <3>2, StaysKept
  <2>8. CASE Fail(c)
    <3>1. pub'[c].pc = "raised"
      BY <1>1, <2>8 DEF Fail, To, PublicationType
    <3> QED
      BY <3>1 DEF HeadStays, Moved
  <2> QED
    BY <2>1, <2>2, <2>3, <2>4, <2>5, <2>6, <2>7, <2>8 DEF Step
<1> QED
  BY <1>4, <1>5 DEF HeadsStay

LEMMA NextStays ==
  ASSUME Known, HeadsStay, [Next]_vars
  PROVE  HeadsStay'
<1>1. Known' /\ CommitsGrow /\ BranchesGrow
  BY NextKnown
<1>2. CASE \E c \in Publications : Step(c)
  BY <1>1, <1>2, StepStays
<1>3. CASE UNCHANGED pub
  <2>1. ASSUME NEW c \in Publications
        PROVE  HeadStays(c)'
    BY <1>1, <1>3, StaysKept DEF HeadsStay, Known, ShasKnown
  <2> QED
    BY <2>1 DEF HeadsStay
<1> QED
  BY <1>2, <1>3 DEF Next, Land, People, vars

\* What a publication has answered stays true, whoever publishes to its branch.
THEOREM AcknowledgedStaysAlways == Spec => []AcknowledgedStays
<1>1. Init => Known /\ HeadsStay
  <2> SUFFICES ASSUME Init PROVE Known /\ HeadsStay
    OBVIOUS
  <2>1. \A c \in Publications : pub[c].pc = "idle"
    BY DEF Init, NoPublication
  <2> QED
    BY <2>1, InitKnown DEF HeadsStay, HeadStays, Moved
<1>2. Known /\ HeadsStay /\ [Next]_vars => (Known /\ HeadsStay)'
  BY NextKnown, NextStays
<1>3. Known /\ HeadsStay => AcknowledgedStays
  BY DEF Known, ShasKnown, HeadsStay, HeadStays, PublicationKnown, AcknowledgedStays,
     InBranch, Moved, HasCommit
<1> QED
  BY <1>1, <1>2, <1>3, PTL DEF Spec

\* No publication writes to the base branch: it moves when people merge.
THEOREM NeverWrittenDirectly == Spec => NoDirectWrites
<1> DEFINE Direct == refs'[Base] # refs[Base] =>
      \E n \in DOMAIN prs : prs[n].state = "open" /\ prs'[n].state = "merged"
<1>1. Init => Known
  BY InitKnown
<1>2. Known /\ [Next]_vars => Known'
  BY NextKnown
<1>3. Known /\ [Next]_vars => [Direct]_vars
  <2> SUFFICES ASSUME Known, Next PROVE Direct
    BY DEF vars
  <2>1. CASE \E c \in Publications : Step(c)
    <3>1. PICK c \in Publications : Step(c)
      BY <2>1
    <3>2. CASE UNCHANGED refs
      BY <3>2
    <3>3. CASE /\ Writing(c) /\ Accepts(Write(c)) /\ CarryOut(Write(c))
               /\ UNCHANGED <<commits, deleted>>
      BY <3>3, OwnWrite, CarryOutGrows
    <3> QED
      BY <3>1, <3>2, <3>3 DEF Step, Publish, GetBase, CreateBranch, GetBranch, Commit,
         UpdateBranch, Moves, Find, LookUp, OpenPullRequest, Fail, Writing
  <2>2. CASE \E r \in late : Land(r)
    <3>1. PICK r \in late : Land(r)
      BY <2>2
    <3>2. /\ UNCHANGED <<commits, deleted>> /\ r \in Writes /\ WriteKnown(r)
          /\ UNCHANGED <<refs, prs>> \/ (Accepts(r) /\ CarryOut(r))
      BY <3>1 DEF Land, Known, TypeOK, ShasKnown
    <3> QED
      BY <3>2, CarryOutGrows
  <2>3. CASE People
    <3>1. ASSUME NEW n \in DOMAIN prs, Merge(n)
          PROVE  Direct
      <4>1. prs'[n].state = "merged" /\ prs[n].state = "open"
        <5>1. prs[n] \in PullRequests
          BY DEF Known, TypeOK
        <5> QED
          BY <3>1, <5>1 DEF Merge, PullRequests
      <4> QED
        BY <4>1
    <3>2. ASSUME NEW b \in Branches, Delete(b)
          PROVE  Direct
      BY <3>2 DEF Delete, Known, TypeOK
    <3>3. ASSUME NEW n \in DOMAIN prs, Close(n)
          PROVE  Direct
      BY <3>3 DEF Close
    <3> QED
      BY <2>3, <3>1, <3>2, <3>3 DEF People
  <2> QED
    BY <2>1, <2>2, <2>3 DEF Next
<1> QED
  BY <1>1, <1>2, <1>3, PTL DEF Spec, NoDirectWrites

-----------------------------------------------------------------------------
(* Who creates a branch.                                                   *)

\* Only CreateBranch turns a publication into a creator, of a branch that was not there.
LEMMA Creators ==
  ASSUME Known, OneCreator, [Next]_vars, NEW c \in Publications
  PROVE  /\ pub'[c].pc \in {"idle", "get_base", "create_ref", "get_branch"} =>
              ~pub'[c].created /\ pub'[c].status = "none"
         /\ pub'[c].status = "created" => pub'[c].created
         /\ pub'[c].created =>
              /\ pub'[c].request = pub[c].request
              /\ \/ pub[c].created
                 \/ /\ refs[Branch(c)] = 0 /\ refs'[Branch(c)] # 0
                    /\ \A d \in Publications : d # c => pub'[d] = pub[d]
<1>1. /\ pub \in [Publications -> PublicationType] /\ pub[c] \in PublicationType
      /\ Creation(c) /\ PublicationKnown(c)
  BY DEF Known, TypeOK, ShasKnown, OneCreator
<1>2. CASE pub'[c] = pub[c]
  BY <1>1, <1>2 DEF Creation
<1>3. CASE CreateBranch(c) /\ Accepts(Write(c))
  <2>1. /\ pub[c].pc = "create_ref" /\ refs[Branch(c)] = 0
        /\ refs' = [refs EXCEPT ![Branch(c)] = pub[c].head]
    BY <1>3 DEF CreateBranch, Write, Accepts, CarryOut
  <2>2. pub[c].head \in DOMAIN commits
    BY <1>1, <2>1 DEF PublicationKnown
  <2>3. pub[c].head # 0 /\ Branch(c) \in Branches
    BY <2>2, BranchType DEF Known, TypeOK
  <2>4. refs'[Branch(c)] # 0
    BY <2>1, <2>3 DEF Known, TypeOK
  <2>5. /\ pub'[c].pc = "commit" /\ pub'[c].status = pub[c].status
        /\ pub'[c].request = pub[c].request
        /\ \A d \in Publications : d # c => pub'[d] = pub[d]
    BY <1>1, <1>3 DEF CreateBranch, PublicationType
  <2> QED
    BY <1>1, <2>1, <2>4, <2>5 DEF Creation
<1>4. CASE Publish(c)
  BY <1>1, <1>4 DEF Publish, Creation, PublicationType
<1>5. CASE CreateBranch(c) /\ ~Accepts(Write(c))
  BY <1>1, <1>5 DEF CreateBranch, To, Creation, PublicationType
<1>6. CASE GetBase(c) \/ GetBranch(c) \/ UpdateBranch(c) \/ Fail(c)
  BY <1>1, <1>6 DEF GetBase, GetBranch, UpdateBranch, Fail, To, Creation, PublicationType
<1>7. CASE Find(c) \/ LookUp(c)
  BY <1>1, <1>7 DEF Find, LookUp, To, Answer, Creation, PublicationType
<1>8. CASE OpenPullRequest(c)
  BY <1>1, <1>8 DEF OpenPullRequest, IsNew, To, Answer, Creation, PublicationType
<1>9. CASE Commit(c)
  BY <1>1, <1>9, CommitKnown DEF Commit, Creation, PublicationType
<1>10. pub'[c] = pub[c] \/ Step(c)
  <2>1. ASSUME NEW d \in Publications, Step(d), d # c
        PROVE  pub'[c] = pub[c]
    BY <1>1, <2>1 DEF Step, Publish, GetBase, CreateBranch, GetBranch, Commit, UpdateBranch,
       Find, OpenPullRequest, LookUp, Fail, To, Answer
  <2> QED
    BY <2>1 DEF Next, Land, People, vars
<1>11. CASE CreateBranch(c)
  BY <1>3, <1>5, <1>11
<1>12. Step(c) =>
         \/ Publish(c) \/ CreateBranch(c) \/ OpenPullRequest(c) \/ Commit(c)
         \/ (GetBase(c) \/ GetBranch(c) \/ UpdateBranch(c) \/ Fail(c))
         \/ (Find(c) \/ LookUp(c))
  BY DEF Step
<1> QED
  BY <1>2, <1>4, <1>6, <1>7, <1>8, <1>9, <1>10, <1>11, <1>12

LEMMA NextCreator ==
  ASSUME Known, OneCreator, [Next]_vars
  PROVE  OneCreator'
<1>1. Known' /\ BranchesGrow
  BY NextKnown
<1>2. \A c \in Publications : pub'[c].created => Branch(c)' = Branch(c)
  BY Creators DEF Branch
<1>3. ASSUME NEW c \in Publications
      PROVE  Creation(c)'
  <2>1. ASSUME pub'[c].created, Branch(c)' \notin deleted'
        PROVE  refs'[Branch(c)'] # 0
    <3>1. Branch(c)' = Branch(c) /\ Branch(c) \in Branches /\ Branch(c) \notin deleted
      BY <1>1, <1>2, <2>1, BranchType DEF BranchesGrow
    <3>2. CASE pub[c].created
      BY <1>1, <2>1, <3>1, <3>2 DEF OneCreator, Creation, BranchesGrow
    <3>3. CASE ~pub[c].created
      BY <2>1, <3>1, <3>3, Creators
    <3> QED
      BY <3>2, <3>3
  <2> QED
    BY <2>1, Creators DEF Creation
<1>4. ASSUME NEW c \in Publications, NEW d \in Publications,
             pub'[c].created, pub'[d].created,
             Branch(c)' = Branch(d)', Branch(c)' \notin deleted'
      PROVE  c = d
  <2>1. /\ Branch(c) = Branch(d) /\ Branch(c) \notin deleted
    BY <1>1, <1>2, <1>4 DEF BranchesGrow
  <2>2. CASE pub[c].created /\ pub[d].created
    BY <2>1, <2>2 DEF OneCreator
  <2>3. CASE ~pub[c].created
    BY <1>4, <2>1, <2>3, Creators DEF OneCreator, Creation
  <2>4. CASE ~pub[d].created
    BY <1>4, <2>1, <2>4, Creators DEF OneCreator, Creation
  <2> QED
    BY <2>2, <2>3, <2>4
<1> QED
  BY <1>3, <1>4 DEF OneCreator

\* At most one publication of a branch answers that it created it.
THEOREM CreatedOnceAlways == Spec => []CreatedOnce
<1>1. Init => Known /\ OneCreator
  BY InitKnown DEF Init, NoPublication, OneCreator, Creation
<1>2. Known /\ OneCreator /\ [Next]_vars => (Known /\ OneCreator)'
  BY NextKnown, NextCreator
<1>3. Known /\ OneCreator => CreatedOnce
  BY DEF OneCreator, Creation, CreatedOnce
<1> QED
  BY <1>1, <1>2, <1>3, PTL DEF Spec

-----------------------------------------------------------------------------
(* Who opens the pull request.                                             *)

Settling(b) ==
  \E c \in Publications : Branch(c) = b /\ pub[c].pc \in {"find", "create_pull_request"}

\* A branch that does not move stays settled, if pull requests are only added, closed,
\* or merged into the base branch.
LEMMA SettledKept ==
  ASSUME Known, BranchesGrow, RemoteKnown', NEW b \in Branches, Settled(b),
         refs'[b] = refs[b] \/ refs'[b] = 0,
         \A n \in DOMAIN prs : n \in DOMAIN prs' /\ prs'[n].head = prs[n].head,
         \A n \in DOMAIN prs : prs[n].state # "merged" =>
           prs'[n].state # "merged" \/ (prs[n].head = b => Merged(b)')
  PROVE  Settled(b)'
<1>1. Merged(b) /\ refs'[b] = refs[b] => Merged(b)'
  BY DEF Merged, Known, ShasKnown, RemoteKnown, BranchesGrow
<1> QED
  BY <1>1 DEF Settled

\* A pull request that GitHub opens settles its branch, and so does its refusal.
LEMMA OpenedOrSettled ==
  ASSUME Known, NEW r \in Writes, r.kind = "create_pull_request"
  PROVE  /\ ~Accepts(r) => Settled(r.branch)
         /\ Accepts(r) /\ CarryOut(r) => Settled(r.branch)'
<1>1. ~Accepts(r) => Settled(r.branch)
  BY DEF Accepts, Settled, OpenOn
<1>2. ASSUME Accepts(r), CarryOut(r)
      PROVE  Settled(r.branch)'
  <2> DEFINE new == [head |-> r.branch, state |-> "open"]
  <2>1. prs' = Append(prs, new) /\ new.head = r.branch /\ new.state = "open"
    BY <1>2 DEF CarryOut
  <2>2. prs \in Seq(PullRequests) /\ new \in PullRequests
    BY DEF Known, TypeOK, PullRequests, Writes
  <2> HIDE DEF new
  <2>3. Len(prs) + 1 \in DOMAIN prs' /\ prs'[Len(prs) + 1] = new
    BY <2>1, <2>2
  <2> QED
    BY <2>1, <2>3 DEF Settled
<1> QED
  BY <1>1, <1>2

LEMMA StepSettles ==
  ASSUME Known, HeadsStay, SomebodySettles, faults = 0, NEW c \in Publications, Step(c),
         ~Fail(c), NEW b \in Branches
  PROVE  Settled(b)' \/ Settling(b)'
<1>1. /\ pub \in [Publications -> PublicationType] /\ pub[c] \in PublicationType
      /\ PublicationKnown(c) /\ HeadStays(c)
      /\ Settled(b) \/ Settling(b)
  BY DEF Known, TypeOK, ShasKnown, HeadsStay, SomebodySettles, Settling
<1>2. Known' /\ BranchesGrow /\ RemoteKnown'
  <2>1. Known' /\ BranchesGrow
    BY NextKnown DEF Next
  <2> QED
    BY <2>1 DEF Known, ShasKnown
<1>3. Untouched(c)
  BY <1>1 DEF Step, Publish, GetBase, CreateBranch, GetBranch, Commit, UpdateBranch, Find,
     OpenPullRequest, LookUp, Fail, To, Answer, Untouched
<1>4. Branch(c) \in Branches
  BY BranchType
<1>5. Settled(b) /\ UNCHANGED <<refs, prs>> => Settled(b)'
  <2> SUFFICES ASSUME Settled(b), UNCHANGED <<refs, prs>> PROVE Settled(b)'
    OBVIOUS
  <2> QED
    BY <1>2, SettledKept
<1>6. ASSUME Settling(b), ~(pub[c].pc \in {"find", "create_pull_request"} /\ Branch(c) = b)
      PROVE  Settling(b)'
  <2>1. PICK d \in Publications : Branch(d) = b /\ pub[d].pc \in {"find", "create_pull_request"}
    BY <1>6 DEF Settling
  <2>2. pub'[d] = pub[d]
    BY <1>3, <1>6, <2>1 DEF Untouched
  <2> QED
    BY <2>1, <2>2 DEF Settling, Branch
<1>7. CASE \/ Publish(c) \/ GetBase(c) \/ GetBranch(c) \/ Commit(c) \/ LookUp(c)
           \/ Find(c) /\ pub[c].pc = "find_again"
  <2>1. pub[c].pc \notin {"find", "create_pull_request"} /\ UNCHANGED <<refs, prs>>
    BY <1>7 DEF Publish, GetBase, GetBranch, Commit, LookUp, Find
  <2> QED
    BY <1>1, <1>5, <1>6, <2>1
<1>8. CASE CreateBranch(c)
  <2>1. pub[c].pc = "create_ref"
    BY <1>8 DEF CreateBranch
  <2>2. CASE ~Accepts(Write(c))
    BY <1>1, <1>5, <1>6, <1>8, <2>1, <2>2 DEF CreateBranch
  <2>3. CASE Accepts(Write(c))
    <3>1. /\ refs' = [refs EXCEPT ![Branch(c)] = pub[c].head]
          /\ UNCHANGED <<prs, commits>>
      BY <1>8, <2>1, <2>3 DEF CreateBranch, CarryOut, Write
    <3>2. Branch(c) # Base /\ pub[c].head \in History(refs[Base])
      BY <1>1, <2>1 DEF PublicationKnown, HeadStays
    <3>3. CASE b = Branch(c)
      BY <1>4, <3>1, <3>2, <3>3 DEF Settled, Merged, History, Known, TypeOK
    <3>4. CASE b # Branch(c)
      <4>1. refs'[b] = refs[b]
        BY <1>4, <3>1, <3>4 DEF Known, TypeOK
      <4>2. Settled(b) => Settled(b)'
        <5> SUFFICES ASSUME Settled(b) PROVE Settled(b)'
          OBVIOUS
        <5> QED
          BY <1>2, <3>1, <4>1, SettledKept
      <4> QED
        BY <1>1, <1>6, <2>1, <4>2
    <3> QED
      BY <3>3, <3>4
  <2> QED
    BY <2>2, <2>3
<1>9. CASE UpdateBranch(c)
  <2>1. pub[c].pc = "update_ref"
    BY <1>9 DEF UpdateBranch
  <2>2. CASE ~Moves(c)
    BY <1>1, <1>5, <1>6, <1>9, <2>1, <2>2 DEF UpdateBranch
  <2>3. CASE Moves(c)
    <3>1. /\ refs' = [refs EXCEPT ![Branch(c)] = pub[c].sha]
          /\ UNCHANGED <<prs, commits>>
          /\ pub'[c].pc \in {"find", "create_pull_request"}
          /\ pub'[c].request = pub[c].request
      BY <1>1, <1>9, <2>1, <2>3 DEF UpdateBranch, CarryOut, Write, To, PublicationType
    <3>2. CASE b = Branch(c)
      BY <3>1, <3>2 DEF Settling, Branch
    <3>3. CASE b # Branch(c)
      <4>1. refs'[b] = refs[b]
        BY <1>4, <3>1, <3>3 DEF Known, TypeOK
      <4>2. Settled(b) => Settled(b)'
        <5> SUFFICES ASSUME Settled(b) PROVE Settled(b)'
          OBVIOUS
        <5> QED
          BY <1>2, <3>1, <4>1, SettledKept
      <4> QED
        BY <1>1, <1>6, <2>1, <4>2
    <3> QED
      BY <3>2, <3>3
  <2> QED
    BY <2>2, <2>3
<1>10. CASE Find(c) /\ pub[c].pc = "find"
  <2>1. UNCHANGED <<refs, prs>>
    BY <1>10 DEF Find
  <2>2. CASE Branch(c) = b /\ FindOpen(c) # {}
    <3>1. Settled(b)
      BY <2>2 DEF FindOpen, OpenOn, Settled
    <3> QED
      BY <1>5, <2>1, <3>1
  <2>3. CASE Branch(c) = b /\ FindOpen(c) = {}
    <3>1. pub'[c].pc = "create_pull_request" /\ pub'[c].request = pub[c].request
      BY <1>1, <1>10, <2>3 DEF Find, To, PublicationType
    <3> QED
      BY <2>3, <3>1 DEF Settling, Branch
  <2> QED
    BY <1>1, <1>5, <1>6, <2>1, <2>2, <2>3
<1>11. CASE OpenPullRequest(c)
  <2>1. /\ pub[c].pc = "create_pull_request" /\ Writing(c)
        /\ Write(c).kind = "create_pull_request" /\ Write(c).branch = Branch(c)
    BY <1>11 DEF OpenPullRequest, Writing, Write
  <2>2. Write(c) \in Writes
    BY <2>1, OwnWrite
  <2>3. CASE ~Accepts(Write(c))
    <3>1. Settled(Branch(c)) /\ UNCHANGED <<refs, prs>>
      BY <1>11, <2>1, <2>2, <2>3, OpenedOrSettled DEF OpenPullRequest
    <3> QED
      BY <1>1, <1>5, <1>6, <3>1
  <2>4. CASE Accepts(Write(c))
    <3>1. CarryOut(Write(c)) /\ UNCHANGED refs
          /\ prs' = Append(prs, [head |-> Branch(c), state |-> "open"])
      BY <1>11, <2>1, <2>4 DEF OpenPullRequest, CarryOut
    <3>2. CASE b = Branch(c)
      <4>1. ASSUME NEW r \in Writes, r = Write(c)
            PROVE  Settled(r.branch)'
        BY <2>1, <2>4, <3>1, <4>1, OpenedOrSettled
      <4>2. ASSUME NEW r \in Writes, r = Write(c)
            PROVE  Settled(b)'
        <5>1. b = r.branch
          BY <2>1, <3>2, <4>2
        <5> QED
          BY <4>1, <4>2, <5>1
      <4> QED
        BY <2>2, <4>2
    <3>3. CASE b # Branch(c)
      <4>1. \A n \in DOMAIN prs : n \in DOMAIN prs' /\ prs'[n] = prs[n]
        <5>1. prs \in Seq(PullRequests)
              /\ [head |-> Branch(c), state |-> "open"] \in PullRequests
          BY <1>4 DEF Known, TypeOK, PullRequests
        <5> QED
          BY <3>1, <5>1
      <4>2. Settled(b) => Settled(b)'
        <5> SUFFICES ASSUME Settled(b) PROVE Settled(b)'
          OBVIOUS
        <5> QED
          BY <1>2, <3>1, <4>1, SettledKept
      <4> QED
        BY <1>1, <1>6, <3>3, <4>2
    <3> QED
      BY <3>2, <3>3
  <2> QED
    BY <2>3, <2>4
<1> QED
  BY <1>7, <1>8, <1>9, <1>10, <1>11 DEF Step, Find

LEMMA NextSettles ==
  ASSUME Known, HeadsStay, SomebodySettles, [Next]_vars
  PROVE  SomebodySettles'
<1> SUFFICES ASSUME faults' = 0
             PROVE  late' = {} /\ \A b \in Branches : Settled(b)' \/ Settling(b)'
  BY DEF SomebodySettles, Settling
<1>1. Known' /\ BranchesGrow /\ RemoteKnown'
  <2>1. Known' /\ BranchesGrow
    BY NextKnown
  <2> QED
    BY <2>1 DEF Known, ShasKnown
<1>2. faults \in Nat
  BY DEF Known, TypeOK
<1>3. ASSUME NEW c \in Publications, Step(c)
      PROVE  late' = {} /\ \A b \in Branches : Settled(b)' \/ Settling(b)'
  <2>1. ~Fail(c)
    BY <1>2 DEF Fail
  <2>2. faults = 0 /\ late' = late
    BY <1>3, <2>1 DEF Step, Publish, GetBase, CreateBranch, GetBranch, Commit, UpdateBranch,
       Find, OpenPullRequest, LookUp
  <2> QED
    BY <1>3, <2>1, <2>2, StepSettles DEF SomebodySettles
<1>4. ASSUME UNCHANGED <<faults, late, pub>>, NEW b \in Branches,
             Settled(b) => Settled(b)'
      PROVE  Settled(b)' \/ Settling(b)'
  BY <1>4 DEF SomebodySettles, Settling, Branch
<1>5. ASSUME NEW n \in DOMAIN prs, Merge(n), NEW b \in Branches, Settled(b)
      PROVE  Settled(b)'
  <2> DEFINE head == prs[n].head
  <2>1. /\ CommitsGrow /\ Len(commits') = Len(commits) + 1
        /\ commits'[Len(commits) + 1].past = History(refs[head]) \cup History(refs[Base])
    BY <1>5, MergeGrows
  <2>2. prs \in Seq(PullRequests) /\ prs[n] \in PullRequests /\ head # Base
        /\ refs \in [Branches -> 0..Len(commits)] /\ Len(commits) \in Nat
    BY DEF Known, TypeOK, ShasKnown, RemoteKnown
  <2>3. head \in Branches
    BY <2>2 DEF PullRequests
  <2>4. /\ refs' = [refs EXCEPT ![Base] = Len(commits) + 1]
        /\ prs' = [prs EXCEPT ![n].state = "merged"]
    BY <1>5 DEF Merge
  <2>5. /\ refs'[Base] = Len(commits) + 1 /\ refs'[head] = refs[head]
        /\ \A d \in Branches : d # Base => refs'[d] = refs[d]
    BY <2>2, <2>3, <2>4
  <2>6. CASE b = Base
    BY <2>6 DEF Settled, Merged, History
  <2>7. CASE b # Base
    <3>1. /\ \A k \in DOMAIN prs : k \in DOMAIN prs' /\ prs'[k].head = prs[k].head
          /\ \A k \in DOMAIN prs : k # n => prs'[k] = prs[k]
      BY <2>2, <2>4 DEF PullRequests
    <3>2. head = b => Merged(b)'
      <4> SUFFICES ASSUME head = b PROVE Merged(b)'
        OBVIOUS
      <4> QED
        BY <2>1, <2>5 DEF Merged, History
    <3> QED
      BY <1>1, <1>5, <2>5, <2>7, <3>1, <3>2, SettledKept
  <2> QED
    BY <2>6, <2>7
<1>6. ASSUME NEW n \in DOMAIN prs, Close(n), NEW b \in Branches, Settled(b)
      PROVE  Settled(b)'
  <2>1. prs \in Seq(PullRequests) /\ prs[n] \in PullRequests
    BY DEF Known, TypeOK
  <2>2. /\ UNCHANGED refs
        /\ \A k \in DOMAIN prs : k \in DOMAIN prs' /\ prs'[k].head = prs[k].head
        /\ \A k \in DOMAIN prs : prs[k].state # "merged" => prs'[k].state # "merged"
    BY <1>6, <2>1 DEF Close, PullRequests
  <2> QED
    BY <1>1, <1>6, <2>2, SettledKept
<1>7. ASSUME NEW d \in Branches, Delete(d), NEW b \in Branches, Settled(b)
      PROVE  Settled(b)'
  <2>1. /\ refs'[b] = refs[b] \/ refs'[b] = 0
        /\ DOMAIN prs' = DOMAIN prs
        /\ deleted' = deleted \cup {d} /\ UNCHANGED commits
    BY <1>7 DEF Delete, Known, TypeOK
  <2>2. ASSUME NEW k \in DOMAIN prs
        PROVE  /\ prs'[k].head = prs[k].head
               /\ prs[k].state # "merged" => prs'[k].state # "merged"
    <3>1. prs[k] \in PullRequests
      BY DEF Known, TypeOK
    <3>2. prs'[k] = IF k \in OpenOn(d) THEN [prs[k] EXCEPT !.state = "closed"] ELSE prs[k]
      BY <1>7 DEF Delete
    <3> QED
      BY <3>1, <3>2 DEF PullRequests
  <2> QED
    BY <1>1, <1>7, <2>1, <2>2, SettledKept
<1>8. ASSUME People
      PROVE  late' = {} /\ \A b \in Branches : Settled(b)' \/ Settling(b)'
  <2>1. UNCHANGED <<faults, late, pub>> /\ late' = {}
    BY <1>8 DEF People, SomebodySettles
  <2>2. \A b \in Branches : Settled(b) => Settled(b)'
    BY <1>5, <1>6, <1>7, <1>8 DEF People
  <2> QED
    BY <1>4, <2>1, <2>2
<1>9. ASSUME UNCHANGED vars
      PROVE  late' = {} /\ \A b \in Branches : Settled(b)' \/ Settling(b)'
  <2>1. UNCHANGED <<commits, refs, prs, faults, late, pub>> /\ late' = {}
    BY <1>9 DEF vars, SomebodySettles
  <2>2. \A b \in Branches : Settled(b) => Settled(b)'
    BY <2>1 DEF Settled, Merged, History
  <2> QED
    BY <1>4, <2>1, <2>2
<1>10. ASSUME NEW r \in late, Land(r)
       PROVE  FALSE
  BY <1>10 DEF Land, SomebodySettles
<1> QED
  BY <1>3, <1>8, <1>9, <1>10 DEF Next

\* While every call is answered, no branch is left behind without a pull request.
THEOREM NoBranchEverLeftBehind == Spec => []NoBranchLeftBehind
<1>1. Init => Known /\ HeadsStay /\ SomebodySettles
  <2> SUFFICES ASSUME Init PROVE Known /\ HeadsStay /\ SomebodySettles
    OBVIOUS
  <2>1. \A c \in Publications : pub[c].pc = "idle"
    BY DEF Init, NoPublication
  <2>2. SomebodySettles
    BY DEF Init, SomebodySettles, Settled, Merged, History
  <2> QED
    BY <2>1, <2>2, InitKnown DEF HeadsStay, HeadStays, Moved
<1>2. /\ Known /\ HeadsStay /\ SomebodySettles
      /\ [Next]_vars
      => (Known /\ HeadsStay /\ SomebodySettles)'
  BY NextKnown, NextStays, NextSettles
<1>3. SomebodySettles => NoBranchLeftBehind
  BY DEF SomebodySettles, NoBranchLeftBehind, Working
<1> QED
  BY <1>1, <1>2, <1>3, PTL DEF Spec
=============================================================================

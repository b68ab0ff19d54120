---------------------------- MODULE GitHubPublish ----------------------------
(***************************************************************************)
(* Publishing files through a pull request (services/integrator/app/       *)
(* publishers/github_pr): a publication reads the base branch, creates its *)
(* publish branch or takes up the one that is there, commits the files on  *)
(* the head it has read, moves the branch to that commit and makes sure    *)
(* that a pull request is open.  Each remote call is a step; others may    *)
(* publish to the same branch, merge, close and delete in between.         *)
(*                                                                         *)
(* A call to GitHub may fail without an answer: the publication raises,    *)
(* and GitHub may carry out the request at any later time, or never.  A    *)
(* retry is another publication of the same request.                       *)
(***************************************************************************)
EXTENDS Integers, Sequences

CONSTANTS
  Branches,
  Base,          \* the base branch
  Paths, Contents,
  Absent,        \* what a tree holds at a path without a file
  InitialTree,   \* the tree of the base branch at the start
  Requests,      \* what may be published
  Publications,  \* publish_via_pull_request, each called once
  MaxFaults,     \* bound: calls to GitHub without an answer
  MaxEvents      \* bound: merges, closings and deletions by people

Trees == [Paths -> Contents \cup {Absent}]

ASSUME GitHubAssumption ==
  /\ Base \in Branches
  /\ Absent \notin Contents /\ Requests # {}
  /\ InitialTree \in Trees
  /\ \A q \in Requests :
       /\ q.branch \in Branches /\ DOMAIN q.files \subseteq Paths
       /\ \A p \in DOMAIN q.files : q.files[p] \in Contents
       /\ q.reuse_existing_branch \in BOOLEAN /\ q.update_existing_pr \in BOOLEAN
  /\ MaxFaults \in Nat /\ MaxEvents \in Nat

VARIABLES
  commits,  \* the commits of the repository, each with its tree and its ancestors
  refs,     \* the commit each branch points to, 0 when the branch does not exist
  prs,      \* the pull requests by number
  late,     \* requests that GitHub may still carry out, though nobody waits for them
  pub,      \* the state of each publication
  deleted,  \* history: the branches that people have deleted
  faults, events

github == <<commits, refs, prs>>
vars == <<commits, refs, prs, late, pub, deleted, faults, events>>

NoPublication ==
  [pc |-> "idle", request |-> CHOOSE q \in Requests : TRUE, head |-> 0,
   created |-> FALSE, sha |-> 0, status |-> "none"]

Init ==
  /\ commits = <<[tree |-> InitialTree, past |-> {}, merges |-> FALSE]>>
  /\ refs = [b \in Branches |-> IF b = Base THEN 1 ELSE 0]
  /\ prs = <<>>
  /\ late = {}
  /\ pub = [c \in Publications |-> NoPublication]
  /\ deleted = {}
  /\ faults = 0 /\ events = 0

-----------------------------------------------------------------------------
(* GitHub, as the client uses it.                                          *)

History(sha) == commits[sha].past \cup {sha}
Merged(b) == refs[b] \in History(refs[Base])
OpenOn(b) == {n \in DOMAIN prs : prs[n].head = b /\ prs[n].state = "open"}

\* 422 "Reference already exists"; not a fast-forward, or no such reference; a
\* pull request already exists, or there are no commits between the branches.
Accepts(r) ==
  CASE r.kind = "create_ref" -> refs[r.branch] = 0
    [] r.kind = "update_ref" -> refs[r.branch] # 0 /\ refs[r.branch] \in History(r.sha)
    [] r.kind = "create_pull_request" ->
         refs[r.branch] # 0 /\ OpenOn(r.branch) = {} /\ ~Merged(r.branch)

CarryOut(r) ==
  IF r.kind = "create_pull_request"
  THEN prs' = Append(prs, [head |-> r.branch, state |-> "open"]) /\ UNCHANGED refs
  ELSE refs' = [refs EXCEPT ![r.branch] = r.sha] /\ UNCHANGED prs

-----------------------------------------------------------------------------
(* Vocabulary of a publication.  AnyPullRequest, AlwaysCreated,            *)
(* DirectWrites and Overwritten are seeded faults that stand in for the    *)
(* definition below them.                                                  *)

Working(c) == pub[c].pc \notin {"idle", "answered", "raised"}
Branch(c) == pub[c].request.branch
Files(c) == pub[c].request.files

To(c, pc) == pub' = [pub EXCEPT ![c].pc = pc]
Answer(c, status) == pub' = [pub EXCEPT ![c].pc = "answered", ![c].status = status]

\* The write that publication c waits for, if it does.
Writing(c) == pub[c].pc \in {"create_ref", "update_ref", "create_pull_request"}
Write(c) ==
  [kind |-> pub[c].pc, branch |-> Branch(c),
   sha |-> IF pub[c].pc = "create_ref" THEN pub[c].head ELSE pub[c].sha]

\* The tree of the files on top of the tree of the head that was read.
TreeOf(c) ==
  [p \in Paths |-> IF p \in DOMAIN Files(c) THEN Files(c)[p]
                                            ELSE commits[pub[c].head].tree[p]]

AnyPullRequest(c) == {n \in DOMAIN prs : prs[n].head = Branch(c)}
FindOpen(c) == OpenOn(Branch(c))

AlwaysCreated(c) == TRUE
IsNew(c) == pub[c].created

-----------------------------------------------------------------------------
(* publish.                                                                *)

DirectWrites(q) == FALSE
Invalid(q) == q.branch = Base

Publish(c) ==
  /\ pub[c].pc = "idle"
  /\ \E q \in Requests :
       pub' = [pub EXCEPT ![c].request = q,
                          ![c].pc = IF Invalid(q) THEN "raised" ELSE "get_base"]
  /\ UNCHANGED <<commits, refs, prs, late, deleted, faults, events>>

GetBase(c) ==
  /\ pub[c].pc = "get_base"
  /\ pub' = [pub EXCEPT ![c].pc = "create_ref", ![c].head = refs[Base]]
  /\ UNCHANGED <<commits, refs, prs, late, deleted, faults, events>>

CreateBranch(c) ==
  /\ pub[c].pc = "create_ref"
  /\ IF Accepts(Write(c))
     THEN /\ CarryOut(Write(c))
          /\ pub' = [pub EXCEPT ![c].pc = "commit", ![c].created = TRUE]
     ELSE /\ To(c, IF pub[c].request.reuse_existing_branch THEN "get_branch" ELSE "raised")
          /\ UNCHANGED <<refs, prs>>
  /\ UNCHANGED <<commits, late, deleted, faults, events>>

\* The branch that is there already; someone may have deleted it meanwhile.
GetBranch(c) ==
  /\ pub[c].pc = "get_branch"
  /\ IF refs[Branch(c)] = 0 THEN To(c, "raised")
     ELSE pub' = [pub EXCEPT ![c].pc = "commit", ![c].head = refs[Branch(c)]]
  /\ UNCHANGED <<commits, refs, prs, late, deleted, faults, events>>

\* Blobs, tree and commit are objects that nobody sees before the branch points to
\* them.  Equal commits of one second are one object.  An unchanged tree needs no
\* commit, and no new pull request either.
Commit(c) ==
  LET new == [tree |-> TreeOf(c), past |-> History(pub[c].head), merges |-> FALSE]
  IN  /\ pub[c].pc = "commit"
      /\ IF TreeOf(c) = commits[pub[c].head].tree
         THEN /\ pub' = [pub EXCEPT ![c].pc = "look_up", ![c].sha = pub[c].head]
              /\ UNCHANGED commits
         ELSE \/ /\ commits' = Append(commits, new)
                 /\ pub' = [pub EXCEPT ![c].pc = "update_ref", ![c].sha = Len(commits) + 1]
              \/ /\ \E i \in DOMAIN commits :
                      /\ commits[i] = new
                      /\ pub' = [pub EXCEPT ![c].pc = "update_ref", ![c].sha = i]
                 /\ UNCHANGED commits
      /\ UNCHANGED <<refs, prs, late, deleted, faults, events>>

Overwritten(c) == TRUE
Moves(c) == Accepts(Write(c))

\* update_ref with force = FALSE: 422 means that the branch has moved.
UpdateBranch(c) ==
  /\ pub[c].pc = "update_ref"
  /\ IF Moves(c)
     THEN /\ CarryOut(Write(c))
          /\ To(c, IF pub[c].request.update_existing_pr THEN "find" ELSE "create_pull_request")
     ELSE To(c, "raised") /\ UNCHANGED <<refs, prs>>
  /\ UNCHANGED <<commits, late, deleted, faults, events>>

\* ensure_pull_request: list_pull_requests before a request is created, and again
\* when GitHub has refused to create it.
Find(c) ==
  /\ pub[c].pc \in {"find", "find_again"}
  /\ IF FindOpen(c) # {} THEN Answer(c, "updated")
     ELSE To(c, IF pub[c].pc = "find" THEN "create_pull_request" ELSE "raised")
  /\ UNCHANGED <<commits, refs, prs, late, deleted, faults, events>>

OpenPullRequest(c) ==
  /\ pub[c].pc = "create_pull_request"
  /\ IF Accepts(Write(c))
     THEN CarryOut(Write(c)) /\ Answer(c, IF IsNew(c) THEN "created" ELSE "updated")
     ELSE /\ To(c, IF pub[c].request.update_existing_pr THEN "find_again" ELSE "raised")
          /\ UNCHANGED <<refs, prs>>
  /\ UNCHANGED <<commits, late, deleted, faults, events>>

\* Nothing was committed: an open pull request is looked up, not created.
LookUp(c) ==
  /\ pub[c].pc = "look_up"
  /\ Answer(c, IF pub[c].request.update_existing_pr /\ FindOpen(c) # {}
               THEN "already_open" ELSE "no_changes")
  /\ UNCHANGED <<commits, refs, prs, late, deleted, faults, events>>

\* A call fails, times out or the process dies: a write may still reach GitHub.
Fail(c) ==
  /\ Working(c)
  /\ faults < MaxFaults
  /\ faults' = faults + 1
  /\ To(c, "raised")
  /\ late' = IF Writing(c) THEN late \cup {Write(c)} ELSE late
  /\ UNCHANGED <<commits, refs, prs, deleted, events>>

-----------------------------------------------------------------------------
(* The world outside.                                                      *)

Land(r) ==
  /\ r \in late
  /\ late' = late \ {r}
  /\ IF Accepts(r) THEN CarryOut(r) ELSE UNCHANGED <<refs, prs>>
  /\ UNCHANGED <<commits, pub, deleted, faults, events>>

\* Each file of the merge commit is the one of either side.
Merge(n) ==
  LET head == refs[prs[n].head]
  IN  /\ prs[n].state = "open"
      /\ \E tree \in Trees :
           /\ \A p \in Paths : tree[p] \in {commits[head].tree[p], commits[refs[Base]].tree[p]}
           /\ commits' = Append(commits, [tree |-> tree, merges |-> TRUE,
                                          past |-> History(head) \cup History(refs[Base])])
      /\ refs' = [refs EXCEPT ![Base] = Len(commits) + 1]
      /\ prs' = [prs EXCEPT ![n].state = "merged"]
      /\ UNCHANGED deleted

Close(n) ==
  /\ prs[n].state = "open"
  /\ prs' = [prs EXCEPT ![n].state = "closed"]
  /\ UNCHANGED <<commits, refs, deleted>>

\* Deleting a branch closes its pull request.
Delete(b) ==
  /\ b # Base /\ refs[b] # 0
  /\ refs' = [refs EXCEPT ![b] = 0]
  /\ prs' = [n \in DOMAIN prs |->
               IF n \in OpenOn(b) THEN [prs[n] EXCEPT !.state = "closed"] ELSE prs[n]]
  /\ deleted' = deleted \cup {b}
  /\ UNCHANGED commits

People ==
  /\ events < MaxEvents
  /\ events' = events + 1
  /\ \/ \E n \in DOMAIN prs : Merge(n) \/ Close(n)
     \/ \E b \in Branches : Delete(b)
  /\ UNCHANGED <<late, pub, faults>>

-----------------------------------------------------------------------------

Step(c) ==
  \/ Publish(c) \/ GetBase(c) \/ CreateBranch(c) \/ GetBranch(c) \/ Commit(c)
  \/ UpdateBranch(c) \/ Find(c) \/ OpenPullRequest(c) \/ LookUp(c) \/ Fail(c)

Next ==
  \/ \E c \in Publications : Step(c)
  \/ \E r \in late : Land(r)
  \/ People

Spec == Init /\ [][Next]_vars

-----------------------------------------------------------------------------
(* Properties.                                                             *)

Commits == [tree: Trees, past: SUBSET (Nat \ {0}), merges: BOOLEAN]
PullRequests == [head: Branches, state: {"open", "merged", "closed"}]
Writes == [kind: {"create_ref", "update_ref", "create_pull_request"},
           branch: Branches, sha: Nat]
PublicationType ==
  [pc: {"idle", "get_base", "create_ref", "get_branch", "commit", "update_ref", "find",
        "create_pull_request", "find_again", "look_up", "answered", "raised"},
   request: Requests, head: Nat, created: BOOLEAN, sha: Nat,
   status: {"none", "created", "updated", "already_open", "no_changes"}]

\* Every variable holds a value of its kind: every commit has a whole tree and every
\* branch that exists points to a commit.
TypeOK ==
  /\ commits \in Seq(Commits)
  /\ refs \in [Branches -> 0..Len(commits)]
  /\ prs \in Seq(PullRequests)
  /\ late \subseteq Writes
  /\ pub \in [Publications -> PublicationType]
  /\ deleted \subseteq Branches
  /\ faults \in Nat /\ events \in Nat

\* The inductive strengthening of TypeOK: a commit comes after its ancestors and has
\* all of theirs; whatever will be written is a commit, and not for the base branch.
CommitGraph ==
  \A i \in DOMAIN commits : \A j \in commits[i].past :
    j < i /\ commits[j].past \subseteq commits[i].past

HasCommit == {"update_ref", "find", "create_pull_request", "find_again", "look_up", "answered"}
RemoteKnown ==
  /\ refs[Base] # 0 /\ Base \notin deleted
  /\ \A n \in DOMAIN prs : /\ prs[n].head # Base
                           /\ prs[n].state = "open" => refs[prs[n].head] # 0
WriteKnown(r) ==
  r.branch # Base /\ (r.kind # "create_pull_request" => r.sha \in DOMAIN commits)
PublicationKnown(c) ==
  /\ pub[c].pc \notin {"idle", "raised"} => Branch(c) # Base
  /\ pub[c].pc \in HasCommit \cup {"create_ref", "commit"} => pub[c].head \in DOMAIN commits
  /\ pub[c].pc \in HasCommit => /\ pub[c].sha \in DOMAIN commits
                               /\ pub[c].head \in History(pub[c].sha)
                               /\ commits[pub[c].sha].tree = TreeOf(c)
ShasKnown ==
  /\ RemoteKnown
  /\ \A r \in late : WriteKnown(r)
  /\ \A c \in Publications : PublicationKnown(c)

\* The base branch moves only when people merge a pull request, whatever branch
\* name a publication is asked for.
NoDirectWrites ==
  [][refs'[Base] # refs[Base] =>
       \E n \in DOMAIN prs : prs[n].state = "open" /\ prs'[n].state = "merged"]_vars

\* What a publication has answered stays true: its commit holds its files, changes
\* nothing else of the head it was made on, and belongs to the branch, whoever
\* publishes to that branch at the same time, until people delete the branch.
AcknowledgedStays ==
  \A c \in Publications : pub[c].pc = "answered" =>
    /\ commits[pub[c].sha].tree = TreeOf(c)
    /\ Branch(c) \notin deleted =>
         /\ refs[Branch(c)] # 0
         /\ pub[c].sha \in History(refs[Branch(c)])

\* Its strengthening: what a publication has read or written stays in its branch.
Moved == {"find", "create_pull_request", "find_again", "look_up", "answered"}
InBranch(sha, b) == b \notin deleted => refs[b] # 0 /\ sha \in History(refs[b])
HeadStays(c) ==
  /\ pub[c].pc = "create_ref" => pub[c].head \in History(refs[Base])
  /\ pub[c].pc \in {"commit", "update_ref"} => InBranch(pub[c].head, Branch(c))
  /\ pub[c].pc \in Moved => InBranch(pub[c].sha, Branch(c))
HeadsStay == \A c \in Publications : HeadStays(c)

\* Of the publications of one branch at most one answers that it created it, unless
\* the branch was deleted in between.
CreatedOnce ==
  \A c, d \in Publications :
    /\ pub[c].status = "created" /\ pub[d].status = "created"
    /\ Branch(c) = Branch(d) /\ Branch(c) \notin deleted
    => c = d

\* Its strengthening: who has created a branch is its only creator.
Creation(c) ==
  /\ pub[c].pc \in {"idle", "get_base", "create_ref", "get_branch"} =>
       ~pub[c].created /\ pub[c].status = "none"
  /\ pub[c].status = "created" => pub[c].created
  /\ pub[c].created /\ Branch(c) \notin deleted => refs[Branch(c)] # 0
OneCreator ==
  /\ \A c \in Publications : Creation(c)
  /\ \A c, d \in Publications :
       /\ pub[c].created /\ pub[d].created
       /\ Branch(c) = Branch(d) /\ Branch(c) \notin deleted
       => c = d

\* A branch is settled when it holds nothing that people have not seen: it is part of
\* the base branch, or it has a pull request that is open or was turned down.
Settled(b) ==
  refs[b] = 0 \/ Merged(b) \/ \E n \in DOMAIN prs : prs[n].head = b /\ prs[n].state # "merged"

\* While every call to GitHub is answered, publications that race with each other
\* and with people leave no branch behind without a pull request.
NoBranchLeftBehind ==
  faults = 0 /\ (\A c \in Publications : ~Working(c)) => \A b \in Branches : Settled(b)

\* Its strengthening: somebody is about to open a pull request for what is not settled.
SomebodySettles ==
  faults = 0 =>
    /\ late = {}
    /\ \A b \in Branches : Settled(b) \/ \E c \in Publications :
         Branch(c) = b /\ pub[c].pc \in {"find", "create_pull_request"}

\* "Safe retries through deterministic branch names" (docs/github-pr-publishing.md):
\* when a publication answers after an earlier one of the same request had raised,
\* its files have a pull request.
SafeRetries ==
  (\A c \in Publications : ~Working(c)) =>
    \A c \in Publications : pub[c].pc = "answered" => Settled(Branch(c))
=============================================================================

-------------------------- MODULE MCGitHubPublish --------------------------
(* Finite instances of GitHubPublish for TLC.                              *)
EXTENDS GitHubPublish, TLC

CONSTANTS main, kit, code, page, x, y, c1, c2, c3

MCBranches == {main, kit}
MCPaths == {code, page}
MCContents == {x, y}
MCTree == (code :> Absent) @@ (page :> Absent)

Ask(branch, files, defaults) ==
  [branch |-> branch, files |-> files,
   reuse_existing_branch |-> defaults, update_existing_pr |-> defaults]

\* Two publications that agree on a file and one that does not, with the default
\* options and without, and one that asks for the base branch itself.
MCRequests ==
  {Ask(kit, code :> x, TRUE), Ask(kit, page :> y, TRUE), Ask(kit, code :> x, FALSE),
   Ask(main, code :> y, TRUE)}
MCPublications == {c1, c2, c3}

\* The same request, again and again.
RetryRequests == {Ask(kit, code :> x, TRUE)}

Symmetric == Permutations(Publications)
=============================================================================

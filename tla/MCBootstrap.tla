---------------------------- MODULE MCBootstrap ----------------------------
(* An instance of Bootstrap: two replicas and the script, on an empty        *)
(* database, and on one that Alembic made for an earlier release without     *)
(* these tools.                                                              *)
EXTENDS Bootstrap

MCAppOrder == <<"get_fusekit_guide", "get_capability_manifest">>
MCScriptOrder == <<"get_capability_manifest", "get_fusekit_guide">>

Old == [k \in Keys |-> IF k = User THEN [born |-> "seed", by |-> "wallet"]
                       ELSE IF k = Legacy THEN [born |-> "seed", by |-> "seed"] ELSE NoRow]
MCDatabases ==
  {[tables |-> {}, stamp |-> 0, rows |-> [k \in Keys |-> NoRow]],
   [tables |-> InitialTables, stamp |-> 1, rows |-> Old]}
=============================================================================

------------------------------ MODULE Artifacts ------------------------------
(***************************************************************************)
(* The artifacts of published tools: publish_tool (services/integrator/    *)
(* app/publishers/db_writer.py) commits the row of a tool and then leaves  *)
(* its module and its manifest in the directory of its host and in the     *)
(* object store; the platform's registry (app/tools/registry.py) and       *)
(* manifest service look for them by the name of the tool alone, and an    *)
(* operator's script (scripts/remove_generated_tool.py) removes them.      *)
(*                                                                         *)
(* A version stands for what one publication generated.  Hosts differ in   *)
(* their /tmp: a platform on the host of the integrator shares its         *)
(* directory, another one has the object store only.                       *)
(*                                                                         *)
(* load_all registers the built-in tools before a process serves a call,   *)
(* under names that codegen may give as well.  The names that the seed     *)
(* inserts rows for are left to Bootstrap: no tool here has a row at first. *)
(***************************************************************************)
EXTENDS Integers

CONSTANTS
  Tools,          \* names that codegen may give
  BuiltIn,        \* those among them that load_all registers, as send_sms
  Publications,   \* calls of publish_tool with a tested tool, each once
  Processes,      \* processes of the platform
  Hosts,
  Home,           \* the host of the integrator
  HostOf,         \* the host of each process
  MaxFaults,      \* bound: faults in a behaviour
  MaxEvents       \* bound: restarts, cleanings and removals in a behaviour

ASSUME ArtifactsAssumption ==
  /\ Tools # {} /\ BuiltIn \subseteq Tools
  /\ Home \in Hosts /\ HostOf \in [Processes -> Hosts]
  /\ MaxFaults \in Nat /\ MaxEvents \in Nat

VARIABLES
  backend,    \* settings.artifact_backend of both services
  row,        \* tool_definitions: who inserted each row and who wrote it last
  disk,       \* /tmp/fusekit_dynamic_tools of each host
  bucket,     \* the object store
  registry,   \* _registry of each process
  pub,        \* the publications
  generated,  \* the number of versions there are
  removal,    \* the script, when it runs
  call,       \* what each process is doing
  last,       \* history: the version of each tool that each process ran last
  published,  \* history: the versions committed for each tool
  disturbed,  \* history: a fault struck, two actors worked on one tool at once, or a
              \* removal ran on another host than the integrator's
  faults, events

stores == <<disk, bucket>>
history == <<last, published>>
bounds == <<faults, events>>
vars == <<backend, row, stores, registry, pub, generated, removal, call, history,
          disturbed, bounds>>

Kinds == {"module", "manifest"}

\* A missing file or object, a file that a failed write has left truncated, and the
\* code of a built-in tool.
None == 0
Broken == -1
BuiltInCode == -2
NoRow == [id |-> None, by |-> None]
NoPublication == [pc |-> "idle", tool |-> CHOOSE t \in Tools : TRUE, seen |-> None,
                  version |-> None]
NoRemoval == [pc |-> "idle", tool |-> CHOOSE t \in Tools : TRUE, host |-> Home,
              found |-> FALSE]
NoCall == [pc |-> "idle", tool |-> CHOOSE t \in Tools : TRUE, fetched |-> None]

\* What load_all leaves in the registry of a process.
Loaded == [t \in Tools |-> IF t \in BuiltIn THEN BuiltInCode ELSE None]

Init ==
  /\ backend \in {"local", "s3"}
  /\ row = [t \in Tools |-> NoRow]
  /\ disk = [h \in Hosts |-> [k \in Kinds |-> [t \in Tools |-> None]]]
  /\ bucket = [k \in Kinds |-> [t \in Tools |-> None]]
  /\ registry = [p \in Processes |-> Loaded]
  /\ pub = [c \in Publications |-> NoPublication]
  /\ generated = 0
  /\ removal = NoRemoval
  /\ call = [p \in Processes |-> NoCall]
  /\ last = [p \in Processes |-> [t \in Tools |-> None]]
  /\ published = [t \in Tools |-> {}]
  /\ disturbed = FALSE
  /\ faults = 0 /\ events = 0

-----------------------------------------------------------------------------
(* Vocabulary.  PutOnce, FailureGoesOn and KeepObjects are seeded faults   *)
(* that stand in for the definition below them.                            *)

Writing == {"write_manifest", "put_module", "put_manifest"}
InFlight(c) == pub[c].pc \notin {"idle", "ended"}
Fetching(p) == call[p].pc \in {"download", "store"}
Searching(p) == Fetching(p) \/ call[p].pc = "load"

\* Somebody is at work on the files of the integrator's host or on the objects.
Busy(t) ==
  \/ \E c \in Publications : InFlight(c) /\ pub[c].tool = t
  \/ removal.pc # "idle" /\ removal.tool = t
  \/ \E p \in Processes : HostOf[p] = Home /\ Fetching(p) /\ call[p].tool = t

Begins(t) == disturbed' = (disturbed \/ Busy(t))

\* Another process of the host, with the same directory, fetches the tool already.
FetchedBeside(p) ==
  \E q \in Processes :
    HostOf[q] = HostOf[p] /\ Fetching(q) /\ call[q].tool = call[p].tool
BeginsFetch(p) ==
  IF HostOf[p] = Home THEN Begins(call[p].tool)
                      ELSE disturbed' = (disturbed \/ FetchedBeside(p))

Fault ==
  /\ faults < MaxFaults
  /\ faults' = faults + 1
  /\ UNCHANGED events
  /\ disturbed' = TRUE

Event ==
  /\ events < MaxEvents
  /\ events' = events + 1
  /\ UNCHANGED faults

NowAt(c, pc) == pub' = [pub EXCEPT ![c].pc = pc]
Over == [NoPublication EXCEPT !.pc = "ended"]
Ends(c) == pub' = [pub EXCEPT ![c] = Over]

PutOnce(c, kind) ==
  bucket' = [bucket EXCEPT ![kind][pub[c].tool] = IF @ = None THEN pub[c].version ELSE @]
Put(c, kind) == bucket' = [bucket EXCEPT ![kind][pub[c].tool] = pub[c].version]
WrittenNext(c) ==
  IF pub[c].pc \in {"write_module", "put_module"} THEN "module" ELSE "manifest"
WriteFile(c, kind) ==
  disk' = [disk EXCEPT ![Home][kind][pub[c].tool] = pub[c].version]

-----------------------------------------------------------------------------
(* publish_tool.                                                           *)

Select(c) ==
  /\ pub[c].pc = "idle"
  /\ generated' = generated + 1
  /\ \E t \in Tools :
       /\ pub' = [pub EXCEPT ![c] = [pc |-> "commit", tool |-> t, seen |-> row[t].id,
                                     version |-> generated + 1]]
       /\ Begins(t)
  /\ UNCHANGED <<backend, row, stores, registry, removal, call, history, bounds>>

\* The row that was found is gone, or one was inserted where none was found: the
\* session raises, and execute_pipeline marks the job failed.
Stale(c) == row[pub[c].tool].id # pub[c].seen
FailureGoesOn(c) == NowAt(c, "write_module")
AfterFailure(c) == Ends(c)

WriteRow(c) ==
  LET t == pub[c].tool
      v == pub[c].version
  IN  /\ row' = [row EXCEPT ![t] = [id |-> IF @ = NoRow THEN v ELSE @.id, by |-> v]]
      /\ published' = [published EXCEPT ![t] = @ \cup {v}]

Commit(c) ==
  /\ pub[c].pc = "commit"
  /\ IF Stale(c)
     THEN AfterFailure(c) /\ UNCHANGED <<row, published>>
     ELSE NowAt(c, "write_module") /\ WriteRow(c)
  /\ UNCHANGED <<backend, stores, registry, generated, removal, call, last, disturbed,
                 bounds>>

\* From here on nothing is awaited: no other publication of the integrator runs.
WriteModule(c) ==
  /\ pub[c].pc = "write_module"
  /\ \A d \in Publications : pub[d].pc \notin Writing
  /\ WriteFile(c, "module")
  /\ NowAt(c, "write_manifest")
  /\ UNCHANGED <<backend, row, bucket, registry, generated, removal, call, history,
                 disturbed, bounds>>

WriteManifest(c) ==
  /\ pub[c].pc = "write_manifest"
  /\ WriteFile(c, "manifest")
  /\ IF backend = "s3" THEN NowAt(c, "put_module") ELSE Ends(c)
  /\ UNCHANGED <<backend, row, bucket, registry, generated, removal, call, history,
                 disturbed, bounds>>

PutModule(c) ==
  /\ pub[c].pc = "put_module"
  /\ Put(c, "module")
  /\ NowAt(c, "put_manifest")
  /\ UNCHANGED <<backend, row, disk, registry, generated, removal, call, history,
                 disturbed, bounds>>

PutManifest(c) ==
  /\ pub[c].pc = "put_manifest"
  /\ Put(c, "manifest")
  /\ Ends(c)
  /\ UNCHANGED <<backend, row, disk, registry, generated, removal, call, history,
                 disturbed, bounds>>

\* upload_text returns None when it fails, and publish_tool goes on.
PutError(c) ==
  /\ pub[c].pc \in {"put_module", "put_manifest"}
  /\ Fault
  /\ UNCHANGED bucket \/ Put(c, WrittenNext(c))
  /\ IF pub[c].pc = "put_module" THEN NowAt(c, "put_manifest") ELSE Ends(c)
  /\ UNCHANGED <<backend, row, disk, registry, generated, removal, call, history>>

\* Any other error ends the writing, and may leave a file that was opened only.
Truncated(c) == [disk EXCEPT ![Home][WrittenNext(c)][pub[c].tool] = Broken]
OpensFile(c) == pub[c].pc \in {"write_module", "write_manifest"}

WriteError(c) ==
  /\ OpensFile(c)
  /\ Fault
  /\ disk' \in {disk, Truncated(c)}
  /\ Ends(c)
  /\ UNCHANGED <<backend, row, bucket, registry, generated, removal, call, history>>

\* The commit fails, or its acknowledgement is lost: nothing is written.
CommitError(c) ==
  /\ pub[c].pc = "commit"
  /\ Fault
  /\ UNCHANGED <<row, published>> \/ (~Stale(c) /\ WriteRow(c))
  /\ Ends(c)
  /\ UNCHANGED <<backend, stores, registry, generated, removal, call, last>>

\* The integrator stops, with all its publications.
Stop ==
  /\ Fault
  /\ disk' \in {disk} \cup {Truncated(c) : c \in {d \in Publications : OpensFile(d)}}
  /\ pub' = [c \in Publications |->
               IF InFlight(c) THEN Over ELSE pub[c]]
  /\ UNCHANGED <<backend, row, bucket, registry, generated, removal, call, history>>

-----------------------------------------------------------------------------
(* The platform.  get_executor and load_dynamic await nothing, so a        *)
(* process searches for one tool at a time.                                *)

Goes(p, pc) == call' = [call EXCEPT ![p].pc = pc]
Answers(p) == call' = [call EXCEPT ![p] = NoCall]

\* The version runs, and the registry keeps it.
Runs(p, version) ==
  LET t == call[p].tool
  IN  /\ registry' = [registry EXCEPT ![p][t] = version]
      /\ last' = [last EXCEPT ![p][t] = version]
      /\ Answers(p)

\* execute_capability finds the row first, and charges for the call.
Lookup(p) ==
  /\ call[p].pc = "idle"
  /\ \E t \in Tools :
       /\ row[t] # NoRow
       /\ call' = [call EXCEPT ![p] = [NoCall EXCEPT !.pc = "execute", !.tool = t]]
  /\ UNCHANGED <<backend, row, stores, registry, pub, generated, removal, history,
                 disturbed, bounds>>

\* The file of a kind that the process finds on its host.
File(p, kind) == disk[HostOf[p]][kind][call[p].tool]

\* get_executor, which for a built-in name never comes to what was published under it,
\* or the first steps of load_dynamic.
FindExecutor(p) ==
  LET cached == registry[p][call[p].tool]
  IN  /\ call[p].pc = "execute"
      /\ \/ cached # None /\ Runs(p, cached) /\ UNCHANGED disturbed
         \/ /\ cached = None /\ File(p, "module") # None
            /\ Goes(p, "load")
            /\ UNCHANGED <<registry, last, disturbed>>
         \/ /\ cached = None /\ File(p, "module") = None /\ backend = "s3"
            /\ Goes(p, "download")
            /\ BeginsFetch(p)
            /\ UNCHANGED <<registry, last>>
         \/ /\ cached = None /\ File(p, "module") = None /\ backend = "local"
            /\ Answers(p)
            /\ UNCHANGED <<registry, last, disturbed>>
      /\ UNCHANGED <<backend, row, stores, pub, generated, removal, published, bounds>>

\* download_file, which moves the object into its place when it has all of it.
Download(p) ==
  LET object == bucket["module"][call[p].tool]
  IN  /\ call[p].pc = "download"
      /\ IF object = None THEN Answers(p)
         ELSE call' = [call EXCEPT ![p].pc = "store", ![p].fetched = object]
      /\ UNCHANGED <<backend, row, stores, registry, pub, generated, removal, history,
                     disturbed, bounds>>

StoreDownload(p) ==
  /\ call[p].pc = "store"
  /\ disk' = [disk EXCEPT ![HostOf[p]]["module"][call[p].tool] = call[p].fetched]
  /\ Goes(p, "load")
  /\ UNCHANGED <<backend, row, bucket, registry, pub, generated, removal, history,
                 disturbed, bounds>>

\* A file that is gone again or does not execute makes load_dynamic return None.
Executable(p) == File(p, "module") \notin {None, Broken}

Load(p) ==
  /\ call[p].pc = "load"
  /\ \/ Executable(p) /\ Runs(p, File(p, "module"))
     \/ /\ ~Executable(p)
        /\ Answers(p)
        /\ UNCHANGED <<registry, last>>
  /\ UNCHANGED <<backend, row, stores, pub, generated, removal, published, disturbed,
                 bounds>>

\* download_file returns None when anything goes wrong.
DownloadError(p) ==
  /\ Fetching(p)
  /\ Fault
  /\ Answers(p)
  /\ UNCHANGED <<backend, row, stores, registry, pub, generated, removal, history>>

\* load_manifest: the file, else the object, else (None) one made up from the row.
ManifestOf(p, t) ==
  LET file == disk[HostOf[p]]["manifest"][t]
  IN  IF file \notin {None, Broken} THEN file ELSE bucket["manifest"][t]

\* The process starts again, and load_all registers the built-in tools.
Restart(p) ==
  /\ Event
  /\ registry' = [registry EXCEPT ![p] = Loaded]
  /\ call' = [call EXCEPT ![p] = NoCall]
  /\ UNCHANGED <<backend, row, stores, pub, generated, removal, history, disturbed>>

\* A container is created anew, or /tmp is cleaned.
Clean(h) ==
  /\ Event
  /\ disk' = [disk EXCEPT ![h] = [k \in Kinds |-> [t \in Tools |-> None]]]
  /\ disturbed' = (disturbed \/ (h = Home /\ (backend = "local" \/ \E t \in Tools : Busy(t))))
  /\ UNCHANGED <<backend, row, bucket, registry, pub, generated, removal, call, history>>

-----------------------------------------------------------------------------
(* remove_generated_tool, run on some host.                                *)

BeginRemoval(h, t) ==
  /\ Event
  /\ removal.pc = "idle"
  /\ removal' = [pc |-> "commit", tool |-> t, host |-> h, found |-> row[t] # NoRow]
  /\ disturbed' = (disturbed \/ Busy(t) \/ h # Home)
  /\ UNCHANGED <<backend, row, stores, registry, pub, generated, call, history>>

\* What the SELECT did not find is not deleted, but its files are.
RemoveCommit ==
  /\ removal.pc = "commit"
  /\ row' = [row EXCEPT ![removal.tool] = IF removal.found THEN NoRow ELSE @]
  /\ removal' = [removal EXCEPT !.pc = "files"]
  /\ UNCHANGED <<backend, stores, registry, pub, generated, call, history, disturbed,
                 bounds>>

RemoveFiles ==
  /\ removal.pc = "files"
  /\ disk' = [disk EXCEPT ![removal.host] =
                [k \in Kinds |-> [@[k] EXCEPT ![removal.tool] = None]]]
  /\ removal' = [removal EXCEPT !.pc = "objects"]
  /\ UNCHANGED <<backend, row, bucket, registry, pub, generated, call, history,
                 disturbed, bounds>>

KeepObjects == bucket
WithoutObjects ==
  IF backend = "s3" THEN [k \in Kinds |-> [bucket[k] EXCEPT ![removal.tool] = None]]
                    ELSE bucket
RemoveObjects ==
  /\ removal.pc = "objects"
  /\ bucket' = WithoutObjects
  /\ removal' = NoRemoval
  /\ UNCHANGED <<backend, row, disk, registry, pub, generated, call, history,
                 disturbed, bounds>>

\* The script is stopped, or its error is swallowed.
RemovalCut ==
  /\ removal.pc # "idle"
  /\ Fault
  /\ removal' = NoRemoval
  /\ UNCHANGED <<backend, row, stores, registry, pub, generated, call, history>>

-----------------------------------------------------------------------------

Next ==
  \/ \E c \in Publications :
       \/ Select(c) \/ Commit(c) \/ WriteModule(c) \/ WriteManifest(c)
       \/ PutModule(c) \/ PutManifest(c)
       \/ PutError(c) \/ WriteError(c) \/ CommitError(c)
  \/ \E p \in Processes :
       \/ Lookup(p) \/ FindExecutor(p) \/ Download(p) \/ StoreDownload(p) \/ Load(p)
       \/ DownloadError(p) \/ Restart(p)
  \/ \E h \in Hosts : Clean(h) \/ \E t \in Tools : BeginRemoval(h, t)
  \/ Stop \/ RemoveCommit \/ RemoveFiles \/ RemoveObjects \/ RemovalCut

Spec == Init /\ [][Next]_vars

-----------------------------------------------------------------------------
(* Properties.                                                             *)

Versions == Nat
Codes == Versions \cup {BuiltInCode}
CallType ==
  [pc: {"idle", "execute", "download", "store", "load"}, tool: Tools,
   fetched: Versions]

\* Every variable holds a value of its kind; a broken file is never cached, uploaded
\* or downloaded.
TypeOK ==
  /\ backend \in {"local", "s3"}
  /\ row \in [Tools -> [id: Versions, by: Versions]]
  /\ disk \in [Hosts -> [Kinds -> [Tools -> Versions \cup {Broken}]]]
  /\ bucket \in [Kinds -> [Tools -> Versions]]
  /\ registry \in [Processes -> [Tools -> Codes]]
  /\ pub \in [Publications ->
       [pc: {"idle", "commit", "write_module", "ended"} \cup Writing, tool: Tools,
        seen: Versions, version: Versions]]
  /\ generated \in Nat
  /\ removal \in [pc: {"idle", "commit", "files", "objects"}, tool: Tools,
                 host: Hosts, found: BOOLEAN]
  /\ call \in [Processes -> CallType]
  /\ last \in [Processes -> [Tools -> Codes]]
  /\ published \in [Tools -> SUBSET Versions]
  /\ disturbed \in BOOLEAN
  /\ faults \in Nat /\ events \in Nat

\* What a process has in its registry under a name, and what it ran last.
OwnCode(p, t) ==
  IF t \in BuiltIn
  THEN registry[p][t] = BuiltInCode /\ last[p][t] \in {None, BuiltInCode}
  ELSE {registry[p][t], last[p][t]} \subseteq published[t] \cup {None}

\* What a process has cached, and so answers a call from, comes from a publication of
\* that very tool whose row was committed, and so does a manifest, however publications,
\* removals, downloads and faults interleave; but a name that load_all registers runs
\* the built-in code for ever, whatever is published under it.
OnlyOwnCodeRuns ==
  \A p \in Processes, t \in Tools :
    OwnCode(p, t) /\ ManifestOf(p, t) \in published[t] \cup {None}

\* The inductive strengthening: every place an artifact can come from holds versions
\* that were committed for its tool, and nobody searches for a built-in tool.
PlacesPublished ==
  /\ \A h \in Hosts, k \in Kinds, t \in Tools :
       disk[h][k][t] \in published[t] \cup {None, Broken}
  /\ \A k \in Kinds, t \in Tools : bucket[k][t] \in published[t] \cup {None}
  /\ \A p \in Processes, t \in Tools : OwnCode(p, t)
  /\ \A p \in Processes : Searching(p) => call[p].tool \notin BuiltIn
  /\ \A c \in Publications : pub[c].pc \in {"write_module"} \cup Writing =>
       pub[c].version \in published[pub[c].tool]
  /\ \A p \in Processes : call[p].fetched \in published[call[p].tool] \cup {None}

\* Once nobody is at work on a tool, and unless two were at work on it at once, a fault
\* struck or a removal ran on another host, its row, its files on the integrator's host and its objects are of
\* one version, and a tool without a row has left nothing there; only cleaning may
\* have taken a file that is kept as an object.
ArtifactsMatchRows ==
  ~disturbed => \A t \in Tools : ~Busy(t) => \A k \in Kinds :
    /\ disk[Home][k][t] = row[t].by \/ (backend = "s3" /\ disk[Home][k][t] = None)
    /\ backend = "s3" => bucket[k][t] = row[t].by

\* As long as no two worked on one tool at once, two processes that fetch it into one
\* directory included, no fault struck and no removal ran on another host, no process
\* ever goes back to an older version of a tool that is not built in, through restarts,
\* republications, removals and new containers.
NeverRunsOlder ==
  [][~disturbed' => \A p \in Processes, t \in Tools \ BuiltIn :
       last'[p][t] >= last[p][t]]_vars
=============================================================================

--------------------------- MODULE ArtifactsProofs ---------------------------
(***************************************************************************)
(* What holds of Artifacts for any tools, hosts, processes and faults:     *)
(* where what runs comes from, and, as long as no two actors are at work   *)
(* on one tool, that its places agree and that nobody goes back.           *)
(***************************************************************************)
EXTENDS Artifacts, TLAPS

IInv == TypeOK /\ PlacesPublished

\* The shapes that the actions assign.
LEMMA Shapes ==
  /\ NoPublication.tool \in Tools /\ NoRemoval.tool \in Tools /\ NoCall.tool \in Tools
  /\ NoPublication \in [pc: {"idle"}, tool: Tools, seen: Versions, version: Versions]
  /\ Over \in [pc: {"ended"}, tool: Tools, seen: Versions, version: Versions]
  /\ NoCall \in CallType /\ NoCall.fetched = None /\ NoCall.pc = "idle"
  /\ NoRemoval \in [pc: {"idle"}, tool: Tools, host: Hosts, found: BOOLEAN]
BY ArtifactsAssumption
   DEF NoPublication, NoRemoval, NoCall, Over, CallType, Versions, None

\* Nothing is installed at the start.
LEMMA InitPlaces == Init => IInv
<1> SUFFICES ASSUME Init PROVE IInv
  OBVIOUS
<1> USE DEF Init
<1>1. TypeOK
  BY Shapes, ArtifactsAssumption DEF TypeOK, Loaded, Codes, NoRow, None, Versions, Kinds
<1>2. PlacesPublished
  BY Shapes DEF PlacesPublished, OwnCode, Loaded, Searching, Fetching, NoPublication, Writing, None
<1>. QED  BY <1>1, <1>2 DEF IInv

PubType ==
  [pc: {"idle", "commit", "write_module", "ended"} \cup Writing, tool: Tools,
   seen: Versions, version: Versions]

LEMMA PubTyped == TypeOK => pub \in [Publications -> PubType]
BY DEF TypeOK, PubType

\* A publication that goes on to write has committed.
PubPublished(c) ==
  pub[c].pc \in {"write_module"} \cup Writing =>
    pub[c].version \in published[pub[c].tool]

\* Caches and searches that nobody touches keep to what was published.
LEMMA CachesKept ==
  ASSUME PlacesPublished, UNCHANGED <<registry, call, last>>,
         \A t \in Tools : published[t] \subseteq published'[t]
  PROVE  /\ \A p \in Processes, t \in Tools : OwnCode(p, t)'
         /\ \A p \in Processes : Searching(p)' => call'[p].tool \notin BuiltIn
<1>1. ASSUME NEW p \in Processes, NEW t \in Tools PROVE OwnCode(p, t)'
  <2>1. OwnCode(p, t)
    BY DEF PlacesPublished
  <2>. QED  BY <2>1 DEF OwnCode
<1>. QED  BY <1>1 DEF PlacesPublished, Searching, Fetching

\* The steps of a publication that leave every place alone.
LEMMA RowSteps ==
  ASSUME IInv, NEW c \in Publications, Select(c) \/ Commit(c) \/ CommitError(c)
  PROVE  IInv'
<1> USE DEF IInv
<1>1. CASE Select(c)
  <2> USE <1>1 DEF Select
  <2>1. PICK t \in Tools :
          /\ pub' = [pub EXCEPT ![c] = [pc |-> "commit", tool |-> t, seen |-> row[t].id,
                                        version |-> generated + 1]]
          /\ disturbed' = (disturbed \/ Busy(t))
    BY DEF Begins
  <2>2. TypeOK'
    <3>1. pub' \in [Publications -> PubType]
      BY <2>1 DEF TypeOK, PubType, Versions
    <3>2. disturbed' \in BOOLEAN
      BY <2>1
    <3>. QED  BY <3>1, <3>2 DEF TypeOK, PubType, stores, history, bounds, Versions
  <2>3. PlacesPublished'
    BY <2>1, CachesKept DEF PlacesPublished, TypeOK, stores, history, Writing
  <2>. QED  BY <2>2, <2>3
<1>2. ASSUME WriteRow(c), pub[c].pc = "commit",
             pub' = [pub EXCEPT ![c].pc = "write_module"] \/ pub' = [pub EXCEPT ![c] = Over],
             UNCHANGED <<backend, stores, registry, generated, removal, call, last>>,
             disturbed' \in BOOLEAN, faults' \in Nat, events' \in Nat
      PROVE  IInv'
  <2> DEFINE t == pub[c].tool
             v == pub[c].version
  <2>1. t \in Tools /\ v \in Versions
    BY DEF TypeOK
  <2>2. pub' \in [Publications -> PubType]
    <3>1. CASE pub' = [pub EXCEPT ![c].pc = "write_module"]
      BY <3>1, PubTyped DEF PubType
    <3>2. CASE pub' = [pub EXCEPT ![c] = Over]
      BY <3>2, PubTyped, Shapes DEF PubType
    <3>. QED  BY <1>2, <3>1, <3>2
  <2>3. /\ row' = [row EXCEPT ![t] = [id |-> IF row[t] = NoRow THEN v ELSE row[t].id,
                                      by |-> v]]
        /\ published' = [published EXCEPT ![t] = @ \cup {v}]
    BY <1>2 DEF WriteRow
  <2>4. TypeOK'
    <3>1. row' \in [Tools -> [id: Versions, by: Versions]]
      BY <2>1, <2>3 DEF TypeOK
    <3>2. published' \in [Tools -> SUBSET Versions]
      BY <2>1, <2>3 DEF TypeOK
    <3>. QED  BY <1>2, <2>2, <3>1, <3>2 DEF TypeOK, PubType, stores
  <2>5. \A u \in Tools : published[u] \subseteq published'[u]
    BY <2>1, <2>3 DEF TypeOK
  <2>6. v \in published'[t]
    BY <2>1, <2>3 DEF TypeOK
  <2>7. \A d \in Publications : PubPublished(d)'
    <3> SUFFICES ASSUME NEW d \in Publications PROVE PubPublished(d)'
      OBVIOUS
    <3>1. CASE d # c
      <4>1. pub'[d] = pub[d]
        BY <1>2, <3>1, PubTyped
      <4>2. pub[d].tool \in Tools
        BY PubTyped DEF PubType
      <4>. QED  BY <2>5, <4>1, <4>2 DEF PlacesPublished, PubPublished
    <3>2. CASE d = c
      <4>1. CASE pub' = [pub EXCEPT ![c].pc = "write_module"]
        BY <2>6, <3>2, <4>1, PubTyped DEF PubPublished, PubType
      <4>2. CASE pub' = [pub EXCEPT ![c] = Over]
        BY <3>2, <4>2, PubTyped DEF PubPublished, Over, Writing
      <4>. QED  BY <1>2, <4>1, <4>2
    <3>. QED  BY <3>1, <3>2
  <2>8. PlacesPublished'
    BY <1>2, <2>5, <2>7, CachesKept DEF TypeOK, PlacesPublished, PubPublished, stores, CallType
  <2>. QED  BY <2>4, <2>8
<1>3. CASE Commit(c)
  <2>1. CASE Stale(c)
    <3> USE <1>3, <2>1 DEF Commit, AfterFailure, Ends
    <3>1. pub' \in [Publications -> PubType]
      BY PubTyped, Shapes DEF PubType
    <3>2. TypeOK'
      BY <3>1 DEF TypeOK, PubType, stores, bounds
    <3>3. \A d \in Publications : PubPublished(d)'
      <4> SUFFICES ASSUME NEW d \in Publications PROVE PubPublished(d)'
        OBVIOUS
      <4>1. CASE d = c
        BY <4>1, PubTyped, Shapes DEF PubPublished, Writing
      <4>2. CASE d # c
        <5>1. pub'[d] = pub[d]
          BY <4>2, PubTyped
        <5>. QED  BY <5>1 DEF PlacesPublished, PubPublished
      <4>. QED  BY <4>1, <4>2
    <3>4. PlacesPublished'
      BY <3>3, CachesKept DEF PlacesPublished, PubPublished, stores
    <3>. QED  BY <3>2, <3>4
  <2>2. CASE ~Stale(c)
    BY <1>2, <1>3, <2>2 DEF Commit, NowAt, TypeOK, bounds
  <2>. QED  BY <2>1, <2>2
<1>4. CASE CommitError(c)
  <2> USE <1>4 DEF CommitError, Ends, Fault
  <2>1. faults' \in Nat /\ events' \in Nat /\ disturbed' \in BOOLEAN
    BY DEF TypeOK
  <2>2. CASE UNCHANGED <<row, published>>
    <3>1. TypeOK'
      BY <2>1, <2>2, Shapes DEF TypeOK, stores
    <3>2. PlacesPublished'
      BY <2>2, CachesKept DEF TypeOK, PlacesPublished, Over, Writing, stores
    <3>. QED  BY <3>1, <3>2
  <2>3. CASE WriteRow(c)
    BY <1>2, <2>1, <2>3
  <2>. QED  BY <2>2, <2>3
<1>. QED  BY <1>1, <1>3, <1>4

\* The steps that write files and objects, and those that end a publication: every
\* publication stays as it is, goes on to another place it may write, or ends.
PublicationsGoOn ==
  /\ pub' \in [Publications -> PubType]
  /\ \A d \in Publications :
       \/ pub'[d].pc \notin {"write_module"} \cup Writing
       \/ /\ pub[d].pc \in {"write_module"} \cup Writing
          /\ pub'[d].tool = pub[d].tool /\ pub'[d].version = pub[d].version

LEMMA Advances ==
  ASSUME TypeOK, NEW c \in Publications, pub[c].pc \in {"write_module"} \cup Writing,
         \/ \E pc \in {"write_module"} \cup Writing : NowAt(c, pc)
         \/ Ends(c)
  PROVE  PublicationsGoOn
<1>1. CASE Ends(c)
  <2>1. pub' \in [Publications -> PubType] /\ pub'[c] = Over
    BY <1>1, PubTyped, Shapes DEF Ends, PubType
  <2>2. \A d \in Publications \ {c} : pub'[d] = pub[d]
    BY <1>1, PubTyped DEF Ends
  <2>3. Over.pc \notin {"write_module"} \cup Writing
    BY Shapes DEF Writing
  <2>. QED  BY <2>1, <2>2, <2>3 DEF PublicationsGoOn
<1>2. ASSUME NEW pc \in {"write_module"} \cup Writing, NowAt(c, pc) PROVE PublicationsGoOn
  <2>1. pub' \in [Publications -> PubType]
    BY <1>2, PubTyped DEF NowAt, PubType
  <2>2. /\ pub'[c].tool = pub[c].tool /\ pub'[c].version = pub[c].version
        /\ \A d \in Publications \ {c} : pub'[d] = pub[d]
    BY <1>2, PubTyped DEF NowAt, PubType
  <2>. QED  BY <2>1, <2>2 DEF PublicationsGoOn
<1>. QED  BY <1>1, <1>2

\* Files and objects may be replaced by versions of their tool, or be gone.
LEMMA PlacesSteps ==
  ASSUME IInv, PublicationsGoOn,
         UNCHANGED <<backend, row, registry, generated, call, history>>,
         disk' \in [Hosts -> [Kinds -> [Tools -> Versions \cup {Broken}]]],
         bucket' \in [Kinds -> [Tools -> Versions]],
         \A h \in Hosts, k \in Kinds, t \in Tools :
           disk'[h][k][t] \in published[t] \cup {None, Broken},
         \A k \in Kinds, t \in Tools : bucket'[k][t] \in published[t] \cup {None},
         removal' \in [pc: {"idle", "commit", "files", "objects"}, tool: Tools,
                       host: Hosts, found: BOOLEAN],
         disturbed' \in BOOLEAN, faults' \in Nat, events' \in Nat
  PROVE  IInv'
<1> USE DEF IInv, history
<1>1. TypeOK'
  BY DEF TypeOK, PublicationsGoOn, PubType
<1>2. \A d \in Publications : PubPublished(d)'
  BY DEF PlacesPublished, PubPublished, PublicationsGoOn
<1>3. PlacesPublished'
  BY <1>2, CachesKept DEF PlacesPublished, PubPublished
<1>. QED  BY <1>1, <1>3

\* What a committed publication writes.
LEMMA WritesPublished ==
  ASSUME IInv, NEW c \in Publications, pub[c].pc \in {"write_module"} \cup Writing
  PROVE  /\ pub[c].tool \in Tools /\ pub[c].version \in Versions
         /\ pub[c].version \in published[pub[c].tool]
         /\ WrittenNext(c) \in Kinds
         /\ Broken \in Versions \cup {Broken}
BY PubTyped DEF IInv, PubType, PlacesPublished, WrittenNext, Kinds

\* A file is written, opened only, or left alone.
LEMMA FileSteps ==
  ASSUME IInv, NEW c \in Publications, pub[c].pc \in {"write_module"} \cup Writing,
         NEW kind \in Kinds, WriteFile(c, kind) \/ disk' \in {disk, Truncated(c)}
  PROVE  /\ disk' \in [Hosts -> [Kinds -> [Tools -> Versions \cup {Broken}]]]
         /\ \A h \in Hosts, k \in Kinds, t \in Tools :
              disk'[h][k][t] \in published[t] \cup {None, Broken}
<1>0. /\ disk \in [Hosts -> [Kinds -> [Tools -> Versions \cup {Broken}]]]
      /\ \A h \in Hosts, k \in Kinds, t \in Tools :
           disk[h][k][t] \in published[t] \cup {None, Broken}
  BY DEF IInv, TypeOK, PlacesPublished
<1> DEFINE written(k, v) == [disk EXCEPT ![Home][k][pub[c].tool] = v]
<1>1. ASSUME NEW k \in Kinds, NEW v \in Versions \cup {Broken},
             v \in published[pub[c].tool] \cup {None, Broken}
      PROVE  /\ written(k, v) \in [Hosts -> [Kinds -> [Tools -> Versions \cup {Broken}]]]
             /\ \A h \in Hosts, l \in Kinds, t \in Tools :
                  written(k, v)[h][l][t] \in published[t] \cup {None, Broken}
  <2>1. pub[c].tool \in Tools
    BY WritesPublished
  <2>2. \A h \in Hosts, l \in Kinds, t \in Tools :
          written(k, v)[h][l][t] = IF h = Home /\ l = k /\ t = pub[c].tool
                                   THEN v ELSE disk[h][l][t]
    BY <1>0, <2>1
  <2>3. written(k, v) \in [Hosts -> [Kinds -> [Tools -> Versions \cup {Broken}]]]
    BY <1>0, <1>1, <2>1
  <2>. QED  BY <1>0, <1>1, <2>2, <2>3
<1>2. CASE WriteFile(c, kind)
  BY <1>1, <1>2, WritesPublished DEF WriteFile
<1>3. CASE disk' = disk
  BY <1>0, <1>3
<1>4. CASE disk' = Truncated(c)
  BY <1>1, <1>4, WritesPublished DEF Truncated
<1>. QED  BY <1>2, <1>3, <1>4

\* An object is put or left alone.
LEMMA ObjectSteps ==
  ASSUME IInv, NEW c \in Publications, pub[c].pc \in {"write_module"} \cup Writing,
         NEW kind \in Kinds, Put(c, kind) \/ UNCHANGED bucket
  PROVE  /\ bucket' \in [Kinds -> [Tools -> Versions]]
         /\ \A k \in Kinds, t \in Tools : bucket'[k][t] \in published[t] \cup {None}
<1>0. /\ bucket \in [Kinds -> [Tools -> Versions]]
      /\ \A k \in Kinds, t \in Tools : bucket[k][t] \in published[t] \cup {None}
  BY DEF IInv, TypeOK, PlacesPublished
<1>1. CASE Put(c, kind)
  <2>1. \A k \in Kinds, t \in Tools :
          bucket'[k][t] = IF k = kind /\ t = pub[c].tool THEN pub[c].version ELSE bucket[k][t]
    BY <1>0, <1>1, WritesPublished DEF Put
  <2>2. bucket' \in [Kinds -> [Tools -> Versions]]
    BY <1>0, <1>1, WritesPublished DEF Put
  <2>. QED  BY <1>0, <2>1, <2>2, WritesPublished
<1>2. CASE UNCHANGED bucket
  BY <1>0, <1>2
<1>. QED  BY <1>1, <1>2

LEMMA WritingSteps ==
  ASSUME IInv, NEW c \in Publications,
         \/ WriteModule(c) \/ WriteManifest(c) \/ PutModule(c) \/ PutManifest(c)
         \/ PutError(c) \/ WriteError(c)
  PROVE  IInv'
<1>1. TypeOK /\ PlacesPublished
  BY DEF IInv
<1>2. "module" \in Kinds /\ "manifest" \in Kinds
  BY DEF Kinds
<1>3. pub[c].pc \in {"write_module"} \cup Writing
  BY DEF WriteModule, WriteManifest, PutModule, PutManifest, PutError, WriteError,
         OpensFile, Writing
<1>4. PublicationsGoOn
  <2>1. (\E pc \in {"write_module"} \cup Writing : NowAt(c, pc)) \/ Ends(c)
    BY DEF WriteModule, WriteManifest, PutModule, PutManifest, PutError, WriteError, Writing
  <2>. QED  BY <1>1, <1>3, <2>1, Advances
<1>5. \/ UNCHANGED disk
      \/ \E kind \in Kinds : WriteFile(c, kind) \/ disk' \in {disk, Truncated(c)}
  BY <1>2 DEF WriteModule, WriteManifest, PutModule, PutManifest, PutError, WriteError
<1>6. /\ disk' \in [Hosts -> [Kinds -> [Tools -> Versions \cup {Broken}]]]
      /\ \A h \in Hosts, k \in Kinds, t \in Tools :
           disk'[h][k][t] \in published[t] \cup {None, Broken}
  BY <1>2, <1>3, <1>5, FileSteps
<1>7. \E kind \in Kinds : Put(c, kind) \/ UNCHANGED bucket
  BY <1>2, <1>3, WritesPublished
     DEF WriteModule, WriteManifest, PutModule, PutManifest, PutError, WriteError
<1>8. /\ bucket' \in [Kinds -> [Tools -> Versions]]
      /\ \A k \in Kinds, t \in Tools : bucket'[k][t] \in published[t] \cup {None}
  BY <1>3, <1>7, ObjectSteps
<1>9. UNCHANGED <<backend, row, registry, generated, removal, call, history>>
  BY DEF WriteModule, WriteManifest, PutModule, PutManifest, PutError, WriteError
<1>10. disturbed' \in BOOLEAN /\ faults' \in Nat /\ events' \in Nat
  <2>1. \/ UNCHANGED <<disturbed, bounds>>
        \/ Fault
    BY DEF WriteModule, WriteManifest, PutModule, PutManifest, PutError, WriteError
  <2>2. CASE UNCHANGED <<disturbed, bounds>>
    BY <1>1, <2>2 DEF TypeOK, bounds
  <2>3. CASE Fault
    BY <1>1, <2>3 DEF TypeOK, Fault
  <2>. QED  BY <2>1, <2>2, <2>3
<1>. QED  BY <1>1, <1>4, <1>6, <1>8, <1>9, <1>10, PlacesSteps DEF TypeOK

LEMMA StopStep ==
  ASSUME IInv, Stop
  PROVE  IInv'
<1> USE DEF Stop
<1>1. TypeOK /\ PlacesPublished
  BY DEF IInv
<1>2. PublicationsGoOn
  BY <1>1, PubTyped, Shapes DEF PublicationsGoOn, PubType, InFlight, Writing
<1>3. /\ disk' \in [Hosts -> [Kinds -> [Tools -> Versions \cup {Broken}]]]
      /\ \A h \in Hosts, k \in Kinds, t \in Tools :
           disk'[h][k][t] \in published[t] \cup {None, Broken}
  <2>1. CASE disk' = disk
    BY <1>1, <2>1 DEF TypeOK, PlacesPublished
  <2>2. ASSUME NEW c \in Publications, OpensFile(c), disk' = Truncated(c)
        PROVE  <1>3
    <3>1. pub[c].pc \in {"write_module"} \cup Writing
      BY <2>2 DEF OpensFile, Writing
    <3>2. "module" \in Kinds
      BY DEF Kinds
    <3>. QED  BY <2>2, <3>1, <3>2, FileSteps
  <2>. QED  BY <2>1, <2>2
<1>4. disturbed' \in BOOLEAN /\ faults' \in Nat /\ events' \in Nat
  BY <1>1 DEF TypeOK, Fault
<1>5. UNCHANGED <<backend, row, bucket, registry, generated, removal, call, history>>
  OBVIOUS
<1>. QED  BY <1>1, <1>2, <1>3, <1>4, <1>5, PlacesSteps DEF TypeOK, PlacesPublished

\* The script and the cleaning of /tmp only take things away.
LEMMA Keeps ==
  ASSUME TypeOK, UNCHANGED pub
  PROVE  PublicationsGoOn
BY PubTyped DEF PublicationsGoOn

LEMMA RemovalSteps ==
  ASSUME IInv,
         \/ \E h \in Hosts : Clean(h) \/ \E t \in Tools : BeginRemoval(h, t)
         \/ RemoveFiles \/ RemoveObjects \/ RemovalCut
  PROVE  IInv'
<1>1. TypeOK /\ PlacesPublished
  BY DEF IInv
<1>2. PublicationsGoOn
  BY <1>1, Keeps DEF Clean, BeginRemoval, RemoveFiles, RemoveObjects, RemovalCut
<1>3. /\ disk' \in [Hosts -> [Kinds -> [Tools -> Versions \cup {Broken}]]]
      /\ \A h \in Hosts, k \in Kinds, t \in Tools :
           disk'[h][k][t] = disk[h][k][t] \/ disk'[h][k][t] = None
  <2>1. CASE UNCHANGED disk
    BY <1>1, <2>1 DEF TypeOK
  <2>2. ASSUME NEW h \in Hosts, Clean(h) PROVE <1>3
    BY <1>1, <2>2 DEF TypeOK, Clean, None, Versions
  <2>3. CASE RemoveFiles
    <3> DEFINE rest == [k \in Kinds |-> [disk[removal.host][k] EXCEPT ![removal.tool] = None]]
    <3>1. removal.host \in Hosts /\ removal.tool \in Tools /\ None \in Versions
      BY <1>1 DEF TypeOK, None, Versions
    <3>2. disk' = [disk EXCEPT ![removal.host] = rest]
      BY <1>1, <2>3 DEF RemoveFiles, TypeOK
    <3>3. rest \in [Kinds -> [Tools -> Versions \cup {Broken}]]
      BY <1>1, <3>1 DEF TypeOK
    <3>4. \A k \in Kinds, t \in Tools :
            rest[k][t] = disk[removal.host][k][t] \/ rest[k][t] = None
      BY <1>1, <3>1 DEF TypeOK
    <3>5. disk \in [Hosts -> [Kinds -> [Tools -> Versions \cup {Broken}]]]
      BY <1>1 DEF TypeOK
    <3> HIDE DEF rest
    <3>6. disk' \in [Hosts -> [Kinds -> [Tools -> Versions \cup {Broken}]]]
      BY <3>1, <3>2, <3>3, <3>5
    <3>7. \A h \in Hosts : disk'[h] = IF h = removal.host THEN rest ELSE disk[h]
      BY <3>2, <3>5
    <3>8. \A h \in Hosts, k \in Kinds, t \in Tools :
            disk'[h][k][t] = disk[h][k][t] \/ disk'[h][k][t] = None
      BY <3>4, <3>7
    <3>. QED  BY <3>6, <3>8
  <2>. QED  BY <2>1, <2>2, <2>3 DEF BeginRemoval, RemoveObjects, RemovalCut, stores
<1>4. /\ bucket' \in [Kinds -> [Tools -> Versions]]
      /\ \A k \in Kinds, t \in Tools : bucket'[k][t] = bucket[k][t] \/ bucket'[k][t] = None
  <2>1. CASE bucket' = bucket
    BY <1>1, <2>1 DEF TypeOK
  <2>2. CASE bucket' = [k \in Kinds |-> [bucket[k] EXCEPT ![removal.tool] = None]]
    <3>1. bucket \in [Kinds -> [Tools -> Versions]] /\ None \in Versions
      BY <1>1 DEF TypeOK, None, Versions
    <3>2. bucket' \in [Kinds -> [Tools -> Versions]]
      BY <2>2, <3>1
    <3>3. \A k \in Kinds, t \in Tools :
            bucket'[k][t] = IF t = removal.tool THEN None ELSE bucket[k][t]
      BY <2>2, <3>1
    <3>. QED  BY <3>2, <3>3
  <2>3. CASE RemoveObjects
    BY <2>1, <2>2, <2>3 DEF RemoveObjects, WithoutObjects
  <2>. QED  BY <2>1, <2>3 DEF Clean, BeginRemoval, RemoveFiles, RemovalCut, stores
<1>5. removal' \in [pc: {"idle", "commit", "files", "objects"}, tool: Tools,
                    host: Hosts, found: BOOLEAN]
  <2>1. CASE UNCHANGED removal
    BY <1>1, <2>1 DEF TypeOK
  <2>2. ASSUME NEW h \in Hosts, NEW t \in Tools, BeginRemoval(h, t) PROVE <1>5
    <3>1. (row[t] # NoRow) \in BOOLEAN
      OBVIOUS
    <3>. QED  BY <2>2, <3>1 DEF BeginRemoval
  <2>3. CASE RemoveFiles
    BY <1>1, <2>3 DEF TypeOK, RemoveFiles
  <2>4. CASE removal' = NoRemoval
    BY <2>4, Shapes
  <2>. QED  BY <2>1, <2>2, <2>3, <2>4 DEF Clean, RemoveObjects, RemovalCut
<1>6. faults' \in Nat /\ events' \in Nat
  BY <1>1 DEF TypeOK, Clean, BeginRemoval, RemoveFiles, RemoveObjects, RemovalCut,
              Fault, Event, bounds
<1>7. disturbed' \in BOOLEAN
  <2>1. CASE UNCHANGED disturbed
    BY <1>1, <2>1 DEF TypeOK
  <2>. QED  BY <2>1 DEF Clean, BeginRemoval, RemoveFiles, RemoveObjects, RemovalCut, Fault
<1>8. UNCHANGED <<backend, row, registry, generated, call, history>>
  BY DEF Clean, BeginRemoval, RemoveFiles, RemoveObjects, RemovalCut
<1>9. /\ \A h \in Hosts, k \in Kinds, t \in Tools :
           disk'[h][k][t] \in published[t] \cup {None, Broken}
      /\ \A k \in Kinds, t \in Tools : bucket'[k][t] \in published[t] \cup {None}
  <2>1. ASSUME NEW h \in Hosts, NEW k \in Kinds, NEW t \in Tools
        PROVE  disk'[h][k][t] \in published[t] \cup {None, Broken}
    <3>1. disk[h][k][t] \in published[t] \cup {None, Broken}
      BY <1>1 DEF PlacesPublished
    <3>2. disk'[h][k][t] = disk[h][k][t] \/ disk'[h][k][t] = None
      BY <1>3
    <3>. QED  BY <3>1, <3>2
  <2>2. ASSUME NEW k \in Kinds, NEW t \in Tools
        PROVE  bucket'[k][t] \in published[t] \cup {None}
    BY <1>1, <1>4 DEF PlacesPublished
  <2>. QED  BY <2>1, <2>2
<1>. QED  BY <1>2, <1>3, <1>4, <1>5, <1>6, <1>7, <1>8, <1>9, PlacesSteps

LEMMA RemoveCommitStep ==
  ASSUME IInv, RemoveCommit
  PROVE  IInv'
<1> USE DEF IInv, RemoveCommit
<1>1. row' \in [Tools -> [id: Versions, by: Versions]]
  BY DEF TypeOK, NoRow, None, Versions
<1>2. removal' \in [pc: {"idle", "commit", "files", "objects"}, tool: Tools,
                    host: Hosts, found: BOOLEAN]
  BY DEF TypeOK
<1>3. TypeOK'
  BY <1>1, <1>2 DEF TypeOK, stores, bounds, history
<1>4. PlacesPublished'
  BY CachesKept DEF PlacesPublished, stores, history
<1>. QED  BY <1>3, <1>4

\* What a process has in hand and in its registry after any step of its own, and that it
\* searches for no built-in tool.
CallsPublished == \A p \in Processes : call[p].fetched \in published[call[p].tool] \cup {None}
SearchesGenerated == \A p \in Processes : Searching(p) => call[p].tool \notin BuiltIn
CachesPublished == \A p \in Processes, t \in Tools : OwnCode(p, t)

LEMMA ProcessSteps ==
  ASSUME IInv,
         UNCHANGED <<backend, row, bucket, pub, generated, removal, published>>,
         disk' \in [Hosts -> [Kinds -> [Tools -> Versions \cup {Broken}]]],
         \A h \in Hosts, k \in Kinds, t \in Tools :
           disk'[h][k][t] \in published[t] \cup {None, Broken},
         registry' \in [Processes -> [Tools -> Codes]], CachesPublished',
         last' \in [Processes -> [Tools -> Codes]],
         call' \in [Processes -> CallType], CallsPublished', SearchesGenerated',
         disturbed' \in BOOLEAN, faults' \in Nat, events' \in Nat
  PROVE  IInv'
<1> USE DEF IInv
<1>1. TypeOK'
  BY DEF TypeOK
<1>2. PlacesPublished'
  BY DEF PlacesPublished, CallsPublished, CachesPublished, SearchesGenerated
<1>. QED  BY <1>1, <1>2

\* A call goes on with its tool and what it fetched, or is over.
LEMMA CallGoesOn ==
  ASSUME IInv, NEW p \in Processes,
         \/ Answers(p)
         \/ /\ \E pc \in {"download", "store", "load"} : Goes(p, pc)
            /\ call[p].tool \notin BuiltIn
  PROVE  /\ call' \in [Processes -> CallType] /\ SearchesGenerated'
         /\ UNCHANGED published => CallsPublished'
<1>1. /\ call \in [Processes -> CallType]
      /\ CallsPublished /\ SearchesGenerated
  BY DEF IInv, TypeOK, PlacesPublished, CallsPublished, SearchesGenerated
<1>2. CASE Answers(p)
  <2>1. call' \in [Processes -> CallType]
    BY <1>1, <1>2, Shapes DEF Answers
  <2>2. \A q \in Processes : call'[q] = IF q = p THEN NoCall ELSE call[q]
    BY <1>1, <1>2 DEF Answers
  <2>3. SearchesGenerated'
    BY <1>1, <2>2, Shapes DEF SearchesGenerated, Searching, Fetching
  <2>. QED  BY <1>1, <2>1, <2>2, <2>3, Shapes DEF CallsPublished
<1>3. ASSUME NEW pc \in {"download", "store", "load"}, Goes(p, pc), call[p].tool \notin BuiltIn
      PROVE  /\ call' \in [Processes -> CallType] /\ SearchesGenerated'
             /\ UNCHANGED published => CallsPublished'
  <2>1. call' \in [Processes -> CallType]
    BY <1>1, <1>3 DEF Goes, CallType
  <2>2. \A q \in Processes : /\ call'[q].fetched = call[q].fetched
                             /\ call'[q].tool = call[q].tool
                             /\ q # p => call'[q].pc = call[q].pc
    BY <1>1, <1>3 DEF Goes, CallType
  <2>3. SearchesGenerated'
    BY <1>1, <1>3, <2>2 DEF SearchesGenerated, Searching, Fetching
  <2>. QED  BY <1>1, <2>1, <2>2, <2>3 DEF CallsPublished
<1>. QED  BY <1>2, <1>3

\* What runs is cached: it was published, or is built in.
LEMMA RunsPublished ==
  ASSUME IInv, NEW p \in Processes, NEW v \in Codes,
         IF call[p].tool \in BuiltIn THEN v = BuiltInCode ELSE v \in published[call[p].tool],
         Runs(p, v), UNCHANGED published
  PROVE  /\ registry' \in [Processes -> [Tools -> Codes]] /\ CachesPublished'
         /\ last' \in [Processes -> [Tools -> Codes]]
<1>1. /\ registry \in [Processes -> [Tools -> Codes]]
      /\ last \in [Processes -> [Tools -> Codes]]
      /\ CachesPublished /\ call[p].tool \in Tools
  BY DEF IInv, TypeOK, PlacesPublished, CachesPublished, CallType
<1>2. /\ registry' \in [Processes -> [Tools -> Codes]]
      /\ last' \in [Processes -> [Tools -> Codes]]
  BY <1>1 DEF Runs
<1>3. \A q \in Processes, t \in Tools :
        /\ registry'[q][t] = IF q = p /\ t = call[p].tool THEN v ELSE registry[q][t]
        /\ last'[q][t] = IF q = p /\ t = call[p].tool THEN v ELSE last[q][t]
  BY <1>1 DEF Runs
<1>4. CachesPublished'
  <2> SUFFICES ASSUME NEW q \in Processes, NEW t \in Tools PROVE OwnCode(q, t)'
    BY DEF CachesPublished
  <2>1. OwnCode(q, t)
    BY <1>1 DEF CachesPublished
  <2>. QED  BY <1>3, <2>1 DEF OwnCode
<1>. QED  BY <1>2, <1>4

\* The facts about what a step leaves alone.
LEMMA Unchanged ==
  ASSUME IInv
  PROVE  /\ UNCHANGED disk =>
              /\ disk' \in [Hosts -> [Kinds -> [Tools -> Versions \cup {Broken}]]]
              /\ \A h \in Hosts, k \in Kinds, t \in Tools :
                   disk'[h][k][t] \in published[t] \cup {None, Broken}
         /\ UNCHANGED <<registry, last, published>> =>
              /\ registry' \in [Processes -> [Tools -> Codes]] /\ CachesPublished'
              /\ last' \in [Processes -> [Tools -> Codes]]
         /\ UNCHANGED bounds => faults' \in Nat /\ events' \in Nat
         /\ (Fault \/ Event) => faults' \in Nat /\ events' \in Nat
<1>. USE DEF IInv
<1>1. UNCHANGED disk =>
        /\ disk' \in [Hosts -> [Kinds -> [Tools -> Versions \cup {Broken}]]]
        /\ \A h \in Hosts, k \in Kinds, t \in Tools :
             disk'[h][k][t] \in published[t] \cup {None, Broken}
  BY DEF TypeOK, PlacesPublished
<1>2. UNCHANGED <<registry, last, published>> =>
        /\ registry' \in [Processes -> [Tools -> Codes]] /\ CachesPublished'
        /\ last' \in [Processes -> [Tools -> Codes]]
  <2> SUFFICES ASSUME registry' = registry, last' = last, published' = published
               PROVE  <1>2!2
    OBVIOUS
  <2>1. registry' \in [Processes -> [Tools -> Codes]] /\ last' \in [Processes -> [Tools -> Codes]]
    BY DEF TypeOK
  <2>2. CachesPublished'
    BY DEF PlacesPublished, CachesPublished, OwnCode
  <2>. QED  BY <2>1, <2>2
<1>3. /\ UNCHANGED bounds => faults' \in Nat /\ events' \in Nat
      /\ (Fault \/ Event) => faults' \in Nat /\ events' \in Nat
  BY DEF TypeOK, bounds, Fault, Event
<1>. QED  BY <1>1, <1>2, <1>3

LEMMA LookupStep ==
  ASSUME IInv, NEW p \in Processes, Lookup(p)
  PROVE  IInv'
<1> USE DEF Lookup
<1>1. PICK t \in Tools :
        call' = [call EXCEPT ![p] = [NoCall EXCEPT !.pc = "execute", !.tool = t]]
  OBVIOUS
<1>2. TypeOK /\ PlacesPublished
  BY DEF IInv
<1> DEFINE begun == [NoCall EXCEPT !.pc = "execute", !.tool = t]
<1>3. begun \in CallType /\ begun.fetched = None
  BY Shapes DEF CallType
<1>4. /\ call' \in [Processes -> CallType]
      /\ \A q \in Processes : call'[q] = IF q = p THEN begun ELSE call[q]
  BY <1>1, <1>2, <1>3 DEF TypeOK
<1> HIDE DEF begun
<1>5. CallsPublished' /\ SearchesGenerated'
  <2>1. begun.pc = "execute"
    BY Shapes DEF begun, CallType
  <2>. QED  BY <1>2, <1>3, <1>4, <2>1
            DEF CallsPublished, SearchesGenerated, Searching, Fetching, PlacesPublished, history
<1>6. UNCHANGED <<backend, row, disk, bucket, registry, pub, generated, removal, last,
                  published, disturbed, bounds>>
  BY DEF stores, history
<1>7. disturbed' \in BOOLEAN
  BY <1>2, <1>6 DEF TypeOK
<1>. QED  BY <1>4, <1>5, <1>6, <1>7, Unchanged, ProcessSteps

LEMMA ExecuteSteps ==
  ASSUME IInv, NEW p \in Processes, FindExecutor(p) \/ Load(p)
  PROVE  IInv'
<1>1. TypeOK /\ PlacesPublished /\ call[p].tool \in Tools
  BY DEF IInv, TypeOK, CallType
<1>2. /\ registry' \in [Processes -> [Tools -> Codes]] /\ CachesPublished'
      /\ last' \in [Processes -> [Tools -> Codes]]
  <2>0. UNCHANGED published
    BY DEF FindExecutor, Load, history
  <2>1. CASE UNCHANGED <<registry, last>>
    BY <2>0, <2>1, Unchanged
  <2>2. CASE registry[p][call[p].tool] # None /\ Runs(p, registry[p][call[p].tool])
    <3>1. /\ OwnCode(p, call[p].tool) /\ registry[p][call[p].tool] \in Codes
      BY <1>1 DEF PlacesPublished, TypeOK
    <3>2. IF call[p].tool \in BuiltIn THEN registry[p][call[p].tool] = BuiltInCode
          ELSE registry[p][call[p].tool] \in published[call[p].tool]
      BY <2>2, <3>1 DEF OwnCode
    <3>. QED  BY <2>0, <2>2, <3>1, <3>2, RunsPublished
  <2>3. CASE call[p].pc = "load" /\ Executable(p) /\ Runs(p, File(p, "module"))
    <3>1. File(p, "module") \in published[call[p].tool] \cap Versions
      BY <1>1, <2>3, ArtifactsAssumption
         DEF PlacesPublished, TypeOK, Executable, File, Kinds
    <3>2. call[p].tool \notin BuiltIn
      BY <1>1, <2>3 DEF PlacesPublished, Searching
    <3>. QED  BY <2>0, <2>3, <3>1, <3>2, RunsPublished DEF Codes
  <2>. QED  BY <2>1, <2>2, <2>3 DEF FindExecutor, Load
<1>3. call' \in [Processes -> CallType] /\ CallsPublished' /\ SearchesGenerated'
  <2>0. registry[p][call[p].tool] = None => call[p].tool \notin BuiltIn
    BY <1>1 DEF PlacesPublished, OwnCode, None, BuiltInCode
  <2>1. \/ Answers(p)
        \/ /\ \E pc \in {"download", "store", "load"} : Goes(p, pc)
           /\ call[p].tool \notin BuiltIn
    BY <2>0 DEF FindExecutor, Load, Runs
  <2>. QED  BY <2>1, CallGoesOn DEF FindExecutor, Load
<1>4. disturbed' \in BOOLEAN
  <2>1. \/ UNCHANGED disturbed
        \/ disturbed' = (disturbed \/ Busy(call[p].tool))
        \/ disturbed' = (disturbed \/ FetchedBeside(p))
    BY DEF FindExecutor, Load, Begins, BeginsFetch
  <2>. QED  BY <1>1, <2>1 DEF TypeOK
<1>5. UNCHANGED <<backend, row, disk, bucket, pub, generated, removal, published, bounds>>
  BY DEF FindExecutor, Load, stores
<1>. QED  BY <1>2, <1>3, <1>4, <1>5, Unchanged, ProcessSteps

LEMMA DownloadSteps ==
  ASSUME IInv, NEW p \in Processes, Download(p) \/ StoreDownload(p) \/ DownloadError(p)
  PROVE  IInv'
<1>1. TypeOK /\ PlacesPublished /\ call[p] \in CallType
  BY DEF IInv, TypeOK
<1>2. UNCHANGED <<backend, row, bucket, registry, last, pub, generated, removal, published>>
  BY DEF Download, StoreDownload, DownloadError, stores, history
<1>3. disturbed' \in BOOLEAN
  <2>1. UNCHANGED disturbed \/ disturbed' = TRUE
    BY DEF Download, StoreDownload, DownloadError, Fault
  <2>. QED  BY <1>1, <2>1 DEF TypeOK
<1>4. faults' \in Nat /\ events' \in Nat
  BY Unchanged DEF Download, StoreDownload, DownloadError
<1>5. /\ disk' \in [Hosts -> [Kinds -> [Tools -> Versions \cup {Broken}]]]
      /\ \A h \in Hosts, k \in Kinds, t \in Tools :
           disk'[h][k][t] \in published[t] \cup {None, Broken}
  <2>1. CASE UNCHANGED disk
    BY <2>1, Unchanged
  <2>2. CASE StoreDownload(p)
    <3>1. /\ disk \in [Hosts -> [Kinds -> [Tools -> Versions \cup {Broken}]]]
          /\ \A h \in Hosts, k \in Kinds, t \in Tools :
               disk[h][k][t] \in published[t] \cup {None, Broken}
          /\ call[p].fetched \in published[call[p].tool] \cup {None}
          /\ call[p].fetched \in Versions /\ call[p].tool \in Tools
          /\ HostOf[p] \in Hosts /\ "module" \in Kinds
      BY <1>1, ArtifactsAssumption DEF TypeOK, PlacesPublished, CallType, Kinds
    <3>2. disk' = [disk EXCEPT ![HostOf[p]]["module"][call[p].tool] = call[p].fetched]
      BY <2>2 DEF StoreDownload
    <3>3. disk' \in [Hosts -> [Kinds -> [Tools -> Versions \cup {Broken}]]]
      BY <3>1, <3>2
    <3>4. \A h \in Hosts, k \in Kinds, t \in Tools :
            disk'[h][k][t] = IF h = HostOf[p] /\ k = "module" /\ t = call[p].tool
                             THEN call[p].fetched ELSE disk[h][k][t]
      BY <3>1, <3>2
    <3>5. ASSUME NEW h \in Hosts, NEW k \in Kinds, NEW t \in Tools
          PROVE  disk'[h][k][t] \in published[t] \cup {None, Broken}
      <4>1. disk[h][k][t] \in published[t] \cup {None, Broken}
        BY <3>1
      <4>. QED  BY <3>1, <3>4, <4>1
    <3>. QED  BY <3>3, <3>5
  <2>. QED  BY <2>1, <2>2 DEF Download, DownloadError, stores
<1>6. call' \in [Processes -> CallType] /\ CallsPublished' /\ SearchesGenerated'
  <2>0. call[p].tool \notin BuiltIn
    BY <1>1 DEF PlacesPublished, Searching, Fetching, Download, StoreDownload, DownloadError
  <2>1. CASE Answers(p) \/ Goes(p, "load")
    BY <1>2, <2>0, <2>1, CallGoesOn
  <2>2. ASSUME NEW object, object = bucket["module"][call[p].tool], object # None,
               call' = [call EXCEPT ![p].pc = "store", ![p].fetched = object]
        PROVE  <1>6
    <3>1. object \in published[call[p].tool] /\ object \in Versions
      BY <1>1, <2>2 DEF TypeOK, PlacesPublished, CallType, Kinds
    <3>2. /\ call \in [Processes -> CallType]
          /\ CallsPublished /\ SearchesGenerated
      BY <1>1 DEF TypeOK, PlacesPublished, CallsPublished, SearchesGenerated
    <3>3. call' \in [Processes -> CallType]
      BY <2>2, <3>1, <3>2 DEF CallType
    <3>4. \A q \in Processes : /\ call'[q].fetched = IF q = p THEN object ELSE call[q].fetched
                               /\ call'[q].tool = call[q].tool
                               /\ q # p => call'[q].pc = call[q].pc
      BY <2>2, <3>2 DEF CallType
    <3>5. SearchesGenerated'
      BY <2>0, <3>2, <3>4 DEF SearchesGenerated, Searching, Fetching
    <3>. QED  BY <1>2, <3>1, <3>2, <3>3, <3>4, <3>5 DEF CallsPublished
  <2>. QED  BY <2>1, <2>2 DEF Download, StoreDownload, DownloadError
<1>. QED  BY <1>2, <1>3, <1>4, <1>5, <1>6, Unchanged, ProcessSteps

LEMMA RestartStep ==
  ASSUME IInv, NEW p \in Processes, Restart(p)
  PROVE  IInv'
<1> USE DEF Restart
<1>1. TypeOK /\ PlacesPublished
  BY DEF IInv
<1>2. registry' \in [Processes -> [Tools -> Codes]]
  BY <1>1 DEF TypeOK, Loaded, Codes, None, Versions
<1>3. CachesPublished'
  <2> SUFFICES ASSUME NEW q \in Processes, NEW t \in Tools PROVE OwnCode(q, t)'
    BY DEF CachesPublished
  <2>1. OwnCode(q, t) /\ UNCHANGED <<last, published>>
    BY <1>1 DEF PlacesPublished, history
  <2>2. registry'[q][t] = IF q = p THEN Loaded[t] ELSE registry[q][t]
    BY <1>1 DEF TypeOK
  <2>. QED  BY <2>1, <2>2 DEF OwnCode, Loaded
<1>4. call' \in [Processes -> CallType] /\ CallsPublished' /\ SearchesGenerated'
  BY CallGoesOn DEF Answers, history
<1>5. disturbed' \in BOOLEAN /\ last' \in [Processes -> [Tools -> Codes]]
  BY <1>1 DEF TypeOK, history
<1>6. UNCHANGED <<backend, row, disk, bucket, pub, generated, removal, published>>
  BY DEF stores, history
<1>. QED  BY <1>2, <1>3, <1>4, <1>5, <1>6, Unchanged, ProcessSteps

LEMMA Stutters == ASSUME IInv, UNCHANGED vars PROVE IInv'
BY DEF IInv, TypeOK, PlacesPublished, OwnCode, Searching, Fetching, vars, stores, history,
       bounds, CallType, Writing, Versions

\* The strengthening is inductive.
LEMMA Inductive == Spec => []IInv
<1>1. ASSUME IInv, [Next]_vars PROVE IInv'
  <2>1. CASE UNCHANGED vars
    BY <1>1, <2>1, Stutters
  <2>. QED  BY <1>1, <2>1, RowSteps, WritingSteps, StopStep, RemovalSteps, RemoveCommitStep,
              LookupStep, ExecuteSteps, DownloadSteps, RestartStep
         DEF Next
<1>. QED  BY <1>1, InitPlaces, PTL DEF Spec

\* Every variable keeps its kind; in particular a file left truncated is never uploaded,
\* downloaded or cached (artifact_store.py of both services, tools/registry.py).
THEOREM TypeCorrect == Spec => []TypeOK
BY Inductive, PTL DEF IInv

\* Whatever a process caches, runs or answers with was committed by a publication of
\* that very tool, unless its name is built in, and then its code is the built-in one
\* for ever (publishers/db_writer.py, tools/registry.py, manifest_service.py).
THEOREM OnlyOwnCodeAlways == Spec => []OnlyOwnCodeRuns
<1>1. IInv => OnlyOwnCodeRuns
  BY ArtifactsAssumption DEF IInv, TypeOK, PlacesPublished, OnlyOwnCodeRuns, ManifestOf, Kinds
<1>. QED  BY <1>1, Inductive, PTL

-----------------------------------------------------------------------------
(* While nobody disturbs anybody: who is at work on a tool, and how far.   *)

AtWork(c, t) == InFlight(c) /\ pub[c].tool = t
Removes(t) == removal.pc # "idle" /\ removal.tool = t
Fetches(p, t) == Fetching(p) /\ call[p].tool = t

\* One actor at a time works on a tool at home, and one fetches it elsewhere.
Alone ==
  \A t \in Tools :
    /\ \A c, d \in Publications : AtWork(c, t) /\ AtWork(d, t) => c = d
    /\ \A p, q \in Processes :
         Fetches(p, t) /\ Fetches(q, t) /\ HostOf[p] = HostOf[q] => p = q
    /\ \A c \in Publications : AtWork(c, t) => ~Removes(t)
    /\ \A p \in Processes : HostOf[p] = Home /\ Fetches(p, t) =>
         ~Removes(t) /\ \A c \in Publications : ~AtWork(c, t)

\* The row, the files at home and the objects of a tool are of one version.
Agrees(t) ==
  \A k \in Kinds :
    /\ disk[Home][k][t] = row[t].by \/ (backend = "s3" /\ disk[Home][k][t] = None)
    /\ backend = "s3" => bucket[k][t] = row[t].by

Changes(c) == pub[c].pc \in {"write_module"} \cup Writing
Changing(t) ==
  \/ \E c \in Publications : Changes(c) /\ pub[c].tool = t
  \/ removal.pc \in {"files", "objects"} /\ removal.tool = t

Settled == \A t \in Tools : ~Changing(t) => Agrees(t)

\* What a publication has written by the time it is at a point of publish_tool.
PublicationPhase(c) ==
  LET t == pub[c].tool
      v == pub[c].version
  IN  /\ pub[c].pc = "commit" => row[t].id = pub[c].seen
      /\ Changes(c) => row[t].by = v
      /\ pub[c].pc \in Writing => disk[Home]["module"][t] = v
      /\ pub[c].pc \in {"put_module", "put_manifest"} =>
           backend = "s3" /\ disk[Home]["manifest"][t] = v
      /\ pub[c].pc = "put_manifest" => bucket["module"][t] = v

\* What the script has taken away.
RemovalPhase ==
  LET t == removal.tool
  IN  /\ removal.pc # "idle" => removal.host = Home
      /\ removal.pc = "commit" => (removal.found <=> row[t] # NoRow)
      /\ removal.pc \in {"files", "objects"} => row[t] = NoRow
      /\ removal.pc = "objects" => \A k \in Kinds : disk[Home][k][t] = None

\* What a process that fetches has found.
FetchPhase(p) ==
  LET t == call[p].tool
  IN  /\ Fetching(p) => disk[HostOf[p]]["module"][t] = None
      /\ HostOf[p] = Home /\ Fetching(p) => backend = "s3"
      /\ HostOf[p] = Home /\ call[p].pc = "store" =>
           call[p].fetched = bucket["module"][t]

Calm ==
  /\ Alone
  /\ Settled
  /\ \A c \in Publications : PublicationPhase(c)
  /\ RemovalPhase
  /\ \A p \in Processes : FetchPhase(p)

Undisturbed == ~disturbed => Calm

\* Nothing but a publication to the object store puts objects there.
LocalHasNoObjects ==
  /\ backend = "local" => \A k \in Kinds, t \in Tools : bucket[k][t] = None
  /\ \A c \in Publications :
       pub[c].pc \in {"put_module", "put_manifest"} => backend = "s3"

\* A collision lasts as long as the actors that are on the way.
LEMMA AloneShrinks ==
  ASSUME Alone,
         \A t \in Tools :
           /\ \A c \in Publications : AtWork(c, t)' => AtWork(c, t)
           /\ Removes(t)' => Removes(t)
           /\ \A p \in Processes : Fetches(p, t)' => Fetches(p, t)
  PROVE  Alone'
BY DEF Alone

\* The effects of the actions, place by place.
LEMMA Moved ==
  ASSUME TypeOK, NEW c \in Publications, NEW pc, NowAt(c, pc)
  PROVE  /\ pub'[c].pc = pc /\ pub'[c].tool = pub[c].tool
         /\ pub'[c].version = pub[c].version /\ pub'[c].seen = pub[c].seen
         /\ \A d \in Publications \ {c} : pub'[d] = pub[d]
BY PubTyped DEF NowAt, PubType

LEMMA EndedThere ==
  ASSUME TypeOK, NEW c \in Publications, Ends(c)
  PROVE  /\ pub'[c].pc = "ended"
         /\ \A d \in Publications \ {c} : pub'[d] = pub[d]
BY PubTyped, Shapes DEF Ends

LEMMA Written ==
  ASSUME TypeOK, NEW c \in Publications, NEW kind \in Kinds, WriteFile(c, kind)
  PROVE  \A h \in Hosts, k \in Kinds, t \in Tools :
           disk'[h][k][t] = IF h = Home /\ k = kind /\ t = pub[c].tool
                            THEN pub[c].version ELSE disk[h][k][t]
<1>1. /\ disk \in [Hosts -> [Kinds -> [Tools -> Versions \cup {Broken}]]]
      /\ pub[c].tool \in Tools
  BY PubTyped DEF TypeOK, PubType
<1> QED BY <1>1 DEF WriteFile

LEMMA PutThere ==
  ASSUME TypeOK, NEW c \in Publications, NEW kind \in Kinds, Put(c, kind)
  PROVE  \A k \in Kinds, t \in Tools :
           bucket'[k][t] = IF k = kind /\ t = pub[c].tool
                           THEN pub[c].version ELSE bucket[k][t]
<1>1. bucket \in [Kinds -> [Tools -> Versions]] /\ pub[c].tool \in Tools
  BY PubTyped DEF TypeOK, PubType
<1> QED BY <1>1 DEF Put

\* Whoever works on a tool leaves the row, the files at home and the objects of every
\* other tool alone, and the directories of every other host.
OthersKept(t) ==
  /\ \A u \in Tools \ {t} : row'[u] = row[u]
  /\ \A u \in Tools \ {t}, k \in Kinds :
       disk'[Home][k][u] = disk[Home][k][u] /\ bucket'[k][u] = bucket[k][u]
  /\ \A h \in Hosts \ {Home}, u \in Tools, k \in Kinds : disk'[h][k][u] = disk[h][k][u]

\* A publication under way goes on: what it has not disturbed stays calm.
LEMMA PublicationCalm ==
  ASSUME TypeOK, Calm, NEW c \in Publications, NEW t \in Tools, AtWork(c, t),
         UNCHANGED <<backend, removal, call>>,
         \A d \in Publications \ {c} : pub'[d] = pub[d],
         InFlight(c)' => pub'[c].tool = t,
         OthersKept(t), PublicationPhase(c)', ~Changes(c)' => Agrees(t)'
  PROVE  Calm'
<1>1. /\ \A d \in Publications \ {c} : AtWork(d, t) => FALSE
      /\ ~Removes(t)
      /\ \A p \in Processes : HostOf[p] = Home => ~Fetches(p, t)
  BY DEF Calm, Alone
<1>2. /\ \A d \in Publications : pub[d].tool \in Tools
      /\ removal.tool \in Tools /\ removal.host \in Hosts
      /\ \A p \in Processes : call[p].tool \in Tools /\ HostOf[p] \in Hosts
      /\ "module" \in Kinds /\ "manifest" \in Kinds
  BY ArtifactsAssumption, PubTyped DEF TypeOK, PubType, CallType, Kinds
<1>3. Alone'
  <2>1. ASSUME NEW u \in Tools
        PROVE  /\ \A d \in Publications : AtWork(d, u)' => AtWork(d, u)
               /\ Removes(u)' => Removes(u)
               /\ \A p \in Processes : Fetches(p, u)' => Fetches(p, u)
    BY DEF AtWork, InFlight, Removes, Fetches, Fetching
  <2> QED BY <2>1, AloneShrinks DEF Calm
<1>4. ASSUME NEW u \in Tools, ~Changing(u)'
      PROVE  Agrees(u)'
  <2>1. CASE u = t
    BY <1>4, <2>1 DEF Changing, Changes, AtWork, InFlight, Writing
  <2>2. CASE u # t
    <3>1. \A d \in Publications : Changes(d) /\ pub[d].tool = u => d # c
      BY <2>2 DEF AtWork
    <3>2. ~Changing(u)
      BY <1>4, <3>1 DEF Changing, Changes
    <3>3. Agrees(u)
      BY <3>2 DEF Calm, Settled
    <3> QED BY <2>2, <3>3 DEF Agrees, OthersKept
  <2> QED BY <2>1, <2>2
<1>5. ASSUME NEW d \in Publications
      PROVE  PublicationPhase(d)'
  <2>1. CASE d # c /\ InFlight(d)
    <3>1. pub[d].tool \in Tools \ {t} /\ pub'[d] = pub[d] /\ PublicationPhase(d)
      BY <1>1, <1>2, <2>1 DEF AtWork, Calm
    <3> QED BY <1>2, <3>1 DEF PublicationPhase, OthersKept, Changes
  <2>2. CASE d # c /\ ~InFlight(d)
    BY <2>2 DEF PublicationPhase, InFlight, Changes, Writing
  <2> QED BY <2>1, <2>2
<1>6. RemovalPhase'
  <2>1. CASE removal.pc = "idle"
    BY <2>1 DEF RemovalPhase
  <2>2. CASE removal.pc # "idle"
    <3>1. removal.tool \in Tools \ {t} /\ RemovalPhase
      BY <1>1, <1>2, <2>2 DEF Removes, Calm
    <3> QED BY <3>1 DEF RemovalPhase, OthersKept
  <2> QED BY <2>1, <2>2
<1>7. ASSUME NEW p \in Processes
      PROVE  FetchPhase(p)'
  <2>1. FetchPhase(p)
    BY DEF Calm
  <2>2. CASE ~Fetching(p)
    BY <2>2 DEF FetchPhase, Fetching
  <2>3. CASE Fetching(p) /\ HostOf[p] = Home
    <3>1. call[p].tool \in Tools \ {t}
      BY <1>1, <1>2, <2>3 DEF Fetches
    <3> QED BY <1>2, <2>1, <2>3, <3>1 DEF FetchPhase, OthersKept, Fetching
  <2>4. CASE Fetching(p) /\ HostOf[p] # Home
    BY <1>2, <2>1, <2>4 DEF FetchPhase, OthersKept, Fetching
  <2> QED BY <2>2, <2>3, <2>4
<1> QED BY <1>3, <1>4, <1>5, <1>6, <1>7 DEF Calm, Settled

LEMMA CommitCalm ==
  ASSUME TypeOK, Calm, NEW c \in Publications, Commit(c)
  PROVE  Calm'
<1> DEFINE t == pub[c].tool
           v == pub[c].version
<1>1. pub[c].pc = "commit" /\ AtWork(c, t) /\ t \in Tools
  BY PubTyped DEF Commit, AtWork, InFlight, PubType
<1>2. ~Stale(c)
  BY <1>1 DEF Calm, PublicationPhase, Stale
<1>3. NowAt(c, "write_module") /\ WriteRow(c) /\ UNCHANGED <<disk, bucket, backend, removal, call>>
  BY <1>2 DEF Commit, stores
<1>4. /\ pub'[c].pc = "write_module" /\ pub'[c].tool = t /\ pub'[c].version = v
      /\ \A d \in Publications \ {c} : pub'[d] = pub[d]
  BY <1>3, Moved
<1>5. row'[t].by = v /\ \A u \in Tools \ {t} : row'[u] = row[u]
  BY <1>1, <1>3 DEF WriteRow, TypeOK
<1>6. OthersKept(t)
  BY <1>3, <1>5 DEF OthersKept
<1>7. PublicationPhase(c)' /\ Changes(c)'
  BY <1>4, <1>5 DEF PublicationPhase, Changes, Writing
<1> HIDE DEF t, v
<1> QED BY <1>1, <1>3, <1>4, <1>6, <1>7, PublicationCalm

\* The files, and after them the objects.
LEMMA WriteCalm ==
  ASSUME TypeOK, Calm, LocalHasNoObjects, NEW c \in Publications,
         WriteModule(c) \/ WriteManifest(c) \/ PutModule(c) \/ PutManifest(c)
  PROVE  Calm'
<1>0. PICK t \in Tools, v \in Versions : t = pub[c].tool /\ v = pub[c].version
  BY PubTyped DEF PubType
<1>1. AtWork(c, t) /\ t \in Tools /\ Changes(c) /\ Home \in Hosts
  BY <1>0, PubTyped, ArtifactsAssumption
  DEF WriteModule, WriteManifest, PutModule, PutManifest, AtWork, InFlight, PubType,
      Changes, Writing
<1>2. UNCHANGED <<backend, removal, call, row>> /\ PublicationPhase(c)
  BY DEF WriteModule, WriteManifest, PutModule, PutManifest, Calm
<1>3. Kinds = {"module", "manifest"} /\ backend \in {"local", "s3"}
  BY DEF Kinds, TypeOK
<1>4. CASE WriteModule(c)
  <2>1. /\ pub[c].pc = "write_module" /\ UNCHANGED bucket
        /\ WriteFile(c, "module") /\ NowAt(c, "write_manifest")
    BY <1>4 DEF WriteModule
  <2>2. /\ pub'[c].pc = "write_manifest" /\ pub'[c].tool = t /\ pub'[c].version = v
        /\ \A d \in Publications \ {c} : pub'[d] = pub[d]
    BY <1>0, <2>1, Moved
  <2>3. \A h \in Hosts, k \in Kinds, u \in Tools :
          disk'[h][k][u] = IF h = Home /\ k = "module" /\ u = t THEN v ELSE disk[h][k][u]
    BY <1>0, <1>3, <2>1, Written
  <2>4. OthersKept(t)
    BY <1>1, <1>2, <2>1, <2>3 DEF OthersKept
  <2>5. disk'[Home]["module"][t] = v /\ row'[t].by = v
    BY <1>0, <1>1, <1>2, <1>3, <2>3 DEF PublicationPhase
  <2>6. PublicationPhase(c)' /\ Changes(c)'
    BY <2>2, <2>5 DEF PublicationPhase, Changes, Writing
  <2> QED BY <1>1, <1>2, <2>2, <2>4, <2>6, PublicationCalm
<1>5. CASE WriteManifest(c)
  <2>1. /\ pub[c].pc = "write_manifest" /\ UNCHANGED bucket
        /\ WriteFile(c, "manifest")
        /\ IF backend = "s3" THEN NowAt(c, "put_module") ELSE Ends(c)
    BY <1>5 DEF WriteManifest
  <2>2. \A h \in Hosts, k \in Kinds, u \in Tools :
          disk'[h][k][u] = IF h = Home /\ k = "manifest" /\ u = t THEN v ELSE disk[h][k][u]
    BY <1>0, <1>3, <2>1, Written
  <2>3. OthersKept(t)
    BY <1>1, <1>2, <2>1, <2>2 DEF OthersKept
  <2>4. \A k \in Kinds : disk'[Home][k][t] = v /\ row'[t].by = v
    BY <1>0, <1>1, <1>2, <1>3, <2>1, <2>2 DEF PublicationPhase, Writing
  <2>5. CASE backend = "s3"
    <3>1. /\ pub'[c].pc = "put_module" /\ pub'[c].tool = t /\ pub'[c].version = v
          /\ \A d \in Publications \ {c} : pub'[d] = pub[d]
      BY <1>0, <2>1, <2>5, Moved
    <3>2. PublicationPhase(c)' /\ Changes(c)'
      BY <1>0, <1>2, <1>3, <2>4, <2>5, <3>1 DEF PublicationPhase, Changes, Writing
    <3> QED BY <1>1, <1>2, <2>3, <3>1, <3>2, PublicationCalm
  <2>6. CASE backend = "local"
    <3>1. /\ pub'[c].pc = "ended"
          /\ \A d \in Publications \ {c} : pub'[d] = pub[d]
      BY <2>1, <2>6, EndedThere
    <3>2. PublicationPhase(c)' /\ ~InFlight(c)'
      BY <3>1 DEF PublicationPhase, Changes, Writing, InFlight
    <3>3. Agrees(t)'
      BY <1>0, <1>2, <2>4, <2>6 DEF Agrees
    <3> QED BY <1>1, <1>2, <2>3, <3>1, <3>2, <3>3, PublicationCalm
  <2> QED BY <1>3, <2>5, <2>6
<1>6. CASE PutModule(c)
  <2>1. /\ pub[c].pc = "put_module" /\ UNCHANGED disk
        /\ Put(c, "module") /\ NowAt(c, "put_manifest")
    BY <1>6 DEF PutModule
  <2>2. /\ pub'[c].pc = "put_manifest" /\ pub'[c].tool = t /\ pub'[c].version = v
        /\ \A d \in Publications \ {c} : pub'[d] = pub[d]
    BY <1>0, <2>1, Moved
  <2>3. \A k \in Kinds, u \in Tools :
          bucket'[k][u] = IF k = "module" /\ u = t THEN v ELSE bucket[k][u]
    BY <1>0, <1>3, <2>1, PutThere
  <2>4. OthersKept(t)
    BY <1>2, <2>1, <2>3 DEF OthersKept
  <2>5. PublicationPhase(c)' /\ Changes(c)'
    BY <1>0, <1>1, <1>2, <1>3, <2>1, <2>2, <2>3 DEF PublicationPhase, Changes, Writing
  <2> QED BY <1>1, <1>2, <2>2, <2>4, <2>5, PublicationCalm
<1>7. CASE PutManifest(c)
  <2>1. /\ pub[c].pc = "put_manifest" /\ UNCHANGED disk
        /\ Put(c, "manifest") /\ Ends(c)
    BY <1>7 DEF PutManifest
  <2>2. /\ pub'[c].pc = "ended"
        /\ \A d \in Publications \ {c} : pub'[d] = pub[d]
    BY <2>1, EndedThere
  <2>3. \A k \in Kinds, u \in Tools :
          bucket'[k][u] = IF k = "manifest" /\ u = t THEN v ELSE bucket[k][u]
    BY <1>0, <1>3, <2>1, PutThere
  <2>4. OthersKept(t)
    BY <1>2, <2>1, <2>3 DEF OthersKept
  <2>5. PublicationPhase(c)' /\ ~InFlight(c)'
    BY <2>2 DEF PublicationPhase, Changes, Writing, InFlight
  <2>6. Agrees(t)'
    BY <1>0, <1>1, <1>2, <1>3, <2>1, <2>3 DEF PublicationPhase, Agrees, Writing
  <2> QED BY <1>1, <1>2, <2>2, <2>4, <2>5, <2>6, PublicationCalm
<1> QED BY <1>4, <1>5, <1>6, <1>7

\* publish_tool begins with a tool that nobody is at work on.
LEMMA SelectCalm ==
  ASSUME TypeOK, Calm, NEW c \in Publications, Select(c), ~disturbed'
  PROVE  Calm'
<1>1. PICK t \in Tools :
        /\ pub' = [pub EXCEPT ![c] = [pc |-> "commit", tool |-> t, seen |-> row[t].id,
                                      version |-> generated + 1]]
        /\ ~Busy(t)
  BY DEF Select, Begins
<1>2. pub[c].pc = "idle" /\ UNCHANGED <<backend, row, disk, bucket, removal, call>>
  BY DEF Select, stores
<1>3. /\ pub'[c].pc = "commit" /\ pub'[c].tool = t /\ pub'[c].seen = row[t].id
      /\ \A d \in Publications \ {c} : pub'[d] = pub[d]
  BY <1>1, PubTyped
<1>4. /\ \A d \in Publications : ~AtWork(d, t)
      /\ ~Removes(t)
      /\ \A p \in Processes : HostOf[p] = Home => ~Fetches(p, t)
  BY <1>1 DEF Busy, AtWork, Removes, Fetches
<1>5. /\ AtWork(c, t)' /\ \A u \in Tools \ {t} : ~AtWork(c, u)'
      /\ \A d \in Publications \ {c}, u \in Tools : AtWork(d, u)' <=> AtWork(d, u)
      /\ \A u \in Tools : Removes(u)' <=> Removes(u)
      /\ \A p \in Processes, u \in Tools : Fetches(p, u)' <=> Fetches(p, u)
  BY <1>2, <1>3 DEF AtWork, InFlight, Removes, Fetches, Fetching
<1>6. Alone'
  <2>1. Alone
    BY DEF Calm
  <2> QED BY <1>4, <1>5, <2>1 DEF Alone
<1>7. ASSUME NEW u \in Tools
      PROVE  (Changing(u)' <=> Changing(u)) /\ (Agrees(u)' <=> Agrees(u))
  <2>1. \A d \in Publications : (Changes(d) /\ pub[d].tool = u)'
                                  <=> Changes(d) /\ pub[d].tool = u
    BY <1>2, <1>3 DEF Changes, Writing
  <2> QED BY <1>2, <2>1 DEF Changing, Agrees
<1>8. ASSUME NEW d \in Publications
      PROVE  PublicationPhase(d)'
  BY <1>2, <1>3 DEF Calm, PublicationPhase, Changes, Writing
<1>9. RemovalPhase' /\ \A p \in Processes : FetchPhase(p)'
  BY <1>2 DEF Calm, RemovalPhase, FetchPhase, Fetching
<1> QED BY <1>6, <1>7, <1>8, <1>9 DEF Calm, Settled

\* The script at work on a tool.
LEMMA RemovalCalm ==
  ASSUME TypeOK, Calm, NEW t \in Tools, Removes(t),
         UNCHANGED <<backend, pub, call>>, OthersKept(t),
         Removes(t)' \/ removal'.pc = "idle",
         RemovalPhase', removal'.pc \notin {"files", "objects"} => Agrees(t)'
  PROVE  Calm'
<1>1. /\ \A d \in Publications : ~AtWork(d, t)
      /\ \A p \in Processes : HostOf[p] = Home => ~Fetches(p, t)
  BY DEF Calm, Alone
<1>2. /\ \A d \in Publications : pub[d].tool \in Tools
      /\ \A p \in Processes : call[p].tool \in Tools /\ HostOf[p] \in Hosts
      /\ "module" \in Kinds /\ "manifest" \in Kinds
  BY ArtifactsAssumption, PubTyped DEF TypeOK, PubType, CallType, Kinds
<1>3. Alone'
  <2>1. ASSUME NEW u \in Tools
        PROVE  /\ \A d \in Publications : AtWork(d, u)' => AtWork(d, u)
               /\ Removes(u)' => Removes(u)
               /\ \A p \in Processes : Fetches(p, u)' => Fetches(p, u)
    BY DEF AtWork, InFlight, Removes, Fetches, Fetching
  <2> QED BY <2>1, AloneShrinks DEF Calm
<1>4. ASSUME NEW u \in Tools, ~Changing(u)'
      PROVE  Agrees(u)'
  <2>1. CASE u = t
    BY <1>4, <2>1 DEF Changing, Removes
  <2>2. CASE u # t
    <3>1. ~Changing(u)
      BY <1>4, <2>2 DEF Changing, Changes, Removes
    <3>2. Agrees(u)
      BY <3>1 DEF Calm, Settled
    <3> QED BY <2>2, <3>2 DEF Agrees, OthersKept
  <2> QED BY <2>1, <2>2
<1>5. ASSUME NEW d \in Publications
      PROVE  PublicationPhase(d)'
  <2>1. CASE InFlight(d)
    <3>1. pub[d].tool \in Tools \ {t} /\ PublicationPhase(d)
      BY <1>1, <1>2, <2>1 DEF AtWork, Calm
    <3> QED BY <1>2, <3>1 DEF PublicationPhase, OthersKept, Changes
  <2>2. CASE ~InFlight(d)
    BY <2>2 DEF PublicationPhase, InFlight, Changes, Writing
  <2> QED BY <2>1, <2>2
<1>6. ASSUME NEW p \in Processes
      PROVE  FetchPhase(p)'
  <2>1. FetchPhase(p)
    BY DEF Calm
  <2>2. CASE ~Fetching(p)
    BY <2>2 DEF FetchPhase, Fetching
  <2>3. CASE Fetching(p) /\ HostOf[p] = Home
    <3>1. call[p].tool \in Tools \ {t}
      BY <1>1, <1>2, <2>3 DEF Fetches
    <3> QED BY <1>2, <2>1, <2>3, <3>1 DEF FetchPhase, OthersKept, Fetching
  <2>4. CASE Fetching(p) /\ HostOf[p] # Home
    BY <1>2, <2>1, <2>4 DEF FetchPhase, OthersKept, Fetching
  <2> QED BY <2>2, <2>3, <2>4
<1> QED BY <1>3, <1>4, <1>5, <1>6 DEF Calm, Settled

LEMMA RemoveCalm ==
  ASSUME TypeOK, Calm, RemoveCommit \/ RemoveFiles \/ RemoveObjects
  PROVE  Calm'
<1>0. PICK t \in Tools : t = removal.tool
  BY DEF TypeOK
<1>1. /\ Removes(t) /\ UNCHANGED <<backend, pub, call>> /\ RemovalPhase
      /\ removal.host = Home /\ Home \in Hosts
  BY <1>0, ArtifactsAssumption
  DEF RemoveCommit, RemoveFiles, RemoveObjects, Removes, Calm, RemovalPhase
<1>2. CASE RemoveCommit
  <2>1. /\ removal.pc = "commit" /\ UNCHANGED <<disk, bucket>>
        /\ row' = [row EXCEPT ![t] = IF removal.found THEN NoRow ELSE row[t]]
    BY <1>0, <1>2 DEF RemoveCommit, stores, TypeOK
  <2>2. removal'.pc = "files" /\ removal'.tool = t /\ removal'.host = Home
    BY <1>0, <1>1, <1>2 DEF RemoveCommit, TypeOK
  <2>3. row'[t] = NoRow /\ \A u \in Tools \ {t} : row'[u] = row[u]
    BY <1>0, <1>1, <2>1 DEF TypeOK, RemovalPhase
  <2>4. RemovalPhase' /\ Removes(t)'
    BY <2>2, <2>3 DEF RemovalPhase, Removes
  <2>5. OthersKept(t)
    BY <2>1, <2>3 DEF OthersKept
  <2> QED BY <1>1, <2>2, <2>4, <2>5, RemovalCalm
<1>3. CASE RemoveFiles
  <2>1. /\ removal.pc = "files" /\ UNCHANGED <<row, bucket>>
        /\ disk' = [disk EXCEPT ![Home] = [k \in Kinds |-> [@[k] EXCEPT ![t] = None]]]
    BY <1>0, <1>1, <1>3 DEF RemoveFiles
  <2>2. removal'.pc = "objects" /\ removal'.tool = t /\ removal'.host = Home
    BY <1>0, <1>1, <1>3 DEF RemoveFiles, TypeOK
  <2>3. \A h \in Hosts, k \in Kinds, u \in Tools :
          disk'[h][k][u] = IF h = Home /\ u = t THEN None ELSE disk[h][k][u]
    <3>1. disk \in [Hosts -> [Kinds -> [Tools -> Versions \cup {Broken}]]]
      BY DEF TypeOK
    <3> QED BY <1>1, <2>1, <3>1
  <2>4. RemovalPhase' /\ Removes(t)'
    BY <1>0, <1>1, <2>1, <2>2, <2>3 DEF RemovalPhase, Removes
  <2>5. OthersKept(t)
    BY <1>1, <2>1, <2>3 DEF OthersKept
  <2> QED BY <1>1, <2>2, <2>4, <2>5, RemovalCalm
<1>4. CASE RemoveObjects
  <2>1. /\ removal.pc = "objects" /\ UNCHANGED <<row, disk>>
        /\ bucket' = WithoutObjects /\ removal' = NoRemoval
    BY <1>4 DEF RemoveObjects
  <2>2. removal'.pc = "idle"
    BY <2>1 DEF NoRemoval
  <2>3. \A k \in Kinds, u \in Tools :
          bucket'[k][u] = IF backend = "s3" /\ u = t THEN None ELSE bucket[k][u]
    <3>1. bucket \in [Kinds -> [Tools -> Versions]]
      BY DEF TypeOK
    <3>2. CASE backend = "s3"
      BY <1>0, <2>1, <3>1, <3>2 DEF WithoutObjects
    <3>3. CASE backend # "s3"
      BY <2>1, <3>3 DEF WithoutObjects
    <3> QED BY <3>2, <3>3
  <2>4. RemovalPhase'
    BY <2>2 DEF RemovalPhase
  <2>5. OthersKept(t)
    BY <2>1, <2>3 DEF OthersKept
  <2>6. Agrees(t)'
    BY <1>0, <1>1, <2>1, <2>3 DEF Agrees, RemovalPhase, NoRow
  <2> QED BY <1>1, <2>2, <2>4, <2>5, <2>6, RemovalCalm
<1> QED BY <1>2, <1>3, <1>4

LEMMA BeginRemovalCalm ==
  ASSUME TypeOK, Calm, NEW h \in Hosts, NEW t \in Tools, BeginRemoval(h, t), ~disturbed'
  PROVE  Calm'
<1>1. /\ removal.pc = "idle" /\ h = Home /\ ~Busy(t)
      /\ UNCHANGED <<backend, row, disk, bucket, pub, call>>
  BY DEF BeginRemoval, stores
<1>2. /\ removal'.pc = "commit" /\ removal'.tool = t /\ removal'.host = Home
      /\ removal'.found <=> row[t] # NoRow
  BY <1>1 DEF BeginRemoval
<1>3. /\ \A d \in Publications : ~AtWork(d, t)
      /\ \A p \in Processes : HostOf[p] = Home => ~Fetches(p, t)
  BY <1>1 DEF Busy, AtWork, Fetches
<1>4. /\ \A u \in Tools : Removes(u)' <=> u = t
      /\ \A u \in Tools : ~Removes(u)
      /\ \A d \in Publications, u \in Tools : AtWork(d, u)' <=> AtWork(d, u)
      /\ \A p \in Processes, u \in Tools : Fetches(p, u)' <=> Fetches(p, u)
  BY <1>1, <1>2 DEF AtWork, InFlight, Removes, Fetches, Fetching
<1>5. Alone'
  <2>1. Alone
    BY DEF Calm
  <2> QED BY <1>3, <1>4, <2>1 DEF Alone
<1>6. ASSUME NEW u \in Tools
      PROVE  (Changing(u)' <=> Changing(u)) /\ (Agrees(u)' <=> Agrees(u))
  BY <1>1, <1>2 DEF Changing, Agrees, Changes
<1>7. ASSUME NEW d \in Publications
      PROVE  PublicationPhase(d)'
  BY <1>1 DEF Calm, PublicationPhase, Changes
<1>8. RemovalPhase'
  BY <1>1, <1>2 DEF RemovalPhase
<1>9. \A p \in Processes : FetchPhase(p)'
  BY <1>1 DEF Calm, FetchPhase, Fetching
<1> QED BY <1>5, <1>6, <1>7, <1>8, <1>9 DEF Calm, Settled

LEMMA CleanCalm ==
  ASSUME TypeOK, Calm, NEW h \in Hosts, Clean(h), ~disturbed'
  PROVE  Calm'
<1>1. UNCHANGED <<backend, row, bucket, pub, removal, call>>
      /\ (h = Home => backend # "local" /\ \A t \in Tools : ~Busy(t))
  BY DEF Clean
<1>2. \A g \in Hosts, k \in Kinds, t \in Tools :
        disk'[g][k][t] = IF g = h THEN None ELSE disk[g][k][t]
  BY DEF Clean, TypeOK
<1>3. /\ \A d \in Publications : pub[d].tool \in Tools
      /\ \A p \in Processes : call[p].tool \in Tools /\ HostOf[p] \in Hosts
      /\ "module" \in Kinds /\ "manifest" \in Kinds
      /\ Home \in Hosts /\ backend \in {"local", "s3"} /\ removal.tool \in Tools
  BY ArtifactsAssumption, PubTyped DEF TypeOK, PubType, CallType, Kinds
<1>4. h = Home => /\ \A d \in Publications : ~InFlight(d)
                  /\ removal.pc = "idle"
  BY <1>1, <1>3 DEF Busy
<1>5. Alone'
  <2>1. ASSUME NEW u \in Tools
        PROVE  /\ \A d \in Publications : AtWork(d, u)' => AtWork(d, u)
               /\ Removes(u)' => Removes(u)
               /\ \A p \in Processes : Fetches(p, u)' => Fetches(p, u)
    BY <1>1 DEF AtWork, InFlight, Removes, Fetches, Fetching
  <2> QED BY <2>1, AloneShrinks DEF Calm
<1>6. ASSUME NEW u \in Tools, ~Changing(u)'
      PROVE  Agrees(u)'
  <2>1. Agrees(u)
    BY <1>1, <1>6 DEF Calm, Settled, Changing, Changes
  <2>2. h = Home => backend = "s3"
    BY <1>1, <1>3
  <2> QED BY <1>1, <1>2, <1>3, <2>1, <2>2 DEF Agrees
<1>7. ASSUME NEW d \in Publications
      PROVE  PublicationPhase(d)'
  <2>1. CASE h = Home
    BY <1>1, <1>4, <2>1 DEF PublicationPhase, InFlight, Changes, Writing
  <2>2. CASE h # Home
    BY <1>1, <1>2, <1>3, <2>2 DEF Calm, PublicationPhase, Changes
  <2> QED BY <2>1, <2>2
<1>8. RemovalPhase'
  <2>1. CASE h = Home
    BY <1>1, <1>4, <2>1 DEF RemovalPhase
  <2>2. CASE h # Home
    BY <1>1, <1>2, <1>3, <2>2 DEF Calm, RemovalPhase
  <2> QED BY <2>1, <2>2
<1>9. \A p \in Processes : FetchPhase(p)'
  BY <1>1, <1>2, <1>3 DEF Calm, FetchPhase, Fetching
<1> QED BY <1>5, <1>6, <1>7, <1>8, <1>9 DEF Calm, Settled

\* A process that changes nothing but its own call, and does not begin to fetch.
LEMMA CallCalm ==
  ASSUME TypeOK, Calm, NEW p \in Processes,
         UNCHANGED <<backend, row, disk, bucket, pub, removal>>,
         \A q \in Processes \ {p} : call'[q] = call[q],
         \/ ~Fetching(p)'
         \/ /\ Fetching(p) /\ call'[p].tool = call[p].tool
            /\ call'[p].fetched = bucket["module"][call[p].tool]
  PROVE  Calm'
<1>1. Alone'
  <2>1. ASSUME NEW u \in Tools
        PROVE  /\ \A d \in Publications : AtWork(d, u)' => AtWork(d, u)
               /\ Removes(u)' => Removes(u)
               /\ \A q \in Processes : Fetches(q, u)' => Fetches(q, u)
    BY DEF AtWork, InFlight, Removes, Fetches, Fetching
  <2> QED BY <2>1, AloneShrinks DEF Calm
<1>2. \A u \in Tools : (Changing(u)' <=> Changing(u)) /\ (Agrees(u)' <=> Agrees(u))
  BY DEF Changing, Agrees, Changes
<1>3. RemovalPhase' /\ \A d \in Publications : PublicationPhase(d)'
  BY DEF Calm, RemovalPhase, PublicationPhase, Changes
<1>4. ASSUME NEW q \in Processes
      PROVE  FetchPhase(q)'
  BY DEF Calm, FetchPhase, Fetching
<1> QED BY <1>1, <1>2, <1>3, <1>4 DEF Calm, Settled

LEMMA CallTyped == TypeOK => call \in [Processes -> CallType]
BY DEF TypeOK

\* What a process answers, and where it goes.
LEMMA CallMoved ==
  ASSUME TypeOK, NEW p \in Processes, NEW pc, Goes(p, pc)
  PROVE  /\ call'[p].pc = pc /\ call'[p].tool = call[p].tool
         /\ call'[p].fetched = call[p].fetched
         /\ \A q \in Processes \ {p} : call'[q] = call[q]
BY CallTyped DEF Goes, CallType

LEMMA Answered ==
  ASSUME TypeOK, NEW p \in Processes, Answers(p)
  PROVE  call'[p].pc = "idle" /\ \A q \in Processes \ {p} : call'[q] = call[q]
BY CallTyped, Shapes DEF Answers

LEMMA PlatformCalm ==
  ASSUME TypeOK, Calm, NEW p \in Processes,
         Lookup(p) \/ Download(p) \/ Load(p) \/ Restart(p)
  PROVE  Calm'
<1>1. UNCHANGED <<backend, row, disk, bucket, pub, removal>>
  BY DEF Lookup, Download, Load, Restart, stores
<1>2. CASE Lookup(p)
  <2>1. PICK t \in Tools :
          call' = [call EXCEPT ![p] = [NoCall EXCEPT !.pc = "execute", !.tool = t]]
    BY <1>2 DEF Lookup
  <2>2. call'[p].pc = "execute" /\ \A q \in Processes \ {p} : call'[q] = call[q]
    BY <2>1, CallTyped, Shapes DEF CallType
  <2> QED BY <1>1, <2>2, CallCalm DEF Fetching
<1>3. CASE Download(p)
  <2> DEFINE object == bucket["module"][call[p].tool]
  <2>1. CASE object = None
    BY <1>1, <1>3, <2>1, Answered, CallCalm DEF Download, Fetching
  <2>2. CASE object # None
    <3>1. /\ Fetching(p)
          /\ call' = [call EXCEPT ![p].pc = "store", ![p].fetched = object]
      BY <1>3, <2>2 DEF Download, Fetching
    <3>2. /\ call'[p].tool = call[p].tool /\ call'[p].fetched = object
          /\ \A q \in Processes \ {p} : call'[q] = call[q]
      BY <3>1, CallTyped DEF CallType
    <3> QED BY <1>1, <3>1, <3>2, CallCalm
  <2> QED BY <2>1, <2>2
<1>4. CASE Load(p)
  <2>1. Answers(p)
    BY <1>4 DEF Load, Runs
  <2> QED BY <1>1, <2>1, Answered, CallCalm DEF Fetching
<1>5. CASE Restart(p)
  <2>1. Answers(p)
    BY <1>5 DEF Restart, Answers
  <2> QED BY <1>1, <2>1, Answered, CallCalm DEF Fetching
<1> QED BY <1>2, <1>3, <1>4, <1>5

\* get_executor goes to the object store only if nobody else is on the way.
LEMMA FindCalm ==
  ASSUME TypeOK, Calm, NEW p \in Processes, FindExecutor(p), ~disturbed'
  PROVE  Calm'
<1> DEFINE t == call[p].tool
<1>1. /\ UNCHANGED <<backend, row, disk, bucket, pub, removal>>
      /\ call[p].pc = "execute"
  BY DEF FindExecutor, stores
<1>2. CASE Answers(p) \/ Goes(p, "load")
  BY <1>1, <1>2, Answered, CallMoved, CallCalm DEF Fetching
<1>3. CASE Goes(p, "download") /\ ~Answers(p) /\ ~Goes(p, "load")
  <2>1. /\ File(p, "module") = None /\ backend = "s3" /\ BeginsFetch(p)
    BY <1>3 DEF FindExecutor, Runs
  <2>2. /\ call'[p].pc = "download" /\ call'[p].tool = t
        /\ \A q \in Processes \ {p} : call'[q] = call[q]
    BY <1>3, CallMoved
  <2>3. \A q \in Processes : HostOf[q] = HostOf[p] => ~Fetches(q, t)
    BY <2>1 DEF BeginsFetch, Begins, Busy, FetchedBeside, Fetches
  <2>4. HostOf[p] = Home => ~Removes(t) /\ \A d \in Publications : ~AtWork(d, t)
    BY <2>1 DEF BeginsFetch, Begins, Busy, Removes, AtWork
  <2>5. /\ \A u \in Tools : Fetches(p, u)' <=> u = t
        /\ \A q \in Processes \ {p}, u \in Tools : Fetches(q, u)' <=> Fetches(q, u)
        /\ \A u \in Tools : Removes(u)' <=> Removes(u)
        /\ \A d \in Publications, u \in Tools : AtWork(d, u)' <=> AtWork(d, u)
    BY <1>1, <2>2 DEF Fetches, Fetching, Removes, AtWork, InFlight
  <2>6. Alone'
    <3>1. Alone
      BY DEF Calm
    <3> HIDE DEF t
    <3> QED BY <2>3, <2>4, <2>5, <3>1 DEF Alone
  <2>7. \A u \in Tools : (Changing(u)' <=> Changing(u)) /\ (Agrees(u)' <=> Agrees(u))
    BY <1>1 DEF Changing, Agrees, Changes
  <2>8. RemovalPhase' /\ \A d \in Publications : PublicationPhase(d)'
    BY <1>1 DEF Calm, RemovalPhase, PublicationPhase, Changes
  <2>9. FetchPhase(p)'
    BY <1>1, <2>1, <2>2 DEF FetchPhase, Fetching, File
  <2>10. ASSUME NEW q \in Processes \ {p}
         PROVE  FetchPhase(q)'
    BY <1>1, <2>2 DEF Calm, FetchPhase, Fetching
  <2> QED BY <2>6, <2>7, <2>8, <2>9, <2>10 DEF Calm, Settled
<1> QED BY <1>2, <1>3 DEF FindExecutor, Runs

\* The effect of a download that arrives.
LEMMA Stored ==
  ASSUME TypeOK, NEW p \in Processes, StoreDownload(p)
  PROVE  \A h \in Hosts, k \in Kinds, u \in Tools :
           disk'[h][k][u] = IF h = HostOf[p] /\ k = "module" /\ u = call[p].tool
                            THEN call[p].fetched ELSE disk[h][k][u]
<1>1. /\ disk \in [Hosts -> [Kinds -> [Tools -> Versions \cup {Broken}]]]
      /\ HostOf[p] \in Hosts /\ call[p].tool \in Tools /\ "module" \in Kinds
  BY ArtifactsAssumption DEF TypeOK, CallType, Kinds
<1> QED BY <1>1 DEF StoreDownload

LEMMA StoreCalm ==
  ASSUME TypeOK, Calm, NEW p \in Processes, StoreDownload(p)
  PROVE  Calm'
<1>0. PICK t \in Tools : t = call[p].tool
  BY DEF TypeOK, CallType
<1>1. /\ UNCHANGED <<backend, row, bucket, pub, removal>>
      /\ call[p].pc = "store" /\ Fetching(p) /\ Fetches(p, t)
  BY <1>0 DEF StoreDownload, Fetching, Fetches
<1>2. /\ call'[p].pc = "load" /\ ~Fetching(p)'
      /\ \A q \in Processes \ {p} : call'[q] = call[q]
  BY CallMoved DEF StoreDownload, Fetching
<1>3. \A h \in Hosts, k \in Kinds, u \in Tools :
        disk'[h][k][u] = IF h = HostOf[p] /\ k = "module" /\ u = t
                         THEN call[p].fetched ELSE disk[h][k][u]
  BY <1>0, Stored
<1>4. /\ \A d \in Publications : pub[d].tool \in Tools
      /\ \A q \in Processes : call[q].tool \in Tools /\ HostOf[q] \in Hosts
      /\ "module" \in Kinds /\ "manifest" \in Kinds
      /\ Home \in Hosts /\ removal.tool \in Tools
  BY ArtifactsAssumption, PubTyped DEF TypeOK, PubType, CallType, Kinds
<1>5. HostOf[p] = Home =>
        /\ ~Removes(t) /\ \A d \in Publications : ~AtWork(d, t)
        /\ backend = "s3" /\ call[p].fetched = bucket["module"][t]
  BY <1>0, <1>1 DEF Calm, Alone, FetchPhase
<1>6. Alone'
  <2>1. ASSUME NEW u \in Tools
        PROVE  /\ \A d \in Publications : AtWork(d, u)' => AtWork(d, u)
               /\ Removes(u)' => Removes(u)
               /\ \A q \in Processes : Fetches(q, u)' => Fetches(q, u)
    BY <1>1, <1>2 DEF AtWork, InFlight, Removes, Fetches, Fetching
  <2> QED BY <2>1, AloneShrinks DEF Calm
<1>7. ASSUME NEW u \in Tools, ~Changing(u)'
      PROVE  Agrees(u)'
  <2>1. Agrees(u)
    BY <1>1, <1>7 DEF Calm, Settled, Changing, Changes
  <2>2. CASE HostOf[p] = Home /\ u = t
    <3>1. bucket["module"][t] = row[t].by
      BY <1>4, <1>5, <2>1, <2>2 DEF Agrees
    <3> QED BY <1>1, <1>3, <1>4, <1>5, <2>1, <2>2, <3>1 DEF Agrees
  <2>3. CASE ~(HostOf[p] = Home /\ u = t)
    BY <1>1, <1>3, <1>4, <2>1, <2>3 DEF Agrees
  <2> QED BY <2>2, <2>3
<1>8. ASSUME NEW d \in Publications
      PROVE  PublicationPhase(d)'
  <2>1. CASE InFlight(d)
    <3>1. HostOf[p] = Home => pub[d].tool # t
      BY <1>5, <2>1 DEF AtWork
    <3> QED BY <1>1, <1>3, <1>4, <3>1 DEF Calm, PublicationPhase, Changes
  <2>2. CASE ~InFlight(d)
    BY <1>1, <2>2 DEF PublicationPhase, InFlight, Changes, Writing
  <2> QED BY <2>1, <2>2
<1>9. RemovalPhase'
  <2>1. CASE removal.pc = "idle"
    BY <1>1, <2>1 DEF RemovalPhase
  <2>2. CASE removal.pc # "idle"
    <3>1. HostOf[p] = Home => removal.tool # t
      BY <1>5, <2>2 DEF Removes
    <3> QED BY <1>1, <1>3, <1>4, <3>1 DEF Calm, RemovalPhase
  <2> QED BY <2>1, <2>2
<1>10. ASSUME NEW q \in Processes
       PROVE  FetchPhase(q)'
  <2>1. CASE q = p
    BY <1>2, <2>1 DEF FetchPhase, Fetching
  <2>2. CASE q # p
    <3>1. FetchPhase(q) /\ call'[q] = call[q]
      BY <1>2, <2>2 DEF Calm
    <3>2. CASE ~Fetching(q)
      BY <3>1, <3>2 DEF FetchPhase, Fetching
    <3>3. CASE Fetching(q)
      <4>1. HostOf[q] = HostOf[p] => call[q].tool # t
        BY <1>1, <2>2, <3>3 DEF Calm, Alone, Fetches
      <4> QED BY <1>1, <1>3, <1>4, <3>1, <4>1 DEF FetchPhase, Fetching
    <3> QED BY <3>2, <3>3
  <2> QED BY <2>1, <2>2
<1> QED BY <1>6, <1>7, <1>8, <1>9, <1>10 DEF Calm, Settled

LEMMA UndisturbedStep ==
  ASSUME TypeOK, LocalHasNoObjects, Undisturbed, [Next]_vars
  PROVE  Undisturbed'
<1> SUFFICES ASSUME ~disturbed'
             PROVE  Calm'
  BY DEF Undisturbed
<1>1. CASE UNCHANGED vars
  BY <1>1 DEF vars, stores, Undisturbed, Calm, Alone, AtWork, InFlight, Removes, Fetches,
     Fetching, Settled, Changing, Changes, Agrees, PublicationPhase, RemovalPhase,
     FetchPhase
<1>2. CASE Next
  <2>1. ~disturbed
    BY <1>2 DEF Next, Select, Commit, WriteModule, WriteManifest, PutModule, PutManifest,
       PutError, WriteError, CommitError, Lookup, FindExecutor, Download, StoreDownload,
       Load, DownloadError, Restart, Clean, BeginRemoval, Stop, RemoveCommit, RemoveFiles,
       RemoveObjects, RemovalCut, Begins, BeginsFetch, Fault
  <2>2. Calm
    BY <2>1 DEF Undisturbed
  <2>3. ~Stop /\ ~RemovalCut
    BY DEF Stop, RemovalCut, Fault
  <2>4. ASSUME NEW c \in Publications
        PROVE  ~PutError(c) /\ ~WriteError(c) /\ ~CommitError(c)
    BY DEF PutError, WriteError, CommitError, Fault
  <2>5. ASSUME NEW p \in Processes
        PROVE  ~DownloadError(p)
    BY DEF DownloadError, Fault
  <2> QED BY <1>2, <2>2, <2>3, <2>4, <2>5, SelectCalm, CommitCalm, WriteCalm, RemoveCalm,
             BeginRemovalCalm, CleanCalm, PlatformCalm, FindCalm, StoreCalm
          DEF Next
<1> QED BY <1>1, <1>2

\* With the local backend nothing reaches the object store.
LEMMA LocalStep ==
  ASSUME TypeOK, LocalHasNoObjects, [Next]_vars
  PROVE  LocalHasNoObjects'
<1> DEFINE Putting == {"put_module", "put_manifest"}
<1>1. backend' = backend
  BY DEF Next, vars, Select, Commit, WriteModule, WriteManifest, PutModule, PutManifest,
     PutError, WriteError, CommitError, Lookup, FindExecutor, Download, StoreDownload,
     Load, DownloadError, Restart, Clean, BeginRemoval, Stop, RemoveCommit, RemoveFiles,
     RemoveObjects, RemovalCut
<1>2. ASSUME UNCHANGED bucket,
             \A d \in Publications : pub'[d].pc \in Putting =>
               pub[d].pc \in Putting \/ backend = "s3"
      PROVE  LocalHasNoObjects'
  BY <1>1, <1>2 DEF LocalHasNoObjects
<1>3. ASSUME NEW c \in Publications, Select(c)
      PROVE  LocalHasNoObjects'
  <2>1. PICK t \in Tools :
          pub' = [pub EXCEPT ![c] = [pc |-> "commit", tool |-> t, seen |-> row[t].id,
                                     version |-> generated + 1]]
    BY <1>3 DEF Select
  <2>2. pub'[c].pc = "commit" /\ \A d \in Publications \ {c} : pub'[d] = pub[d]
    BY <2>1, PubTyped
  <2> QED BY <1>2, <1>3, <2>2 DEF Select, stores
<1>4. ASSUME NEW c \in Publications,
             Commit(c) \/ WriteModule(c) \/ WriteError(c) \/ CommitError(c)
      PROVE  LocalHasNoObjects'
  <2>1. UNCHANGED bucket /\ (Ends(c) \/ NowAt(c, "write_module") \/ NowAt(c, "write_manifest"))
    BY <1>4 DEF Commit, AfterFailure, WriteModule, WriteError, CommitError, stores
  <2>2. pub'[c].pc \notin Putting /\ \A d \in Publications \ {c} : pub'[d] = pub[d]
    BY <2>1, Moved, EndedThere
  <2> QED BY <1>2, <2>1, <2>2
<1>5. ASSUME NEW c \in Publications, WriteManifest(c)
      PROVE  LocalHasNoObjects'
  <2>1. CASE backend = "s3"
    BY <1>2, <1>5, <2>1 DEF WriteManifest
  <2>2. CASE backend # "s3"
    <3>1. Ends(c)
      BY <1>5, <2>2 DEF WriteManifest
    <3>2. pub'[c].pc \notin Putting /\ \A d \in Publications \ {c} : pub'[d] = pub[d]
      BY <3>1, EndedThere
    <3> QED BY <1>2, <1>5, <3>2 DEF WriteManifest
  <2> QED BY <2>1, <2>2
<1>6. ASSUME NEW c \in Publications, PutModule(c) \/ PutManifest(c) \/ PutError(c)
      PROVE  LocalHasNoObjects'
  <2>1. backend = "s3"
    BY <1>6 DEF LocalHasNoObjects, PutModule, PutManifest, PutError
  <2> QED BY <1>1, <2>1 DEF LocalHasNoObjects
<1>7. CASE Stop
  BY <1>2, <1>7, Shapes DEF Stop
<1>8. CASE RemoveObjects
  BY <1>1, <1>8 DEF RemoveObjects, WithoutObjects, LocalHasNoObjects
<1>9. CASE UNCHANGED <<bucket, pub>>
  BY <1>2, <1>9
<1>10. ASSUME NEW p \in Processes,
              \/ Lookup(p) \/ FindExecutor(p) \/ Download(p) \/ StoreDownload(p) \/ Load(p)
              \/ DownloadError(p) \/ Restart(p)
       PROVE  LocalHasNoObjects'
  BY <1>9, <1>10
  DEF Lookup, FindExecutor, Download, StoreDownload, Load, DownloadError, Restart, stores
<1>11. CASE \/ \E h \in Hosts : Clean(h) \/ \E t \in Tools : BeginRemoval(h, t)
            \/ RemoveCommit \/ RemoveFiles \/ RemovalCut \/ UNCHANGED vars
  BY <1>9, <1>11 DEF Clean, BeginRemoval, RemoveCommit, RemoveFiles, RemovalCut, stores, vars
<1> QED BY <1>3, <1>4, <1>5, <1>6, <1>7, <1>8, <1>10, <1>11 DEF Next

\* At the start nobody is at work and there is nothing to agree on.
LEMMA StartsCalm == Init => LocalHasNoObjects /\ Undisturbed
<1> SUFFICES ASSUME Init
             PROVE  LocalHasNoObjects /\ Undisturbed
  OBVIOUS
<1>1. /\ \A c \in Publications : pub[c].pc = "idle"
      /\ \A p \in Processes : call[p].pc = "idle"
      /\ removal.pc = "idle"
      /\ \A t \in Tools : row[t].by = None
      /\ \A k \in Kinds, t \in Tools : bucket[k][t] = None
      /\ \A h \in Hosts, k \in Kinds, t \in Tools : disk[h][k][t] = None
  BY DEF Init, NoPublication, NoCall, NoRemoval, NoRow
<1>2. LocalHasNoObjects
  BY <1>1 DEF LocalHasNoObjects
<1>3. Alone
  BY <1>1 DEF Alone, AtWork, InFlight, Removes, Fetches, Fetching
<1>4. Settled
  BY <1>1, ArtifactsAssumption DEF Settled, Agrees
<1>5. RemovalPhase /\ \A c \in Publications : PublicationPhase(c)
  BY <1>1 DEF RemovalPhase, PublicationPhase, Changes, Writing
<1>6. \A p \in Processes : FetchPhase(p)
  BY <1>1 DEF FetchPhase, Fetching
<1> QED BY <1>2, <1>3, <1>4, <1>5, <1>6 DEF Undisturbed, Calm

LEMMA AlwaysUndisturbed == Spec => [](LocalHasNoObjects /\ Undisturbed)
<1>1. TypeOK /\ LocalHasNoObjects /\ Undisturbed /\ [Next]_vars
        => LocalHasNoObjects' /\ Undisturbed'
  BY LocalStep, UndisturbedStep
<1> QED BY <1>1, StartsCalm, TypeCorrect, PTL DEF Spec

\* Unless two actors were at work on one tool at once or a fault struck, publish_tool,
\* the downloads, cleaned directories and the removal script leave the row, the files at
\* home and the objects of a tool at one version, for any tools, hosts and processes.
THEOREM ArtifactsMatchRowsAlways == Spec => []ArtifactsMatchRows
<1>1. Undisturbed => ArtifactsMatchRows
  BY DEF Undisturbed, Calm, Settled, Agrees, Changing, Changes, Writing,
         ArtifactsMatchRows, Busy, InFlight
<1> QED BY <1>1, AlwaysUndisturbed, PTL

-----------------------------------------------------------------------------
(* Why nobody goes back: what may come next is at least as new as what     *)
(* was, along the way from the object store over the directory of a host   *)
(* and the registry of a process to what it has run.                       *)

\* The names whose code is what was published under them.
Generated == Tools \ BuiltIn

\* Versions are numbered in the order in which they are generated.
Numbered ==
  /\ \A t \in Tools : \A v \in published[t] : v <= generated
  /\ \A c \in Publications : pub[c].version <= generated

Newest(c) ==
  InFlight(c) => \A v \in published[pub[c].tool] : v <= pub[c].version

\* A place that holds something executable holds nothing older than the other value.
NotOlder(value, place) == place \notin {None, Broken} => value <= place

\* A publication has replaced the module at home and not yet the object.
Ahead(t) ==
  \E c \in Publications :
    pub[c].pc \in {"write_manifest", "put_module"} /\ pub[c].tool = t

Ordered(p, t) ==
  LET file == disk[HostOf[p]]["module"][t]
      object == bucket["module"][t]
  IN  /\ NotOlder(last[p][t], registry[p][t])
      /\ NotOlder(last[p][t], file) /\ NotOlder(registry[p][t], file)
      /\ ~(HostOf[p] = Home /\ Ahead(t)) =>
           /\ NotOlder(last[p][t], object) /\ NotOlder(registry[p][t], object)
           /\ NotOlder(file, object)
      /\ \A q \in Processes :
           HostOf[q] = HostOf[p] /\ call[q].pc = "store" /\ call[q].tool = t =>
             /\ NotOlder(last[p][t], call[q].fetched)
             /\ NotOlder(registry[p][t], call[q].fetched)
             /\ NotOlder(call[q].fetched, object)

Ordering ==
  /\ \A c \in Publications : Newest(c)
  /\ \A p \in Processes, t \in Generated : Ordered(p, t)

UndisturbedOrder == ~disturbed => Ordering

\* The kinds of the places an executor is found in.
LEMMA PlaceTypes ==
  ASSUME TypeOK
  PROVE  /\ "module" \in Kinds /\ Home \in Hosts
         /\ \A p \in Processes : HostOf[p] \in Hosts /\ call[p].tool \in Tools
         /\ \A p \in Processes : call[p].fetched \in Nat
         /\ \A p \in Processes, t \in Tools : last[p][t] \in Int /\ registry[p][t] \in Int \ {Broken}
         /\ \A h \in Hosts, t \in Tools : disk[h]["module"][t] \in Nat \cup {Broken}
         /\ \A t \in Tools : bucket["module"][t] \in Nat
         /\ \A c \in Publications : pub[c].tool \in Tools /\ pub[c].version \in Nat
         /\ \A t \in Tools : published[t] \subseteq Nat
<1>1. "module" \in Kinds /\ Home \in Hosts /\ \A p \in Processes : HostOf[p] \in Hosts
  BY ArtifactsAssumption DEF Kinds
<1>2. \A p \in Processes : call[p].tool \in Tools /\ call[p].fetched \in Nat
  BY DEF TypeOK, CallType, Versions
<1>3. \A p \in Processes, t \in Tools : last[p][t] \in Int /\ registry[p][t] \in Int \ {Broken}
  BY DEF TypeOK, Codes, BuiltInCode, Broken, Versions
<1>4. \A h \in Hosts, t \in Tools : disk[h]["module"][t] \in Nat \cup {Broken}
  BY <1>1 DEF TypeOK, Versions
<1>5. \A t \in Tools : bucket["module"][t] \in Nat
  BY <1>1 DEF TypeOK, Versions
<1>6. \A c \in Publications : pub[c].tool \in Tools /\ pub[c].version \in Nat
  BY PubTyped DEF PubType, Versions
<1>7. \A t \in Tools : published[t] \subseteq Nat
  BY DEF TypeOK, Versions
<1> QED BY <1>1, <1>2, <1>3, <1>4, <1>5, <1>6, <1>7

\* The steps that only take away what could be run.
LEMMA OrderKept ==
  ASSUME TypeOK, TypeOK', NEW p \in Processes, NEW t \in Tools, Ordered(p, t),
         UNCHANGED last,
         registry'[p][t] \in {registry[p][t], None},
         disk'[HostOf[p]]["module"][t] \in {disk[HostOf[p]]["module"][t], None},
         bucket'["module"][t] \in {bucket["module"][t], None},
         Ahead(t) => Ahead(t)' \/ bucket'["module"][t] = None,
         \A q \in Processes : call'[q].pc = "store" => call'[q] = call[q]
  PROVE  Ordered(p, t)'
<1> DEFINE h == HostOf[p]
           file == disk[h]["module"][t]
           object == bucket["module"][t]
<1>1. /\ last[p][t] \in Int /\ registry[p][t] \in Int /\ object \in Nat
      /\ file \in Nat \cup {Broken}
      /\ \A q \in Processes : call[q].fetched \in Nat
  BY PlaceTypes
<1>2. /\ NotOlder(last[p][t], registry'[p][t])
      /\ NotOlder(last[p][t], disk'[h]["module"][t])
      /\ NotOlder(registry'[p][t], disk'[h]["module"][t])
  BY <1>1 DEF Ordered, NotOlder, None, Broken
<1>3. ASSUME ~(h = Home /\ Ahead(t)')
      PROVE  /\ NotOlder(last[p][t], bucket'["module"][t])
             /\ NotOlder(registry'[p][t], bucket'["module"][t])
             /\ NotOlder(disk'[h]["module"][t], bucket'["module"][t])
  BY <1>1, <1>3 DEF Ordered, NotOlder, None, Broken
<1>4. ASSUME NEW q \in Processes, HostOf[q] = h, call'[q].pc = "store", call'[q].tool = t
      PROVE  /\ NotOlder(last[p][t], call'[q].fetched)
             /\ NotOlder(registry'[p][t], call'[q].fetched)
             /\ NotOlder(call'[q].fetched, bucket'["module"][t])
  BY <1>1, <1>4 DEF Ordered, NotOlder, None, Broken
<1> QED BY <1>2, <1>3, <1>4 DEF Ordered

\* What a step may do to the publications, other than begin one.
PublicationsKeep ==
  \A d \in Publications :
    /\ pub'[d].version \in {pub[d].version, None}
    /\ InFlight(d)' => /\ InFlight(d) /\ pub'[d].tool = pub[d].tool
                       /\ pub'[d].version = pub[d].version

LEMMA Keeping ==
  ASSUME TypeOK, NEW c \in Publications, InFlight(c),
         Ends(c) \/ \E pc : NowAt(c, pc)
  PROVE  PublicationsKeep
<1>1. CASE Ends(c)
  <2>1. pub'[c].version = None
    BY <1>1, PubTyped, Shapes DEF Ends, Over, NoPublication
  <2>2. pub'[c].pc = "ended" /\ \A d \in Publications \ {c} : pub'[d] = pub[d]
    BY <1>1, EndedThere
  <2> QED BY <2>1, <2>2 DEF PublicationsKeep, InFlight
<1>2. ASSUME NEW pc, NowAt(c, pc)
      PROVE  PublicationsKeep
  BY <1>2, Moved DEF PublicationsKeep, InFlight
<1> QED BY <1>1, <1>2

\* The steps other than the beginning and the commit of a publication.
LEMMA OtherSteps ==
  ASSUME TypeOK, [Next]_vars,
         \A c \in Publications : ~Select(c) /\ ~Commit(c) /\ ~CommitError(c)
  PROVE  PublicationsKeep /\ UNCHANGED <<generated, published>>
<1>1. CASE UNCHANGED <<pub, generated, published>>
  BY <1>1 DEF PublicationsKeep, InFlight
<1>2. ASSUME NEW c \in Publications,
             \/ WriteModule(c) \/ WriteManifest(c) \/ PutModule(c) \/ PutManifest(c)
             \/ PutError(c) \/ WriteError(c)
      PROVE  PublicationsKeep /\ UNCHANGED <<generated, published>>
  <2>1. InFlight(c)
    BY <1>2 DEF WriteModule, WriteManifest, PutModule, PutManifest, PutError, WriteError,
       OpensFile, InFlight
  <2>2. Ends(c) \/ \E pc : NowAt(c, pc)
    BY <1>2 DEF WriteModule, WriteManifest, PutModule, PutManifest, PutError, WriteError
  <2>3. UNCHANGED <<generated, published>>
    BY <1>2
    DEF WriteModule, WriteManifest, PutModule, PutManifest, PutError, WriteError, history
  <2> QED BY <2>1, <2>2, <2>3, Keeping
<1>3. CASE Stop
  <2>1. Over.version = None /\ Over.pc = "ended"
    BY Shapes DEF Over, NoPublication
  <2> QED BY <1>3, <2>1 DEF Stop, PublicationsKeep, InFlight, history
<1>4. ASSUME NEW p \in Processes,
             \/ Lookup(p) \/ FindExecutor(p) \/ Download(p) \/ StoreDownload(p) \/ Load(p)
             \/ DownloadError(p) \/ Restart(p)
      PROVE  UNCHANGED <<pub, generated, published>>
  BY <1>4
  DEF Lookup, FindExecutor, Download, StoreDownload, Load, DownloadError, Restart, history
<1>5. CASE \/ \E h \in Hosts : Clean(h) \/ \E t \in Tools : BeginRemoval(h, t)
           \/ RemoveCommit \/ RemoveFiles \/ RemoveObjects \/ RemovalCut \/ UNCHANGED vars
  BY <1>1, <1>5
  DEF Clean, BeginRemoval, RemoveCommit, RemoveFiles, RemoveObjects, RemovalCut, history, vars
<1> QED BY <1>1, <1>2, <1>3, <1>4, <1>5 DEF Next

\* The beginning of a publication.
LEMMA Selected ==
  ASSUME TypeOK, NEW c \in Publications, Select(c)
  PROVE  /\ generated' = generated + 1 /\ UNCHANGED published
         /\ pub[c].pc = "idle" /\ pub'[c].pc = "commit" /\ pub'[c].version = generated + 1
         /\ pub'[c].tool \in Tools
         /\ \A d \in Publications \ {c} : pub'[d] = pub[d]
         /\ ~disturbed' => ~disturbed /\ ~Busy(pub'[c].tool)
<1>1. PICK t \in Tools :
        /\ pub' = [pub EXCEPT ![c] = [pc |-> "commit", tool |-> t, seen |-> row[t].id,
                                      version |-> generated + 1]]
        /\ Begins(t)
  BY DEF Select
<1>2. /\ pub'[c].pc = "commit" /\ pub'[c].version = generated + 1 /\ pub'[c].tool = t
      /\ \A d \in Publications \ {c} : pub'[d] = pub[d]
  BY <1>1, PubTyped
<1> QED BY <1>1, <1>2 DEF Select, history, Begins

\* The commit, and what may go wrong with it.
LEMMA Committed ==
  ASSUME TypeOK, NEW c \in Publications, Commit(c) \/ CommitError(c)
  PROVE  /\ pub[c].pc = "commit" /\ UNCHANGED generated
         /\ Ends(c) \/ NowAt(c, "write_module")
         /\ \A t \in Tools :
              \/ published'[t] = published[t]
              \/ t = pub[c].tool /\ published'[t] = published[t] \cup {pub[c].version}
<1>1. /\ pub[c].pc = "commit" /\ UNCHANGED generated
      /\ Ends(c) \/ NowAt(c, "write_module")
      /\ UNCHANGED published \/ WriteRow(c)
  BY DEF Commit, CommitError, AfterFailure
<1>2. published \in [Tools -> SUBSET Versions]
  BY DEF TypeOK
<1> QED BY <1>1, <1>2 DEF WriteRow

LEMMA NumberedStep ==
  ASSUME IInv, IInv', Numbered, [Next]_vars
  PROVE  Numbered'
<1>1. TypeOK /\ TypeOK' /\ generated \in Nat
  BY DEF IInv, TypeOK
<1>2. \A t \in Tools : published[t] \subseteq published'[t]
                         /\ published[t] \subseteq Nat /\ published'[t] \subseteq Nat
  <2>1. \A t \in Tools : published[t] \subseteq published'[t]
    BY <1>1, Selected, Committed, OtherSteps
  <2> QED BY <1>1, <2>1, PlaceTypes DEF TypeOK, Versions
<1>3. /\ \A t \in Tools : \A v \in published'[t] : v <= generated'
      /\ \A d \in Publications : pub'[d].version <= generated'
  <2>0. /\ \A d \in Publications : pub[d].tool \in Tools /\ pub[d].version \in Nat
                                     /\ pub[d].version <= generated
        /\ \A t \in Tools : \A v \in published[t] : v \in Nat /\ v <= generated
    BY <1>1, PlaceTypes DEF Numbered
  <2>1. ASSUME NEW c \in Publications, Select(c)
        PROVE  <1>3
    <3>1. generated' = generated + 1 /\ UNCHANGED published
      BY <1>1, <2>1, Selected
    <3>2. \A d \in Publications : pub'[d].version \in {pub[d].version, generated + 1}
      BY <1>1, <2>1, Selected
    <3> QED BY <1>1, <2>0, <3>1, <3>2
  <2>2. ASSUME NEW c \in Publications, Commit(c) \/ CommitError(c)
        PROVE  <1>3
    <3>1. PublicationsKeep
      BY <1>1, <2>2, Committed, Keeping DEF InFlight
    <3>2. /\ generated' = generated
          /\ \A t \in Tools : published'[t] \subseteq published[t] \cup {pub[c].version}
      BY <1>1, <2>2, Committed
    <3> QED BY <1>1, <2>0, <3>1, <3>2 DEF PublicationsKeep, None
  <2>3. CASE \A c \in Publications : ~Select(c) /\ ~Commit(c) /\ ~CommitError(c)
    <3>1. PublicationsKeep /\ UNCHANGED <<generated, published>>
      BY <1>1, <2>3, OtherSteps
    <3> QED BY <1>1, <2>0, <3>1 DEF PublicationsKeep, None
  <2> QED BY <2>1, <2>2, <2>3
<1> QED BY <1>3 DEF Numbered

LEMMA NewestStep ==
  ASSUME TypeOK, Numbered, Calm, \A c \in Publications : Newest(c),
         [Next]_vars, ~disturbed'
  PROVE  \A c \in Publications : Newest(c)'
<1>0. /\ \A d \in Publications : pub[d].tool \in Tools /\ pub[d].version \in Nat
      /\ \A t \in Tools : \A v \in published[t] : v \in Nat /\ v <= generated
      /\ generated \in Nat
  BY PlaceTypes DEF Numbered, TypeOK
<1>1. ASSUME NEW c \in Publications, Select(c)
      PROVE  \A d \in Publications : Newest(d)'
  <2>1. /\ UNCHANGED published /\ pub'[c].version = generated + 1
        /\ pub'[c].tool \in Tools
        /\ \A d \in Publications \ {c} : pub'[d] = pub[d]
    BY <1>1, Selected
  <2>2. Newest(c)'
    BY <1>0, <2>1 DEF Newest
  <2>3. \A d \in Publications \ {c} : Newest(d)'
    BY <2>1 DEF Newest, InFlight
  <2> QED BY <2>2, <2>3
<1>2. ASSUME NEW c \in Publications, Commit(c) \/ CommitError(c)
      PROVE  \A d \in Publications : Newest(d)'
  <2>1. /\ PublicationsKeep /\ InFlight(c)
        /\ \A t \in Tools :
             \/ published'[t] = published[t]
             \/ t = pub[c].tool /\ published'[t] = published[t] \cup {pub[c].version}
    BY <1>2, Committed, Keeping DEF InFlight
  <2>2. ASSUME NEW d \in Publications, InFlight(d)'
        PROVE  \A v \in published'[pub'[d].tool] : v <= pub'[d].version
    <3>1. /\ InFlight(d) /\ pub'[d].tool = pub[d].tool /\ pub'[d].version = pub[d].version
          /\ \A v \in published[pub[d].tool] : v <= pub[d].version
      BY <2>1, <2>2 DEF PublicationsKeep, Newest
    <3>2. pub[d].tool = pub[c].tool => d = c
      BY <1>0, <2>1, <3>1 DEF Calm, Alone, AtWork
    <3> QED BY <1>0, <2>1, <3>1, <3>2
  <2> QED BY <2>2 DEF Newest
<1>3. CASE \A c \in Publications : ~Select(c) /\ ~Commit(c) /\ ~CommitError(c)
  <2>1. PublicationsKeep /\ UNCHANGED <<generated, published>>
    BY <1>3, OtherSteps
  <2> QED BY <2>1 DEF PublicationsKeep, Newest
<1> QED BY <1>1, <1>2, <1>3

Orders == \A p \in Processes, t \in Generated : Ordered(p, t)

\* The steps of publish_tool that replace no module.
LEMMA PublicationOrder ==
  ASSUME TypeOK, TypeOK', LocalHasNoObjects, Orders, NEW c \in Publications,
         Select(c) \/ Commit(c) \/ WriteManifest(c) \/ PutManifest(c)
  PROVE  Orders'
<1>1. /\ UNCHANGED <<registry, last, call>>
      /\ \A h \in Hosts, t \in Tools : disk'[h]["module"][t] = disk[h]["module"][t]
      /\ \A t \in Tools : bucket'["module"][t] = bucket["module"][t]
  <2>1. UNCHANGED <<registry, last, call>>
    BY DEF Select, Commit, WriteManifest, PutManifest, history
  <2>2. Kinds = {"module", "manifest"}
    BY DEF Kinds
  <2>3. CASE WriteManifest(c)
    BY <2>1, <2>2, <2>3, Written DEF WriteManifest
  <2>4. CASE PutManifest(c)
    BY <2>1, <2>2, <2>4, PutThere DEF PutManifest
  <2>5. CASE Select(c) \/ Commit(c)
    BY <2>1, <2>5 DEF Select, Commit, stores
  <2> QED BY <2>3, <2>4, <2>5
<1>2. \A t \in Tools : Ahead(t) => Ahead(t)' \/ bucket'["module"][t] = None
  <2>1. ASSUME \A d \in Publications \ {c} : pub'[d] = pub[d],
               \/ pub[c].pc \notin {"write_manifest", "put_module"}
               \/ pub'[c].pc = "put_module" /\ pub'[c].tool = pub[c].tool
        PROVE  \A t \in Tools : Ahead(t) => Ahead(t)'
    BY <2>1 DEF Ahead
  <2>2. CASE Select(c)
    BY <2>1, <2>2, Selected
  <2>3. CASE Commit(c)
    <3>1. Ends(c) \/ NowAt(c, "write_module")
      BY <2>3 DEF Commit, AfterFailure
    <3> QED BY <2>1, <2>3, <3>1, Moved, EndedThere DEF Commit
  <2>4. CASE PutManifest(c)
    BY <2>1, <2>4, EndedThere DEF PutManifest
  <2>5. CASE WriteManifest(c) /\ backend = "s3"
    BY <2>1, <2>5, Moved DEF WriteManifest
  <2>6. CASE backend # "s3"
    <3>1. \A t \in Tools : bucket["module"][t] = None
      BY <2>6 DEF TypeOK, LocalHasNoObjects, Kinds
    <3> QED BY <1>1, <3>1
  <2> QED BY <2>2, <2>3, <2>4, <2>5, <2>6
<1> QED BY <1>1, <1>2, OrderKept, PlaceTypes DEF Orders, Generated

\* The steps of the platform, of the script and of whoever cleans /tmp that take away.
LEMMA TakingOrder ==
  ASSUME TypeOK, TypeOK', Orders,
         \/ \E p \in Processes : \/ Lookup(p) \/ Restart(p)
                                 \/ FindExecutor(p) /\ UNCHANGED <<registry, last>>
                                 \/ Load(p) /\ UNCHANGED <<registry, last>>
         \/ \E h \in Hosts : Clean(h) \/ \E t \in Tools : BeginRemoval(h, t)
         \/ RemoveCommit \/ RemoveFiles \/ RemoveObjects
         \/ UNCHANGED vars
  PROVE  Orders'
<1>0. ASSUME UNCHANGED <<pub, last>>,
             \A p \in Processes, t \in Generated : registry'[p][t] \in {registry[p][t], None},
             \A h \in Hosts, t \in Tools :
               disk'[h]["module"][t] \in {disk[h]["module"][t], None},
             \A t \in Tools : bucket'["module"][t] \in {bucket["module"][t], None},
             \A q \in Processes : call'[q].pc = "store" => call'[q] = call[q]
      PROVE  Orders'
  <2>1. \A t \in Tools : Ahead(t) => Ahead(t)'
    BY <1>0 DEF Ahead
  <2> QED BY <1>0, <2>1, OrderKept, PlaceTypes DEF Orders, Generated
<1>1. ASSUME NEW p \in Processes, Lookup(p)
      PROVE  Orders'
  <2>1. PICK t \in Tools :
          call' = [call EXCEPT ![p] = [NoCall EXCEPT !.pc = "execute", !.tool = t]]
    BY <1>1 DEF Lookup
  <2>2. call'[p].pc = "execute" /\ \A q \in Processes \ {p} : call'[q] = call[q]
    BY <2>1, CallTyped, Shapes DEF CallType
  <2> QED BY <1>0, <1>1, <2>2 DEF Lookup, stores, history
<1>2. ASSUME NEW p \in Processes,
             (FindExecutor(p) \/ Load(p)) /\ UNCHANGED <<registry, last>>
      PROVE  Orders'
  <2>1. Answers(p) \/ Goes(p, "load") \/ Goes(p, "download")
    BY <1>2 DEF FindExecutor, Load, Runs
  <2>2. \A q \in Processes : call'[q].pc = "store" => call'[q] = call[q]
    BY <2>1, CallMoved, Answered
  <2>3. UNCHANGED <<pub, disk, bucket>>
    BY <1>2 DEF FindExecutor, Load, stores
  <2> QED BY <1>0, <1>2, <2>2, <2>3
<1>3. ASSUME NEW p \in Processes, Restart(p)
      PROVE  Orders'
  <2>1. \A q \in Processes : call'[q].pc = "store" => call'[q] = call[q]
    BY <1>3, Answered DEF Restart, Answers
  <2>2. \A q \in Processes, t \in Generated : registry'[q][t] \in {registry[q][t], None}
    BY <1>3 DEF Restart, Loaded, Generated, TypeOK
  <2> QED BY <1>0, <1>3, <2>1, <2>2 DEF Restart, stores, history
<1>4. ASSUME NEW h \in Hosts, Clean(h)
      PROVE  Orders'
  <2>1. \A g \in Hosts, t \in Tools :
          disk'[g]["module"][t] \in {disk[g]["module"][t], None}
    BY <1>4 DEF Clean, TypeOK, Kinds
  <2> QED BY <1>0, <1>4, <2>1 DEF Clean, history
<1>5. CASE RemoveFiles
  <2>1. \A h \in Hosts, t \in Tools :
          disk'[h]["module"][t] \in {disk[h]["module"][t], None}
    <3>1. /\ disk \in [Hosts -> [Kinds -> [Tools -> Versions \cup {Broken}]]]
          /\ removal.host \in Hosts /\ removal.tool \in Tools /\ "module" \in Kinds
      BY DEF TypeOK, Kinds
    <3> QED BY <1>5, <3>1 DEF RemoveFiles
  <2> QED BY <1>0, <1>5, <2>1 DEF RemoveFiles, history
<1>6. CASE RemoveObjects
  <2>1. \A t \in Tools : bucket'["module"][t] \in {bucket["module"][t], None}
    <3>1. bucket \in [Kinds -> [Tools -> Versions]] /\ "module" \in Kinds
      BY DEF TypeOK, Kinds
    <3> QED BY <1>6, <3>1 DEF RemoveObjects, WithoutObjects
  <2> QED BY <1>0, <1>6, <2>1 DEF RemoveObjects, history
<1>7. CASE \/ \E h \in Hosts, t \in Tools : BeginRemoval(h, t)
           \/ RemoveCommit \/ UNCHANGED vars
  BY <1>0, <1>7 DEF BeginRemoval, RemoveCommit, vars, stores, history
<1> QED BY <1>1, <1>2, <1>3, <1>4, <1>5, <1>6, <1>7

\* A publication under way is newer than whatever can be found or has been run.
LEMMA NewerThanAll ==
  ASSUME IInv, Numbered, NEW c \in Publications, InFlight(c), Newest(c)
  PROVE  LET t == pub[c].tool
             v == pub[c].version
         IN  /\ \A h \in Hosts : disk[h]["module"][t] <= v
             /\ bucket["module"][t] <= v
             /\ \A p \in Processes : last[p][t] <= v /\ registry[p][t] <= v
             /\ \A p \in Processes : call[p].tool = t => call[p].fetched <= v
<1> DEFINE t == pub[c].tool
           v == pub[c].version
<1>1. /\ t \in Tools /\ v \in Nat /\ "module" \in Kinds /\ published[t] \subseteq Nat
  BY PlaceTypes DEF IInv
<1>2. \A w \in published[t] \cup {None, Broken, BuiltInCode} : w <= v
  BY <1>1 DEF Newest, None, Broken, BuiltInCode
<1>3. /\ \A h \in Hosts : disk[h]["module"][t] \in published[t] \cup {None, Broken}
      /\ bucket["module"][t] \in published[t] \cup {None}
      /\ \A p \in Processes : call[p].tool = t => call[p].fetched \in published[t] \cup {None}
  BY <1>1 DEF IInv, PlacesPublished
<1>4. \A p \in Processes : {registry[p][t], last[p][t]} \subseteq published[t] \cup {None, BuiltInCode}
  BY <1>1 DEF IInv, PlacesPublished, OwnCode
<1> QED BY <1>2, <1>3, <1>4

LEMMA WriteModuleOrder ==
  ASSUME IInv, Numbered, Calm, Ordering, NEW c \in Publications, WriteModule(c)
  PROVE  Orders'
<1>0. PICK t \in Tools, v \in Nat : t = pub[c].tool /\ v = pub[c].version
  BY PlaceTypes DEF IInv
<1>1. /\ UNCHANGED <<bucket, registry, last, call>> /\ pub[c].pc = "write_module"
      /\ AtWork(c, t) /\ InFlight(c)
  BY <1>0 DEF WriteModule, history, AtWork, InFlight
<1>2. /\ pub'[c].pc = "write_manifest" /\ pub'[c].tool = t
      /\ \A d \in Publications \ {c} : pub'[d] = pub[d]
  BY <1>0, Moved DEF WriteModule, IInv
<1>3. \A h \in Hosts, u \in Tools :
        disk'[h]["module"][u] = IF h = Home /\ u = t THEN v ELSE disk[h]["module"][u]
  BY <1>0, Written, PlaceTypes DEF WriteModule, IInv
<1>4. ASSUME NEW p \in Processes, NEW u \in Generated
      PROVE  Ordered(p, u)'
  <2>0. u \in Tools
    BY DEF Generated
  <2>1. Ordered(p, u) /\ HostOf[p] \in Hosts
    BY PlaceTypes DEF Ordering, IInv
  <2>2. CASE HostOf[p] = Home /\ u = t
    <3>1. Ahead(u)'
      BY <1>2, <2>2 DEF Ahead
    <3>2. \A q \in Processes : HostOf[q] = Home /\ call[q].tool = t => call[q].pc # "store"
      BY <1>1 DEF Calm, Alone, Fetches, Fetching
    <3>3. last[p][t] <= v /\ registry[p][t] <= v
      BY <1>0, <1>1, NewerThanAll DEF Ordering
    <3> QED BY <1>1, <1>3, <2>1, <2>2, <3>1, <3>2, <3>3 DEF Ordered, NotOlder
  <2>3. CASE ~(HostOf[p] = Home /\ u = t)
    <3>1. Ahead(u) => Ahead(u)'
      BY <1>1, <1>2 DEF Ahead
    <3> QED BY <1>1, <1>3, <2>0, <2>1, <2>3, <3>1 DEF Ordered
  <2> QED BY <2>2, <2>3
<1> QED BY <1>4 DEF Orders

LEMMA PutModuleOrder ==
  ASSUME IInv, Numbered, Ordering, NEW c \in Publications, PutModule(c)
  PROVE  Orders'
<1>0. PICK t \in Tools, v \in Nat : t = pub[c].tool /\ v = pub[c].version
  BY PlaceTypes DEF IInv
<1>1. /\ UNCHANGED <<disk, registry, last, call>> /\ pub[c].pc = "put_module"
      /\ InFlight(c)
  BY <1>0 DEF PutModule, history, InFlight
<1>2. \A d \in Publications \ {c} : pub'[d] = pub[d]
  BY Moved DEF PutModule, IInv
<1>3. \A u \in Tools : bucket'["module"][u] = IF u = t THEN v ELSE bucket["module"][u]
  BY <1>0, PutThere, PlaceTypes DEF PutModule, IInv
<1>4. ASSUME NEW p \in Processes, NEW u \in Generated
      PROVE  Ordered(p, u)'
  <2>0. u \in Tools
    BY DEF Generated
  <2>1. Ordered(p, u) /\ HostOf[p] \in Hosts
    BY PlaceTypes DEF Ordering, IInv
  <2>2. CASE u = t
    <3>1. /\ last[p][t] <= v /\ registry[p][t] <= v /\ disk[HostOf[p]]["module"][t] <= v
          /\ \A q \in Processes : call[q].tool = t => call[q].fetched <= v
      BY <1>0, <1>1, <2>1, NewerThanAll DEF Ordering
    <3> QED BY <1>1, <1>3, <2>1, <2>2, <3>1 DEF Ordered, NotOlder
  <2>3. CASE u # t
    <3>1. Ahead(u) => Ahead(u)'
      BY <1>0, <1>2, <2>3 DEF Ahead
    <3> QED BY <1>1, <1>3, <2>0, <2>1, <2>3, <3>1 DEF Ordered
  <2> QED BY <2>2, <2>3
<1> QED BY <1>4 DEF Orders

\* What a process runs is what its registry or the directory of its host holds.
LEMMA RunsOrder ==
  ASSUME IInv, Calm, Ordering, NEW p \in Processes, NEW v \in Int \ {None, Broken}, Runs(p, v),
         UNCHANGED <<disk, bucket, pub>>,
         v = registry[p][call[p].tool] \/ v = File(p, "module")
  PROVE  Orders'
<1>0. PICK t \in Tools : t = call[p].tool
  BY PlaceTypes DEF IInv
<1>1. \A q \in Processes, u \in Tools :
        /\ registry'[q][u] = IF q = p /\ u = t THEN v ELSE registry[q][u]
        /\ last'[q][u] = IF q = p /\ u = t THEN v ELSE last[q][u]
  BY <1>0 DEF Runs, IInv, TypeOK
<1>2. \A q \in Processes : call'[q].pc = "store" => call'[q] = call[q]
  BY Answered DEF Runs, IInv
<1>3. \A u \in Tools : Ahead(u) => Ahead(u)'
  BY DEF Ahead
<1>4. ASSUME NEW q \in Processes, NEW u \in Generated
      PROVE  Ordered(q, u)'
  <2>0. u \in Tools
    BY DEF Generated
  <2>1. Ordered(q, u)
    BY DEF Ordering
  <2>2. CASE q = p /\ u = t
    <3> DEFINE file == disk[HostOf[p]]["module"][t]
               object == bucket["module"][t]
    <3>1. /\ NotOlder(v, file)
          /\ ~(HostOf[p] = Home /\ Ahead(t)) => NotOlder(v, object)
      <4>1. file \in Nat \cup {Broken}
        BY PlaceTypes DEF IInv
      <4>2. v = registry[p][t] \/ v = file
        BY <1>0 DEF File
      <4> QED BY <2>1, <2>2, <4>1, <4>2 DEF Ordered, NotOlder
    <3>2. ~(HostOf[p] = Home /\ Ahead(t)) => NotOlder(file, object)
      BY <2>1, <2>2 DEF Ordered
    <3>3. ASSUME NEW w \in Processes, HostOf[w] = HostOf[p], call[w].pc = "store",
                 call[w].tool = t
          PROVE  NotOlder(v, call[w].fetched) /\ NotOlder(call[w].fetched, object)
      <4>1. file = None
        BY <3>3 DEF Calm, FetchPhase, Fetching
      <4>2. v = registry[p][t]
        BY <1>0, <4>1 DEF File
      <4> QED BY <2>1, <2>2, <3>3, <4>2 DEF Ordered
    <3> HIDE DEF file, object
    <3> QED BY <1>1, <1>2, <1>3, <2>2, <3>1, <3>2, <3>3 DEF Ordered, NotOlder, file, object
  <2>3. CASE ~(q = p /\ u = t)
    BY <1>1, <1>2, <1>3, <2>0, <2>1, <2>3 DEF Ordered
  <2> QED BY <2>2, <2>3
<1> QED BY <1>4 DEF Orders

\* A download takes the object as it is.
LEMMA DownloadOrder ==
  ASSUME IInv, Calm, Ordering, NEW p \in Processes, Download(p)
  PROVE  Orders'
<1>0. PICK t \in Tools : t = call[p].tool
  BY PlaceTypes DEF IInv
<1>1. /\ UNCHANGED <<disk, bucket, registry, last, pub>> /\ call[p].pc = "download"
      /\ Fetches(p, t)
  BY <1>0 DEF Download, stores, history, Fetches, Fetching
<1>2. /\ \A q \in Processes \ {p} : call'[q] = call[q]
      /\ call'[p].pc = "store" =>
           call'[p].tool = t /\ call'[p].fetched = bucket["module"][t]
  <2>1. CASE Answers(p)
    BY <2>1, Answered DEF IInv
  <2>2. CASE ~Answers(p)
    <3>1. call' = [call EXCEPT ![p].pc = "store", ![p].fetched = bucket["module"][t]]
      BY <1>0, <2>2 DEF Download
    <3> QED BY <1>0, <3>1, CallTyped DEF IInv, CallType
  <2> QED BY <2>1, <2>2
<1>3. \A u \in Tools : Ahead(u) => Ahead(u)'
  BY <1>1 DEF Ahead
<1>4. HostOf[p] = Home => ~Ahead(t)
  BY <1>1 DEF Calm, Alone, AtWork, InFlight, Ahead
<1>5. ASSUME NEW q \in Processes, NEW u \in Generated
      PROVE  Ordered(q, u)'
  <2>0. u \in Tools
    BY DEF Generated
  <2>1. Ordered(q, u) /\ bucket["module"][u] \in Nat
    BY <2>0, PlaceTypes DEF Ordering, IInv
  <2>2. ASSUME NEW w \in Processes, HostOf[w] = HostOf[q], call'[w].pc = "store",
               call'[w].tool = u
        PROVE  /\ NotOlder(last[q][u], call'[w].fetched)
               /\ NotOlder(registry[q][u], call'[w].fetched)
               /\ NotOlder(call'[w].fetched, bucket["module"][u])
    <3>1. CASE w = p
      BY <1>2, <1>4, <2>1, <2>2, <3>1 DEF Ordered, NotOlder
    <3>2. CASE w # p
      BY <1>2, <2>1, <2>2, <3>2 DEF Ordered
    <3> QED BY <3>1, <3>2
  <2> QED BY <1>1, <1>3, <2>0, <2>1, <2>2 DEF Ordered
<1> QED BY <1>5 DEF Orders

LEMMA StoreOrder ==
  ASSUME IInv, Calm, Ordering, NEW p \in Processes, StoreDownload(p)
  PROVE  Orders'
<1>0. PICK t \in Tools : t = call[p].tool
  BY PlaceTypes DEF IInv
<1>1. /\ UNCHANGED <<bucket, registry, last, pub>> /\ call[p].pc = "store"
  BY DEF StoreDownload, history
<1>2. call'[p].pc = "load" /\ \A q \in Processes \ {p} : call'[q] = call[q]
  BY CallMoved DEF StoreDownload, IInv
<1>3. \A h \in Hosts, u \in Tools :
        disk'[h]["module"][u] = IF h = HostOf[p] /\ u = t
                                THEN call[p].fetched ELSE disk[h]["module"][u]
  BY <1>0, Stored, PlaceTypes DEF IInv
<1>4. \A u \in Tools : Ahead(u) => Ahead(u)'
  BY <1>1 DEF Ahead
<1>5. ASSUME NEW q \in Processes, NEW u \in Generated
      PROVE  Ordered(q, u)'
  <2>0. u \in Tools
    BY DEF Generated
  <2>1. Ordered(q, u) /\ HostOf[q] \in Hosts
    BY PlaceTypes DEF Ordering, IInv
  <2>2. \/ disk'[HostOf[q]]["module"][u] = disk[HostOf[q]]["module"][u]
        \/ /\ HostOf[q] = HostOf[p] /\ u = t
           /\ disk'[HostOf[q]]["module"][u] = call[p].fetched
    BY <1>3, <2>0, <2>1
  <2>3. \A w \in Processes : call'[w].pc = "store" => call'[w] = call[w]
    BY <1>2
  <2> QED BY <1>0, <1>1, <1>4, <2>0, <2>1, <2>2, <2>3 DEF Ordered
<1> QED BY <1>5 DEF Orders

LEMMA UndisturbedOrderStep ==
  ASSUME IInv, IInv', LocalHasNoObjects, Numbered, Undisturbed, UndisturbedOrder, [Next]_vars
  PROVE  UndisturbedOrder'
<1> SUFFICES ASSUME ~disturbed'
             PROVE  Ordering'
  BY DEF UndisturbedOrder
<1>1. ~disturbed
  BY DEF Next, vars, Select, Commit, WriteModule, WriteManifest, PutModule, PutManifest,
     PutError, WriteError, CommitError, Lookup, FindExecutor, Download, StoreDownload,
     Load, DownloadError, Restart, Clean, BeginRemoval, Stop, RemoveCommit, RemoveFiles,
     RemoveObjects, RemovalCut, Begins, BeginsFetch, Fault
<1>2. TypeOK /\ TypeOK' /\ Calm /\ Ordering /\ Orders
  BY <1>1 DEF IInv, Undisturbed, UndisturbedOrder, Ordering, Orders
<1>3. \A c \in Publications : Newest(c)'
  BY <1>2, NewestStep DEF Ordering
<1>4. ~Stop /\ ~RemovalCut
      /\ (\A c \in Publications : ~PutError(c) /\ ~WriteError(c) /\ ~CommitError(c))
      /\ (\A p \in Processes : ~DownloadError(p))
  BY DEF Stop, RemovalCut, PutError, WriteError, CommitError, DownloadError, Fault
<1>5. ASSUME NEW p \in Processes, FindExecutor(p) \/ Load(p)
      PROVE  Orders'
  <2>1. UNCHANGED <<disk, bucket, pub>>
    BY <1>5 DEF FindExecutor, Load, stores
  <2>2. /\ registry[p][call[p].tool] \in Int \ {Broken}
        /\ File(p, "module") \in Nat \cup {Broken}
    BY <1>2, PlaceTypes DEF File
  <2>3. CASE UNCHANGED <<registry, last>>
    BY <1>2, <1>5, <2>3, TakingOrder
  <2>4. CASE Runs(p, registry[p][call[p].tool]) /\ registry[p][call[p].tool] # None
    BY <1>2, <2>1, <2>2, <2>4, RunsOrder DEF Broken
  <2>5. CASE Runs(p, File(p, "module")) /\ Executable(p)
    BY <1>2, <2>1, <2>2, <2>5, RunsOrder DEF Executable
  <2> QED BY <1>5, <2>3, <2>4, <2>5 DEF FindExecutor, Load
<1>6. Orders'
  BY <1>2, <1>4, <1>5, PublicationOrder, TakingOrder, WriteModuleOrder, PutModuleOrder,
     DownloadOrder, StoreOrder
  DEF Next
<1> QED BY <1>3, <1>6 DEF Ordering, Orders

LEMMA StartsOrdered == Init => Numbered /\ UndisturbedOrder
<1> SUFFICES ASSUME Init
             PROVE  Numbered /\ UndisturbedOrder
  OBVIOUS
<1>1. /\ \A c \in Publications : pub[c].pc = "idle" /\ pub[c].version = None
      /\ \A p \in Processes : call[p].pc = "idle"
      /\ \A p \in Processes, t \in Generated : last[p][t] = None /\ registry[p][t] = None
      /\ \A t \in Tools : bucket["module"][t] = None /\ published[t] = {}
      /\ \A h \in Hosts, t \in Tools : disk[h]["module"][t] = None
      /\ generated = 0
  BY DEF Init, Loaded, Generated, NoPublication, NoCall, Kinds
<1>2. Numbered
  BY <1>1 DEF Numbered, None
<1>3. \A c \in Publications : Newest(c)
  BY <1>1 DEF Newest, InFlight
<1>4. \A p \in Processes, t \in Generated : Ordered(p, t)
  BY <1>1, ArtifactsAssumption DEF Ordered, NotOlder, Generated
<1> QED BY <1>2, <1>3, <1>4 DEF UndisturbedOrder, Ordering

\* Under the same condition no process goes back to an older version of a tool that is
\* not built in, through any number of publications, removals, restarts, cleaned
\* directories and downloads, and although nothing ever replaces a module in a platform's
\* registry or directory.
THEOREM NeverRunsOlderAlways == Spec => NeverRunsOlder
<1> DEFINE I == IInv /\ LocalHasNoObjects /\ Undisturbed /\ Numbered /\ UndisturbedOrder
<1>1. Init => Numbered /\ UndisturbedOrder
  BY StartsOrdered
<1>2. IInv /\ IInv' /\ LocalHasNoObjects /\ Undisturbed /\ Numbered /\ UndisturbedOrder
        /\ [Next]_vars => Numbered' /\ UndisturbedOrder'
  BY NumberedStep, UndisturbedOrderStep
<1>3. I /\ [Next]_vars =>
        [~disturbed' => \A p \in Processes, t \in Generated : last'[p][t] >= last[p][t]]_vars
  <2> SUFFICES ASSUME I, Next, ~disturbed', NEW p \in Processes, NEW t \in Generated
               PROVE  last'[p][t] >= last[p][t]
    BY DEF vars
  <2>1. ~disturbed
    BY DEF Next, Select, Commit, WriteModule, WriteManifest, PutModule, PutManifest,
       PutError, WriteError, CommitError, Lookup, FindExecutor, Download, StoreDownload,
       Load, DownloadError, Restart, Clean, BeginRemoval, Stop, RemoveCommit, RemoveFiles,
       RemoveObjects, RemovalCut, Begins, BeginsFetch, Fault
  <2>0. t \in Tools
    BY DEF Generated
  <2>2. Ordered(p, t) /\ last[p][t] \in Int
    BY <2>0, <2>1, PlaceTypes DEF IInv, UndisturbedOrder, Ordering
  <2>3. CASE last'[p][t] = last[p][t]
    BY <2>2, <2>3
  <2>4. ASSUME NEW q \in Processes, FindExecutor(q) \/ Load(q), last'[p][t] # last[p][t]
        PROVE  last'[p][t] >= last[p][t]
    <3>1. /\ registry[q][call[q].tool] \in Int \ {Broken} /\ call[q].tool \in Tools
          /\ File(q, "module") \in Nat \cup {Broken}
      BY PlaceTypes DEF IInv, File
    <3>2. PICK v \in Int \ {None, Broken} :
            Runs(q, v) /\ v \in {registry[q][call[q].tool], File(q, "module")}
      BY <2>4, <3>1 DEF FindExecutor, Load, Executable, Broken
    <3>3. q = p /\ call[q].tool = t /\ last'[p][t] = v
      BY <2>0, <2>4, <3>1, <3>2 DEF Runs, IInv, TypeOK
    <3>4. NotOlder(last[p][t], v)
      BY <2>2, <3>2, <3>3 DEF Ordered, File
    <3> QED BY <2>2, <3>2, <3>3, <3>4 DEF NotOlder
  <2>5. last'[p][t] # last[p][t] => \E q \in Processes : FindExecutor(q) \/ Load(q)
    BY DEF Next, Select, Commit, WriteModule, WriteManifest, PutModule, PutManifest,
       PutError, WriteError, CommitError, Lookup, Download, StoreDownload,
       DownloadError, Restart, Clean, BeginRemoval, Stop, RemoveCommit, RemoveFiles,
       RemoveObjects, RemovalCut, history
  <2> QED BY <2>3, <2>4, <2>5
<1> QED BY <1>1, <1>2, <1>3, Inductive, AlwaysUndisturbed, PTL
       DEF Spec, NeverRunsOlder, Generated
=============================================================================

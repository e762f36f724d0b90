-------------------------- MODULE ArtifactRegistry --------------------------
(***************************************************************************)
(* How a trained model reaches the services: a publisher saves the encoder *)
(* and the two files of the FAISS index (faiss_indexer.py), registers the  *)
(* bundle in the JSON manifest (model_registry.py), and a service loads    *)
(* the bundle it finds there (artifact_bundle.py).  Every file is opened   *)
(* for writing, which empties it, and filled afterwards; nothing is        *)
(* locked, renamed into place or undone, and a publisher may die between   *)
(* any two steps.  A bundle names the paths of its files, and bundles may  *)
(* share them: the usual prefix of an index is                             *)
(* model_registry/behavioral_space, for every build.  An older script may  *)
(* have left metadata under the other name load() accepts.                 *)
(***************************************************************************)
EXTENDS Integers, FiniteSets

CONSTANTS
    NVersions,  \* bound: bundles published, each by a process of its own
    Paths,      \* path prefixes
    Layouts,    \* the paths of the bundles: their encoders and their indexes
    OldPaths,   \* the paths with an old _meta.pkl of another script
    Services,   \* services that load a bundle
    MaxLoads    \* bound: loads begun by all services

Versions == 1 .. NVersions

ASSUME RegistryAssumption ==
    /\ NVersions \in Nat /\ MaxLoads \in Nat
    /\ Layouts \subseteq [Versions -> [encoder: Paths, index: Paths]]
    /\ OldPaths \subseteq Paths

Absent == 0    \* there is no such file
Empty == -1    \* the manifest is opened for writing and not filled yet
Garbled == -2  \* what two writers have left
Legacy == -3   \* metadata of an older script

\* A file publisher v has opened for writing and not filled yet.
Opened(v) == Legacy - v

Files == {"encoder", "faiss", "meta"}

Fill == [encoder |-> "fill_encoder", faiss |-> "fill_faiss", meta |-> "fill_meta"]

\* What follows a filled file: index, metadata, manifest.
After == [encoder |-> "faiss", faiss |-> "meta", meta |-> "register"]

VARIABLES
    layout,      \* the paths of every bundle
    disk,        \* per path and file: the bundle whose data it holds
    save,        \* history, per path: how its last save of an index went
    manifest,    \* what artifacts_manifest.json holds
    publisher,   \* the step each publisher is at
    seen,        \* the manifest each publisher has read
    service,     \* what each service has loaded, and the step it is at
    registered,  \* history: the bundles whose register() returned
    overlapped,  \* history: the bundles whose register() met another one
    loads        \* loads begun so far

fileVars == <<layout, disk, save>>
registryVars == <<manifest, seen, registered, overlapped>>
artifactVars == <<fileVars, registryVars, publisher, service, loads>>

\* encoder_path, or faiss_index_path for the two files of the index.
PathOf(v, f) == IF f = "encoder" THEN layout[v].encoder ELSE layout[v].index

\* A missing manifest is read as this one.
NoManifest == [versions |-> {}, latest |-> Absent]

\* A manifest file json.load rejects.
Unreadable(x) == [versions |-> {}, latest |-> x]

Readable == manifest.latest \notin {Empty, Garbled}

Down == [at |-> "down", bundle |-> Absent, encoder |-> Absent,
         index |-> Absent, meta |-> Absent, oldMeta |-> FALSE, saved |-> Absent]

ArtifactInit ==
    /\ layout \in Layouts
    /\ disk = [p \in Paths |-> [f \in Files |-> Absent]]
    /\ save = [p \in Paths |-> Absent]
    /\ manifest = NoManifest
    /\ publisher = [v \in Versions |-> "encoder"]
    /\ seen = [v \in Versions |-> NoManifest]
    /\ service = [s \in Services |-> Down]
    /\ registered = {} /\ overlapped = {}
    /\ loads = 0

-----------------------------------------------------------------------------
(* The publisher: save the three files, then register.                      *)

Step(v, from, to) ==
    publisher[v] = from /\ publisher' = [publisher EXCEPT ![v] = to]

Put(v, f, x) == disk' = [disk EXCEPT ![PathOf(v, f)][f] = x]

\* Alive and between the opening of its index and the end of its metadata.
Saving(v) == publisher[v] \in {"fill_faiss", "meta", "fill_meta"}

\* History: the save v begins at path p, and whether it is alone there.
SaveBegins(v, p) ==
    save' = [save EXCEPT ![p] =
                IF \E u \in Versions \ {v} : Saving(u) /\ layout[u].index = p
                THEN Garbled ELSE Opened(v)]

SaveEnds(v, p) == save' = [save EXCEPT ![p] = IF @ = Opened(v) THEN v ELSE @]

\* A file is opened: whatever it held is gone.
OpenFile(v) ==
    /\ \E f \in Files :
          /\ Step(v, f, Fill[f]) /\ Put(v, f, Opened(v))
          /\ IF f = "faiss" THEN SaveBegins(v, PathOf(v, f)) ELSE UNCHANGED save
    /\ UNCHANGED <<layout, registryVars, service, loads>>

\* What v leaves in file f: its own data, unless another publisher has opened
\* or filled the file meanwhile, when either's data or neither's may be there.
Filled(v, f) ==
    LET old == disk[PathOf(v, f)][f]
    IN  {v} \cup (IF old = Opened(v) THEN {} ELSE {Garbled} \cup ({old} \cap Versions))

\* ... and filled: weights, then index, then metadata, then the manifest.
FillFile(v) ==
    /\ \E f \in Files :
          /\ Step(v, Fill[f], After[f]) /\ \E x \in Filled(v, f) : Put(v, f, x)
          /\ IF f = "meta" THEN SaveEnds(v, PathOf(v, f)) ELSE UNCHANGED save
    /\ UNCHANGED <<layout, registryVars, service, loads>>

Registering(v) == publisher[v] \in {"open_manifest", "write_manifest"}

Others(v) == {u \in Versions \ {v} : Registering(u)}

\* register() reads the manifest; on one it cannot parse it raises.
ReadManifest(v) ==
    /\ Step(v, "register", IF Readable THEN "open_manifest" ELSE "failed")
    /\ seen' = [seen EXCEPT ![v] = IF Readable THEN manifest ELSE @]
    /\ overlapped' = overlapped
          \cup (IF Readable /\ Others(v) # {} THEN Others(v) \cup {v} ELSE {})
    /\ UNCHANGED <<fileVars, manifest, registered, service, loads>>

OpenManifest(v) ==
    /\ Step(v, "open_manifest", "write_manifest")
    /\ manifest' = Unreadable(Empty)
    /\ UNCHANGED <<fileVars, seen, registered, overlapped, service, loads>>

\* Mutant: the new entry replaces the dictionary of versions.
WriteManifestAlone(v) ==
    /\ Step(v, "write_manifest", "published")
    /\ manifest' = [versions |-> {v}, latest |-> v]
    /\ registered' = registered \cup {v}
    /\ UNCHANGED <<fileVars, seen, overlapped, service, loads>>

\* The manifest it has read, with the new entry.  Over what another writer has
\* put there meanwhile, the longer of the two texts shows at the end.
WriteManifest(v) ==
    LET new == [versions |-> seen[v].versions \cup {v}, latest |-> v]
    IN  /\ Step(v, "write_manifest", "published")
        /\ manifest' \in IF manifest.latest = Empty THEN {new}
                        ELSE {new, Unreadable(Garbled)}
        /\ registered' = registered \cup {v}
        /\ UNCHANGED <<fileVars, seen, overlapped, service, loads>>

PublisherDies(v) ==
    /\ publisher[v] \notin {"published", "failed"}
    /\ publisher' = [publisher EXCEPT ![v] = "failed"]
    /\ UNCHANGED <<fileVars, registryVars, service, loads>>

Publish(v) ==
    \/ OpenFile(v) \/ FillFile(v)
    \/ ReadManifest(v) \/ OpenManifest(v) \/ WriteManifest(v)
    \/ PublisherDies(v)

-----------------------------------------------------------------------------
(* A service loads a bundle: load_latest, or get_by_version and load.       *)

Set(s, x) ==
    /\ service' = [service EXCEPT ![s] = x]
    /\ UNCHANGED <<fileVars, registryVars, publisher>>

GetBundle(s) ==
    /\ service[s].at \in {"down", "up"}
    /\ loads < MaxLoads
    /\ loads' = loads + 1
    /\ Readable /\ manifest.versions # {}
    /\ \E v \in manifest.versions : Set(s, [Down EXCEPT !.at = "encoder", !.bundle = v])

\* The file of its bundle a service is about to read.
FileFor(s, f) == disk[PathOf(service[s].bundle, f)][f]

SaveFor(s) == save[layout[service[s].bundle].index]

LoadEncoder(s) ==
    /\ service[s].at = "encoder"
    /\ FileFor(s, "encoder") \in Versions
    /\ Set(s, [service[s] EXCEPT !.at = "faiss", !.encoder = FileFor(s, "encoder")])
    /\ UNCHANGED loads

OldMetadata(s) == layout[service[s].bundle].index \in OldPaths

\* Mutant: the other name is preferred.
LoadIndexOldFirst(s) ==
    /\ service[s].at = "faiss"
    /\ FileFor(s, "faiss") \in Versions
    /\ FileFor(s, "meta") # Absent \/ OldMetadata(s)
    /\ Set(s, [service[s] EXCEPT !.at = "meta", !.index = FileFor(s, "faiss"),
                                 !.oldMeta = OldMetadata(s), !.saved = SaveFor(s)])
    /\ UNCHANGED loads

\* FaissIndexer.load settles on one of two names for the metadata before it
\* reads the index.
LoadIndex(s) ==
    /\ service[s].at = "faiss"
    /\ FileFor(s, "faiss") \in Versions
    /\ FileFor(s, "meta") # Absent \/ OldMetadata(s)
    /\ Set(s, [service[s] EXCEPT !.at = "meta", !.index = FileFor(s, "faiss"),
                                 !.oldMeta = (FileFor(s, "meta") = Absent),
                                 !.saved = SaveFor(s)])
    /\ UNCHANGED loads

LoadMeta(s) ==
    LET meta  == IF service[s].oldMeta THEN Legacy ELSE FileFor(s, "meta")
        saved == service[s].saved
    IN  /\ service[s].at = "meta"
        /\ meta \in Versions \cup {Legacy}
        /\ Set(s, [service[s] EXCEPT !.at = "up", !.meta = meta,
                      !.saved = IF SaveFor(s) = saved THEN saved ELSE Garbled])
        /\ UNCHANGED loads

\* A file is missing, empty or does not fit the vocabulary: load() raises.
LoadRaises(s) ==
    /\ service[s].at \in {"encoder", "faiss", "meta"}
    /\ Set(s, Down)
    /\ UNCHANGED loads

Load(s) ==
    GetBundle(s) \/ LoadEncoder(s) \/ LoadIndex(s) \/ LoadMeta(s) \/ LoadRaises(s)

-----------------------------------------------------------------------------
(* Properties                                                               *)

\* No other bundle has its file f at the path of b's.
OwnPath(b, f) == \A u \in Versions \ {b} : PathOf(u, f) # PathOf(b, f)

\* "Version-locked", and metadata_list[i] describes vector i: index and
\* metadata a service works with are those of one save, the last one at their
\* path, if that save had the path for itself and came to its end, and none
\* began between the two reads; and what has a path of its own was saved for
\* the bundle asked for, whatever publishers do or leave behind meanwhile.
LoadedTogether ==
    \A s \in Services :
       LET x == service[s]
       IN  x.at = "up" =>
              /\ x.saved \in Versions => x.index = x.saved /\ x.meta = x.saved
              /\ OwnPath(x.bundle, "encoder") => x.encoder = x.bundle
              /\ OwnPath(x.bundle, "faiss") => x.index = x.bundle /\ x.meta = x.bundle

\* A registration is lost only to one that ran at the same time: a manifest
\* that can be read lists every bundle whose register() returned and met no
\* other, and its latest bundle is one of them or still being registered.
LostOnlyToOverlap ==
    Readable => /\ registered \ overlapped \subseteq manifest.versions
                /\ manifest.latest \in manifest.versions \cup {Absent}
                /\ registered # {} => manifest.latest \in registered

=============================================================================

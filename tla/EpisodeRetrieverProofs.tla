----------------------- MODULE EpisodeRetrieverProofs -----------------------
(***************************************************************************)
(* Theorems about EpisodeRetriever and the ArtifactRegistry it works on,   *)
(* for every number of bundles, services and searches, every assignment of *)
(* paths to bundles, every ranking, metadata and hash.                     *)
(***************************************************************************)
EXTENDS EpisodeRetriever, FoldTheorems

-----------------------------------------------------------------------------
(* The steps of the registry.                                               *)

PublisherSteps ==
    {"encoder", "fill_encoder", "faiss", "fill_faiss", "meta", "fill_meta",
     "register", "open_manifest", "write_manifest", "published", "failed"}

ServiceSteps == {"down", "encoder", "faiss", "meta", "up"}

ServiceStates ==
    [at: ServiceSteps, bundle: {Absent} \cup Versions, encoder: {Absent} \cup Versions,
     index: {Absent} \cup Versions, meta: Int, oldMeta: BOOLEAN, saved: Int]

\* What a file can hold, and how a save can have gone.
Contents == {Absent, Garbled} \cup Versions \cup {Opened(v) : v \in Versions}

RegistryTypeOK ==
    /\ layout \in Layouts
    /\ disk \in [Paths -> [Files -> Contents]]
    /\ save \in [Paths -> Contents]
    /\ manifest \in [versions: SUBSET Versions, latest: Int]
    /\ publisher \in [Versions -> PublisherSteps]
    /\ seen \in [Versions -> [versions: SUBSET Versions, latest: Int]]
    /\ service \in [Services -> ServiceStates]
    /\ \A s \in Services : service[s].at # "down" => service[s].bundle \in Versions
    /\ registered \in SUBSET Versions
    /\ overlapped \in SUBSET Versions

\* Every step of the system is a publisher's, a service's or leaves the
\* registry alone.
LEMMA RegistrySteps ==
    ASSUME [Next]_vars
    PROVE  \/ \E v \in Versions : Publish(v)
           \/ \E s \in Services : request[s] = NoRequest /\ Load(s)
           \/ UNCHANGED artifactVars
  BY DEF Next, vars, SearchHit, SearchMiss, Store, StoreRaises, BatchSearch, Expire

LEMMA VersionsAreNumbers ==
    /\ Versions \subseteq Int
    /\ Absent \notin Versions /\ Empty \notin Versions /\ Garbled \notin Versions
    /\ Legacy \notin Versions
    /\ Absent \in Int /\ Empty \in Int /\ Garbled \in Int /\ Legacy \in Int
    /\ Absent # Empty /\ Absent # Garbled
  BY RegistryAssumption DEF Versions, Absent, Empty, Garbled, Legacy

LEMMA OpenedDiffers ==
    /\ \A v \in Versions : Opened(v) \in Int \ (Versions \cup {Absent, Garbled, Legacy})
    /\ \A u, v \in Versions : Opened(u) = Opened(v) => u = v
  BY RegistryAssumption DEF Versions, Absent, Garbled, Legacy, Opened

LEMMA ContentsAreNumbers == Contents \subseteq Int
  BY VersionsAreNumbers, OpenedDiffers DEF Contents

\* The paths of a bundle.
LEMMA PathsOf ==
    ASSUME RegistryTypeOK, NEW v \in Versions
    PROVE  /\ \A f \in Files : PathOf(v, f) \in Paths
           /\ PathOf(v, "faiss") = layout[v].index /\ PathOf(v, "meta") = layout[v].index
           /\ layout[v].index \in Paths
<1>1. layout[v] \in [encoder: Paths, index: Paths]
  BY RegistryAssumption DEF RegistryTypeOK
<1>2. QED
  BY <1>1 DEF PathOf

\* The one file a step writes.
DiskPut(p, f, x) ==
    \A q \in Paths, g \in Files : disk'[q][g] = IF q = p /\ g = f THEN x ELSE disk[q][g]

LEMMA PutPuts ==
    ASSUME RegistryTypeOK, NEW v \in Versions, NEW f \in Files, NEW x \in Contents, Put(v, f, x)
    PROVE  DiskPut(PathOf(v, f), f, x) /\ disk' \in [Paths -> [Files -> Contents]]
<1>1. PathOf(v, f) \in Paths /\ disk \in [Paths -> [Files -> Contents]]
  BY PathsOf DEF RegistryTypeOK
<1> DEFINE p == PathOf(v, f)
<1>2. disk' = [disk EXCEPT ![p] = [disk[p] EXCEPT ![f] = x]]
  BY <1>1 DEF Put
<1> HIDE DEF p
<1>3. [disk[p] EXCEPT ![f] = x] \in [Files -> Contents]
  BY <1>1 DEF p
<1>4. disk' \in [Paths -> [Files -> Contents]]
  BY <1>1, <1>2, <1>3
<1>5. DiskPut(p, f, x)
  BY <1>1, <1>2 DEF DiskPut, p
<1>6. QED
  BY <1>4, <1>5 DEF p

\* A publisher opens a file.
Opens(v, f) ==
    /\ publisher[v] = f /\ publisher' = [publisher EXCEPT ![v] = Fill[f]]
    /\ DiskPut(PathOf(v, f), f, Opened(v)) /\ disk' \in [Paths -> [Files -> Contents]]
    /\ IF f = "faiss" THEN SaveBegins(v, layout[v].index) ELSE UNCHANGED save

\* ... and fills it.
Fills(v, f) ==
    /\ publisher[v] = Fill[f] /\ publisher' = [publisher EXCEPT ![v] = After[f]]
    /\ \E x \in Filled(v, f) : DiskPut(PathOf(v, f), f, x)
    /\ disk' \in [Paths -> [Files -> Contents]]
    /\ IF f = "meta" THEN SaveEnds(v, layout[v].index) ELSE UNCHANGED save

LEMMA OpenFileOpens ==
    ASSUME RegistryTypeOK, NEW v \in Versions, OpenFile(v)
    PROVE  \E f \in Files : Opens(v, f)
<1>1. PICK f \in Files :
         /\ Step(v, f, Fill[f]) /\ Put(v, f, Opened(v))
         /\ IF f = "faiss" THEN SaveBegins(v, PathOf(v, f)) ELSE UNCHANGED save
  BY Zenon DEF OpenFile
<1>2. Opened(v) \in Contents
  BY DEF Contents
<1>3. DiskPut(PathOf(v, f), f, Opened(v)) /\ disk' \in [Paths -> [Files -> Contents]]
  BY <1>1, <1>2, PutPuts
<1>4. IF f = "faiss" THEN SaveBegins(v, layout[v].index) ELSE UNCHANGED save
  BY <1>1, PathsOf, Zenon
<1>5. QED
  BY <1>1, <1>3, <1>4, Zenon DEF Opens, Step

LEMMA FilledContents ==
    ASSUME RegistryTypeOK, NEW v \in Versions, NEW f \in Files, NEW x \in Filled(v, f)
    PROVE  x \in Contents \ {Absent} /\ (disk[PathOf(v, f)][f] = Opened(v) => x = v)
<1> DEFINE old == disk[PathOf(v, f)][f]
<1>1. \/ x = v
      \/ old # Opened(v) /\ x \in {Garbled, old} /\ (x # Garbled => old \in Versions)
  <2>1. x \in {v} \cup (IF old = Opened(v) THEN {} ELSE {Garbled} \cup ({old} \cap Versions))
    BY Zenon DEF Filled
  <2> HIDE DEF old
  <2>2. CASE old = Opened(v)
    BY <2>1, <2>2
  <2>3. CASE old # Opened(v)
    <3>1. x \in {v} \cup ({Garbled} \cup ({old} \cap Versions))
      BY <2>1, <2>3, Zenon
    <3>2. QED
      BY <2>3, <3>1
  <2>4. QED
    BY <2>2, <2>3
<1> HIDE DEF old
<1>2. QED
  BY <1>1, VersionsAreNumbers DEF Contents, old

LEMMA FillFileFills ==
    ASSUME RegistryTypeOK, NEW v \in Versions, FillFile(v)
    PROVE  \E f \in Files : Fills(v, f)
<1>1. PICK f \in Files :
         /\ Step(v, Fill[f], After[f]) /\ \E x \in Filled(v, f) : Put(v, f, x)
         /\ IF f = "meta" THEN SaveEnds(v, PathOf(v, f)) ELSE UNCHANGED save
  BY Zenon DEF FillFile
<1>2. PICK x \in Filled(v, f) : Put(v, f, x)
  BY <1>1
<1>3. x \in Contents
  BY FilledContents
<1>4. DiskPut(PathOf(v, f), f, x) /\ disk' \in [Paths -> [Files -> Contents]]
  BY <1>2, <1>3, PutPuts
<1>5. IF f = "meta" THEN SaveEnds(v, layout[v].index) ELSE UNCHANGED save
  BY <1>1, PathsOf, Zenon
<1>6. QED
  BY <1>1, <1>4, <1>5, Zenon DEF Fills, Step

LEMMA SaveType ==
    ASSUME RegistryTypeOK, NEW v \in Versions, NEW p \in Paths, SaveBegins(v, p) \/ SaveEnds(v, p)
    PROVE  save' \in [Paths -> Contents]
<1>1. Garbled \in Contents /\ Opened(v) \in Contents /\ v \in Contents
  BY DEF Contents
<1>2. QED
  BY <1>1 DEF SaveBegins, SaveEnds, RegistryTypeOK

\* The steps that write no file.
LEMMA OtherPublishSteps ==
    ASSUME RegistryTypeOK, NEW v \in Versions,
           ReadManifest(v) \/ OpenManifest(v) \/ WriteManifest(v) \/ PublisherDies(v)
    PROVE  /\ UNCHANGED fileVars
           /\ \A u \in Versions \ {v} : publisher'[u] = publisher[u]
           /\ \/ publisher[v] = "register" /\ publisher'[v] \in {"open_manifest", "failed"}
              \/ publisher[v] = "open_manifest" /\ publisher'[v] = "write_manifest"
              \/ publisher[v] = "write_manifest" /\ publisher'[v] = "published"
              \/ publisher[v] # "published" /\ publisher'[v] = "failed"
  BY DEF ReadManifest, OpenManifest, WriteManifest, PublisherDies, Step, RegistryTypeOK

LEMMA PublishType ==
    ASSUME RegistryTypeOK, NEW v \in Versions, Publish(v)
    PROVE  RegistryTypeOK'
<1> USE VersionsAreNumbers
<1>1. CASE OpenFile(v)
  <2>1. PICK f \in Files : Opens(v, f)
    BY <1>1, OpenFileOpens
  <2>2. disk' \in [Paths -> [Files -> Contents]] /\ save' \in [Paths -> Contents]
    BY <2>1, SaveType, PathsOf DEF Opens, RegistryTypeOK
  <2>3. publisher' \in [Versions -> PublisherSteps]
    BY <2>1 DEF Opens, Files, Fill, PublisherSteps, RegistryTypeOK
  <2>4. QED
    BY <1>1, <2>2, <2>3 DEF OpenFile, RegistryTypeOK, registryVars
<1>2. CASE FillFile(v)
  <2>1. PICK f \in Files : Fills(v, f)
    BY <1>2, FillFileFills
  <2>2. disk' \in [Paths -> [Files -> Contents]] /\ save' \in [Paths -> Contents]
    BY <2>1, SaveType, PathsOf DEF Fills, RegistryTypeOK
  <2>3. publisher' \in [Versions -> PublisherSteps]
    BY <2>1 DEF Fills, Files, After, PublisherSteps, RegistryTypeOK
  <2>4. QED
    BY <1>2, <2>2, <2>3 DEF FillFile, RegistryTypeOK, registryVars
<1>3. CASE ReadManifest(v)
  <2>1. Others(v) \in SUBSET Versions
    BY DEF Others
  <2>2. overlapped' \in SUBSET Versions
    BY <1>3, <2>1 DEF ReadManifest, RegistryTypeOK
  <2>3. seen' \in [Versions -> [versions: SUBSET Versions, latest: Int]]
    BY <1>3 DEF ReadManifest, RegistryTypeOK
  <2>4. QED
    BY <1>3, <2>2, <2>3 DEF ReadManifest, Step, RegistryTypeOK, PublisherSteps, fileVars
<1>4. CASE OpenManifest(v)
  BY <1>4 DEF OpenManifest, Step, Unreadable, RegistryTypeOK, PublisherSteps, fileVars
<1>5. CASE WriteManifest(v)
  <2>1. seen[v].versions \cup {v} \in SUBSET Versions
    BY DEF RegistryTypeOK
  <2>2. manifest' \in [versions: SUBSET Versions, latest: Int]
    BY <1>5, <2>1 DEF WriteManifest, Unreadable
  <2>3. QED
    BY <1>5, <2>2 DEF WriteManifest, Step, RegistryTypeOK, PublisherSteps, fileVars
<1>6. CASE PublisherDies(v)
  BY <1>6 DEF PublisherDies, RegistryTypeOK, registryVars, PublisherSteps, fileVars
<1>7. QED
  BY <1>1, <1>2, <1>3, <1>4, <1>5, <1>6 DEF Publish

\* The steps of a load, each as the record it leaves.
LoadStep(s, new) ==
    LET x == service[s]
    IN  \/ \E v \in manifest.versions : new = [Down EXCEPT !.at = "encoder", !.bundle = v]
        \/ /\ x.at = "encoder" /\ FileFor(s, "encoder") \in Versions
           /\ new = [x EXCEPT !.at = "faiss", !.encoder = FileFor(s, "encoder")]
        \/ /\ x.at = "faiss" /\ FileFor(s, "faiss") \in Versions
           /\ \E old \in BOOLEAN :
                 /\ old <=> FileFor(s, "meta") = Absent
                 /\ new = [x EXCEPT !.at = "meta", !.index = FileFor(s, "faiss"),
                                    !.oldMeta = old, !.saved = SaveFor(s)]
        \/ /\ x.at = "meta"
           /\ \E m \in Versions \cup {Legacy}, saved \in {x.saved, Garbled} :
                 /\ m = IF x.oldMeta THEN Legacy ELSE FileFor(s, "meta")
                 /\ saved = x.saved => SaveFor(s) = saved \/ saved = Garbled
                 /\ new = [x EXCEPT !.at = "up", !.meta = m, !.saved = saved]
        \/ new = Down

LEMMA LoadSteps ==
    ASSUME RegistryTypeOK, NEW s \in Services, Load(s)
    PROVE  /\ LoadStep(s, service'[s])
           /\ service' = [service EXCEPT ![s] = service'[s]]
           /\ UNCHANGED <<fileVars, registryVars, publisher>>
<1> DEFINE new == service'[s]
<1>1. /\ service' = [service EXCEPT ![s] = new]
      /\ UNCHANGED <<fileVars, registryVars, publisher>>
  BY DEF Load, GetBundle, LoadEncoder, LoadIndex, LoadMeta, LoadRaises, Set, RegistryTypeOK
<1>2. \A x : Set(s, x) => new = x
  BY DEF Set, RegistryTypeOK
<1> HIDE DEF new
<1>3. LoadStep(s, new)
  <2>1. CASE GetBundle(s)
    BY <1>2, <2>1, Zenon DEF GetBundle, LoadStep
  <2>2. CASE LoadEncoder(s)
    BY <1>2, <2>2, Zenon DEF LoadEncoder, LoadStep
  <2>3. CASE LoadIndex(s)
    <3> DEFINE old == FileFor(s, "meta") = Absent
    <3>1. old \in BOOLEAN /\ (old <=> FileFor(s, "meta") = Absent)
      OBVIOUS
    <3>2. new = [service[s] EXCEPT !.at = "meta", !.index = FileFor(s, "faiss"),
                                   !.oldMeta = old, !.saved = SaveFor(s)]
      BY <1>2, <2>3, Zenon DEF LoadIndex
    <3>3. service[s].at = "faiss" /\ FileFor(s, "faiss") \in Versions
      BY <2>3, Zenon DEF LoadIndex
    <3> HIDE DEF old
    <3>4. QED
      BY <3>1, <3>2, <3>3, Zenon DEF LoadStep
  <2>4. CASE LoadMeta(s)
    <3> DEFINE m == IF service[s].oldMeta THEN Legacy ELSE FileFor(s, "meta")
               saved == IF SaveFor(s) = service[s].saved THEN service[s].saved ELSE Garbled
    <3>1. service[s].at = "meta" /\ m \in Versions \cup {Legacy}
      BY <2>4, Zenon DEF LoadMeta
    <3>2. saved \in {service[s].saved, Garbled}
          /\ (saved = service[s].saved => SaveFor(s) = saved \/ saved = Garbled)
      OBVIOUS
    <3>3. new = [service[s] EXCEPT !.at = "up", !.meta = m, !.saved = saved]
      BY <1>2, <2>4, Zenon DEF LoadMeta
    <3>4. m = IF service[s].oldMeta THEN Legacy ELSE FileFor(s, "meta")
      OBVIOUS
    <3> HIDE DEF m, saved
    <3>5. QED
      BY <3>1, <3>2, <3>3, <3>4, Zenon DEF LoadStep
  <2>5. CASE LoadRaises(s)
    BY <1>2, <2>5, Zenon DEF LoadRaises, LoadStep
  <2>6. QED
    BY <2>1, <2>2, <2>3, <2>4, <2>5 DEF Load
<1>4. QED
  BY <1>1, <1>3 DEF new

LEMMA LoadType ==
    ASSUME RegistryTypeOK, NEW s \in Services, Load(s)
    PROVE  RegistryTypeOK'
<1> DEFINE new == service'[s]
           x == service[s]
           b == x.bundle
<1> USE VersionsAreNumbers
<1>1. /\ service' = [service EXCEPT ![s] = new]
      /\ UNCHANGED <<fileVars, registryVars, publisher>>
      /\ LoadStep(s, new)
  BY LoadSteps
<1>2. x \in ServiceStates /\ (x.at # "down" => b \in Versions)
  BY DEF RegistryTypeOK
<1>3. x.at # "down" => SaveFor(s) \in Int
  <2> SUFFICES ASSUME x.at # "down"
               PROVE  SaveFor(s) \in Int
    OBVIOUS
  <2>1. layout[b].index \in Paths
    BY <1>2, PathsOf
  <2> HIDE DEF b
  <2>2. save[layout[b].index] \in Contents
    BY <2>1 DEF RegistryTypeOK
  <2>3. QED
    BY <2>2, ContentsAreNumbers DEF SaveFor, b
<1> HIDE DEF new
<1>4. new \in ServiceStates /\ (new.at # "down" => new.bundle \in Versions)
  <2>1. ASSUME NEW v \in manifest.versions, new = [Down EXCEPT !.at = "encoder", !.bundle = v]
        PROVE  new \in ServiceStates /\ new.bundle \in Versions
    <3>1. v \in Versions
      BY DEF RegistryTypeOK
    <3>2. QED
      BY <2>1, <3>1 DEF Down, ServiceStates, ServiceSteps
  <2>2. ASSUME NEW e \in Versions, x.at # "down", new = [x EXCEPT !.at = "faiss", !.encoder = e]
        PROVE  new \in ServiceStates /\ new.bundle \in Versions
    BY <1>2, <2>2 DEF ServiceStates, ServiceSteps
  <2>3. ASSUME NEW i \in Versions, NEW o \in BOOLEAN, NEW w \in Int, x.at # "down",
               new = [x EXCEPT !.at = "meta", !.index = i, !.oldMeta = o, !.saved = w]
        PROVE  new \in ServiceStates /\ new.bundle \in Versions
    BY <1>2, <2>3 DEF ServiceStates, ServiceSteps
  <2>4. ASSUME NEW m \in Versions \cup {Legacy}, NEW w \in {x.saved, Garbled}, x.at # "down",
               new = [x EXCEPT !.at = "up", !.meta = m, !.saved = w]
        PROVE  new \in ServiceStates /\ new.bundle \in Versions
    <3>1. m \in Int /\ w \in Int
      BY <1>2 DEF ServiceStates
    <3>2. QED
      BY <1>2, <2>4, <3>1 DEF ServiceStates, ServiceSteps
  <2>5. ASSUME new = Down
        PROVE  new \in ServiceStates /\ new.at = "down"
    BY <2>5 DEF Down, ServiceStates, ServiceSteps
  <2>6. QED
    BY <1>1, <1>3, <2>1, <2>2, <2>3, <2>4, <2>5, Zenon DEF LoadStep
<1>5. service' \in [Services -> ServiceStates]
      /\ \A t \in Services : service'[t].at # "down" => service'[t].bundle \in Versions
  BY <1>1, <1>4 DEF RegistryTypeOK
<1>6. QED
  BY <1>1, <1>5 DEF RegistryTypeOK, registryVars, fileVars

LEMMA InitRegistryType == Init => RegistryTypeOK
<1> SUFFICES ASSUME Init
             PROVE  RegistryTypeOK
  OBVIOUS
<1>1. Down \in ServiceStates /\ NoManifest \in [versions: SUBSET Versions, latest: Int]
  BY VersionsAreNumbers DEF Down, NoManifest, ServiceStates, ServiceSteps
<1>2. Absent \in Contents
  BY DEF Contents
<1>3. QED
  BY <1>1, <1>2 DEF Init, ArtifactInit, RegistryTypeOK, PublisherSteps, Down, Files

\* Types of the registry, the publishers and the services.
THEOREM RegistryTypes == Spec => []RegistryTypeOK
<1>1. RegistryTypeOK /\ [Next]_vars => RegistryTypeOK'
  <2>1. ASSUME RegistryTypeOK, UNCHANGED artifactVars
        PROVE  RegistryTypeOK'
    BY <2>1 DEF artifactVars, registryVars, fileVars, RegistryTypeOK
  <2>2. QED
    BY <2>1, RegistrySteps, PublishType, LoadType
<1>2. QED
  BY <1>1, InitRegistryType, PTL DEF Spec

-----------------------------------------------------------------------------
(* What a service works with was saved together.                            *)

\* The publisher's steps once it has filled all its files, and one of them.
Registers == {"register", "open_manifest", "write_manifest", "published"}

Past == [encoder |-> {"faiss", "fill_faiss", "meta", "fill_meta"} \cup Registers,
         faiss |-> {"meta", "fill_meta"} \cup Registers,
         meta |-> Registers]

\* A file at a path of its own holds what its publisher has put there.
OwnFile(v, f) ==
    OwnPath(v, f) =>
       /\ disk[PathOf(v, f)][f] \in {Absent, Opened(v), v}
       /\ publisher[v] = Fill[f] => disk[PathOf(v, f)][f] = Opened(v)
       /\ publisher[v] \in Past[f] => disk[PathOf(v, f)][f] = v

\* Metadata is never missing once a publisher has opened it.
HasMetadata(v) ==
    publisher[v] \in Registers \cup {"fill_meta"} => disk[PathOf(v, "meta")]["meta"] # Absent

\* Nobody but w is saving an index at p.
SavesAlone(w, p) == \A u \in Versions : Saving(u) /\ layout[u].index = p => u = w

\* The last save at p, while w is at it alone ...
SaveGoesOn(w, p) ==
    /\ layout[w].index = p /\ SavesAlone(w, p)
    /\ publisher[w] = "fill_faiss" => disk[p]["faiss"] = Opened(w)
    /\ publisher[w] \in {"meta", "fill_meta"} => disk[p]["faiss"] = w
    /\ publisher[w] = "fill_meta" => disk[p]["meta"] = Opened(w)

\* ... and when it has come to its end.
SaveOK(p) ==
    /\ \A w \in Versions : save[p] = Opened(w) => SaveGoesOn(w, p)
    /\ save[p] \in Versions =>
          /\ disk[p]["faiss"] = save[p] /\ disk[p]["meta"] = save[p]
          /\ \A u \in Versions : ~(Saving(u) /\ layout[u].index = p)

Published(v) == v \in Versions /\ publisher[v] = "published"

\* A bundle anybody has read of is published.  What has been loaded at a path
\* of its own is the bundle's, and what has been loaded of a save that went
\* well is of that save.
LoadedSoFar(s) ==
    LET x == service[s]
        b == x.bundle
    IN  /\ x.at # "down" => Published(b)
        /\ x.at \in {"faiss", "meta", "up"} => (OwnPath(b, "encoder") => x.encoder = b)
        /\ x.at \in {"meta", "up"} =>
              /\ x.index \in Versions /\ ~x.oldMeta
              /\ OwnPath(b, "faiss") => x.index = b
              /\ x.saved \in Versions => x.index = x.saved
        /\ x.at = "up" =>
              /\ x.meta \in Versions
              /\ OwnPath(b, "faiss") => x.meta = b
              /\ x.saved \in Versions => x.meta = x.saved

Coherent ==
    /\ \A v \in Versions : HasMetadata(v) /\ \A f \in Files : OwnFile(v, f)
    /\ \A p \in Paths : SaveOK(p)
    /\ \A v \in manifest.versions : Published(v)
    /\ \A u \in Versions : \A v \in seen[u].versions : Published(v)
    /\ \A s \in Services : LoadedSoFar(s)

\* A publisher's steps, in their order.
LEMMA StepOrder ==
    /\ \A f \in Files : Fill[f] \notin Past[f] /\ After[f] # Fill[f] /\ f # Fill[f]
    /\ \A f, g \in Files : g # f =>
          /\ Fill[g] # Fill[f] /\ After[g] # Fill[f]
          /\ Fill[g] \in Past[f] => g \in Past[f]
          /\ After[g] \in Past[f] => Fill[g] \in Past[f]
  BY DEF Files, Fill, After, Past, Registers

\* What every step of a publisher comes to.
LEMMA PublishSteps ==
    ASSUME RegistryTypeOK, NEW u \in Versions, Publish(u)
    PROVE  /\ layout' = layout /\ service' = service
           /\ \A v \in Versions \ {u} : publisher'[v] = publisher[v]
           /\ \/ \E g \in Files : Opens(u, g) /\ publisher'[u] = Fill[g]
              \/ \E g \in Files : Fills(u, g) /\ publisher'[u] = After[g]
              \/ /\ UNCHANGED <<disk, save>>
                 /\ \/ publisher[u] \in Registers /\ publisher'[u] \in Registers
                    \/ publisher'[u] = "failed"
<1>1. layout' = layout /\ service' = service
  BY DEF Publish, OpenFile, FillFile, ReadManifest, OpenManifest, WriteManifest, PublisherDies,
     fileVars
<1>2. CASE OpenFile(u)
  <2>1. PICK g \in Files : Opens(u, g)
    BY <1>2, OpenFileOpens
  <2>2. publisher' = [publisher EXCEPT ![u] = Fill[g]]
    BY <2>1 DEF Opens
  <2>3. publisher'[u] = Fill[g] /\ \A v \in Versions \ {u} : publisher'[v] = publisher[v]
    BY <2>2 DEF RegistryTypeOK
  <2>4. QED
    BY <1>1, <2>1, <2>3
<1>3. CASE FillFile(u)
  <2>1. PICK g \in Files : Fills(u, g)
    BY <1>3, FillFileFills
  <2>2. publisher' = [publisher EXCEPT ![u] = After[g]]
    BY <2>1 DEF Fills
  <2>3. publisher'[u] = After[g] /\ \A v \in Versions \ {u} : publisher'[v] = publisher[v]
    BY <2>2 DEF RegistryTypeOK
  <2>4. QED
    BY <1>1, <2>1, <2>3
<1>4. CASE ReadManifest(u) \/ OpenManifest(u) \/ WriteManifest(u) \/ PublisherDies(u)
  BY <1>1, <1>4, OtherPublishSteps DEF Registers, fileVars
<1>5. QED
  BY <1>2, <1>3, <1>4 DEF Publish

\* Only its publisher touches a file at a path of its own.
LEMMA OwnFileStays ==
    ASSUME RegistryTypeOK, NEW v \in Versions, NEW f \in Files, OwnFile(v, f),
           NEW u \in Versions, Publish(u)
    PROVE  OwnFile(v, f)'
<1> DEFINE p == PathOf(v, f)
<1>1. p' = p /\ p \in Paths /\ (OwnPath(v, f)' <=> OwnPath(v, f))
  BY PublishSteps, PathsOf DEF PathOf, OwnPath
<1> SUFFICES ASSUME OwnPath(v, f)
             PROVE  /\ disk'[p][f] \in {Absent, Opened(v), v}
                    /\ publisher'[v] = Fill[f] => disk'[p][f] = Opened(v)
                    /\ publisher'[v] \in Past[f] => disk'[p][f] = v
  BY <1>1, Zenon DEF OwnFile
<1>2. /\ disk[p][f] \in {Absent, Opened(v), v}
      /\ publisher[v] = Fill[f] => disk[p][f] = Opened(v)
      /\ publisher[v] \in Past[f] => disk[p][f] = v
  BY DEF OwnFile
<1>3. \A g \in Files : u # v /\ g = f => PathOf(u, g) # p
  BY DEF OwnPath
<1> HIDE DEF p
<1>4. CASE \E g \in Files : Opens(u, g) /\ publisher'[u] = Fill[g]
  <2>1. PICK g \in Files : Opens(u, g) /\ publisher'[u] = Fill[g]
    BY <1>4
  <2>2. disk'[p][f] = IF p = PathOf(u, g) /\ f = g THEN Opened(u) ELSE disk[p][f]
    BY <1>1, <2>1 DEF Opens, DiskPut
  <2>3. publisher[u] = g
    BY <2>1 DEF Opens
  <2>4. CASE u = v /\ g = f
    BY <2>1, <2>2, <2>4, StepOrder DEF p
  <2>5. CASE u = v /\ g # f
    BY <1>2, <2>1, <2>2, <2>3, <2>5, StepOrder
  <2>6. CASE u # v
    <3>1. disk'[p][f] = disk[p][f] /\ publisher'[v] = publisher[v]
      BY <1>3, <2>2, <2>6, PublishSteps
    <3>2. QED
      BY <1>2, <3>1
  <2>7. QED
    BY <2>4, <2>5, <2>6
<1>5. CASE \E g \in Files : Fills(u, g) /\ publisher'[u] = After[g]
  <2>1. PICK g \in Files : Fills(u, g) /\ publisher'[u] = After[g]
    BY <1>5
  <2>2. PICK x \in Filled(u, g) : DiskPut(PathOf(u, g), g, x)
    BY <2>1 DEF Fills
  <2>3. disk'[p][f] = IF p = PathOf(u, g) /\ f = g THEN x ELSE disk[p][f]
    BY <1>1, <2>2 DEF DiskPut
  <2>4. publisher[u] = Fill[g] /\ (disk[PathOf(u, g)][g] = Opened(u) => x = u)
    BY <2>1, FilledContents DEF Fills
  <2>5. CASE u = v /\ g = f
    BY <1>2, <2>1, <2>3, <2>4, <2>5, StepOrder DEF p
  <2>6. CASE u = v /\ g # f
    BY <1>2, <2>1, <2>3, <2>4, <2>6, StepOrder
  <2>7. CASE u # v
    <3>1. disk'[p][f] = disk[p][f] /\ publisher'[v] = publisher[v]
      BY <1>3, <2>3, <2>7, PublishSteps
    <3>2. QED
      BY <1>2, <3>1
  <2>8. QED
    BY <2>5, <2>6, <2>7
<1>6. CASE /\ UNCHANGED <<disk, save>>
           /\ \/ publisher[u] \in Registers /\ publisher'[u] \in Registers
              \/ publisher'[u] = "failed"
  <2>1. CASE u # v
    BY <1>2, <1>6, <2>1, PublishSteps
  <2>2. CASE u = v
    <3>1. publisher[u] \in Registers => publisher[u] \in Past[f]
      BY DEF Past, Files
    <3>2. publisher'[u] # Fill[f] /\ (publisher'[u] = "failed" => publisher'[u] \notin Past[f])
      BY <1>6 DEF Fill, Past, Registers, Files
    <3>3. QED
      BY <1>2, <1>6, <2>2, <3>1, <3>2
  <2>3. QED
    BY <2>1, <2>2
<1>7. QED
  BY <1>4, <1>5, <1>6, PublishSteps

LEMMA MetadataStays ==
    ASSUME RegistryTypeOK, NEW v \in Versions, HasMetadata(v), NEW u \in Versions, Publish(u)
    PROVE  HasMetadata(v)'
<1> DEFINE p == PathOf(v, "meta")
           Has(d) == d[p]["meta"] # Absent
<1>1. p' = p /\ p \in Paths /\ "meta" \in Files
  BY PublishSteps, PathsOf DEF PathOf, Files
<1> SUFFICES ASSUME publisher'[v] \in Registers \cup {"fill_meta"}
             PROVE  Has(disk')
  BY <1>1 DEF HasMetadata
<1>2. publisher[v] \in Registers \cup {"fill_meta"} => Has(disk)
  BY DEF HasMetadata
<1> HIDE DEF p
<1>3. CASE \E g \in Files : Opens(u, g) /\ publisher'[u] = Fill[g]
  <2>1. PICK g \in Files : Opens(u, g) /\ publisher'[u] = Fill[g]
    BY <1>3
  <2>2. disk'[p]["meta"] = IF p = PathOf(u, g) /\ "meta" = g THEN Opened(u) ELSE disk[p]["meta"]
    BY <1>1, <2>1 DEF Opens, DiskPut
  <2>3. Has(disk) => Has(disk')
    BY <2>2, OpenedDiffers
  <2>4. CASE u = v
    <3>1. g = "meta"
      BY <2>1, <2>4 DEF Fill, Files, Registers
    <3>2. QED
      BY <2>2, <2>4, <3>1, OpenedDiffers DEF p
  <2>5. CASE u # v
    BY <1>2, <2>3, <2>5, PublishSteps
  <2>6. QED
    BY <2>4, <2>5
<1>4. CASE \E g \in Files : Fills(u, g) /\ publisher'[u] = After[g]
  <2>1. PICK g \in Files : Fills(u, g) /\ publisher'[u] = After[g]
    BY <1>4
  <2>2. PICK x \in Filled(u, g) : DiskPut(PathOf(u, g), g, x)
    BY <2>1 DEF Fills
  <2>3. disk'[p]["meta"] = IF p = PathOf(u, g) /\ "meta" = g THEN x ELSE disk[p]["meta"]
    BY <1>1, <2>2 DEF DiskPut
  <2>4. Has(disk) => Has(disk')
    BY <2>3, FilledContents
  <2>5. CASE u = v
    <3>1. g = "meta"
      BY <2>1, <2>5 DEF After, Files, Registers
    <3>2. publisher[v] = "fill_meta"
      BY <2>1, <2>5, <3>1 DEF Fills, Fill
    <3>3. QED
      BY <1>2, <2>4, <3>2
  <2>6. CASE u # v
    BY <1>2, <2>4, <2>6, PublishSteps
  <2>7. QED
    BY <2>5, <2>6
<1>5. CASE /\ UNCHANGED <<disk, save>>
           /\ \/ publisher[u] \in Registers /\ publisher'[u] \in Registers
              \/ publisher'[u] = "failed"
  BY <1>2, <1>5, PublishSteps DEF Registers
<1>6. QED
  BY <1>3, <1>4, <1>5, PublishSteps

\* Who is saving where, after a step.
LEMMA SavingSteps ==
    ASSUME RegistryTypeOK, NEW u \in Versions, Publish(u)
    PROVE  /\ \A v \in Versions \ {u} : Saving(v)' <=> Saving(v)
           /\ \A g \in Files : Opens(u, g) /\ publisher'[u] = Fill[g] =>
                 /\ Saving(u)' <=> g \in {"faiss", "meta"}
                 /\ Saving(u) <=> g = "meta"
           /\ \A g \in Files : Fills(u, g) /\ publisher'[u] = After[g] =>
                 /\ Saving(u)' <=> g = "faiss"
                 /\ Saving(u) <=> g \in {"faiss", "meta"}
<1>1. \A v \in Versions \ {u} : Saving(v)' <=> Saving(v)
  BY PublishSteps DEF Saving
<1>2. \A g \in Files : Opens(u, g) => publisher[u] = g
  BY DEF Opens
<1>3. \A g \in Files : Fills(u, g) => publisher[u] = Fill[g]
  BY DEF Fills
<1>4. QED
  BY <1>1, <1>2, <1>3 DEF Saving, Files, Fill, After

LEMMA SaveStays ==
    ASSUME RegistryTypeOK, NEW p \in Paths, SaveOK(p), NEW u \in Versions, Publish(u)
    PROVE  SaveOK(p)'
<1> USE OpenedDiffers, VersionsAreNumbers
<1> DEFINE here == layout[u].index = p
<1>1. layout' = layout
  BY PublishSteps
<1>2. \A v \in Versions \ {u} : publisher'[v] = publisher[v] /\ (Saving(v)' <=> Saving(v))
  BY PublishSteps, SavingSteps
<1>3. "faiss" \in Files /\ "meta" \in Files
  BY DEF Files
\* The file and the save of a path nobody has touched, and nobody has come to.
<1>4. ASSUME disk'[p]["faiss"] = disk[p]["faiss"], disk'[p]["meta"] = disk[p]["meta"],
             save'[p] = save[p], here /\ Saving(u)' => Saving(u),
             here /\ Saving(u)' => publisher'[u] = publisher[u]
      PROVE  SaveOK(p)'
  <2>1. \A v \in Versions : layout[v].index = p /\ Saving(v)' => Saving(v)
    BY <1>2, <1>4
  <2>2. ASSUME NEW w \in Versions, save[p] = Opened(w)
        PROVE  SaveGoesOn(w, p)'
    <3>1. SaveGoesOn(w, p)
      BY <2>2 DEF SaveOK
    <3>2. SavesAlone(w, p)'
      BY <1>1, <2>1, <3>1 DEF SavesAlone, SaveGoesOn
    <3>3. Saving(w)' => publisher'[w] = publisher[w]
      BY <1>2, <1>4, <3>1 DEF SaveGoesOn
    <3>4. QED
      BY <1>1, <1>4, <3>1, <3>2, <3>3 DEF SaveGoesOn, Saving
  <2>3. QED
    BY <1>1, <1>4, <2>1, <2>2 DEF SaveOK
<1>5. CASE \E g \in Files : Opens(u, g) /\ publisher'[u] = Fill[g]
  <2>1. PICK g \in Files : Opens(u, g) /\ publisher'[u] = Fill[g]
    BY <1>5
  <2>2. /\ publisher[u] = g
        /\ \A f \in {"faiss", "meta"} :
              disk'[p][f] = IF p = PathOf(u, g) /\ f = g THEN Opened(u) ELSE disk[p][f]
    BY <1>3, <2>1 DEF Opens, DiskPut
  <2>3. /\ Saving(u)' <=> g \in {"faiss", "meta"}
        /\ Saving(u) <=> g = "meta"
    BY <2>1, SavingSteps
  <2>4. g \in {"faiss", "meta"} => PathOf(u, g) = layout[u].index
    BY PathsOf
  <2>5. g # "faiss" => save' = save
    BY <2>1 DEF Opens
  <2>6. CASE g = "encoder" \/ ~here
    <3>1. save'[p] = save[p]
      <4>1. g = "faiss" => SaveBegins(u, layout[u].index)
        BY <2>1 DEF Opens
      <4>2. QED
        BY <2>5, <2>6, <4>1 DEF SaveBegins, RegistryTypeOK
    <3>2. QED
      BY <1>4, <2>2, <2>3, <2>4, <2>6, <3>1
  <2>7. CASE g = "faiss" /\ here
    <3>1. SaveBegins(u, p)
      BY <2>1, <2>7 DEF Opens
    <3>2. save'[p] = IF \E v \in Versions \ {u} : Saving(v) /\ layout[v].index = p
                     THEN Garbled ELSE Opened(u)
      BY <3>1 DEF SaveBegins, RegistryTypeOK
    <3>3. ASSUME NEW w \in Versions, save'[p] = Opened(w)
          PROVE  SaveGoesOn(w, p)'
      <4>1. w = u /\ \A v \in Versions \ {u} : ~(Saving(v) /\ layout[v].index = p)
        BY <3>2, <3>3
      <4>2. SavesAlone(w, p)'
        BY <1>1, <1>2, <4>1 DEF SavesAlone
      <4>3. publisher'[u] = "fill_faiss" /\ disk'[p]["faiss"] = Opened(u)
        BY <2>1, <2>2, <2>4, <2>7 DEF Fill
      <4>4. QED
        BY <1>1, <2>7, <4>1, <4>2, <4>3 DEF SaveGoesOn
    <3>4. save'[p] \notin Versions
      BY <3>2
    <3>5. QED
      BY <3>3, <3>4 DEF SaveOK
  <2>8. CASE g = "meta" /\ here
    <3>1. Saving(u) /\ save'[p] = save[p] /\ publisher'[u] = "fill_meta"
      BY <2>1, <2>3, <2>5, <2>8 DEF Fill
    <3>2. save[p] \notin Versions
      BY <2>8, <3>1 DEF SaveOK
    <3>3. ASSUME NEW w \in Versions, save[p] = Opened(w)
          PROVE  SaveGoesOn(w, p)'
      <4>1. SaveGoesOn(w, p)
        BY <3>3 DEF SaveOK
      <4>2. w = u
        BY <2>8, <3>1, <4>1 DEF SaveGoesOn, SavesAlone
      <4>3. SavesAlone(w, p)'
        BY <1>1, <1>2, <4>1, <4>2 DEF SavesAlone, SaveGoesOn
      <4>4. disk'[p]["faiss"] = u /\ disk'[p]["meta"] = Opened(u)
        BY <2>2, <2>4, <2>8, <4>1, <4>2 DEF SaveGoesOn
      <4>5. QED
        BY <1>1, <2>8, <3>1, <4>2, <4>3, <4>4 DEF SaveGoesOn
    <3>4. QED
      BY <3>1, <3>2, <3>3 DEF SaveOK
  <2>9. QED
    BY <2>6, <2>7, <2>8 DEF Files
<1>6. CASE \E g \in Files : Fills(u, g) /\ publisher'[u] = After[g]
  <2>1. PICK g \in Files : Fills(u, g) /\ publisher'[u] = After[g]
    BY <1>6
  <2>2. PICK x \in Filled(u, g) : DiskPut(PathOf(u, g), g, x)
    BY <2>1 DEF Fills
  <2>3. /\ publisher[u] = Fill[g]
        /\ \A f \in {"faiss", "meta"} :
              disk'[p][f] = IF p = PathOf(u, g) /\ f = g THEN x ELSE disk[p][f]
    BY <1>3, <2>1, <2>2 DEF Fills, DiskPut
  <2>4. disk[PathOf(u, g)][g] = Opened(u) => x = u
    BY FilledContents
  <2>5. /\ Saving(u)' <=> g = "faiss"
        /\ Saving(u) <=> g \in {"faiss", "meta"}
    BY <2>1, SavingSteps
  <2>6. g \in {"faiss", "meta"} => PathOf(u, g) = layout[u].index
    BY PathsOf
  <2>7. g # "meta" => save' = save
    BY <2>1 DEF Fills
  <2>8. CASE g = "encoder" \/ ~here
    <3>1. save'[p] = save[p]
      <4>1. g = "meta" => SaveEnds(u, layout[u].index)
        BY <2>1 DEF Fills
      <4>2. QED
        BY <2>7, <2>8, <4>1 DEF SaveEnds, RegistryTypeOK
    <3>2. QED
      BY <1>4, <2>3, <2>5, <2>6, <2>8, <3>1
  <2>9. CASE g \in {"faiss", "meta"} /\ here
    <3>1. Saving(u) /\ save[p] \notin Versions
      BY <2>5, <2>9 DEF SaveOK
    <3>2. ASSUME NEW w \in Versions, save[p] = Opened(w)
          PROVE  w = u /\ SaveGoesOn(u, p)
      BY <2>9, <3>1, <3>2 DEF SaveOK, SaveGoesOn, SavesAlone
    <3>3. CASE g = "faiss"
      <4>1. save'[p] = save[p] /\ publisher'[u] = "meta"
        BY <2>1, <2>7, <3>3 DEF After
      <4>2. ASSUME NEW w \in Versions, save[p] = Opened(w)
            PROVE  SaveGoesOn(w, p)'
        <5>1. w = u /\ SaveGoesOn(u, p)
          BY <3>2, <4>2
        <5>2. SavesAlone(u, p)'
          BY <1>1, <1>2, <5>1 DEF SavesAlone, SaveGoesOn
        <5>3. disk'[p]["faiss"] = u
          BY <2>3, <2>4, <2>6, <2>9, <3>3, <5>1 DEF SaveGoesOn, Fill
        <5>4. QED
          BY <1>1, <2>9, <4>1, <5>1, <5>2, <5>3 DEF SaveGoesOn
      <4>3. QED
        BY <3>1, <4>1, <4>2 DEF SaveOK
    <3>4. CASE g = "meta"
      <4>1. save'[p] = IF save[p] = Opened(u) THEN u ELSE save[p]
        <5>1. SaveEnds(u, p)
          BY <2>1, <2>9, <3>4 DEF Fills
        <5>2. QED
          BY <5>1 DEF SaveEnds, RegistryTypeOK
      <4>2. CASE save[p] = Opened(u)
        <5>1. SaveGoesOn(u, p) /\ publisher[u] = "fill_meta"
          BY <2>3, <3>2, <3>4, <4>2 DEF Fill
        <5>2. disk'[p]["faiss"] = u /\ disk'[p]["meta"] = u
          BY <2>3, <2>4, <2>6, <2>9, <3>4, <5>1 DEF SaveGoesOn
        <5>3. \A v \in Versions : ~(Saving(v)' /\ layout[v].index = p)
          BY <1>2, <2>5, <3>4, <5>1 DEF SaveGoesOn, SavesAlone
        <5>4. QED
          BY <1>1, <4>1, <4>2, <5>2, <5>3 DEF SaveOK
      <4>3. CASE save[p] # Opened(u)
        <5>1. \A w \in Versions : save'[p] # Opened(w)
          BY <3>2, <4>1, <4>3
        <5>2. save'[p] \notin Versions
          BY <3>1, <4>1, <4>3
        <5>3. QED
          BY <5>1, <5>2 DEF SaveOK
      <4>4. QED
        BY <4>2, <4>3
    <3>5. QED
      BY <2>9, <3>3, <3>4
  <2>10. QED
    BY <2>8, <2>9 DEF Files
<1>7. CASE /\ UNCHANGED <<disk, save>>
           /\ \/ publisher[u] \in Registers /\ publisher'[u] \in Registers
              \/ publisher'[u] = "failed"
  <2>1. ~Saving(u)'
    BY <1>7 DEF Saving, Registers
  <2>2. QED
    BY <1>4, <1>7, <2>1
<1>8. QED
  BY <1>5, <1>6, <1>7, PublishSteps

LEMMA PublishCoherent ==
    ASSUME RegistryTypeOK, Coherent, NEW u \in Versions, Publish(u)
    PROVE  Coherent'
<1>1. /\ \A v \in Versions : HasMetadata(v)' /\ \A f \in Files : OwnFile(v, f)'
      /\ \A p \in Paths : SaveOK(p)'
  BY MetadataStays, OwnFileStays, SaveStays DEF Coherent
<1>2. \A v : Published(v) => Published(v)'
  <2>1. publisher[u] # "published"
    BY DEF Publish, OpenFile, FillFile, ReadManifest, OpenManifest, WriteManifest, PublisherDies,
       Step, Files, Fill
  <2>2. QED
    BY <2>1, PublishSteps DEF Published
<1>3. service' = service /\ layout' = layout
  BY PublishSteps
<1>4. \A s \in Services : LoadedSoFar(s)'
  BY <1>2, <1>3 DEF Coherent, LoadedSoFar, OwnPath, PathOf
<1>5. CASE WriteManifest(u)
  <2>1. /\ manifest'.versions \subseteq seen[u].versions \cup {u}
        /\ seen' = seen
        /\ publisher'[u] = "published"
    BY <1>5 DEF WriteManifest, Step, Unreadable, RegistryTypeOK
  <2>2. QED
    BY <1>1, <1>2, <1>4, <2>1 DEF Coherent, Published
<1>6. CASE ReadManifest(u)
  <2>1. manifest' = manifest
        /\ \A w \in Versions : seen'[w].versions \subseteq seen[w].versions \cup manifest.versions
    BY <1>6 DEF ReadManifest, RegistryTypeOK
  <2>2. QED
    BY <1>1, <1>2, <1>4, <2>1 DEF Coherent
<1>7. CASE OpenManifest(u)
  <2>1. manifest'.versions = {} /\ seen' = seen
    BY <1>7 DEF OpenManifest, Unreadable
  <2>2. QED
    BY <1>1, <1>2, <1>4, <2>1 DEF Coherent
<1>8. CASE OpenFile(u) \/ FillFile(u) \/ PublisherDies(u)
  <2>1. manifest' = manifest /\ seen' = seen
    BY <1>8 DEF OpenFile, FillFile, PublisherDies, registryVars
  <2>2. QED
    BY <1>1, <1>2, <1>4, <2>1 DEF Coherent
<1>9. QED
  BY <1>5, <1>6, <1>7, <1>8 DEF Publish

LEMMA LoadCoherent ==
    ASSUME RegistryTypeOK, Coherent, NEW s \in Services, Load(s)
    PROVE  Coherent'
<1> USE VersionsAreNumbers
<1> DEFINE x == service[s]
           b == x.bundle
           y == service'[s]
<1>1. /\ LoadStep(s, y) /\ service' = [service EXCEPT ![s] = y]
      /\ UNCHANGED <<layout, disk, save, manifest, seen, publisher>>
  BY LoadSteps DEF fileVars, registryVars
<1>2. \A t \in Services \ {s} : service'[t] = service[t]
  BY <1>1 DEF RegistryTypeOK
<1>3. /\ \A v : Published(v)' <=> Published(v)
      /\ \A v, f : OwnPath(v, f)' <=> OwnPath(v, f)
  BY <1>1 DEF Published, OwnPath, PathOf
<1>4. x \in ServiceStates /\ LoadedSoFar(s)
  BY DEF RegistryTypeOK, Coherent
<1>5. ASSUME x.at # "down"
      PROVE  /\ b \in Versions /\ Published(b)
             /\ \A f \in Files : OwnPath(b, f) => FileFor(s, f) = b
             /\ FileFor(s, "meta") # Absent
             /\ SaveFor(s) \in Versions =>
                   FileFor(s, "faiss") = SaveFor(s) /\ FileFor(s, "meta") = SaveFor(s)
  <2>1. Published(b) /\ b \in Versions
    BY <1>4, <1>5 DEF LoadedSoFar, Published
  <2>2. publisher[b] \in Registers /\ \A f \in Files : publisher[b] \in Past[f]
    BY <2>1 DEF Published, Registers, Past, Files
  <2>3. \A f \in Files : OwnPath(b, f) => disk[PathOf(b, f)][f] = b
    BY <2>1, <2>2 DEF Coherent, OwnFile
  <2>4. disk[PathOf(b, "meta")]["meta"] # Absent
    BY <2>1, <2>2 DEF Coherent, HasMetadata
  <2>5. SaveOK(layout[b].index) /\ PathOf(b, "faiss") = layout[b].index
        /\ PathOf(b, "meta") = layout[b].index
    BY <2>1, PathsOf DEF Coherent
  <2>6. QED
    BY <2>1, <2>3, <2>4, <2>5 DEF FileFor, SaveFor, SaveOK
<1>6. "encoder" \in Files /\ "faiss" \in Files /\ "meta" \in Files
      /\ (OwnPath(b, "faiss") <=> OwnPath(b, "meta"))
  BY DEF Files, OwnPath, PathOf
<1>7. LoadedSoFar(s)'
  <2> HIDE DEF y
  <2>1. CASE \E v \in manifest.versions : y = [Down EXCEPT !.at = "encoder", !.bundle = v]
    <3>1. PICK v \in manifest.versions : y = [Down EXCEPT !.at = "encoder", !.bundle = v]
      BY <2>1
    <3>2. y.at = "encoder" /\ y.bundle = v
      BY <3>1 DEF Down
    <3>3. Published(v)'
      BY <1>3 DEF Coherent
    <3>4. QED
      BY <3>2, <3>3 DEF LoadedSoFar, y
  <2>2. CASE /\ x.at = "encoder" /\ FileFor(s, "encoder") \in Versions
             /\ y = [x EXCEPT !.at = "faiss", !.encoder = FileFor(s, "encoder")]
    <3>1. y.at = "faiss" /\ y.bundle = b /\ y.encoder = FileFor(s, "encoder")
      BY <1>4, <2>2 DEF ServiceStates
    <3>2. Published(b) /\ (OwnPath(b, "encoder") => y.encoder = b)
      BY <1>5, <1>6, <2>2, <3>1
    <3>3. QED
      BY <1>3, <3>1, <3>2 DEF LoadedSoFar, y
  <2>3. CASE /\ x.at = "faiss" /\ FileFor(s, "faiss") \in Versions
             /\ \E old \in BOOLEAN :
                   /\ old <=> FileFor(s, "meta") = Absent
                   /\ y = [x EXCEPT !.at = "meta", !.index = FileFor(s, "faiss"),
                                    !.oldMeta = old, !.saved = SaveFor(s)]
    <3>1. PICK old \in BOOLEAN :
             /\ old <=> FileFor(s, "meta") = Absent
             /\ y = [x EXCEPT !.at = "meta", !.index = FileFor(s, "faiss"),
                              !.oldMeta = old, !.saved = SaveFor(s)]
      BY <2>3, Zenon
    <3>2. /\ y.at = "meta" /\ y.bundle = b /\ y.encoder = x.encoder
          /\ y.index = FileFor(s, "faiss") /\ y.oldMeta = old /\ y.saved = SaveFor(s)
      BY <1>4, <3>1 DEF ServiceStates
    <3>3. /\ Published(b) /\ ~old
          /\ OwnPath(b, "faiss") => y.index = b
          /\ y.saved \in Versions => y.index = y.saved
          /\ y.index \in Versions
      BY <1>5, <1>6, <2>3, <3>1, <3>2
    <3>4. OwnPath(b, "encoder") => y.encoder = b
      BY <1>4, <2>3, <3>2 DEF LoadedSoFar
    <3>5. QED
      BY <1>3, <3>2, <3>3, <3>4 DEF LoadedSoFar, y
  <2>4. CASE /\ x.at = "meta"
             /\ \E m \in Versions \cup {Legacy}, saved \in {x.saved, Garbled} :
                   /\ m = IF x.oldMeta THEN Legacy ELSE FileFor(s, "meta")
                   /\ saved = x.saved => SaveFor(s) = saved \/ saved = Garbled
                   /\ y = [x EXCEPT !.at = "up", !.meta = m, !.saved = saved]
    <3>1. PICK m \in Versions \cup {Legacy}, saved \in {x.saved, Garbled} :
             /\ m = IF x.oldMeta THEN Legacy ELSE FileFor(s, "meta")
             /\ saved = x.saved => SaveFor(s) = saved \/ saved = Garbled
             /\ y = [x EXCEPT !.at = "up", !.meta = m, !.saved = saved]
      BY <2>4, Zenon
    <3>2. /\ y.at = "up" /\ y.bundle = b /\ y.encoder = x.encoder /\ y.index = x.index
          /\ y.oldMeta = x.oldMeta /\ y.meta = m /\ y.saved = saved
      BY <1>4, <3>1 DEF ServiceStates
    <3>3. /\ ~x.oldMeta /\ x.index \in Versions
          /\ OwnPath(b, "encoder") => x.encoder = b
          /\ OwnPath(b, "faiss") => x.index = b
          /\ x.saved \in Versions => x.index = x.saved
      BY <1>4, <2>4 DEF LoadedSoFar
    <3>4. m = FileFor(s, "meta") /\ FileFor(s, "meta") # Legacy
      <4>1. m = FileFor(s, "meta")
        BY <3>1, <3>3
      <4>2. b \in Versions /\ PathOf(b, "meta") \in Paths
        BY <1>5, <1>6, <2>4, PathsOf
      <4>3. FileFor(s, "meta") \in Contents
        BY <1>6, <4>2 DEF FileFor, RegistryTypeOK
      <4>4. Legacy # Absent /\ Legacy # Garbled
        BY DEF Legacy, Absent, Garbled
      <4>5. QED
        BY <4>1, <4>3, <4>4, OpenedDiffers DEF Contents
    <3>5. /\ Published(b) /\ m \in Versions
          /\ OwnPath(b, "faiss") => m = b
      BY <1>5, <1>6, <2>4, <3>1, <3>4
    <3>6. saved \in Versions => x.index = saved /\ m = saved
      BY <1>5, <2>4, <3>1, <3>3, <3>4
    <3>7. QED
      BY <1>3, <3>2, <3>3, <3>5, <3>6 DEF LoadedSoFar, y
  <2>5. CASE y = Down
    <3>1. y.at = "down"
      BY <2>5 DEF Down
    <3>2. QED
      BY <3>1 DEF LoadedSoFar, y
  <2>6. QED
    BY <1>1, <2>1, <2>2, <2>3, <2>4, <2>5, Zenon DEF LoadStep
<1>8. \A t \in Services \ {s} : LoadedSoFar(t)'
  BY <1>2, <1>3 DEF Coherent, LoadedSoFar
<1>9. /\ \A v \in Versions : HasMetadata(v)' /\ \A f \in Files : OwnFile(v, f)'
      /\ \A p \in Paths : SaveOK(p)'
  BY <1>1 DEF Coherent, HasMetadata, OwnFile, OwnPath, PathOf, SaveOK, SaveGoesOn, SavesAlone, Saving
<1>10. QED
  BY <1>1, <1>3, <1>7, <1>8, <1>9 DEF Coherent

LEMMA InitCoherent == Init => Coherent
<1> SUFFICES ASSUME Init
             PROVE  Coherent
  OBVIOUS
<1> USE VersionsAreNumbers, OpenedDiffers
<1>1. \A p \in Paths, f \in Files : disk[p][f] = Absent
  BY DEF Init, ArtifactInit
<1>2. RegistryTypeOK
  BY InitRegistryType
<1>3. \A v \in Versions : publisher[v] = "encoder"
  BY DEF Init, ArtifactInit
<1>4. \A v \in Versions : HasMetadata(v)
  BY <1>3 DEF HasMetadata, Registers
<1>5. ASSUME NEW v \in Versions, NEW f \in Files
      PROVE  OwnFile(v, f)
  <2>1. disk[PathOf(v, f)][f] = Absent
    BY <1>1, <1>2, PathsOf
  <2>2. publisher[v] # Fill[f] /\ publisher[v] \notin Past[f]
    BY <1>3 DEF Files, Fill, Past, Registers
  <2>3. QED
    BY <2>1, <2>2 DEF OwnFile
<1>6. \A p \in Paths : SaveOK(p)
  BY DEF Init, ArtifactInit, SaveOK
<1>7. QED
  BY <1>4, <1>5, <1>6 DEF Init, ArtifactInit, Coherent, LoadedSoFar, NoManifest, Down

\* The files of a bundle and all that is known of it stay coherent.
THEOREM StaysCoherent == Spec => []Coherent
<1>1. RegistryTypeOK /\ Coherent /\ [Next]_vars => Coherent'
  <2>1. ASSUME Coherent, UNCHANGED artifactVars
        PROVE  Coherent'
    <3>1. UNCHANGED <<layout, disk, save, manifest, seen, publisher, service>>
      BY <2>1 DEF artifactVars, registryVars, fileVars
    <3>2. QED
      BY <2>1, <3>1 DEF Coherent, HasMetadata, OwnFile, OwnPath, PathOf, SaveOK, SaveGoesOn,
         SavesAlone, Saving, Published, LoadedSoFar
  <2>2. QED
    BY <2>1, RegistrySteps, PublishCoherent, LoadCoherent
<1>2. QED
  BY <1>1, InitCoherent, RegistryTypes, PTL DEF Spec

\* "Version-locked": index and metadata of a service that is up are of one
\* save, unless that save broke off, shared the path with another that ran at
\* the same time, or began between the two reads; and what has a path of its
\* own was saved for the bundle asked for.  This for every assignment of paths
\* to bundles, whatever the publishers do, die of or leave behind.
THEOREM BundlesLoadTogether == Spec => []LoadedTogether
<1>1. Coherent => LoadedTogether
  BY DEF Coherent, LoadedSoFar, LoadedTogether
<1>2. QED
  BY <1>1, StaysCoherent, PTL

-----------------------------------------------------------------------------
(* What a registration can lose.                                            *)

\* Two that are registering at the same time have met; what one has read lists
\* every registration that met no other; and so does what can be read.
OverlapsAreNoted ==
    /\ \A u, v \in Versions :
          u # v /\ Registering(u) /\ Registering(v) => {u, v} \subseteq overlapped
    /\ \A v \in Versions : Registering(v) => registered \ overlapped \subseteq seen[v].versions
    /\ LostOnlyToOverlap

LEMMA PublishNotesOverlaps ==
    ASSUME RegistryTypeOK, OverlapsAreNoted, NEW v \in Versions, Publish(v)
    PROVE  OverlapsAreNoted'
<1>1. \A u \in Versions \ {v} : Registering(u)' <=> Registering(u)
  BY DEF Publish, OpenFile, FillFile, ReadManifest, OpenManifest, WriteManifest, PublisherDies,
     Step, Registering, RegistryTypeOK
<1>2. CASE OpenFile(v) \/ FillFile(v) \/ PublisherDies(v)
  <2>1. UNCHANGED registryVars /\ ~Registering(v)'
    BY <1>2 DEF OpenFile, FillFile, PublisherDies, Step, Registering, RegistryTypeOK, Files, Fill, After
  <2>2. QED
    BY <1>1, <2>1 DEF registryVars, OverlapsAreNoted, LostOnlyToOverlap, Readable
<1>3. CASE ReadManifest(v) /\ ~Readable
  <2>1. ~Registering(v)' /\ overlapped' = overlapped /\ UNCHANGED <<manifest, registered>>
    BY <1>3 DEF ReadManifest, Step, Registering, RegistryTypeOK
  <2>2. \A u \in Versions : seen'[u] = seen[u]
    BY <1>3 DEF ReadManifest, RegistryTypeOK
  <2>3. QED
    BY <1>1, <2>1, <2>2 DEF OverlapsAreNoted, LostOnlyToOverlap, Readable
<1>4. CASE ReadManifest(v) /\ Readable
  <2>1. /\ UNCHANGED <<manifest, registered>>
        /\ seen'[v] = manifest /\ \A u \in Versions \ {v} : seen'[u] = seen[u]
        /\ overlapped \subseteq overlapped'
        /\ Others(v) # {} => Others(v) \cup {v} \subseteq overlapped'
    BY <1>4 DEF ReadManifest, RegistryTypeOK
  <2>2. ASSUME NEW u \in Versions \ {v}, Registering(u)'
        PROVE  {u, v} \subseteq overlapped'
    <3>1. u \in Others(v)
      BY <1>1, <2>2 DEF Others
    <3>2. QED
      BY <2>1, <3>1
  <2>3. registered' \ overlapped' \subseteq registered \ overlapped
    BY <2>1
  <2>4. \A u, w \in Versions :
           u # w /\ Registering(u)' /\ Registering(w)' => {u, w} \subseteq overlapped'
    BY <1>1, <2>1, <2>2 DEF OverlapsAreNoted
  <2>5. LostOnlyToOverlap'
    BY <2>1, <2>3 DEF OverlapsAreNoted, LostOnlyToOverlap, Readable
  <2>6. \A u \in Versions : Registering(u)' => registered' \ overlapped' \subseteq seen'[u].versions
    BY <1>1, <1>4, <2>1, <2>3 DEF OverlapsAreNoted, LostOnlyToOverlap
  <2>7. QED
    BY <2>4, <2>5, <2>6 DEF OverlapsAreNoted
<1>5. CASE OpenManifest(v)
  <2>1. Registering(v) /\ ~Readable' /\ UNCHANGED <<seen, registered, overlapped>>
    BY <1>5 DEF OpenManifest, Step, Registering, Readable, Unreadable
  <2>2. QED
    BY <1>1, <2>1 DEF OverlapsAreNoted, LostOnlyToOverlap
<1>6. CASE WriteManifest(v)
  <2>1. /\ Registering(v) /\ ~Registering(v)'
        /\ registered' = registered \cup {v} /\ UNCHANGED <<seen, overlapped>>
    BY <1>6 DEF WriteManifest, Step, Registering, RegistryTypeOK
  <2>2. Readable' => manifest' = [versions |-> seen[v].versions \cup {v}, latest |-> v]
    BY <1>6 DEF WriteManifest, Readable, Unreadable
  <2>3. LostOnlyToOverlap'
    BY <2>1, <2>2 DEF OverlapsAreNoted, LostOnlyToOverlap
  <2>4. \A u \in Versions \ {v} :
           Registering(u) => registered' \ overlapped' \subseteq registered \ overlapped
    BY <2>1 DEF OverlapsAreNoted
  <2>5. QED
    BY <1>1, <2>1, <2>3, <2>4 DEF OverlapsAreNoted
<1>7. QED
  BY <1>2, <1>3, <1>4, <1>5, <1>6 DEF Publish

\* A registration is lost only to one that ran at the same time, however many
\* publishers there are and whichever of them die.
THEOREM RegistrationsAreKept == Spec => []LostOnlyToOverlap
<1>1. Init => OverlapsAreNoted
  BY DEF Init, ArtifactInit, OverlapsAreNoted, LostOnlyToOverlap, NoManifest, Registering
<1>2. RegistryTypeOK /\ OverlapsAreNoted /\ [Next]_vars => OverlapsAreNoted'
  <2>1. ASSUME OverlapsAreNoted,
               UNCHANGED artifactVars \/ \E s \in Services : Load(s)
        PROVE  OverlapsAreNoted'
    <3>1. UNCHANGED <<registryVars, publisher>>
      BY <2>1 DEF artifactVars, Load, GetBundle, LoadEncoder, LoadIndex, LoadMeta, LoadRaises, Set
    <3>2. QED
      BY <2>1, <3>1 DEF registryVars, OverlapsAreNoted, LostOnlyToOverlap, Readable, Registering
  <2>2. QED
    BY <2>1, RegistrySteps, PublishNotesOverlaps
<1>3. OverlapsAreNoted => LostOnlyToOverlap
  BY DEF OverlapsAreNoted
<1>4. QED
  BY <1>1, <1>2, <1>3, RegistryTypes, PTL DEF Spec

-----------------------------------------------------------------------------
(* Take: what the loops over the rows return.                               *)

LEMMA MaxOfInterval == \A i \in Nat \ {0} : Max(1 .. i) = i
<1> SUFFICES ASSUME NEW i \in Nat \ {0}
             PROVE  Max(1 .. i) = i
  OBVIOUS
<1>1. i \in 1 .. i /\ \A j \in 1 .. i : i >= j
  OBVIOUS
<1>2. \A m \in 1 .. i : (\A j \in 1 .. i : m >= j) => m = i
  OBVIOUS
<1>3. QED
  BY <1>1, <1>2 DEF Max

LEMMA MaxOfFinite ==
    ASSUME NEW n \in Nat, NEW s \in SUBSET (1 .. n), s # {}
    PROVE  Max(s) \in s
<1> DEFINE S == {n - i : i \in s}
<1>1. S \in SUBSET Nat /\ S # {}
  <2>1. \A i \in s : n - i \in Nat
    OBVIOUS
  <2>2. QED
    BY <2>1
<1>2. PICK m \in S : \A k \in S : m <= k
  <2> HIDE DEF S
  <2>1. QED
    BY <1>1, SmallestElement
<1>3. PICK x \in s : m = n - x
  BY <1>2
<1>4. \A y \in s : x >= y
  <2>1. ASSUME NEW y \in s
        PROVE  x >= y
    <3>1. n - y \in S /\ x \in Int /\ y \in Int
      OBVIOUS
    <3> HIDE DEF S
    <3>2. n - x <= n - y
      BY <1>2, <1>3, <3>1
    <3>3. QED
      BY <3>1, <3>2
  <2>2. QED
    BY <2>1
<1>5. QED
  BY <1>4 DEF Max

\* The loop of Take, from the last position of s down.
TakeLoop(it, list, at, dom) ==
    it = [s \in SUBSET DOMAIN dom |->
             IF s = {} THEN <<>>
             ELSE IF dom[Max(s)] \in at
                  THEN Append(it[s \ {Max(s)}], list[dom[Max(s)]])
                  ELSE it[s \ {Max(s)}]]

\* What Take has kept after the first i positions.
TakeRun(run, list, at) ==
    /\ run[0] = <<>>
    /\ \A i \in 1 .. Len(list) :
          run[i] = IF i \in at THEN Append(run[i - 1], list[i]) ELSE run[i - 1]

LEMMA TakeLoopExists ==
    ASSUME NEW E, NEW list \in Seq(E), NEW at
    PROVE  \E it : TakeLoop(it, list, at, [i \in 1 .. Len(list) |-> i])
<1> DEFINE n == Len(list)
           D == 1 .. n
           dom == [i \in D |-> i]
           pick == [s \in SUBSET D |-> Max(s)]
           step == [p \in D \X Seq(E) |->
                       IF p[1] \in at THEN Append(p[2], list[p[1]]) ELSE p[2]]
<1>1. n \in Nat /\ IsFiniteSet(D) /\ \A i \in D : list[i] \in E
  BY LenProperties, ElementOfSeq, FS_Interval
<1>2. \A s \in SUBSET D : pick[s] = Max(s) /\ (s # {} => pick[s] \in s)
  BY <1>1, MaxOfFinite
<1>3. step \in [D \X Seq(E) -> Seq(E)]
  BY <1>1, AppendProperties
<1>4. \A x \in D, q \in Seq(E) :
         step[<<x, q>>] = IF x \in at THEN Append(q, list[x]) ELSE q
  OBVIOUS
<1>5. dom = [i \in D |-> i] /\ DOMAIN dom = D /\ \A i \in D : dom[i] = i
  OBVIOUS
<1>6. <<>> \in Seq(E)
  OBVIOUS
<1> HIDE DEF pick, step, dom
<1>7. PICK it \in [SUBSET D -> Seq(E)] : IsFold(it, D, <<>>, pick, step)
  <2> HIDE DEF D
  <2>1. QED
    BY <1>1, <1>2, <1>3, <1>6, FoldExists
<1>8. \A s \in SUBSET D :
         it[s] = IF s = {} THEN <<>>
                 ELSE IF dom[Max(s)] \in at
                      THEN Append(it[s \ {Max(s)}], list[dom[Max(s)]])
                      ELSE it[s \ {Max(s)}]
  <2> SUFFICES ASSUME NEW s \in SUBSET D
               PROVE  it[s] = IF s = {} THEN <<>>
                              ELSE IF dom[Max(s)] \in at
                                   THEN Append(it[s \ {Max(s)}], list[dom[Max(s)]])
                                   ELSE it[s \ {Max(s)}]
    OBVIOUS
  <2>1. it[s] = FoldStep(it, s, <<>>, pick, step)
    BY <1>7 DEF IsFold
  <2>2. CASE s = {}
    BY <2>1, <2>2 DEF FoldStep
  <2>3. CASE s # {}
    <3>1. Max(s) \in D /\ dom[Max(s)] = Max(s)
      BY <1>2, <1>5, <2>3
    <3>2. it[s \ {Max(s)}] \in Seq(E)
      OBVIOUS
    <3>3. it[s] = step[<<Max(s), it[s \ {Max(s)}]>>]
      BY <1>2, <2>1, <2>3 DEF FoldStep
    <3>4. QED
      BY <1>4, <2>3, <3>1, <3>2, <3>3
  <2>4. QED
    BY <2>2, <2>3
<1>9. it = [s \in SUBSET D |->
               IF s = {} THEN <<>>
               ELSE IF dom[Max(s)] \in at
                    THEN Append(it[s \ {Max(s)}], list[dom[Max(s)]])
                    ELSE it[s \ {Max(s)}]]
  <2> DEFINE body(s) == IF s = {} THEN <<>>
                        ELSE IF dom[Max(s)] \in at
                             THEN Append(it[s \ {Max(s)}], list[dom[Max(s)]])
                             ELSE it[s \ {Max(s)}]
  <2>1. \A s \in SUBSET D : it[s] = body(s)
    BY <1>8
  <2> HIDE DEF body
  <2>2. it = [s \in SUBSET D |-> body(s)]
    BY <2>1
  <2>3. QED
    BY <2>2 DEF body
<1>10. TakeLoop(it, list, at, dom)
  BY <1>5, <1>9, Zenon DEF TakeLoop
<1>11. QED
  BY <1>5, <1>10, Zenon DEF D, n

LEMMA TakeUnfolds ==
    ASSUME NEW list, NEW at
    PROVE  LET dom == [i \in DOMAIN list |-> i]
           IN  Take(list, at) = (CHOOSE it : TakeLoop(it, list, at, dom))[DOMAIN dom]
  BY DEF Take, FoldLeftDomain, FoldLeft, MapThenFoldSet, TakeLoop

LEMMA TakeRuns ==
    ASSUME NEW E, NEW list \in Seq(E), NEW at
    PROVE  \E run \in [0 .. Len(list) -> Seq(E)] :
              TakeRun(run, list, at) /\ Take(list, at) = run[Len(list)]
<1> DEFINE n == Len(list)
           D == 1 .. n
           dom == [i \in D |-> i]
           chosen == CHOOSE it : TakeLoop(it, list, at, dom)
           run == [i \in 0 .. n |-> chosen[1 .. i]]
<1>1. n \in Nat /\ DOMAIN list = D /\ \A i \in D : list[i] \in E
  BY LenProperties, ElementOfSeq
<1>2. Take(list, at) = chosen[D]
  <2>1. DOMAIN dom = D /\ [i \in DOMAIN list |-> i] = dom
    BY <1>1
  <2>2. QED
    BY <2>1, TakeUnfolds, Zenon
<1>3. TakeLoop(chosen, list, at, dom)
  BY TakeLoopExists
<1>4. DOMAIN dom = D /\ \A i \in D : dom[i] = i
  OBVIOUS
<1> HIDE DEF dom, chosen
<1>5. \A s \in SUBSET D :
         chosen[s] = IF s = {} THEN <<>>
                     ELSE IF dom[Max(s)] \in at
                          THEN Append(chosen[s \ {Max(s)}], list[dom[Max(s)]])
                          ELSE chosen[s \ {Max(s)}]
  BY <1>3, <1>4 DEF TakeLoop
<1>6. run[0] = <<>>
  <2>1. 1 .. 0 = {} /\ 0 \in 0 .. n
    BY <1>1
  <2>2. QED
    BY <1>5, <2>1
<1>7. ASSUME NEW i \in 1 .. n
      PROVE  run[i] = IF i \in at THEN Append(run[i - 1], list[i]) ELSE run[i - 1]
  <2>1. 1 .. i \in SUBSET D /\ 1 .. i # {} /\ i \in 0 .. n /\ i - 1 \in 0 .. n
    BY <1>1
  <2>2. Max(1 .. i) = i
    BY MaxOfInterval
  <2>3. (1 .. i) \ {i} = 1 .. (i - 1)
    <3>1. /\ \A x \in 1 .. i : x # i => x \in 1 .. (i - 1)
          /\ \A x \in 1 .. (i - 1) : x \in 1 .. i /\ x # i
      OBVIOUS
    <3>2. QED
      BY <3>1
  <2>4. dom[i] = i
    BY <1>4
  <2>5. chosen[1 .. i] = IF i \in at THEN Append(chosen[1 .. (i - 1)], list[i])
                         ELSE chosen[1 .. (i - 1)]
    BY <1>5, <2>1, <2>2, <2>3, <2>4
  <2>6. QED
    BY <2>1, <2>5
<1> HIDE DEF run
<1>8. \A i \in 0 .. n : run[i] \in Seq(E)
  <2> DEFINE S == {i \in Nat : i <= n => run[i] \in Seq(E)}
  <2>1. 0 \in S
    BY <1>6, EmptySeq
  <2>2. ASSUME NEW i \in Nat, i \in S
        PROVE  i + 1 \in S
    <3> SUFFICES ASSUME i + 1 <= n
                 PROVE  run[i + 1] \in Seq(E)
      OBVIOUS
    <3>1. i + 1 \in 1 .. n /\ (i + 1) - 1 = i /\ run[i] \in Seq(E) /\ list[i + 1] \in E
      BY <1>1, <2>2
    <3>2. Append(run[i], list[i + 1]) \in Seq(E)
      BY <3>1, AppendProperties
    <3>3. QED
      BY <1>7, <3>1, <3>2
  <2> HIDE DEF S
  <2>3. \A i \in Nat : i \in S
    BY <2>1, <2>2, EveryNatural
  <2>4. QED
    BY <2>3, <1>1 DEF S
<1>9. run \in [0 .. n -> Seq(E)] /\ run[n] = chosen[D]
  BY <1>1, <1>8 DEF run
<1>10. QED
  BY <1>2, <1>6, <1>7, <1>9 DEF TakeRun

\* Take keeps the rows at the positions, in their order: p says where each row
\* it returns was.
Picks(p, rows, list, at) ==
    /\ p \in [1 .. Len(rows) -> at]
    /\ \A j \in 1 .. Len(rows) :
          rows[j] = list[p[j]] /\ \A l \in 1 .. (j - 1) : p[l] < p[j]

LEMMA TakePicks ==
    ASSUME NEW E, NEW list \in Seq(E), NEW at \in SUBSET (1 .. Len(list))
    PROVE  LET rows == Take(list, at)
           IN  /\ rows \in Seq(E)
               /\ Len(rows) = Cardinality(at)
               /\ \E p : Picks(p, rows, list, at)
<1> DEFINE n == Len(list)
           before(i) == at \cap (1 .. i)
<1>1. n \in Nat /\ \A i \in 1 .. n : list[i] \in E
  BY LenProperties, ElementOfSeq
<1>2. PICK run \in [0 .. n -> Seq(E)] : TakeRun(run, list, at) /\ Take(list, at) = run[n]
  BY TakeRuns
<1> DEFINE Done(i) == /\ Len(run[i]) = Cardinality(before(i))
                      /\ \E p : Picks(p, run[i], list, before(i))
<1>3. Done(0)
  <2>1. before(0) = {} /\ run[0] = <<>> /\ Len(<<>>) = 0
    BY <1>2, EmptySeq DEF TakeRun
  <2>2. Picks(<<>>, run[0], list, before(0))
    <3>1. 1 .. 0 = {} /\ <<>> \in [{} -> before(0)]
      BY EmptySeq
    <3>2. QED
      BY <2>1, <3>1 DEF Picks
  <2> HIDE DEF before
  <2>3. Cardinality(before(0)) = 0
    BY <2>1, FS_EmptySet
  <2>4. QED
    BY <2>1, <2>2, <2>3
<1>4. ASSUME NEW i \in Nat, i + 1 <= n, Done(i)
      PROVE  Done(i + 1)
  <2> DEFINE len == Len(run[i])
  <2>1. /\ i + 1 \in 1 .. n /\ (i + 1) - 1 = i /\ i \in 0 .. n
        /\ run[i] \in Seq(E) /\ len \in Nat
    BY <1>1, <1>4, LenProperties
  <2>2. PICK p : Picks(p, run[i], list, before(i))
    BY <1>4, Zenon
  <2>3. len = Cardinality(before(i)) /\ IsFiniteSet(before(i))
    <3>1. IsFiniteSet(1 .. i)
      BY FS_Interval
    <3>2. QED
      BY <1>4, <3>1, FS_Intersection, Zenon
  <2>4. \A x \in before(i) : x \in Int /\ x < i + 1
    OBVIOUS
  <2>5. CASE i + 1 \notin at
    <3>1. run[i + 1] = run[i]
      BY <1>2, <2>1, <2>5 DEF TakeRun
    <3>2. before(i + 1) = before(i)
      <4>1. \A x \in at : x \in 1 .. (i + 1) <=> x \in 1 .. i
        BY <2>5
      <4>2. QED
        BY <4>1
    <3>3. QED
      BY <2>2, <2>3, <3>1, <3>2
  <2>6. CASE i + 1 \in at
    <3>1. run[i + 1] = Append(run[i], list[i + 1])
      BY <1>2, <2>1, <2>6 DEF TakeRun
    <3>2. before(i + 1) = before(i) \cup {i + 1} /\ i + 1 \notin before(i)
      <4>1. \A x \in at : x \in 1 .. (i + 1) <=> x \in 1 .. i \/ x = i + 1
        OBVIOUS
      <4>2. QED
        BY <2>6, <4>1
    <3>3. /\ Len(run[i + 1]) = len + 1
          /\ \A j \in 1 .. len : run[i + 1][j] = run[i][j]
          /\ run[i + 1][len + 1] = list[i + 1]
      BY <1>1, <2>1, <3>1, AppendProperties
    <3> HIDE DEF before
    <3>4. Cardinality(before(i + 1)) = len + 1
      BY <2>3, <3>2, FS_AddElement
    <3> DEFINE q == [j \in 1 .. (len + 1) |-> IF j = len + 1 THEN i + 1 ELSE p[j]]
    <3>5. /\ p \in [1 .. len -> before(i)]
          /\ \A j \in 1 .. len :
                run[i][j] = list[p[j]] /\ \A l \in 1 .. (j - 1) : p[l] < p[j]
      BY <2>2 DEF Picks
    <3> HIDE DEF len
    <3>6. q \in [1 .. (len + 1) -> before(i + 1)]
      BY <2>1, <3>2, <3>5
    <3>7. ASSUME NEW j \in 1 .. (len + 1)
          PROVE  run[i + 1][j] = list[q[j]] /\ \A l \in 1 .. (j - 1) : q[l] < q[j]
      <4>1. CASE j = len + 1
        <5>1. \A l \in 1 .. (j - 1) : l \in 1 .. len /\ q[l] = p[l]
          BY <2>1, <4>1
        <5>2. q[j] = i + 1
          BY <4>1
        <5> HIDE DEF q
        <5>3. QED
          BY <2>4, <3>3, <3>5, <4>1, <5>1, <5>2
      <4>2. CASE j # len + 1
        <5>1. j \in 1 .. len /\ q[j] = p[j]
          BY <2>1, <4>2
        <5>2. \A l \in 1 .. (j - 1) : q[l] = p[l]
          BY <2>1, <5>1
        <5> HIDE DEF q
        <5>3. QED
          BY <3>3, <3>5, <5>1, <5>2
      <4>3. QED
        BY <4>1, <4>2
    <3> HIDE DEF q
    <3>8. Picks(q, run[i + 1], list, before(i + 1))
      BY <3>3, <3>6, <3>7 DEF Picks
    <3>9. QED
      BY <3>3, <3>4, <3>8
  <2>7. QED
    BY <2>5, <2>6
<1>5. Done(n)
  <2> DEFINE S == {i \in Nat : i <= n => Done(i)}
  <2> HIDE DEF Done
  <2>1. 0 \in S
    BY <1>3
  <2>2. \A i \in Nat : i \in S => i + 1 \in S
    BY <1>1, <1>4
  <2> HIDE DEF S
  <2>3. n \in S
    BY <1>1, <2>1, <2>2, EveryNatural
  <2>4. QED
    BY <1>1, <2>3 DEF S
<1>6. before(n) = at
  OBVIOUS
<1>7. run[n] \in Seq(E)
  BY <1>1, <1>2
<1> HIDE DEF before
<1>8. QED
  BY <1>1, <1>2, <1>5, <1>6, <1>7

-----------------------------------------------------------------------------
(* One search: every list it returns is genuine and explained.              *)

\* What can be searched.
Sources == [index: Versions, meta: Versions]

EpisodeRecords == [index: Versions, meta: Versions, query: Queries, rank: Nat,
                   entity: Entities \cup {Anyone}]

\* Episodes of x for query q, each of the entity its metadata names, by rank.
Ranked(list, x, q) ==
    \A i \in 1 .. Len(list) :
       /\ list[i].index = x.index /\ list[i].meta = x.meta /\ list[i].query = q
       /\ list[i].entity = EntityOf(x.meta, Nearest[x.index][q][list[i].rank])
       /\ \A j \in 1 .. (i - 1) : list[j].rank < list[i].rank

LEMMA EntitiesOfIds ==
    ASSUME NEW m \in Versions, NEW id
    PROVE  EntityOf(m, id) \in Entities \cup {Anyone}
<1>1. Metadata[m] \in Seq(Entities) /\ DOMAIN Metadata[m] = 1 .. Len(Metadata[m])
  BY RetrieverAssumption, LenProperties
<1>2. \A i \in DOMAIN Metadata[m] : Metadata[m][i] \in Entities
  BY <1>1, ElementOfSeq
<1>3. QED
  BY <1>2 DEF EntityOf

LEMMA EpisodesRanked ==
    ASSUME NEW x \in Sources, NEW q \in Queries
    PROVE  /\ Nearest[x.index][q] \in Seq(Nat)
           /\ Episodes(x, q) \in Seq(EpisodeRecords)
           /\ Len(Episodes(x, q)) = Len(Nearest[x.index][q])
           /\ Ranked(Episodes(x, q), x, q)
<1> DEFINE near == Nearest[x.index][q]
           n == Len(near)
           episode(i) == [index |-> x.index, meta |-> x.meta, query |-> q, rank |-> i,
                          entity |-> EntityOf(x.meta, near[i])]
<1>1. x.index \in Versions /\ x.meta \in Versions
  BY DEF Sources
<1>2. near \in Seq(Nat)
  BY <1>1, RetrieverAssumption
<1>3. n \in Nat /\ DOMAIN near = 1 .. n
  BY <1>2, LenProperties
<1>4. Episodes(x, q) = [i \in 1 .. n |-> episode(i)]
  BY <1>3 DEF Episodes
<1> HIDE DEF n
<1>5. \A i \in 1 .. n : episode(i) \in EpisodeRecords
  BY <1>1, <1>3, EntitiesOfIds DEF EpisodeRecords
<1>6. Episodes(x, q) \in Seq(EpisodeRecords) /\ Len(Episodes(x, q)) = n
  <2> HIDE DEF episode
  <2>1. QED
    BY <1>3, <1>4, <1>5
<1>7. \A i \in 1 .. n :
         /\ Episodes(x, q)[i].index = x.index /\ Episodes(x, q)[i].meta = x.meta
         /\ Episodes(x, q)[i].query = q /\ Episodes(x, q)[i].rank = i
         /\ Episodes(x, q)[i].entity = EntityOf(x.meta, near[i])
  BY <1>4
<1>8. Ranked(Episodes(x, q), x, q)
  <2>1. \A i \in 1 .. n : \A j \in 1 .. (i - 1) : j \in 1 .. n /\ j < i
    BY <1>3
  <2>2. QED
    BY <1>6, <1>7, <2>1 DEF Ranked
<1>9. QED
  BY <1>2, <1>6, <1>8 DEF n

LEMMA TakeRanked ==
    ASSUME NEW x, NEW q, NEW list \in Seq(EpisodeRecords), Ranked(list, x, q),
           NEW at \in SUBSET (1 .. Len(list))
    PROVE  /\ Ranked(Take(list, at), x, q)
           /\ \A i \in 1 .. Len(Take(list, at)) : \E y \in at : Take(list, at)[i] = list[y]
<1> DEFINE rows == Take(list, at)
<1>1. PICK p : Picks(p, rows, list, at)
  BY TakePicks
<1> HIDE DEF rows
<1>2. /\ \A i \in 1 .. Len(rows) : p[i] \in at /\ rows[i] = list[p[i]]
      /\ \A i \in 1 .. Len(rows) : \A j \in 1 .. (i - 1) : p[j] < p[i]
  BY <1>1 DEF Picks
<1>3. rows \in Seq(EpisodeRecords) /\ Len(rows) \in Nat /\ Len(list) \in Nat
  BY TakePicks, LenProperties DEF rows
<1>4. ASSUME NEW i \in 1 .. Len(rows), NEW j \in 1 .. (i - 1)
      PROVE  rows[j].rank < rows[i].rank
  <2>1. j \in 1 .. Len(rows)
    BY <1>3
  <2>2. p[j] \in 1 .. Len(list) /\ p[i] \in 1 .. Len(list) /\ p[j] < p[i]
    BY <1>2, <2>1
  <2>3. p[j] \in 1 .. (p[i] - 1)
    BY <1>3, <2>2
  <2>4. QED
    BY <1>2, <2>1, <2>2, <2>3 DEF Ranked
<1>5. \A i \in 1 .. Len(rows) : p[i] \in 1 .. Len(list)
  BY <1>2
<1>6. Ranked(rows, x, q)
  BY <1>2, <1>4, <1>5 DEF Ranked
<1>7. QED
  BY <1>2, <1>6 DEF rows

\* search_topk cuts its result off.
LEMMA TopK ==
    ASSUME NEW E, NEW list \in Seq(E), NEW n \in Nat
    PROVE  LET top == SearchTopK(list, n)
           IN  /\ top \in Seq(E)
               /\ Len(top) = IF n < Len(list) THEN n ELSE Len(list)
               /\ \A i \in 1 .. Len(top) : top[i] = list[i]
<1> DEFINE m == IF n < Len(list) THEN n ELSE Len(list)
<1>1. Len(list) \in Nat /\ m \in Nat /\ m <= Len(list)
  BY LenProperties
<1> HIDE DEF m
<1>2. /\ SubSeq(list, 1, m) \in Seq(E) /\ Len(SubSeq(list, 1, m)) = m
      /\ \A i \in 1 .. m : SubSeq(list, 1, m)[i] = list[i]
  BY <1>1, SubSeqProperties
<1>3. SearchTopK(list, n) = SubSeq(list, 1, m)
  BY Zenon DEF SearchTopK, m
<1>4. QED
  BY <1>2, <1>3 DEF m

LEMMA TopKRanked ==
    ASSUME NEW x, NEW q, NEW list \in Seq(EpisodeRecords), Ranked(list, x, q), NEW n \in Nat
    PROVE  Ranked(SearchTopK(list, n), x, q)
<1> DEFINE top == SearchTopK(list, n)
<1>1. /\ Len(top) \in Nat /\ Len(list) \in Nat /\ Len(top) <= Len(list)
      /\ \A i \in 1 .. Len(top) : top[i] = list[i]
  BY TopK, LenProperties
<1> HIDE DEF top
<1>2. \A i \in 1 .. Len(top) : i \in 1 .. Len(list) /\ \A j \in 1 .. (i - 1) : j \in 1 .. Len(top)
  BY <1>1
<1>3. Ranked(top, x, q)
  BY <1>1, <1>2 DEF Ranked
<1>4. QED
  BY <1>3 DEF top

\* What a search of x returns, single or a row of a batch: the margin is there
\* if an entity is excluded, and every row it has fetched has metadata.
Searched(list, x, r, missed) ==
    \E asked \in {r.k, r.k + Margin} :
       /\ r.entity # Anyone => asked = r.k + Margin
       /\ LET ntotal == Len(Nearest[x.index][r.query])
              n      == IF asked < ntotal THEN asked ELSE ntotal
              rows   == SearchTopK(Found(x, r.query, missed), n)
          IN  Described(rows) /\ list = FilterRows(rows, r)

LEMMA RetrieveSearches ==
    ASSUME NEW x, NEW r, NEW missed, Described(Fetched(x, r, missed))
    PROVE  Searched(Retrieve(x, r, missed), x, r, missed)
<1> DEFINE ntotal == Len(Nearest[x.index][r.query])
           asked == IF r.entity = Anyone THEN r.k ELSE r.k + Margin
           n == IF asked < ntotal THEN asked ELSE ntotal
<1>1. asked \in {r.k, r.k + Margin} /\ (r.entity # Anyone => asked = r.k + Margin)
  OBVIOUS
<1>2. FetchK(r, ntotal) = n
  BY Zenon DEF FetchK
<1>3. Fetched(x, r, missed) = SearchTopK(Found(x, r.query, missed), n)
  BY <1>2, Zenon DEF Fetched
<1>4. Retrieve(x, r, missed) = FilterRows(SearchTopK(Found(x, r.query, missed), n), r)
  BY <1>3, Zenon DEF Retrieve
<1>5. Described(SearchTopK(Found(x, r.query, missed), n))
  BY <1>3, Zenon
<1>6. QED
  BY <1>1, <1>4, <1>5, Zenon DEF Searched

LEMMA BatchRowSearches ==
    ASSUME NEW x, NEW r, NEW missed, NEW any \in BOOLEAN, r.entity # Anyone => any,
           Described(BatchFetched(x, r, any, missed))
    PROVE  Searched(BatchRow(x, r, any, missed), x, r, missed)
<1> DEFINE ntotal == Len(Nearest[x.index][r.query])
           asked == IF any THEN r.k + Margin ELSE r.k
           n == IF asked < ntotal THEN asked ELSE ntotal
<1>1. asked \in {r.k, r.k + Margin} /\ (r.entity # Anyone => asked = r.k + Margin)
  OBVIOUS
<1>2. BatchFetched(x, r, any, missed) = SearchTopK(Found(x, r.query, missed), n)
  BY Zenon DEF BatchFetched
<1>3. BatchRow(x, r, any, missed) = FilterRows(SearchTopK(Found(x, r.query, missed), n), r)
  BY <1>2, Zenon DEF BatchRow
<1>4. Described(SearchTopK(Found(x, r.query, missed), n))
  BY <1>2, Zenon
<1>5. QED
  BY <1>1, <1>3, <1>4, Zenon DEF Searched

LEMMA FoundRanked ==
    ASSUME NEW x \in Sources, NEW q \in Queries, NEW missed
    PROVE  LET found == Found(x, q, missed)
           IN  /\ found \in Seq(EpisodeRecords) /\ Ranked(found, x, q)
               /\ Len(found) <= Len(Nearest[x.index][q])
<1> DEFINE n == Len(Nearest[x.index][q])
           at == DOMAIN Nearest[x.index][q] \ missed
           list == Episodes(x, q)
<1>1. /\ n \in Nat /\ DOMAIN Nearest[x.index][q] = 1 .. n /\ Len(list) = n
      /\ list \in Seq(EpisodeRecords) /\ Ranked(list, x, q)
  BY EpisodesRanked, LenProperties
<1>2. at \in SUBSET (1 .. n)
  <2>1. \A i \in at : i \in 1 .. n
    BY <1>1
  <2> HIDE DEF at
  <2>2. QED
    BY <2>1
<1>3. Found(x, q, missed) = Take(list, at)
  BY Zenon DEF Found
<1> HIDE DEF n, at, list
<1>4. Cardinality(at) <= n
  <2>1. IsFiniteSet(1 .. n) /\ Cardinality(1 .. n) = n
    BY <1>1, FS_Interval
  <2>2. QED
    BY <1>2, <2>1, FS_Subset, Zenon
<1>5. /\ Take(list, at) \in Seq(EpisodeRecords) /\ Len(Take(list, at)) = Cardinality(at)
      /\ Ranked(Take(list, at), x, q)
  BY <1>1, <1>2, TakePicks, TakeRanked
<1>6. QED
  BY <1>3, <1>4, <1>5 DEF n

\* Rows of the given ones, none of the excluded entity.
Foreign(list, rows, r) ==
    /\ \A i \in 1 .. Len(list) : list[i].entity # r.entity
    /\ \A i \in 1 .. Len(list) : \E y \in 1 .. Len(rows) : list[i] = rows[y]

LEMMA FilterRowsKeeps ==
    ASSUME NEW x, NEW q, NEW rows \in Seq(EpisodeRecords), Ranked(rows, x, q),
           NEW r \in Requests
    PROVE  LET list == FilterRows(rows, r)
               kept == Cardinality({i \in 1 .. Len(rows) : rows[i].entity # r.entity})
           IN  /\ list \in Seq(EpisodeRecords) /\ Ranked(list, x, q)
               /\ Foreign(list, rows, r)
               /\ kept \in Nat
               /\ Len(list) = IF r.k < kept THEN r.k ELSE kept
<1> DEFINE at == {i \in 1 .. Len(rows) : rows[i].entity # r.entity}
           taken == Take(rows, at)
<1>1. r.k \in Nat
  BY RetrieverAssumption DEF Requests
<1>2. Len(rows) \in Nat /\ DOMAIN rows = 1 .. Len(rows) /\ at \in SUBSET (1 .. Len(rows))
  BY LenProperties
<1>3. Cardinality(at) \in Nat
  BY <1>2, PartOfInterval
<1>4. \A y \in at : rows[y].entity # r.entity
  OBVIOUS
<1>5. FilterRows(rows, r) = SearchTopK(taken, r.k)
  BY <1>2, Zenon DEF FilterRows
<1> HIDE DEF at, taken
<1>6. taken \in Seq(EpisodeRecords) /\ Len(taken) = Cardinality(at) /\ Ranked(taken, x, q)
  BY <1>2, TakePicks, TakeRanked DEF taken
<1>7. /\ \A i \in 1 .. Len(taken) : taken[i].entity # r.entity
      /\ \A i \in 1 .. Len(taken) : \E y \in 1 .. Len(rows) : taken[i] = rows[y]
  <2>1. \A i \in 1 .. Len(taken) : \E y \in at : taken[i] = rows[y]
    BY <1>2, TakeRanked DEF taken
  <2>2. QED
    BY <1>2, <1>4, <2>1
<1> DEFINE list == SearchTopK(taken, r.k)
<1>8. /\ list \in Seq(EpisodeRecords)
      /\ Len(list) = IF r.k < Len(taken) THEN r.k ELSE Len(taken)
      /\ \A i \in 1 .. Len(list) : list[i] = taken[i]
      /\ Ranked(list, x, q)
  BY <1>1, <1>6, TopK, TopKRanked
<1> HIDE DEF list
<1>9. Foreign(list, rows, r)
  <2>1. \A i \in 1 .. Len(list) : i \in 1 .. Len(taken)
    BY <1>1, <1>3, <1>6, <1>8
  <2>2. QED
    BY <1>7, <1>8, <2>1 DEF Foreign
<1>10. QED
  BY <1>3, <1>5, <1>6, <1>8, <1>9 DEF at, list

LEMMA SearchedIsGenuine ==
    ASSUME NEW x \in Sources, NEW r \in Requests, NEW missed, NEW list,
           Searched(list, x, r, missed)
    PROVE  Genuine(list, r)
<1> DEFINE q == r.query
           ntotal == Len(Nearest[x.index][q])
           found == Found(x, q, missed)
<1>1. q \in Queries /\ r.k \in Nat /\ r.k + Margin \in Nat /\ ntotal \in Nat
  <2>1. r.k \in Nat /\ Margin \in Nat
    BY RetrieverAssumption DEF Requests
  <2>2. q \in Queries
    BY DEF Requests
  <2>3. QED
    BY <2>1, <2>2, EpisodesRanked, LenProperties
<1>2. found \in Seq(EpisodeRecords) /\ Ranked(found, x, q)
  BY <1>1, FoundRanked
<1>3. PICK n \in Nat : /\ list = FilterRows(SearchTopK(found, n), r)
                       /\ Described(SearchTopK(found, n))
  <2>1. PICK asked \in {r.k, r.k + Margin} :
           LET rows == SearchTopK(found, IF asked < ntotal THEN asked ELSE ntotal)
           IN  list = FilterRows(rows, r) /\ Described(rows)
    BY Zenon DEF Searched
  <2> DEFINE n == IF asked < ntotal THEN asked ELSE ntotal
  <2>2. n \in Nat
    BY <1>1
  <2>3. QED
    BY <2>1, <2>2, Zenon
<1> HIDE DEF found, q
<1> DEFINE rows == SearchTopK(found, n)
<1>4. rows \in Seq(EpisodeRecords) /\ Ranked(rows, x, q)
  BY <1>2, TopK, TopKRanked
<1>5. list = FilterRows(rows, r) /\ Described(rows)
  BY <1>3, Zenon
<1> HIDE DEF rows
<1>6. list \in Seq(EpisodeRecords) /\ Ranked(list, x, q) /\ Foreign(list, rows, r)
  BY <1>4, <1>5, FilterRowsKeeps
<1>7. DOMAIN list = 1 .. Len(list) /\ Len(list) \in Nat /\ DOMAIN rows = 1 .. Len(rows)
  BY <1>4, <1>6, LenProperties
<1>8. \A i \in 1 .. Len(list) : \A j \in 1 .. (i - 1) : j \in 1 .. Len(list)
  BY <1>7
<1>9. \A i \in 1 .. Len(list) : list[i].entity # Anyone
  BY <1>5, <1>6, <1>7 DEF Described, Foreign
<1>10. QED
  BY <1>6, <1>7, <1>8, <1>9 DEF Genuine, Ranked, Foreign, q

LEMMA SearchedIsExplained ==
    ASSUME NEW x \in Sources, NEW r \in Requests, NEW missed, NEW list,
           Searched(list, x, r, missed)
    PROVE  Explained(list, x, r, missed)
<1> DEFINE q == r.query
           k == r.k
           ntotal == Len(Nearest[x.index][q])
           found == Found(x, q, missed)
           ownIn(n) == {i \in 1 .. n : found[i].entity = r.entity}
<1> SUFFICES ASSUME Len(list) < k
             PROVE  \/ Len(list) = Len(found) - Cardinality(ownIn(Len(found)))
                    \/ Cardinality(ownIn(Len(found))) > Margin
  <2>1. found \in Seq(EpisodeRecords)
    BY FoundRanked DEF Requests
  <2>2. DOMAIN found = 1 .. Len(found)
    BY <2>1, LenProperties
  <2>3. QED
    BY <2>2, Zenon DEF Explained
<1>1. /\ q \in Queries /\ k \in Nat \ {0} /\ Margin \in Nat /\ ntotal \in Nat
      /\ r.entity \in Entities \cup {Anyone}
  <2>1. q \in Queries /\ k \in Nat \ {0} /\ Margin \in Nat
    BY RetrieverAssumption DEF Requests
  <2>2. QED
    BY <2>1, EpisodesRanked, LenProperties DEF Requests
<1>2. /\ found \in Seq(EpisodeRecords) /\ Ranked(found, x, q)
      /\ Len(found) <= ntotal /\ Len(found) \in Nat
  BY <1>1, FoundRanked, LenProperties
<1> HIDE DEF found, ntotal, k, q
<1>4. PICK asked \in {k, k + Margin} :
         /\ r.entity # Anyone => asked = k + Margin
         /\ list = FilterRows(SearchTopK(found, IF asked < ntotal THEN asked ELSE ntotal), r)
         /\ Described(SearchTopK(found, IF asked < ntotal THEN asked ELSE ntotal))
  BY Zenon DEF Searched, found, ntotal, k, q
<1> DEFINE n == IF asked < ntotal THEN asked ELSE ntotal
           m == IF n < Len(found) THEN n ELSE Len(found)
           rows == SearchTopK(found, n)
<1>5. asked \in Nat /\ n \in Nat /\ m \in Nat /\ m <= Len(found)
  BY <1>1, <1>2, <1>4
<1>6. \/ m = Len(found)
      \/ m = asked
  BY <1>1, <1>2, <1>4
<1>7. /\ rows \in Seq(EpisodeRecords) /\ Len(rows) = m /\ Ranked(rows, x, q)
      /\ \A i \in 1 .. m : rows[i] = found[i]
  <2> HIDE DEF n
  <2>1. QED
    BY <1>2, <1>5, TopK, TopKRanked
<1>8. list = FilterRows(rows, r) /\ Described(rows)
  BY <1>4
<1> HIDE DEF n, m, rows
<1> DEFINE others == {i \in 1 .. Len(rows) : rows[i].entity # r.entity}
<1>9. Len(list) = IF k < Cardinality(others) THEN k ELSE Cardinality(others)
  BY <1>7, <1>8, FilterRowsKeeps DEF k
<1>10. others = (1 .. m) \ ownIn(m)
  BY <1>7
<1>11. /\ Cardinality(ownIn(m)) \in Nat
       /\ Cardinality(others) = m - Cardinality(ownIn(m))
  <2>1. ownIn(m) \in SUBSET (1 .. m)
    OBVIOUS
  <2> HIDE DEF ownIn, others
  <2>2. QED
    BY <1>5, <1>10, <2>1, PartOfInterval
<1>12. /\ Cardinality(ownIn(Len(found))) \in Nat
       /\ Cardinality(ownIn(m)) <= Cardinality(ownIn(Len(found)))
  <2>1. ownIn(Len(found)) \in SUBSET (1 .. Len(found)) /\ ownIn(m) \in SUBSET ownIn(Len(found))
    BY <1>2, <1>5
  <2> HIDE DEF ownIn
  <2>2. QED
    BY <1>2, <2>1, PartOfInterval, FS_Subset
<1>13. ASSUME r.entity = Anyone
       PROVE  Cardinality(ownIn(m)) = 0
  <2>1. \A i \in 1 .. m : found[i].entity # Anyone
    <3>1. DOMAIN rows = 1 .. m
      BY <1>7, LenProperties
    <3>2. QED
      BY <1>7, <1>8, <3>1 DEF Described
  <2>2. ownIn(m) = {}
    BY <1>13, <2>1
  <2> HIDE DEF ownIn
  <2>3. QED
    BY <2>2, FS_EmptySet
<1> HIDE DEF ownIn, others
<1>14. Len(list) = m - Cardinality(ownIn(m)) /\ m - Cardinality(ownIn(m)) < k
  BY <1>1, <1>5, <1>9, <1>11
<1>15. CASE m = Len(found)
  BY <1>14, <1>15
<1>16. CASE m = asked /\ asked = k + Margin
  BY <1>1, <1>11, <1>12, <1>14, <1>16
<1>17. CASE m = asked /\ asked = k
  <2>1. r.entity # Anyone
    BY <1>1, <1>13, <1>14, <1>17
  <2>2. asked = k + Margin
    BY <1>4, <2>1
  <2>3. QED
    BY <1>16, <1>17, <2>2
<1>18. QED
  BY <1>4, <1>6, <1>15, <1>16, <1>17

-----------------------------------------------------------------------------
(* The cache, the searches under way and the answers.                       *)

\* A search between GET and SET, with the list it has found.
Pending(s) ==
    /\ service[s].at = "up"
    /\ \E r \in Requests : \E missed \in Missed :
          /\ Described(Fetched(Loaded(s), r, missed))
          /\ request[s] = [at |-> "set", request |-> r, missed |-> missed,
                           list |-> Retrieve(Loaded(s), r, missed)]

GoodAnswer(a) ==
    /\ a.request \in Requests
    /\ Genuine(a.list, a.request)
    /\ a.from # NoSource => Explained(a.list, a.from, a.request, a.missed)

\* Everything the cache holds, a service is about to put there or has answered
\* comes from a search for the same entity and a query of the same hash.
Provenance ==
    /\ \A c \in cache : \E r \in Requests : c.key = CacheKey(r) /\ Genuine(c.list, r)
    /\ \A c, d \in cache : c.key = d.key => c = d
    /\ DOMAIN request = Services
    /\ \A s \in Services : request[s] = NoRequest \/ Pending(s)
    /\ \A a \in answers : GoodAnswer(a)

\* What is genuine does not depend on k, so an answer of the cache is.
LEMMA GenuineForKey ==
    ASSUME NEW list, NEW r, NEW t, CacheKey(r) = CacheKey(t), Genuine(list, r)
    PROVE  Genuine(list, t)
<1>1. r.entity = t.entity /\ Hash[r.query] = Hash[t.query]
  BY DEF CacheKey
<1>2. QED
  BY <1>1 DEF Genuine

\* A service that is up searches an index with metadata.
LEMMA SourceOfService ==
    ASSUME Coherent, NEW s \in Services, service[s].at = "up"
    PROVE  Loaded(s) \in Sources
  BY DEF Coherent, LoadedSoFar, Loaded, Sources

\* An answer is the only one of its step.
LEMMA AnswerIsGood ==
    ASSUME NEW r \in Requests, NEW list, NEW from, NEW missed,
           Answer(r, list, from, missed), Genuine(list, r),
           from # NoSource => Explained(list, from, r, missed)
    PROVE  \A a \in answers' : GoodAnswer(a)
<1> DEFINE new == [request |-> r, list |-> list, from |-> from, missed |-> missed]
<1>1. \A a \in answers' : a = new
  BY DEF Answer
<1>2. new.request = r /\ new.list = list /\ new.from = from /\ new.missed = missed
  OBVIOUS
<1> HIDE DEF new
<1>3. QED
  BY <1>1, <1>2, Zenon DEF GoodAnswer

LEMMA RequestReplaced ==
    ASSUME DOMAIN request = Services, NEW s \in Services, NEW x,
           request' = [request EXCEPT ![s] = x]
    PROVE  /\ DOMAIN request' = Services
           /\ \A t \in Services : request'[t] = IF t = s THEN x ELSE request[t]
<1>1. \A t \in Services : [request EXCEPT ![s] = x][t] = IF t = s THEN x ELSE request[t]
  OBVIOUS
<1>2. QED
  BY <1>1

LEMMA SearchSteps ==
    ASSUME Coherent, Provenance, NEW s \in Services,
           SearchHit(s) \/ SearchMiss(s) \/ Store(s) \/ StoreRaises(s) \/ BatchSearch(s)
    PROVE  Provenance'
<1>1. service' = service /\ \A t \in Services : Loaded(t)' = Loaded(t)
  BY DEF SearchHit, SearchMiss, Store, StoreRaises, BatchSearch, artifactVars, Loaded
<1>2. DOMAIN request = Services
  BY DEF Provenance
<1>3. CASE SearchHit(s)
  <2>1. PICK r \in Requests, c \in cache : c.key = CacheKey(r) /\ Answer(r, c.list, NoSource, {})
    BY <1>3 DEF SearchHit
  <2>2. Genuine(c.list, r)
    BY <2>1, GenuineForKey DEF Provenance
  <2>3. cache' = cache /\ request' = request
    BY <1>3 DEF SearchHit
  <2>4. QED
    BY <1>1, <2>1, <2>2, <2>3, AnswerIsGood DEF Provenance, Pending
<1>4. CASE SearchMiss(s)
  <2> DEFINE x == Loaded(s)
             new(r, missed) == [at |-> "set", request |-> r, missed |-> missed,
                                list |-> Retrieve(x, r, missed)]
  <2>1. PICK r \in Requests, missed \in Missed :
           Described(Fetched(x, r, missed)) /\ request' = [request EXCEPT ![s] = new(r, missed)]
    BY <1>4, Zenon DEF SearchMiss
  <2>2. service[s].at = "up" /\ cache' = cache /\ answers' = {}
    BY <1>4 DEF SearchMiss, Serving
  <2> HIDE DEF new
  <2>3. /\ \A t \in Services : request'[t] = IF t = s THEN new(r, missed) ELSE request[t]
        /\ DOMAIN request' = Services
    BY <1>2, <2>1, RequestReplaced
  <2>4. \A t \in Services : request'[t] = NoRequest \/ Pending(t)'
    <3>1. Pending(s)'
      <4>1. Described(Fetched(x, r, missed))' /\ Retrieve(x, r, missed)' = Retrieve(x, r, missed)
        BY <1>1, <2>1
      <4>2. request'[s] = new(r, missed)
        BY <2>3
      <4>3. QED
        BY <1>1, <2>2, <4>1, <4>2, Zenon DEF Pending, new
    <3>2. \A t \in Services \ {s} : Pending(t) => Pending(t)'
      BY <1>1, <2>3, Zenon DEF Pending
    <3>3. QED
      BY <2>3, <3>1, <3>2 DEF Provenance
  <2>5. QED
    BY <2>2, <2>3, <2>4 DEF Provenance
<1>5. CASE Store(s)
  <2>1. request[s].at = "set" /\ request[s] # NoRequest
    BY <1>5 DEF Store, NoRequest
  <2> DEFINE x == Loaded(s)
  <2>2. PICK r \in Requests, missed \in Missed :
           /\ Described(Fetched(x, r, missed))
           /\ request[s] = [at |-> "set", request |-> r, missed |-> missed,
                            list |-> Retrieve(x, r, missed)]
    BY <2>1, Zenon DEF Provenance, Pending
  <2> DEFINE list == Retrieve(x, r, missed)
             entry == [key |-> CacheKey(r), list |-> list]
  <2>3. request[s].request = r /\ request[s].missed = missed /\ request[s].list = list
    BY <2>2
  <2>4. x \in Sources
    BY <2>1, SourceOfService DEF Provenance, Pending
  <2>5. Genuine(list, r) /\ Explained(list, x, r, missed)
    BY <2>2, <2>4, RetrieveSearches, SearchedIsGenuine, SearchedIsExplained
  <2> HIDE DEF x, list
  <2>6. Answer(r, list, x, missed)
    BY <1>5, <2>3, Zenon DEF Store, x
  <2>7. cache' = {c \in cache : c.key # CacheKey(r)} \cup {entry}
    BY <1>5, <2>3, Zenon DEF Store
  <2>8. entry.key = CacheKey(r) /\ entry.list = list
    OBVIOUS
  <2> HIDE DEF entry
  <2>9. /\ \A c \in cache' : \E w \in Requests : c.key = CacheKey(w) /\ Genuine(c.list, w)
        /\ \A c, d \in cache' : c.key = d.key => c = d
    BY <2>5, <2>7, <2>8, Zenon DEF Provenance
  <2>10. \A t \in Services : request'[t] = IF t = s THEN NoRequest ELSE request[t]
    <3>1. request' = [request EXCEPT ![s] = NoRequest]
      BY <1>5, Zenon DEF Store
    <3>2. QED
      BY <1>2, <3>1, RequestReplaced
  <2>11. \A t \in Services : request'[t] = NoRequest \/ Pending(t)'
    <3>1. \A t \in Services \ {s} : Pending(t) => Pending(t)'
      BY <1>1, <2>10, Zenon DEF Pending
    <3>2. QED
      BY <2>10, <3>1 DEF Provenance
  <2>12. \A a \in answers' : GoodAnswer(a)
    BY <2>5, <2>6, AnswerIsGood
  <2>13. DOMAIN request' = Services
    BY <1>5 DEF Store, Provenance
  <2>14. QED
    BY <2>9, <2>11, <2>12, <2>13 DEF Provenance
<1>6. CASE StoreRaises(s)
  <2>1. \A t \in Services : request'[t] = IF t = s THEN NoRequest ELSE request[t]
    <3>1. request' = [request EXCEPT ![s] = NoRequest]
      BY <1>6, Zenon DEF StoreRaises
    <3>2. QED
      BY <1>2, <3>1, RequestReplaced
  <2>2. cache' = cache /\ answers' = {} /\ DOMAIN request' = Services
    BY <1>6 DEF StoreRaises, Provenance
  <2>3. \A t \in Services : request'[t] = NoRequest \/ Pending(t)'
    <3>1. \A t \in Services \ {s} : Pending(t) => Pending(t)'
      BY <1>1, <2>1, Zenon DEF Pending
    <3>2. QED
      BY <2>1, <3>1 DEF Provenance
  <2>4. QED
    BY <2>2, <2>3 DEF Provenance
<1>7. CASE BatchSearch(s)
  <2> DEFINE x == Loaded(s)
  <2>1. PICK r \in Requests, others \in BOOLEAN, missed \in Missed :
           LET any == others \/ r.entity # Anyone
           IN  /\ Described(BatchFetched(x, r, any, missed))
               /\ Answer(r, BatchRow(x, r, any, missed), x, missed)
    BY <1>7, Zenon DEF BatchSearch
  <2>2. service[s].at = "up" /\ cache' = cache /\ request' = request
    BY <1>7 DEF BatchSearch, Serving
  <2>3. x \in Sources
    BY <2>2, SourceOfService
  <2> DEFINE any == others \/ r.entity # Anyone
             list == BatchRow(x, r, any, missed)
  <2>4. any \in BOOLEAN /\ (r.entity # Anyone => any)
    OBVIOUS
  <2>5. Described(BatchFetched(x, r, any, missed)) /\ Answer(r, list, x, missed)
    BY <2>1, Zenon
  <2> HIDE DEF any, x
  <2>6. Genuine(list, r) /\ Explained(list, x, r, missed)
    BY <2>3, <2>4, <2>5, BatchRowSearches, SearchedIsGenuine, SearchedIsExplained
  <2> HIDE DEF list
  <2>7. \A a \in answers' : GoodAnswer(a)
    BY <2>5, <2>6, AnswerIsGood
  <2>8. QED
    BY <1>1, <2>2, <2>7 DEF Provenance, Pending
<1>8. QED
  BY <1>3, <1>4, <1>5, <1>6, <1>7

LEMMA OtherSteps ==
    ASSUME RegistryTypeOK, Provenance,
           \/ \E v \in Versions : Publish(v) /\ Elsewhere
           \/ \E s \in Services : request[s] = NoRequest /\ Load(s) /\ Elsewhere
           \/ Expire
           \/ UNCHANGED vars
    PROVE  Provenance'
<1>1. /\ request' = request /\ answers' \subseteq answers
      /\ \A c \in cache' : c \in cache
  BY DEF Expire, Elsewhere, vars
<1>2. \A s \in Services : request[s] # NoRequest => service'[s] = service[s]
  <2>1. CASE \E v \in Versions : Publish(v)
    BY <2>1 DEF Publish, OpenFile, FillFile, ReadManifest, OpenManifest, WriteManifest, PublisherDies
  <2>2. CASE \E s \in Services : request[s] = NoRequest /\ Load(s)
    BY <2>2 DEF Load, GetBundle, LoadEncoder, LoadIndex, LoadMeta, LoadRaises, Set, RegistryTypeOK
  <2>3. CASE Expire \/ UNCHANGED vars
    BY <2>3 DEF Expire, vars, artifactVars
  <2>4. QED
    BY <2>1, <2>2, <2>3
<1>3. \A s \in Services : request'[s] = NoRequest \/ Pending(s)'
  <2>1. \A s \in Services : request[s] # NoRequest => Loaded(s)' = Loaded(s)
    BY <1>2 DEF Loaded
  <2>2. SUFFICES ASSUME NEW s \in Services, Pending(s), request[s] # NoRequest
                 PROVE  Pending(s)'
    BY <1>1, Zenon DEF Provenance
  <2>3. request'[s] = request[s] /\ service'[s] = service[s] /\ Loaded(s)' = Loaded(s)
    BY <1>1, <1>2, <2>1, <2>2, Zenon
  <2>4. QED
    BY <2>2, <2>3, Zenon DEF Pending
<1>4. QED
  BY <1>1, <1>3 DEF Provenance

THEOREM EverythingHasProvenance == Spec => []Provenance
<1>1. Init => Provenance
  BY DEF Init, Provenance
<1>2. RegistryTypeOK /\ Coherent /\ Provenance /\ [Next]_vars => Provenance'
  BY SearchSteps, OtherSteps DEF Next
<1>3. QED
  BY <1>1, <1>2, RegistryTypes, StaysCoherent, PTL DEF Spec

\* Types of what the services, the publishers and the cache hold; the cache
\* holds one answer per key.
THEOREM SpaceTypes == Spec => []SpaceTypeOK
<1>1. RegistryTypeOK /\ Provenance => SpaceTypeOK
  <2>1. ASSUME RegistryTypeOK
        PROVE  \A p \in Paths, f \in Files : disk[p][f] \in Contents
    BY <2>1 DEF RegistryTypeOK
  <2>2. QED
    BY <2>1 DEF RegistryTypeOK, ServiceStates, Provenance, GoodAnswer, SpaceTypeOK, Contents
<1>2. QED
  BY <1>1, RegistryTypes, EverythingHasProvenance, PTL

\* "Ordered most-similar first", without episodes of the excluded entity:
\* every answer, from the cache or not, whoever computed it with whatever it
\* had loaded and for whichever k, is of one index and one metadata, for every
\* ranking, metadata, hash and set of missed cells.
THEOREM EveryAnswerIsGenuine == Spec => []AnswersAreGenuine
<1>1. Provenance => AnswersAreGenuine
  BY DEF Provenance, GoodAnswer, AnswersAreGenuine
<1>2. QED
  BY <1>1, EverythingHasProvenance, PTL

\* The over-fetch suffices unless the entity's own episodes took more than
\* the margin: a search of the index that finds fewer than k has found all.
THEOREM EveryUnderfillIsExplained == Spec => []UnderfillIsExplained
<1>1. Provenance => UnderfillIsExplained
  BY DEF Provenance, GoodAnswer, UnderfillIsExplained
<1>2. QED
  BY <1>1, EverythingHasProvenance, PTL

=============================================================================

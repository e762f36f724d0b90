----------------------- MODULE ReferenceEncoderService -----------------------
(***************************************************************************)
(* The per-entity reference profiles of phase2/encoding/                   *)
(* reference_encoder_service.py: a scheduled refresh rebuilds every        *)
(* profile from the historical records, incremental updates add the        *)
(* windows of new records to a profile.  Both read, compute and write      *)
(* without a lock, in processes that loaded their encoders at different    *)
(* times.                                                                  *)
(*                                                                         *)
(* The records of an entity are 1, 2, ... by timestamp.  An embedding is   *)
(* the window it encodes and the encoder it comes from; centroid and       *)
(* variance are functions of embeddings and not modelled further.          *)
(* The provider of historical records and the entity store are interfaces  *)
(* without an implementation in src.                                       *)
(***************************************************************************)
EXTENDS Integers, Sequences, FiniteSetsExt, SequencesExt

CONSTANTS
    Entities,
    Updaters,    \* processes that call update_profile_incremental
    Versions,    \* encoder versions, as numbers in the order of their names
    history_len, \* history_len_int
    seq_len,     \* seq_len_int
    MaxRecords,  \* bound: records per entity
    MaxCalls     \* bound: incremental updates

ASSUME ProfileAssumption ==
    /\ Versions \subseteq Nat \ {0} /\ IsFiniteSet(Versions) /\ Versions # {}
    /\ history_len \in Nat \ {0} /\ seq_len \in Nat \ {0}
    /\ MaxRecords \in [Entities -> Nat] /\ MaxCalls \in Nat

Refresher == "refresh_all_entities"
Processes == Updaters \cup {Refresher}
Nothing == [entity |-> "none"]

VARIABLES
    versions,  \* registry: the versions in the manifest
    encoder,   \* the encoder each process has loaded
    arrived,   \* provider: the records 1 .. arrived[e] are stored
    aged,      \* provider: of those, 1 .. aged[e] are older than history_days
    sent,      \* the records 1 .. sent[e] were in some batch of new_records
    profile,   \* entity store: the profile of each entity, or NoProfile
    at,        \* where each process is in its method
    local,     \* its entity, its new records, the profile it is about to write
    todo,      \* the entities build_all_profiles has still to build
    calls,     \* incremental updates so far
    log,       \* history: the embeddings of the last full build written and of
               \* all updates written after it
    overlapped \* history: entities for which a write fell between the read and
               \* the write of another call, since the last full build

providerVars == <<arrived, aged>>
historyVars  == <<log, overlapped>>
vars == <<versions, encoder, providerVars, sent, profile, at, local, todo, calls,
          historyVars>>

NoProfile == [stored |-> FALSE, cold |-> FALSE, history |-> <<>>]

\* load_inference_encoder_from_manifest: max(versions_dict.keys()), the highest
\* name, whatever was registered last.
LoadEncoder == Max(versions)

Init ==
    /\ \E v \in Versions : versions = {v}
    /\ encoder = [p \in Processes |-> LoadEncoder]
    /\ arrived = [e \in Entities |-> 0]
    /\ aged = [e \in Entities |-> 0]
    /\ sent = [e \in Entities |-> 0]
    /\ profile = [e \in Entities |-> NoProfile]
    /\ at = [p \in Processes |-> "idle"]
    /\ local = [p \in Processes |-> Nothing]
    /\ todo = {}
    /\ calls = 0
    /\ log = [e \in Entities |-> <<>>]
    /\ overlapped = {}

-----------------------------------------------------------------------------
(* Windows, embeddings and profiles.                                        *)

Latest(s, n) == IF Len(s) <= n THEN s ELSE SubSeq(s, Len(s) - n + 1, Len(s))

\* _build_windows of the records first .. last: consecutive windows of seq_len,
\* a short one at the end.
Windows(first, last) ==
    [i \in 1 .. (last - first + seq_len) \div seq_len |->
        <<first + (i - 1) * seq_len, Min({first + i * seq_len - 1, last})>>]

\* _encode_windows: one embedding per window.
Encode(windows, version) ==
    [i \in DOMAIN windows |-> [window |-> windows[i], version |-> version]]

\* Mutant: a profile keeps every embedding.
ProfileOfUncapped(embs) == [stored |-> TRUE, cold |-> embs = <<>>, history |-> embs]

\* The profile of some embeddings: a cold start when there is none.
ProfileOf(embs) ==
    [stored |-> TRUE, cold |-> embs = <<>>, history |-> Latest(embs, history_len)]

\* build_profile_for_entity, from what the provider holds now.
Build(e, version) ==
    Encode(Windows(aged[e] + 1, arrived[e]), version)

-----------------------------------------------------------------------------
(* Reading, computing, writing.                                             *)

\* A call on e that has read and not written yet.
Reading(p, e) == at[p] \in {"build", "write"} /\ local[p].entity = e

\* write_entity_profile at the end of a call: what it writes, and whether that
\* is a full build.  A call on the same entity that has read is now stale.
Write(p) ==
    LET e == local[p].entity
        others == \E q \in Processes \ {p} : Reading(q, e)
    IN  /\ profile' = [profile EXCEPT ![e] = ProfileOf(local[p].embs)]
        /\ log' = [log EXCEPT ![e] =
                      IF local[p].full THEN local[p].embs ELSE @ \o local[p].new]
        /\ overlapped' = IF others THEN overlapped \cup {e}
                         ELSE IF local[p].full THEN overlapped \ {e} ELSE overlapped

\* The method of process p is over; its locals are gone.
Returns(p, next) ==
    /\ at' = [at EXCEPT ![p] = next]
    /\ local' = [local EXCEPT ![p] = Nothing]

\* Mutant: the windows of the update replace the history.
FetchForgets(p, e, first, last) ==
    LET new == Encode(Windows(first, last), encoder[p])
    IN  /\ at' = [at EXCEPT ![p] = IF profile[e].cold \/ new = <<>> \/ ~profile[e].stored
                                   THEN "build" ELSE "write"]
        /\ local' = [local EXCEPT ![p] =
                        [entity |-> e, full |-> FALSE, new |-> new, embs |-> new]]

\* fetch_entity_profile, and the new windows added to what was fetched; a full
\* build instead when there is nothing to add to, or nothing to add.
Fetch(p, e, first, last) ==
    LET prior == profile[e]
        new   == Encode(Windows(first, last), encoder[p])
    IN  /\ at' = [at EXCEPT ![p] = IF prior.cold \/ new = <<>> \/ ~prior.stored
                                   THEN "build" ELSE "write"]
        /\ local' = [local EXCEPT ![p] =
                        [entity |-> e, full |-> FALSE, new |-> new,
                         embs |-> prior.history \o new]]

\* The records of the provider are fetched and encoded; new_records are not
\* looked at again.
BuildFor(p, e) ==
    /\ at' = [at EXCEPT ![p] = "write"]
    /\ local' = [local EXCEPT ![p] =
                    [entity |-> e, full |-> TRUE, new |-> <<>>,
                     embs |-> Latest(Build(e, encoder[p]), history_len)]]

-----------------------------------------------------------------------------
(* update_profile_incremental                                               *)

\* A batch holds the records that follow those of the batches before, or none.
Update(u) ==
    /\ at[u] = "idle"
    /\ calls < MaxCalls
    /\ calls' = calls + 1
    /\ \E e \in Entities : \E last \in sent[e] .. MaxRecords[e] :
          /\ Fetch(u, e, sent[e] + 1, last)
          /\ sent' = [sent EXCEPT ![e] = last]
    /\ UNCHANGED <<versions, encoder, providerVars, profile, todo, historyVars>>

UpdateBuilds(u) ==
    /\ at[u] = "build"
    /\ BuildFor(u, local[u].entity)
    /\ UNCHANGED <<versions, encoder, providerVars, sent, profile, todo, calls,
                   historyVars>>

UpdateWrites(u) ==
    /\ at[u] = "write"
    /\ Write(u)
    /\ Returns(u, "idle")
    /\ UNCHANGED <<versions, encoder, providerVars, sent, todo, calls>>

\* The provider, the encoder or the store raises, or the process dies.
UpdateFails(u) ==
    /\ at[u] # "idle"
    /\ Returns(u, "idle")
    /\ UNCHANGED <<versions, encoder, providerVars, sent, profile, todo, calls,
                   historyVars>>

-----------------------------------------------------------------------------
(* build_all_profiles and refresh_all_entities                              *)

Known == {e \in Entities : arrived[e] > 0}

\* Mutant: entities that have a profile are left to the incremental updates.
RefreshStartsUnbuilt ==
    /\ at[Refresher] = "idle"
    /\ todo' = {e \in Known : profile[e] = NoProfile}
    /\ at' = [at EXCEPT ![Refresher] = "next"]
    /\ UNCHANGED <<versions, encoder, providerVars, sent, profile, local, calls,
                   historyVars>>

\* The scheduler calls refresh_all_entities: list_known_entity_ids.
RefreshStarts ==
    /\ at[Refresher] = "idle"
    /\ todo' = Known
    /\ at' = [at EXCEPT ![Refresher] = "next"]
    /\ UNCHANGED <<versions, encoder, providerVars, sent, profile, local, calls,
                   historyVars>>

RefreshBuilds(e) ==
    /\ at[Refresher] = "next"
    /\ e \in todo
    /\ BuildFor(Refresher, e)
    /\ todo' = todo \ {e}
    /\ UNCHANGED <<versions, encoder, providerVars, sent, profile, calls,
                   historyVars>>

RefreshWrites(e) ==
    /\ at[Refresher] = "write"
    /\ local[Refresher].entity = e
    /\ Write(Refresher)
    /\ Returns(Refresher, "next")
    /\ UNCHANGED <<versions, encoder, providerVars, sent, todo, calls>>

\* Every entity is done; or one of them raises, and the rest is not built.
RefreshEnds ==
    /\ at[Refresher] \in {"next", "write"}
    /\ Returns(Refresher, "idle")
    /\ todo' = {}
    /\ UNCHANGED <<versions, encoder, providerVars, sent, profile, calls,
                   historyVars>>

-----------------------------------------------------------------------------
(* Surroundings                                                             *)

\* A version is registered; a process is started again and loads the highest.
Register ==
    /\ \E v \in Versions \ versions : versions' = versions \cup {v}
    /\ UNCHANGED <<encoder, providerVars, sent, profile, at, local, todo, calls,
                   historyVars>>

Restart(p) ==
    /\ at[p] = "idle"
    /\ encoder[p] # LoadEncoder
    /\ encoder' = [encoder EXCEPT ![p] = LoadEncoder]
    /\ UNCHANGED <<versions, providerVars, sent, profile, at, local, todo, calls,
                   historyVars>>

\* A record reaches the provider; the oldest one leaves the lookback window.
Arrives ==
    /\ \E e \in Entities :
          /\ arrived[e] < MaxRecords[e]
          /\ arrived' = [arrived EXCEPT ![e] = @ + 1]
    /\ UNCHANGED <<versions, encoder, aged, sent, profile, at, local, todo, calls,
                   historyVars>>

Ages ==
    /\ \E e \in Entities :
          /\ aged[e] < arrived[e]
          /\ aged' = [aged EXCEPT ![e] = @ + 1]
    /\ UNCHANGED <<versions, encoder, arrived, sent, profile, at, local, todo,
                   calls, historyVars>>

Refresh ==
    RefreshStarts \/ RefreshEnds
    \/ \E e \in Entities : RefreshBuilds(e) \/ RefreshWrites(e)

Next ==
    \/ \E u \in Updaters :
          Update(u) \/ UpdateBuilds(u) \/ UpdateWrites(u) \/ UpdateFails(u)
    \/ Refresh
    \/ Register \/ Arrives \/ Ages
    \/ \E p \in Processes : Restart(p)

Spec == Init /\ [][Next]_vars

\* "Intended to be invoked by an external scheduler": refreshes go on for ever,
\* and those of an entity do not fail for ever.  The refresh job is one process
\* that is started again after an upgrade.
FairSpec ==
    /\ Spec
    /\ WF_vars(RefreshStarts) /\ WF_vars(RefreshEnds)
    /\ SF_vars(Restart(Refresher))
    /\ \A e \in Entities : SF_vars(RefreshBuilds(e)) /\ SF_vars(RefreshWrites(e))

-----------------------------------------------------------------------------
(* Properties                                                               *)

Embeddings(e) ==
    [window: (1 .. MaxRecords[e]) \X (1 .. MaxRecords[e]), version: Versions]

\* Types; a profile keeps at most history_len embeddings, and is a cold start
\* exactly when it has none.
ProfilesTypeOK ==
    /\ versions \subseteq Versions /\ encoder \in [Processes -> Versions]
    /\ \A e \in Entities :
          /\ 0 <= aged[e] /\ aged[e] <= arrived[e] /\ arrived[e] <= MaxRecords[e]
          /\ sent[e] \in 0 .. MaxRecords[e]
          /\ profile[e].history \in Seq(Embeddings(e))
          /\ Len(profile[e].history) <= history_len
          /\ profile[e].stored => (profile[e].cold <=> profile[e].history = <<>>)
          /\ log[e] \in Seq(Embeddings(e))
    /\ at \in [Processes -> {"idle", "build", "next", "write"}]
    /\ todo \subseteq Known /\ overlapped \subseteq Entities

\* Without a lock an update is lost only to another one: as long as no write
\* has fallen between the read and the write of another call, a profile holds
\* the latest embeddings of its last full build and of all updates since.
UpdateLostOnlyToOverlap ==
    \A e \in Entities \ overlapped :
       profile[e].history = Latest(log[e], history_len)

\* Refreshes repair what races, failures and upgrades have left: once records
\* and updates stop, every known profile becomes and stays the full build of
\* what the provider holds, by the encoder that is loaded for good.
RefreshRepairs ==
    \A e \in Entities :
       <>[](e \in Known =>
              profile[e] = ProfileOf(Build(e, encoder[Refresher])))

=============================================================================

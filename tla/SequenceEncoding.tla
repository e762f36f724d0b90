-------------------------- MODULE SequenceEncoding --------------------------
(***************************************************************************)
(* Records on their way to an embedding of each entity.  RecordEncoder     *)
(* groups, windows and pads a batch; TstccEncoder turns it into embeddings *)
(* chunk by chunk, for InferenceEncoder, whose embeddings                  *)
(* CurrentEmbeddingAggregator pools per entity, or offline for             *)
(* BatchEncoder, whose embeddings go into a FAISS index.  An embedding is  *)
(* the space it lies in and the hidden states it was pooled from, a hidden *)
(* state the encoded events read so far; what the layers compute is left   *)
(* out.                                                                    *)
(***************************************************************************)
EXTENDS EventFeatures, FiniteSetsExt

CONSTANTS
    Batches,        \* EventBatches: non-empty sequences of records
    ForwardSize,    \* rows of a forward pass (chunk_size, batch_size_int)
    NList,          \* IVF cells asked for (nlist_int)
    MinTrainPoints  \* FAISS_MIN_TRAIN_POINTS_PER_LIST

ASSUME EncodingAssumption ==
    /\ {ForwardSize, NList, MinTrainPoints} \subseteq Nat \ {0}
    /\ \A b \in Batches :
          /\ b \in Seq(ToSet(b)) \ {<<>>}
          /\ \A r \in ToSet(b) : r.time \in Nat /\ r.metric \in Nat

VARIABLES
    projection,     \* encoder.use_projection_bool
    user,           \* of the encoder: "none", "inference" or "batch"
    stage,          \* "loading", "rejected", "batch", "forward", "trained",
                    \* "raised" or "done"
    records,        \* the records of the EventBatch
    entity_ids,     \* rows of the collated batch: whose they are
    padded,         \* ... their encoded events, padded to one length
    lengths,        \* ... and how many of them are real
    embeddings,     \* of the rows that have been through the network
    current,        \* CurrentEmbedding of each entity
    index           \* FaissIndexer: the vectors and metadata_list

batchVars == <<entity_ids, padded, lengths>>
resultVars == <<current, index>>
encodeVars == <<projection, user, stage, records, batchVars, embeddings, resultVars>>

-----------------------------------------------------------------------------
(* RecordEncoder.                                                           *)

RecordBefore(r, s) ==
    \/ r.time < s.time
    \/ r.time = s.time /\ r.metric < s.metric

\* Mutant: the first SeqLen events of the batch are kept.
NewestOldest(s) == SubSeq(s, 1, Min({SeqLen, Len(s)}))

Newest(s) == SubSeq(s, Len(s) - Min({SeqLen, Len(s)}) + 1, Len(s))

\* The records an entity has in recs, at these positions.
EncodeEntityRecords(recs, positions) ==
    LET window == Newest(StableSort(recs, positions, RecordBefore))
    IN  [i \in DOMAIN window |-> EncodeRecord(window[i])]

RecordsOf(e) == {i \in DOMAIN records : records[i].entity = e}

Entities == {r.entity : r \in ToSet(records)}

\* The entities in the order of their first record.
EntityOrder ==
    LET first(e) == Min({i \in DOMAIN records : records[i].entity = e})
    IN  InOrder([e \in Entities |-> {d \in Entities : first(d) < first(e)}])

Padding == [metric |-> Unknown, hour |-> 0, day |-> 0, tau |-> 0]

PadTo(n, s) == s \o [i \in 1 .. n - Len(s) |-> Padding]

-----------------------------------------------------------------------------
(* TstccEncoder.                                                            *)

\* nn.Embedding raises on an index it has no row for, in padding too.
LookupRaises(rows) ==
    \E i \in DOMAIN rows : \E t \in DOMAIN rows[i] : rows[i][t].metric >= TableSize

\* The GRU over the packed sequence: its state at a real position is what it
\* has read up to there, and zero behind the end.
RunGru(row, length) ==
    [state |-> [t \in DOMAIN row |-> IF t <= length THEN SubSeq(row, 1, t) ELSE <<>>],
     valid |-> {t \in DOMAIN row : t <= length}]

\* Attention weighs the states of the positions the mask leaves.
AttentionPooling(gru) == {gru.state[t] : t \in gru.valid}

Forward(row, length, head) ==
    [space |-> IF head THEN "contrastive" ELSE "representation",
     states |-> AttentionPooling(RunGru(row, length))]

-----------------------------------------------------------------------------
EncodeInit ==
    /\ projection = TRUE
    /\ user = "none"
    /\ stage = "loading"
    /\ records \in Batches
    /\ entity_ids = <<>>
    /\ padded = <<>>
    /\ lengths = <<>>
    /\ embeddings = <<>>
    /\ current = <<>>
    /\ index = [vectors |-> <<>>, metadata |-> <<>>]

\* After load_weights: an encoder is built with its projection head on.
DisableProjection ==
    /\ stage = "loading"
    /\ projection' = FALSE
    /\ UNCHANGED <<user, stage, records, batchVars, embeddings, resultVars>>

\* InferenceEncoder refuses an encoder whose head is on.
NewInferenceEncoder ==
    /\ stage = "loading"
    /\ user' = "inference"
    /\ stage' = IF projection THEN "rejected" ELSE "batch"
    /\ UNCHANGED <<projection, records, batchVars, embeddings, resultVars>>

\* BatchEncoder turns it off.
NewBatchEncoder ==
    /\ stage = "loading"
    /\ projection' = FALSE
    /\ user' = "batch"
    /\ stage' = "batch"
    /\ UNCHANGED <<records, batchVars, embeddings, resultVars>>

\* encode_event_batch and collate_encoded_batch.
EncodeEventBatch ==
    /\ stage = "batch"
    /\ entity_ids' = EntityOrder
    /\ LET encoded == [i \in DOMAIN entity_ids' |->
                          EncodeEntityRecords(records, RecordsOf(entity_ids'[i]))]
           longest == Max({Len(encoded[i]) : i \in DOMAIN encoded})
       IN  /\ lengths' = [i \in DOMAIN encoded |-> Len(encoded[i])]
           /\ padded' = [i \in DOMAIN encoded |-> PadTo(longest, encoded[i])]
    /\ stage' = "forward"
    /\ UNCHANGED <<projection, user, records, embeddings, resultVars>>

\* Mutant: a chunk is passed the lengths of the whole batch.
ChunkLengthsUnsliced(first, last) == lengths

ChunkLengths(first, last) == SubSeq(lengths, first, last)

\* The next chunk's forward pass.
ForwardPass(head) ==
    /\ stage = "forward"
    /\ Len(embeddings) < Len(padded)
    /\ LET first == Len(embeddings) + 1
           last == Min({Len(embeddings) + ForwardSize, Len(padded)})
           rows == SubSeq(padded, first, last)
       IN  IF LookupRaises(rows)
           THEN stage' = "raised" /\ UNCHANGED embeddings
           ELSE /\ embeddings' = embeddings \o
                      [i \in DOMAIN rows |->
                          Forward(rows[i], ChunkLengths(first, last)[i], head)]
                /\ UNCHANGED stage
    /\ UNCHANGED <<projection, user, records, batchVars, resultVars>>

\* encode takes the encoder as it is; encode_records calls
\* encode_without_projection, which restores the flag.
EncodeChunk == user = "inference" /\ ForwardPass(projection)
EncodeRecords == user = "batch" /\ ForwardPass(FALSE)

\* aggregate_embeddings: the rows of an entity are pooled together.
AggregateEmbeddings ==
    /\ user = "inference"
    /\ stage = "forward"
    /\ Len(embeddings) = Len(padded)
    /\ LET rowsOf(e) == {i \in DOMAIN entity_ids : entity_ids[i] = e}
       IN  current' = [e \in ToSet(entity_ids) |->
                          [emb |-> {embeddings[i] : i \in rowsOf(e)},
                           n_records |-> Cardinality(rowsOf(e))]]
    /\ stage' = "done"
    /\ UNCHANGED <<projection, user, records, batchVars, embeddings, index>>

Cells(n) == Min({NList, Max({1, n \div MinTrainPoints}), n})

TrainSize(n) == Min({Max({Cells(n) * MinTrainPoints, n \div 10}), n})

\* build_faiss_index: k-means raises with fewer points than cells.
BuildIndex ==
    /\ user = "batch"
    /\ stage = "forward"
    /\ Len(embeddings) = Len(padded)
    /\ LET n == Len(embeddings)
       IN  stage' = IF n = 0 \/ TrainSize(n) < Cells(n) THEN "raised" ELSE "trained"
    /\ UNCHANGED <<projection, user, records, batchVars, embeddings, resultVars>>

\* FaissIndexer.add, tagged with the entities of the rows.
AddVectors ==
    /\ stage = "trained"
    /\ stage' = IF Len(embeddings) = Len(entity_ids) THEN "done" ELSE "raised"
    /\ index' = IF stage' = "raised" THEN index
                ELSE [vectors |-> index.vectors \o embeddings,
                      metadata |-> index.metadata \o entity_ids]
    /\ UNCHANGED <<projection, user, records, batchVars, embeddings, current>>

EncodeNext ==
    \/ DisableProjection \/ NewInferenceEncoder \/ NewBatchEncoder
    \/ EncodeEventBatch \/ EncodeChunk \/ AggregateEmbeddings
    \/ EncodeRecords \/ BuildIndex \/ AddVectors

-----------------------------------------------------------------------------
(* Property.                                                                *)

\* rows are the latest SeqLen records of e, oldest first, chosen from the
\* batch by positions.
AreNewestOf(rows, e) ==
    LET own == {i \in DOMAIN records : records[i].entity = e}
        n == Min({SeqLen, Cardinality(own)})
    IN  \E pick \in [1 .. n -> own] :
          /\ Cardinality({pick[i] : i \in 1 .. n}) = n
          /\ rows = [i \in 1 .. n |-> EncodeRecord(records[pick[i]])]
          /\ \A i, j \in 1 .. n :
                i < j => ~RecordBefore(records[pick[j]], records[pick[i]])
          /\ \A i \in own \ {pick[j] : j \in 1 .. n} :
                ~RecordBefore(records[pick[1]], records[i])

IsOwn(x, e) ==
    /\ x.space = "representation"
    /\ \E read \in x.states :
          /\ AreNewestOf(read, e)
          /\ x.states = {SubSeq(read, 1, t) : t \in DOMAIN read}

\* An entity's embedding, current or found in the index under its name, is
\* that of its own latest events and of nothing else, neither padding nor
\* another entity's, in the space of the reference profiles, whatever shares
\* its batch and wherever the chunks are cut; none is missing; and no batch
\* makes the encoder or the index raise, however few its records, names it
\* never saw included.
EmbeddingIsOwn ==
    /\ stage # "raised"
    /\ stage = "done" /\ user = "inference" =>
          /\ DOMAIN current = Entities
          /\ \A e \in Entities : \E x \in current[e].emb :
                current[e].emb = {x} /\ IsOwn(x, e)
    /\ stage = "done" /\ user = "batch" =>
          /\ ToSet(index.metadata) = Entities
          /\ \A i \in DOMAIN index.vectors : IsOwn(index.vectors[i], index.metadata[i])

=============================================================================

# Formal model of the CAPSTONE-189 anomaly detection system

TLA+ modules, TLC runs and TLAPS proofs for the Python program in `src/`.
The program watches metrics of virtual machines in three parts:

- **Phase 0** scores every metric point online against a rolling baseline kept
  in Redis.
- **Phase 1** trains a contrastive encoder offline and fills a FAISS index and a
  model registry.
- **Phase 2** ingests telemetry in batches, encodes it with the trained network,
  and compares it with reference profiles and with past episodes.

## 1. Inventory

| component (source) | state it keeps | operations | what is hard | what makes it correct |
|---|---|---|---|---|
| RollingBaselineStore (`phase0/baseline`) | one bucket per Redis key: count, mean, m2, window | `get_bucket_state`, `update_bucket` | many processes on one key; WATCH/EXEC; lost replies; incremental statistics | no update lost, doubled or misreported; statistics are those of the window |
| AnomalyScoringWorker (`phase0/workers`) with ZScoreScorer, Robust statistics, BucketKeyResolver, SeasonalityClassifier | `_running`, two counters | `run_async`, `process_batch`, `process_point`, `stop` | unlocked read before the locked update; failures half way; stop from outside | a verdict is the test over the window before its own point |
| Kafka/RedisStreamReader (`phase0/streaming`) | consumer and offset, or pending list | `start`, `poll`, `stop` | auto commit and XACK before processing; rebalance; crash; exception in mid-drain | no point twice without a change of hands, none skipped silently |
| IngestionPipeline, BatchAccumulator, DeadLetterWriter (`phase2/ingestion`) | buffer, counters, window start, dead-letter file | `start_async`, `stop`, `add`, `mark_invalid`, `flush`, `write` | callback failure after flush; stop with a full buffer; a poll that raises | records are conserved, counters agree, everything accepted is emitted |
| Kafka/Kinesis/PubSubIngestor | offset, shard iterator, ack ids | `start`, `poll`, `stop` | three delivery contracts behind one interface; redelivery; closed shards | what the service takes for consumed was worked off |
| ModelRegistry, ArtifactBundle (`phase1/registry`) | JSON manifest, artifact files | `register`, `get_*`, `load*` | unlocked and non-atomic writes | a loaded bundle is one bundle; no lone registration is lost |
| FAISSIndexer, BatchEncoder (`phase1/embedding_space`) | index and metadata, two files | `encode_records`, `build_faiss_index`, `add`, `search_topk`, `save`, `load` | alignment of vectors and metadata, over a crash too | a vector belongs to the entity its metadata names |
| EpisodeRetriever (`phase2/detection`) | Redis result cache | `search`, `batch_search` | cache key without `k` and bundle; over-fetch | an answer is genuine, ordered, without the own entity |
| ReferenceEncoderService (`phase2/encoding`) | profiles in the entity store | build, refresh, incremental update | unlocked read-modify-write; encoder upgrades; one entity that raises | updates lost only to overlap; refreshes repair |
| Corpus generation and augmentation (`generate_*.py`, `vm_augmentation.py`) | parquet files | seeds, days, chunks of augmented pairs | row groups and chunks are cut differently; jitter reorders | the two views of a window are the same events |
| Training, dataset, NT-Xent (`phase1/train`, `data`, `losses`) | epoch, weights, checkpoints | dataset over workers, loss, `main`, `--resume` | sharding over processes; crash inside a save | every window once; a resumed run continues |
| TSTCC encoder (`phase1/models`) | weights, projection flag | `forward`, `encode_without_projection`, `save_checkpoint` | padding and masks | an embedding depends on its own real events only |
| RecordEncoder and its encoders, InferenceEncoder, CurrentEmbeddingAggregator (`phase2`) | loaded vocabularies | pure | windows, padding, chunks, unknown names; agreement with training | an entity's embedding is that of its own latest events |
| SchemaValidator, Shared types | none | pure | | |
| Smoke tests and validation scripts | none | drivers | | |

How they interact: a stream reader hands points to the worker, which finds the
bucket, calls the scorer and the store, and publishes results through a
callback. The pipeline owns an ingestor, an accumulator and a dead-letter
writer, and hands batches on through a callback; RecordEncoder, InferenceEncoder
and CurrentEmbeddingAggregator turn a batch into one embedding per entity.
Training writes checkpoints, the embedding space writes an index and its
metadata, and the registry's manifest joins them in a bundle that the services
load. The reference encoder service and the retriever meet the rest only through
the entity store, Redis keys and those files.

## 2. Modules

| module | models |
|---|---|
| `RollingBaselineStore` | `rolling_baseline_store.py`, `welford_accumulator.py` |
| `SlidingWindow` | the abstract promise of the store: an atomic sliding window per bucket |
| `RollingBaselineStoreProofs` | theorems about `RollingBaselineStore` |
| `FoldTheorems` | lemmas about the folds of the community modules (sums, concatenation) and about `Ordering` that the proofs use |
| `AnomalyScoringWorker` | `anomaly_scoring_worker.py`, `zscore_scorer.py`, `robust_stats_accumulator.py`, `bucket_key_resolver.py`, `seasonality_classifier.py`, composed with the store |
| `AnomalyScoringWorkerProofs` | theorems about `AnomalyScoringWorker`, over those of the store |
| `MetricStreams` | `kafka_stream_reader.py`, `redis_stream_reader.py` under the poll loop of several workers |
| `MetricStreamsProofs` | theorems about `MetricStreams` |
| `IngestionPipeline` | `ingestion_pipeline.py`, `batch_accumulator.py`, `dead_letter_writer.py`, and `schema_validator.py` as a classification |
| `KafkaIngestor`, `KinesisIngestor`, `PubSubIngestor` | the adapter of that name, composed with the pipeline and with what the service promises |
| `IngestionProofs` | theorems about `IngestionPipeline` under each ingestor, as `MCIngestion` composes them |
| `ArtifactRegistry` | `model_registry.py`, `artifact_bundle.py`, `FaissIndexer.save` and `load`, as file operations |
| `EpisodeRetriever` | `episode_retriever.py` and `search_topk`, composed with the registry |
| `EpisodeRetrieverProofs` | theorems about `EpisodeRetriever` and `ArtifactRegistry` |
| `ReferenceEncoderService` | `reference_encoder_service.py` |
| `ReferenceEncoderServiceProofs` | theorems about `ReferenceEncoderService` |
| `Ordering` | `sorted`, `sort_values` and filters, defined by rank so that they can be reasoned about |
| `EventFeatures` | the features of one event, as training and as live encoding compute them |
| `ContrastiveTraining` | corpus, augmentation, dataset, NT-Xent pairs, training epochs and checkpoints |
| `SequenceEncoding` | `record_encoder.py`, `tstcc_encoder.py`'s forward pass, `inference_encoder.py`, `current_embedding_aggregator.py`, `batch_encoder.py`, `build_faiss_index`, `FaissIndexer.add` |
| `EncoderProofs` | theorems about `ContrastiveTraining` and `SequenceEncoding`, as `MCEncoder` composes them |
| `MC...` | instances for TLC. `MCIngestion` composes the three ingestors in one run, `MCEncoder` training and live encoding |

### RollingBaselineStore

`store[k]` is the JSON under Redis key `k`; `dirty[c]` is Redis's mark that the
key client `c` watches was written; `pc`, `upd`, `attempt`, `current` are where
client `c` is in `update_bucket` and its locals. One action is one network round
trip, because that is where calls interleave: `Watch`, `Get`, then `Exec`
(commit and return), `ExecAborted` (Redis refused, next attempt), `Disconnected`
and `ReplyLost` (connection lost before or after the server committed),
`Exhausted` (RuntimeError) and `ConnectionError` (before there is a WATCH). The
backoff sleep only delays the next `Watch`.

Welford's `(count, mean, m2)` is modelled as `(count, sum, sumsq)` over integers
with `mean = sum/count` and `m2 = sumsq - sum*sum/count`: the same information,
exactly. What floats lose (drift of `m2`, the `max(..., 0.0)` clamp that hides
it) is outside the model. One value is evicted per update, as in the code,
however long the stored window is.

`WatchErrorOnDisconnect` distinguishes two kinds of Redis client. `redis.Redis`
turns a connection lost under a WATCH into a `WatchError` (the WATCH is gone, so
it cannot tell), which `update_bucket` retries; other clients raise the
connection error itself, which is re-raised.

`folded`, `outcome` and `began` are history: what was committed to each bucket,
how each call ended, and how long a bucket's history was when the call began.

### AnomalyScoringWorker

EXTENDS the store: a client is a worker process, and `StoreStep` is one round
trip of the `update_bucket` call `process_point` is in. `ReadAndScore` is the
bucket key, the plain GET, the score and the start of the update; `FinishPoint` is the rest of
the loop body of `process_batch`: count and publish if the update returned, skip
the point if it raised. `Poll` returns the next points of the worker's stream,
or loses them when it raises half way. `stop` may come at any time.
`|z| > threshold` is decided over integers: by comparing squares for `zscore`,
with twice the median and four times the MAD for `robust_zscore`. `RedisKey`
joins the parts of a bucket; ids are assumed to hold no `:`.

### MetricStreams

`cursor` is the position of the consumer that owns the Kafka partition, or the
last entry Redis has delivered; `committed`, `owner` and `pending` are the
broker's. `poll()` is several steps: `KafkaMessage` and `KafkaNone`, or
`XReadGroup`, `ParseAndAck` and `AllAcked`, because `RedisRaises`, `Crash`,
`AutoCommit` and `Rebalance` may come between them. A message that `_parse`
raises on (JSON that is not an object) ends the poll: what it had drained is
`gone`. `rewinds` counts how often the partition got a new consumer.

### IngestionPipeline and the ingestors

`phase` is where `start_async` is: at its `await`, in `poll()` before and after
the transport has answered, at `should_flush`, inside `on_batch`, or not running.
`fetched` is what the transport handed over and `poll()` has not looked at,
`drained` its list of records, `buffer`, `n_invalid` and `elapsed` are the
accumulator. An event has a `kind`: accepted by `SchemaValidator.validate`,
rejected by it or by `json.loads`, or `poison`: something on which they raise
what the adapter's `except` does not name (JSON that is not an object, bytes
that are not UTF-8). `Raise` is a poll that raises, for whatever reason:
`PoisonRaises`, `DeadLetterRaises` (the file cannot be written) or
`TransportRaises`. The loop and `poll()` are synchronous except for the `await`,
so `stop()` interleaves there and inside the callback only; a crash may come
between any two steps and keeps nothing but the dead-letter file.

The delivery contracts are the modules' own:

- Kafka: `position` of the consumer and `committed` offset of the group, which
  librdkafka moves up to the position at any time. A new consumer starts at the
  committed offset.
- Kinesis: `shard_iterator`, replaced by every `get_records`; new ones start at
  the tip. The service appends records, closes the shard (next iterator `None`)
  and lets an iterator expire.
- Pub/Sub: each message is ready, leased or acknowledged; leases end at any
  time, an acknowledge that raises may have taken effect, and one that comes
  after the lease ended may be void.

`MCIngestion` gives the pipeline one of the three adapters and asks the same
properties of each. `taken`, `lostAt`, `emitted`, `batched` and `gone` are history: every event
fetched, the fetches whose poll raised, the batches, and the events that no
batch will hold. Left out: a pipeline without a dead-letter writer (then
malformed events are only counted), a `start_async` called while an earlier one
of the same pipeline is still in its loop, and more than one partition, shard or
process at a time (each has a pipeline of its own and shares nothing else).

### ArtifactRegistry and EpisodeRetriever

Every file is `Absent`, opened for writing (`Empty`, `Opened`), filled, or
`Garbled` by two writers. A publisher writes the encoder, the index, the metadata and then the manifest,
each in two steps, and may die between any two. `register` is a read of the
manifest, an `open` that empties it, and a write. A service finds the bundle in
the manifest and loads its three files one by one; the metadata may also be
found under an older name (`OldPaths`). `layout` says where each bundle's files
lie. It may be any assignment of paths: the prefix the docstrings of
`FaissIndexer.save` and `ArtifactBundle` give is one for all builds
(`model_registry/behavioral_space`). `save` is history, per path: its last save,
or how it was broken off or met another.

`LoadedTogether` says what such files promise and what they do not. Index and
metadata are those of one save if the last save at their path came to its end
alone and none began between the two reads. What has a path of its own is the
bundle's that was asked for. A save over a shared prefix that dies between its
two files, or that overlaps another save or a load, does give a new index beside
old metadata, and a service that asks for an older bundle whose prefix was
written again gets the later index: both happen in the run. With mixed files
`search_topk` may describe a vector by another save's entry, or find none and
raise `IndexError`: then the search gives no answer and stores nothing (`Described`).

`EpisodeRetriever` adds the search: `SearchHit`, or `SearchMiss`, which asks the
index for `k + Margin` and filters, and `Store`, the SET that another service's
SET may precede. The key's hash is 8 hex digits of a sha256: `Hash` may be any
function, and searches whose hashes collide share an entry. `Missed` are the
ranks IVF does not probe. The cache is shared
by services that may have loaded different bundles. A query without an entity
is `Anyone`; an entity that is itself called `unknown` is assumed away.

### ReferenceEncoderService

A process is a caller of `update_profile_incremental` (`Update`, `UpdateBuilds`,
`UpdateWrites`, `UpdateFails`) or the refresh job (`RefreshStarts`,
`RefreshBuilds`, `RefreshWrites`, `RefreshEnds`); an encoder is loaded when the
process starts and stays. Records reach the provider (`Arrives`) and fall out of
its lookback (`Ages`). An embedding is the window of records it encodes and the
encoder version; `log` is the history of what a profile should hold.

### EventFeatures, ContrastiveTraining, SequenceEncoding

Metric names stand for all four categorical columns. `Doc`s are the metric
documents the Mongo sample may return; a row of the corpus is its document, its
place in the order and its time; a document whose expansion raises has none.
`WriteChunk` augments `ChunkSize` rows and writes a row group with both views,
one pair per row (the default of `--pairs-per-row`). An epoch shares the row
groups over `NumWorkers` workers; each reads a group (`ReadRowGroup`), cuts the
windows of the two views and yields them in any order (`TakeWindow`) until it
has a batch.
Weights are the sequence of epochs that made them; a numbered checkpoint and the
final file hold such weights, or are `Absent` or `Torn` (`torch.save` truncates,
then writes: `EpochWithCheckpoint` and `WriteCheckpoint`, `SaveFinal` and
`WriteFinal`). `Crash` leaves the disk as it is, and the next run starts `Fresh`,
with `Resume` from a checkpoint, or with `ResumeFinal` from the final weights.
These carry no `epoch_int`, so that trained weights start at epoch 1 again
(`train_tstcc.py:124`); afterwards checkpoint `k` holds more than `k` epochs.
`ResumeContinues` therefore counts from where the count began: in a readable file
every epoch follows on the one before it or is the first of a run from new or
final weights (`Continues`), and a checkpoint's number is that of its last epoch.

In `SequenceEncoding` an embedding is the space it lies in and the hidden states
pooled into it, a hidden state the events the GRU has read. So a padded position,
another row's length or another entity's event would be visible in it. Who feeds
`BatchEncoder` is outside `src/`; it is given the batches of `RecordEncoder`, and
the metadata it is indexed with are the entities of the rows.

## 3. Runs

| run | question | bounds |
|---|---|---|
| `store` | is the store an atomic sliding window; can a race lose, double or misreport an update, or starve a call without cause; do statistics follow the window; does every call end? | 2 clients, 2 buckets, 2 calls each, 2 retries, window 2: the third value of a bucket evicts, and a client can lose both attempts to the two calls of the other; fair |
| `store_double_fold` | (violated) is a value folded in at most once with redis-py? | 2 clients |
| `worker_overlap` | is a published verdict the test over values folded in before the point, when two workers share a series and redis-py retries a lost reply? | 2 workers, one per scoring method, 4 points, 2 buckets, window 2; 9 after 0 and 2 is an anomaly by median and MAD, 0 after 2 and 9 by mean and deviation |
| `worker_partitioned` | with one series per worker: fresh baselines, stop ends the loop, the stream is worked off | 2 workers, 5 points in 3 buckets, one global, fair |
| `ingestion` | is any record skipped, doubled, reordered or counted twice between the service and `on_batch`, over stops, a crash and a restart; is everything accepted emitted, and the backlog read? | each of three adapters, 2 events of any kinds, 2 starts, 4 deliveries since the process started (Pub/Sub: one redelivery), pages of 2; fair |
| `kafka_malformed` | (violated) does a malformed message cost only itself? | 2 messages |
| `metric_streams` | is any point processed twice without a change of hands, or skipped silently; does a bad point stop a worker? | both backends, 2 workers, 2 entries of any kinds, 3 starts or rebalances; fair |
| `behavioral_space` | are index and metadata of one save unless the save broke off or overlapped, whatever publishers leave behind; are answers genuine and as long as the over-fetch allows, from a cache shared by services on different bundles and by searches whose hashes collide? | 2 bundles on paths of their own or on one shared prefix, with older metadata at one path, 2 services (symmetric), 2 loads, 2 searches with `k` of 2 and margin 1, 3 or 5 episodes of which IVF may miss the farthest; answers are those of the last step |
| `retriever_cache_k` | (violated) are there at most `k` results? | 1 service, 2 searches, `k` of 1 and 2 |
| `reference_profiles` | is an update lost only to an overlapping one; do refreshes bring every profile back? | 1 entity (entities share only the refresh's list), 2 updaters, 2 records, windows of 1, history 2, 2 encoder versions, 2 updates; fair |
| `encoder` | are the positives of a batch the same events; is every window trained on once; does a resumed run continue, and what does a crash cost; is an embedding of its own entity's latest events only? | 3 samples of up to 4 documents of 3 entities, one of them with a document that cannot be expanded, chunks of 5 and row groups of 9 rows so that chunks straddle entities, shifts that move all rows or one before its neighbour, 2 loader workers, windows of 3, batches of 2, 3 runs of up to 3 epochs with a checkpoint every 2, each fresh, resumed from a checkpoint or from the final weights; all batches of up to 5 records of 2 entities with an unknown name, forward passes of 1 row, up to 2 IVF cells |
| `encoding_path` | (violated) are live records encoded as they were in training? | one document |

`CHECK_DEADLOCK FALSE`: the bounded models stop when every client has made its
calls, every stream is read, every start, load, search or run is used up; the
program waits for more input.

Two messages are enough for the pipeline: what can go wrong is that one message
takes another along, before or after it, in the same poll or in the next window.
Two processes and one file, key or profile are enough for a lost update. Five
events are two more than a window, so a batch can hold a full window of one
entity, a shorter one of another, and events that are cut off.

Fairness. The store's `FairSpec` has weak fairness of each client's own steps:
redis-py answers or raises (socket timeouts), `time.sleep` returns. Nothing
makes a client start a call. `FairWorkerSpec` has weak fairness of a worker's
`Work`: the loop is a plain `while` that yields to the event loop with
`asyncio.sleep(0)`. `stop()` is under no fairness. The pipeline's `FairSpec` has
weak fairness of the coroutine's steps (it awaits only `asyncio.sleep(0)`) and
of the clock. Of Kafka it assumes that a consumer that polls again and again is
handed the next message (strong fairness, because it stops polling in between);
of Kinesis and Pub/Sub nothing: every call may raise. `MetricStreams` assumes
the same of the workers and of Kafka, that the group gives a partition nobody
owns to a live member, and that Redis does not fail every `xreadgroup`. The
profile service assumes that the scheduler calls the refresh again and again
(its docstring: "Intended to be invoked by an external scheduler"), that the job
is restarted after an upgrade, and that building and writing an entity's profile
do not fail for ever. Training has no liveness property: an operator resumes it.

Findings:

1. `rolling_baseline_store.py:142` retries any `WatchError`, redis-py's for a
   connection lost after EXEC committed included: the value is folded in twice.
2. `kafka_ingestor.py:122` (and the same clause of the other two adapters)
   catches `JSONDecodeError` and `SchemaValidationError` only. JSON that is not
   an object makes `validate` raise `AttributeError`: `poll()` raises, the
   records it had drained are in no batch, the message is not dead-lettered, and
   Kafka's position has passed them. The docstrings say such messages are logged
   and skipped. With Pub/Sub nothing is lost, but the message comes back for ever.
3. `episode_retriever.py:88`: the cache key leaves out `k`, and a hit is returned
   whole: a search for one episode can get two, a search for two get one.
4. `context_encoder.py:42`: live records are encoded with the whole hour, training
   rows with the fractional hour that `apply_temporal_jitter` recomputes, although
   both docstrings promise the identical encoding.

Read off the code while modelling, without a run of their own:

- `rolling_baseline_store.py:165` evicts at most one value per update: a bucket
  written under a larger `window_size` never shrinks to a lowered one.
- `anomaly_scoring_worker.py:90` updates the baseline before `process_batch`
  publishes the score, where `anomaly_scoring_worker.py:5-6` and
  `phase0/PHASE0_DIRECTORY_STRUCTURE.md:175` and `:239-242` give the order score, publish,
  update. The score itself is computed before the update in both, which is what
  `ScoredBeforeFold` checks; the code's order shows when an update took effect and
  raised: the score of a value the baseline has learnt is dropped.
- `phase0/types.py:56` says count, mean and m2 stay at their defaults with the
  robust method; the store updates them always, and the scorer reads `count` for
  its cold-start test.
- `kinesis_ingestor.py:64`: when `get_shard_iterator` raises, the client is
  already set, and the next `start()` returns at once without an iterator.
- A crash between the `open` and the write of the manifest leaves a registry that
  no `register` or `load` can read any more. Which bundle is the newest is
  `max(versions)` for the profile service and `latest_version` for the bundle loader.
- The full build that replaces the update of a cold entity ignores `new_records`,
  and a profile mixes embeddings of two encoders until a refreshed process
  rebuilds it.
- `CurrentEmbedding.n_records` counts rows of the batch, which hold one row per
  entity: it is always 1.
- The scheduler's state is not in a checkpoint, so a resumed run restarts its
  cosine; `--resume` from the final weights restarts at epoch 1, without the
  optimizer's state.
- `drop_last` applies to each loader worker by itself: with enough windows for a
  batch in the file, an epoch can have none, and the program exits with 1.
- Masking names columns the long-format corpus does not have; the augmentation
  masks nothing. The command line of `tstcc_encoder.py` sorts a view by timestamp
  alone, so that its views may be misaligned; `train_tstcc` sorts by `pair_id`.
- Live events are in the order of time; the training windows are in the order of
  the corpus, in which the metrics of an entity come one after the other.
- `encode_without_projection` turns a flag of the shared encoder off and on again:
  two threads on one encoder would see each other's flag.

## 4. Proofs

Every theorem holds for all values of the constants, under the named `ASSUME`s
of the modules only, unless its statement says otherwise; the runs check the
same definitions on small instances. Each proof module states its inductive
invariant, proves `Init => Inv` and `Inv /\ [Next]_vars => Inv'` with one step
per action, and derives the properties from it.

**`RollingBaselineStoreProofs`**, for any clients, keys, values, window size per
client and retry limit:

- `TypeCorrect`: `TypeOK`, inductive as it stands.
- `ReadsStayFresh`: `FreshRead`, the invariant of the optimistic lock. A client
  about to EXEC with an unbroken WATCH holds the bucket that is stored. It is
  what makes the rest inductive: without it a commit could write anything.
- `NoUpdateIsLost`: `NoLostUpdate`, from `FreshRead`.
- `WindowIsExact`: `WindowIsLogSuffix`, by the lemma `ApplyUpdateRetainsLatest`
  (one update of a suffix of the history is a suffix of the longer history).
- `ConflictsPaid`: `ConflictsArePaidFor`, strengthened to `Paid`, which counts a
  broken WATCH that the client has not noticed yet as a conflict already.
- `FoldsAtMostOnce`, `OutcomesAreTruthful`: no call is folded in twice, and the
  caller is told what happened, for clients that raise on a lost connection. The
  hypothesis `~WatchErrorOnDisconnect` is needed: finding 1 is the other case. The
  invariant `CallsFoldOnce` says that the history has entries of calls that are
  over only; so a call that commits is not in it yet.
- `StoreIsSlidingWindow`: the refinement `ImplementsSlidingWindow`, for such
  clients when all have one window size. A commit is the call's atomic step, every
  other round trip a stutter or an end of the call. `BoundedWindows` is needed:
  one eviction per update keeps a window bounded only if it was bounded before.
- `StatisticsAreThoseOfTheWindow`: `StatisticsMatchWindow`. The history carries
  running totals (`Accumulates`); the sums of a bucket are the difference of two
  of them (`Telescopes`), which an update and an eviction keep; and by
  `FoldTheorems` such a difference is the sum over the window.

**`AnomalyScoringWorkerProofs`**: `WInv` is the store's `TypeOK` and what a worker
holds: the point it folds is the head of its batch, its update is the store's
call, and the batch is what it took from its stream. `WorkersUseTheStore` shows
that every worker step is a step of the store or leaves it alone, so the store's
theorems hold under the workers. `ScoresPrecedeFolds` and `SoleOwnersScoreFresh`
follow: the former because a call that has not begun is nowhere in the history
(`CallsBegun`), so that whatever it commits comes behind what its worker has read
(`ReadFirst`), retries and repeated folds included; the latter because between
`ReadAndScore` and the commit nobody else commits to a bucket only this worker has
points of (`FreshReads`).
`VerdictsMatchHistory` is end to end, for workers of one window size: the bucket a
worker reads has the tail of the history as its window, full or complete
(`WindowsAreFull`), with that window's sums; on such a bucket the worker's test is
the textbook one (`VerdictIs`): n times the spread of two running sums is the
two-pass variance (`TwoPassVariance`, along the samples), and sorting exists and
puts at a place the sample of that rank (`SortedRank`, by counting), so medians
agree; and what a result had seen stays in the history as it was (`RightVerdicts`).

**`MetricStreamsProofs`**: for any number of workers (finite, because copies in
hands are counted) and entries. `PaidFor`: handlings, copies in hand and what may
still be given out are bounded by the deliveries; `AllAccounted`: an entry the
group will not give out again is handled, in hand or dropped.

**`IngestionProofs`**: `PipelineNext` is the pipeline in front of any transport: it
fetches any events, and a poll returns or raises with any of them settled.
`PipelineInv` is inductive for it: what was fetched before the current poll is
emitted, buffered or lost, in order; what was fetched by it is drained or in hand
(`Conserved`); the counters are sums over the batches (`Counted`).
`IngestorsDriveThePipeline` is a refinement: whatever Kafka, Kinesis or Pub/Sub
and their adapters do is a step of that pipeline or leaves it alone. So
conservation, counters and dead letters are proved once. What each service takes
for consumed (`ConsumedStaysAccounted`) and the Pub/Sub retry
(`RaisedPollsAreRetried`) need an invariant of the adapter: `KafkaOK`,
`KinesisOK`, `PubSubOK`.

**`EpisodeRetrieverProofs`**: `Coherent`: a file with a path of its own only ever
holds its bundle's data and does not change once it is published (`OwnFile`), whoever
has read of a bundle in the manifest finds its metadata (`HasMetadata`), a path whose
last save came to its end alone holds that save's two files (`SaveOK`), and what a
service has loaded so far is of the save it began to read, unless another has begun
since (`LoadedSoFar`). Nothing is assumed of the paths. `OverlapsAreNoted`: two
publishers that register at the same time have met, and what one has read lists every registration that met no
other. `Provenance`: what the cache holds, a service is about to put there, or has
answered comes from a search for the same entity and query; lemmas about
filtering show that `Retrieve` is ordered, and explain a short answer by
counting. For every ranking, margin, and set of cells IVF misses.

**`ReferenceEncoderServiceProofs`**: `NothingLost`: a profile no update of which
was overtaken is the end of its history, and an update that nothing has overtaken
is about to write what it read and its own windows.

**`EncoderProofs`**: `LoaderInv`: a window is in one row group, worker's list,
partial batch or batch (`OnePlace`), and within an epoch at some place
(`SomePlace`); it needs that the round-robin shards cover the file and are
disjoint. `EpochsOK`: every readable file, and the weights in memory, continue
epoch by epoch, and `epoch_int` fits the weights it is about to train
(`EpochsCounted`); and of the epochs in memory those not on disk were not due to be
saved (`Kept`, `Saved`): a stage of these very weights is in the final file or in the
checkpoint whose number lies that many epochs back, while the file being written is
torn. Among `CheckpointFreq` epochs in a row one is due (`MultipleAmong`).
`PositivesAreThePairs`: the row groups hold both views of each of their corpus
rows, a pair once per view (`FilePaired`; `AugmentationPairs` shows it of one
chunk, `PairsStay` of the file). So in either view the rows of an entity, sorted,
are an increasing list of the same pair ids (`ViewIsSorted`); two such lists are
one (`IncreasingListsAgree`), whatever jitter did to the times; a window cuts both
at the same places (`WindowsAgree`); and `PositiveIndex` goes from one view of a
window to the other (`PositiveOf`).
`EmbeddingsAreTheirOwn`: `EncodingInv` says that the collated rows are, for every
entity once, the latest `SeqLen` events of its own in order of time, with their
number and padding behind (`HistoryIsEncoded`, `RowsAreHistories`); a forward pass
over such a row pools the states of just those events (`ForwardIsOwn`), whatever
shares the batch and wherever a chunk of rows ends (`Embedding`); names the
training file did not have are inside the tables (`NamesHaveRows`), and there are
at least as many training points as IVF cells (`EnoughPoints`). The assumptions are
that a sample and a batch are finite lists, the batch not empty, and the vocabulary
finite.

**`FoldTheorems`**: the community modules define sums and concatenations by
recursive functions over finite sets. That such a function exists, and that sums
and `FlattenSeq` do what their name says, is proved by the smallest element of a
set of naturals, since induction rules that take an operator cannot be used. The
last section is about ranks: an element's rank is its place, so a sort and a filter
list every element once and in order (`InOrderEnumerates`, `FilterPicks`).

Model-checked only:

- Liveness, out of the prover's reach: `ImplementsFairly`, `StopIsHonoured`,
  `StreamIsDrained`, `AcceptedIsEmitted`, `BacklogIsRead`, `StreamIsConsumed`,
  `RefreshRepairs`.
- The four violation runs, which need one counterexample each.

## 5. Plan

The components are modelled and every safety property of a passing run is a
theorem. What is left to prove is what the liveness properties rest on, as far as it is
safety: that a call of `update_bucket` gets along with its retries, that a step
of the pipeline under fairness brings an accepted event nearer to a batch, and
that a refresh leaves a profile at the newest records of its entity.

## 6. Not modelled

- Numerics: the arithmetic of the network's layers, gradients and the loss value,
  the learning rate, means and variances of profiles, floating-point drift of the
  running m2, value statistics of the corpus and the z-score of a value.
- More than one pair per row of the corpus (`--pairs-per-row`).
- Where randomness only picks data: anomaly injection, the synthetic corpus that
  replaces a sample with too few documents, and the values of the augmentation.
- Reports: latency statistics, log lines, the drift alarm that nobody stores.
- Field-by-field normalisation in `SchemaValidator`, ids that contain `:`, and
  JSON serialisation.
- A pipeline without a dead-letter writer (then malformed events are only
  counted), a second `start_async` of a pipeline still in its loop, and more than
  one partition, shard or subscription (each has a pipeline of its own).
- `VMContrastiveDataset` in `vm_augmentation.py`, which the training program does
  not use; the copies under `scripts/` and `phase1/legacy/`; the smoke tests and
  validation scripts, which drive the components above; and modules that exist
  only in the planning documents.

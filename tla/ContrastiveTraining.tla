------------------------- MODULE ContrastiveTraining -------------------------
(***************************************************************************)
(* From Mongo's metric documents to a trained encoder: the corpus          *)
(* (generate_corpus), the file of augmented pairs (generate_aug_pairs,     *)
(* vm_augmentation), the streaming dataset over DataLoader workers, NT-Xent*)
(* and the epochs of train_tstcc with its checkpoints, a crash at any      *)
(* moment and --resume.  Weights are the sequence of epochs that made them;*)
(* gradients, losses and values are left out.                              *)
(***************************************************************************)
EXTENDS EventFeatures, FiniteSetsExt

CONSTANTS
    Samples,        \* what Mongo may return: sequences of metric documents
    MaxResources,   \* entities kept of the sample (max_resources)
    RowsPerSeed,    \* minutes a document is expanded to (1440 in the code)
    CorpusRowGroup, \* rows of a row group of pretrain_corpus.parquet
    ChunkSize,      \* --batch-size of generate_aug_pairs
    Jitters,        \* shifts of a chunk's rows that augmentation may draw
    Stride, BatchSize, NumWorkers,
    CheckpointFreq, \* ENC_CHECKPOINT_FREQ
    MaxEpochs,      \* bound: --epochs of a run
    MaxRuns         \* bound: runs of train_tstcc

ASSUME TrainingAssumption ==
    /\ {MaxResources, RowsPerSeed, CorpusRowGroup, ChunkSize, Stride, BatchSize, NumWorkers, CheckpointFreq,
        MaxEpochs, MaxRuns} \subseteq Nat \ {0}
    /\ \A s \in Samples : s \in Seq(ToSet(s))

VARIABLES
    corpus,     \* rows of pretrain_corpus.parquet
    offset,     \* global_row_offset: corpus rows already augmented
    file,       \* row groups of aug_pairs.parquet
    job,        \* "augment", "down", "epoch", "checkpoint", "final", "saving"
    args,       \* epochs and cap (0: none) of the run
    epoch,      \* epoch_int
    weights,    \* <<run, epoch>> of the epochs the weights went through
    groups,     \* row groups each worker has still to read
    windows,    \* windows of the row group each worker is reading
    partial,    \* windows of each worker's unfinished batch
    batches,    \* batches trained on in this epoch
    disk,       \* numbered checkpoints: their weights, Absent or Torn
    final,      \* tstcc_encoder_final.pt: the same
    runs        \* runs of train_tstcc so far

fileVars   == <<corpus, offset, file>>
loaderVars == <<groups, windows, partial, batches>>
savedVars  == <<disk, final>>
trainVars  == <<fileVars, job, args, epoch, weights, loaderVars, savedVars, runs>>

Workers == 0 .. NumWorkers - 1
Absent == <<>>
Torn == <<<<0, 0>>>>

-----------------------------------------------------------------------------
(* The corpus: one block of minutes per usable document, in the order of    *)
(* the random sample.                                                       *)

\* The usable documents of a random choice of MaxResources of their entities.
PullMetricSeeds(docs) ==
    LET usable == {i \in DOMAIN docs : docs[i].readings >= 3}
        found == {docs[i].entity : i \in usable}
        kept == Min({MaxResources, Cardinality(found)})
    IN  {Filter(docs, {i \in usable : docs[i].entity \in chosen}) :
            chosen \in kSubset(kept, found)}

\* Anomalies change values and labels only.  A document whose expansion raises
\* is skipped.
ExpandSeed(d) ==
    IF d.expands
    THEN [i \in 1 .. RowsPerSeed |->
            [entity |-> d.entity, metric |-> d.metric,
             time |-> d.day * TicksPerDay + i - 1]]
    ELSE <<>>

BuildCorpus(seeds) == FlattenSeq([i \in DOMAIN seeds |-> ExpandSeed(seeds[i])])

-----------------------------------------------------------------------------
(* Pairs.                                                                   *)

\* One augmented copy.  The masked columns are those of a wide record; a
\* corpus row has none of them, so masking leaves it as it is.
Augment(r, id, view, delta) ==
    [pair |-> id, view |-> view, entity |-> r.entity, metric |-> r.metric,
     time |-> r.time + delta, hour |-> FractionalHour(r.time + delta),
     day |-> DayOfWeek(r.time + delta)]

\* One pair per row, the default of --pairs-per-row; jitter[v][i] is the shift
\* drawn for view v of row i.
AugmentBatch(rows, first, jitter) ==
    [k \in 1 .. 2 * Len(rows) |->
        LET i == (k + 1) \div 2
            view == IF k % 2 = 1 THEN "a" ELSE "b"
        IN  Augment(rows[i], first + i - 1, view, jitter[view][i])]

-----------------------------------------------------------------------------
(* The dataset: windows over the rows of one entity within one row group.   *)

\* Mutant: rows are sorted by time first, as the smoke test of the encoder does.
RowBeforeByTime(r, s) ==
    \/ r.time < s.time
    \/ r.time = s.time /\ r.metric < s.metric

RowBefore(r, s) ==
    \/ r.pair < s.pair
    \/ r.pair = s.pair /\ RowBeforeByTime(r, s)

PositionsIn(group, view, e) ==
    {i \in DOMAIN group : group[i].view = view /\ group[i].entity = e}

ViewRows(group, view, e) ==
    StableSort(group, PositionsIn(group, view, e), RowBefore)

\* The windows of row group g.
WindowsOf(g) ==
    LET group == file[g]
        of(view) == {r.entity : r \in {s \in ToSet(group) : s.view = view}}
        common == of("a") \cap of("b")
        rows(e) == Min({Cardinality(PositionsIn(group, v, e)) : v \in {"a", "b"}})
        starts(e) == {k \in 0 .. rows(e) - SeqLen : k % Stride = 0}
    IN  UNION {{[group |-> g, entity |-> e, start |-> k] : k \in starts(e)} :
               e \in common}

WindowRows(w, view) ==
    SubSeq(ViewRows(file[w.group], view, w.entity),
           w.start + 1, w.start + SeqLen)

\* Mutant: every worker reads the whole file.
ShardUnsplit(w) == [i \in 1 .. Len(file) |-> i]

\* Row groups of worker w, round-robin: range(w, n, NumWorkers), from 1.
Shard(w) ==
    [i \in 1 .. (Len(file) - w + NumWorkers - 1) \div NumWorkers |->
        w + 1 + (i - 1) * NumWorkers]

-----------------------------------------------------------------------------
(* NT-Xent over a batch of B windows: rows 0 .. 2B-1, view a then view b.   *)

LossRows(batch) ==
    LET B == Len(batch)
    IN  [i \in 0 .. 2 * B - 1 |->
            [window |-> batch[(i % B) + 1], view |-> IF i < B THEN "a" ELSE "b"]]

PositiveIndex(i, B) == (i + B) % (2 * B)

LossRejects(batch) == Len(batch) < 2

-----------------------------------------------------------------------------
TrainInit ==
    /\ \E s \in Samples : corpus \in {BuildCorpus(d) : d \in PullMetricSeeds(s)}
    /\ offset = 0
    /\ file = <<>>
    /\ job = "augment"
    /\ args = [epochs |-> 0, cap |-> 0]
    /\ epoch = 0
    /\ weights = <<>>
    /\ groups = [w \in Workers |-> <<>>]
    /\ windows = [w \in Workers |-> {}]
    /\ partial = [w \in Workers |-> <<>>]
    /\ batches = <<>>
    /\ disk = [k \in 1 .. MaxEpochs |-> Absent]
    /\ final = Absent
    /\ runs = 0

\* A chunk never crosses a row group of the corpus.
ChunkEnd ==
    Min({offset + ChunkSize, (offset \div CorpusRowGroup + 1) * CorpusRowGroup,
         Len(corpus)})

\* generate_pairs: the next chunk becomes a row group of the file.
WriteChunk ==
    /\ job = "augment"
    /\ offset < Len(corpus)
    /\ LET chunk == SubSeq(corpus, offset + 1, ChunkEnd)
       IN  \E a, b \in Jitters :
             /\ file' = Append(file, AugmentBatch(chunk, offset, [a |-> a, b |-> b]))
             /\ offset' = ChunkEnd
    /\ UNCHANGED <<corpus, job, args, epoch, weights, loaderVars, savedVars, runs>>

CloseFile ==
    /\ job = "augment"
    /\ offset = Len(corpus)
    /\ job' = "down"
    /\ UNCHANGED <<fileVars, args, epoch, weights, loaderVars, savedVars, runs>>

\* A fresh dataset and DataLoader for epoch n, or the final save.
BeginEpoch(n) ==
    /\ epoch' = n
    /\ job' = IF n > args'.epochs THEN "final" ELSE "epoch"
    /\ groups' = [w \in Workers |-> Shard(w)]
    /\ windows' = [w \in Workers |-> {}]
    /\ partial' = [w \in Workers |-> <<>>]
    /\ batches' = <<>>

Launch ==
    /\ job = "down"
    /\ runs < MaxRuns
    /\ runs' = runs + 1
    /\ \E n \in 1 .. MaxEpochs, c \in {0, 1} : args' = [epochs |-> n, cap |-> c]

Fresh ==
    /\ Launch
    /\ weights' = <<>>
    /\ BeginEpoch(1)
    /\ UNCHANGED <<fileVars, savedVars>>

Readable(saved) == saved \notin {Absent, Torn}

\* Mutant: the epoch of the checkpoint is trained again.
NextEpochSame(k) == k

NextEpoch(k) == k + 1

\* --resume with a numbered checkpoint.
Resume ==
    /\ Launch
    /\ \E k \in 1 .. MaxEpochs :
          /\ Readable(disk[k])
          /\ weights' = disk[k]
          /\ BeginEpoch(NextEpoch(k))
    /\ UNCHANGED <<fileVars, savedVars>>

\* --resume with the final weights, which carry no epoch_int: get()'s 0 makes
\* trained weights start at epoch 1 again.
ResumeFinal ==
    /\ Launch
    /\ Readable(final)
    /\ weights' = final
    /\ BeginEpoch(NextEpoch(0))
    /\ UNCHANGED <<fileVars, savedVars>>

Capped == args.cap > 0 /\ Len(batches) >= args.cap

\* Worker w reads its next row group.
ReadRowGroup(w) ==
    /\ job = "epoch"
    /\ ~Capped
    /\ windows[w] = {}
    /\ groups[w] # <<>>
    /\ windows' = [windows EXCEPT ![w] = WindowsOf(Head(groups[w]))]
    /\ groups' = [groups EXCEPT ![w] = Tail(@)]
    /\ UNCHANGED <<fileVars, job, args, epoch, weights, partial, batches, savedVars, runs>>

\* Worker w yields a window, in the shuffled order; a full batch is collated
\* and trained on.
TakeWindow(w) ==
    /\ job = "epoch"
    /\ ~Capped
    /\ \E x \in windows[w] :
          LET batch == Append(partial[w], x)
          IN  /\ windows' = [windows EXCEPT ![w] = @ \ {x}]
              /\ IF Len(batch) < BatchSize
                 THEN /\ partial' = [partial EXCEPT ![w] = batch]
                      /\ UNCHANGED batches
                 ELSE /\ ~LossRejects(batch)
                      /\ partial' = [partial EXCEPT ![w] = <<>>]
                      /\ batches' = Append(batches, batch)
    /\ UNCHANGED <<fileVars, job, args, epoch, weights, groups, savedVars, runs>>

Exhausted == \A w \in Workers : groups[w] = <<>> /\ windows[w] = {}

EpochOver == job = "epoch" /\ (Capped \/ Exhausted)

\* Mutant: only the last epoch is saved.
CheckpointDueAtEnd == epoch = args.epochs

CheckpointDue == epoch % CheckpointFreq = 0 \/ epoch = args.epochs

\* An epoch without a batch ends the program.
EmptyEpoch ==
    /\ EpochOver
    /\ batches = <<>>
    /\ job' = "down"
    /\ UNCHANGED <<fileVars, args, epoch, weights, loaderVars, savedVars, runs>>

\* torch.save truncates the checkpoint's file before it writes it.
EpochWithCheckpoint ==
    /\ EpochOver
    /\ batches # <<>>
    /\ CheckpointDue
    /\ weights' = Append(weights, <<runs, epoch>>)
    /\ disk' = [disk EXCEPT ![epoch] = Torn]
    /\ job' = "checkpoint"
    /\ UNCHANGED <<fileVars, args, epoch, loaderVars, final, runs>>

EpochWithoutCheckpoint ==
    /\ EpochOver
    /\ batches # <<>>
    /\ ~CheckpointDue
    /\ weights' = Append(weights, <<runs, epoch>>)
    /\ UNCHANGED args
    /\ BeginEpoch(epoch + 1)
    /\ UNCHANGED <<fileVars, savedVars, runs>>

WriteCheckpoint ==
    /\ job = "checkpoint"
    /\ disk' = [disk EXCEPT ![epoch] = weights]
    /\ UNCHANGED args
    /\ BeginEpoch(epoch + 1)
    /\ UNCHANGED <<fileVars, weights, final, runs>>

\* save_weights truncates tstcc_encoder_final.pt ...
SaveFinal ==
    /\ job = "final"
    /\ final' = Torn
    /\ job' = "saving"
    /\ UNCHANGED <<fileVars, args, epoch, weights, loaderVars, disk, runs>>

\* ... and writes it.
WriteFinal ==
    /\ job = "saving"
    /\ final' = weights
    /\ job' = "down"
    /\ UNCHANGED <<fileVars, args, epoch, weights, loaderVars, disk, runs>>

Crash ==
    /\ job \in {"epoch", "checkpoint", "final", "saving"}
    /\ job' = "down"
    /\ UNCHANGED <<fileVars, args, epoch, weights, loaderVars, savedVars, runs>>

TrainNext ==
    \/ WriteChunk \/ CloseFile \/ Fresh \/ Resume \/ ResumeFinal
    \/ \E w \in Workers : ReadRowGroup(w) \/ TakeWindow(w)
    \/ EmptyEpoch \/ EpochWithCheckpoint \/ EpochWithoutCheckpoint
    \/ WriteCheckpoint \/ SaveFinal \/ WriteFinal \/ Crash

TrainSpec == TrainInit /\ [][TrainNext]_trainVars

-----------------------------------------------------------------------------
(* Properties.                                                              *)

\* The corpus rows behind a row of the loss.
SourceOf(row) ==
    LET rows == WindowRows(row.window, row.view)
    IN  [i \in DOMAIN rows |-> rows[i].pair]

\* What NT-Xent pulls together is one stretch of events seen twice: the
\* positive of every row of a batch comes from the same corpus rows, in the
\* same order, through the other view, although the views are jittered,
\* sorted and cut independently of each other.
PositivesMatch ==
    \A n \in DOMAIN batches :
       LET rows == LossRows(batches[n])
       IN  \A i \in DOMAIN rows :
             LET p == rows[PositiveIndex(i, Len(batches[n]))]
             IN  /\ p.view # rows[i].view
                 /\ SourceOf(p) = SourceOf(rows[i])

AllWindows == UNION {WindowsOf(g) : g \in DOMAIN file}

\* An epoch trains on a window at most once, however the row groups are
\* shared out, and leaves out none but the last incomplete batch of each
\* worker, unless it was capped.
EachWindowOnce ==
    LET flat == FlattenSeq(batches)
        trained == ToSet(flat)
    IN  /\ Cardinality(trained) = Len(flat)
        /\ EpochOver /\ ~Capped =>
              /\ \A w \in Workers : Len(partial[w]) < BatchSize
              /\ AllWindows \ trained = UNION {ToSet(partial[w]) : w \in Workers}

\* Every epoch follows on the one before it, done by the same run or by one
\* that resumed it, or is the first of a new count: a run's first epoch.
Continues(ws) ==
    \A i \in DOMAIN ws :
       \/ ws[i][2] = 1 /\ (i > 1 => ws[i - 1][1] < ws[i][1])
       \/ i > 1 /\ ws[i][2] = ws[i - 1][2] + 1 /\ ws[i - 1][1] <= ws[i][1]

\* Whatever crashes and resumes lie behind it, a readable file holds weights
\* to which no epoch was done twice and from which none was left out, and a
\* checkpoint's number is that of the epoch last done.  It counts the epochs
\* since the weights were new or were taken from the final file, where
\* epoch_int starts again.
ResumeContinues ==
    /\ \A k \in 1 .. MaxEpochs :
          Readable(disk[k]) => Continues(disk[k]) /\ Last(disk[k])[2] = k
    /\ Readable(final) => Continues(final)

\* A crash, one inside torch.save included, never loses more than
\* CheckpointFreq epochs of the weights in memory: an earlier stage of these
\* very weights can be read back, whatever other runs left behind.
CrashCostsFewEpochs ==
    Len(weights) > CheckpointFreq =>
       \E saved \in {disk[k] : k \in 1 .. MaxEpochs} \cup {final} :
          /\ Readable(saved) /\ IsPrefix(saved, weights)
          /\ Len(saved) + CheckpointFreq >= Len(weights)

=============================================================================

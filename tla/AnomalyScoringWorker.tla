------------------------ MODULE AnomalyScoringWorker ------------------------
(***************************************************************************)
(* The scoring workers of phase0/workers/anomaly_scoring_worker.py on top  *)
(* of the shared RollingBaselineStore: every client of the store is one    *)
(* worker process running run_async.  A worker polls its stream for a      *)
(* batch and takes each point through process_point: find the bucket, read *)
(* its baseline, score against it, fold the point in (the store's retry    *)
(* loop, composed step by step), then count and publish the result.        *)
(* on_score is not a step: whatever it raises is swallowed and changes     *)
(* nothing.                                                                *)
(***************************************************************************)
EXTENDS RollingBaselineStore, FiniteSets, TLC

CONSTANTS
    GranularityHours,  \* BucketKeyResolver granularity_hours
    SplitWeekend,      \* BucketKeyResolver split_weekday_weekend
    NonSeasonal,       \* SeasonalityClassifier non_seasonal_metrics
    Seasonal,          \* its seasonal_metrics; all metrics for None
    Method,      \* per worker: ZScoreScorer method
    Inbox,       \* per worker: the points its stream delivers, in order
    MaxBatch,    \* bound: points one poll returns
    MinSamples,  \* ZScoreScorer min_samples
    Threshold    \* ZScoreScorer threshold

-----------------------------------------------------------------------------
(* The bucket of a point.  None is -1 for an hour; ids contain no ":", so   *)
(* that a Redis key is known by its parts.                                  *)

IsSeasonal(metric_name) == metric_name \in Seasonal \ NonSeasonal

Resolve(point) ==
    [vm_id |-> point.vm_id, metric_name |-> point.metric_name,
     hour |-> point.hour \div GranularityHours,
     is_weekend |-> IF ~SplitWeekend THEN "None"
                    ELSE IF point.weekday >= 5 THEN "True" ELSE "False"]

ResolveGlobal(point) ==
    [vm_id |-> point.vm_id, metric_name |-> point.metric_name,
     hour |-> -1, is_weekend |-> "None"]

RedisKey(bucket) ==
    LET series == <<bucket.vm_id, bucket.metric_name>>
        hour == "hour" \o ToString(bucket.hour)
    IN  IF bucket.hour = -1 /\ bucket.is_weekend = "None"
        THEN series \o <<"global">>
        ELSE series \o
             CASE bucket.is_weekend = "True" -> <<hour, "weekend">>
               [] bucket.is_weekend = "False" -> <<hour, "weekday">>
               [] OTHER -> <<hour>>

KeyOf(point) ==
    RedisKey(IF IsSeasonal(point.metric_name) THEN Resolve(point)
             ELSE ResolveGlobal(point))

ASSUME WorkerAssumption ==
    /\ 24 % GranularityHours = 0
    /\ SplitWeekend \in BOOLEAN
    /\ Method \in [Clients -> {"zscore", "robust_zscore"}]
    /\ MaxBatch \in Nat \ {0}
    /\ MinSamples \in Nat
    /\ Threshold \in Nat
    /\ \A w \in Clients :
          /\ Inbox[w] \in Seq(Range(Inbox[w])) /\ Len(Inbox[w]) <= MaxUpdates
          /\ \A i \in DOMAIN Inbox[w] :
                /\ KeyOf(Inbox[w][i]) \in Keys
                /\ Inbox[w][i].value \in Values

VARIABLES
    phase,      \* where each worker is in run_async
    running,    \* self._running
    stopAsked,  \* history: stop() has been called
    pos,        \* how many points of its inbox each worker has taken
    batch,      \* the points of the current batch not finished yet
    scored,     \* history: the results of process_point, in order
    reading,    \* the result computed for the point being folded in
    points_processed_total,
    anomalies_flagged_total

workerVars == <<phase, running, stopAsked, pos, batch, scored, reading,
                points_processed_total, anomalies_flagged_total>>

allVars == <<vars, workerVars>>

-----------------------------------------------------------------------------
(* ZScoreScorer.score.  With n samples of sum s and sum of squares q,       *)
(* mean = s/n and std^2 = (n*q - s^2)/n^2, so |z| > threshold is decided    *)
(* without division or roots.  The robust z-score is decided from twice the *)
(* median and four times the MAD.                                           *)

Abs(x) == IF x < 0 THEN -x ELSE x

Spread(b) == b.count * b.sumsq - b.sum * b.sum

\* Mutant: no test for a standard deviation of zero.
ZScoreExceedsUnguarded(b, x) ==
    LET distance == b.count * x - b.sum
    IN  distance * distance > Threshold * Threshold * Spread(b)

ZScoreExceeds(b, x) ==
    LET distance == b.count * x - b.sum
    IN  /\ Spread(b) # 0                          \* std == 0.0 gives z = 0.0
        /\ distance * distance > Threshold * Threshold * Spread(b)

\* sorted(), which statistics.median begins with.
Sorted(s) ==
    LET I == DOMAIN s
        order == CHOOSE p \in Bijection(I, I) :
                    \A i, j \in I : i < j => s[p[i]] <= s[p[j]]
    IN  [i \in I |-> s[order[i]]]

TwiceMedian(s) ==
    LET t == Sorted(s)
        half == Len(s) \div 2
    IN  IF Len(s) % 2 = 1 THEN 2 * t[half + 1] ELSE t[half] + t[half + 1]

TwiceDeviation(window, x) == Abs(2 * x - TwiceMedian(window))

FourMad(window) ==
    TwiceMedian([i \in DOMAIN window |-> TwiceDeviation(window, window[i])])

\* PHASE0_ROBUST_Z_CONSTANT is 0.6745.
RobustZExceeds(window, x) ==
    /\ window # <<>>
    /\ FourMad(window) # 0                        \* mad == 0.0 gives z = 0.0
    /\ 2 * 6745 * TwiceDeviation(window, x) > 10000 * Threshold * FourMad(window)

IsAnomaly(w, b, x) ==
    /\ b.count >= MinSamples                      \* not cold start
    /\ IF Method[w] = "zscore" THEN ZScoreExceeds(b, x)
       ELSE RobustZExceeds(b.window, x)

\* A ScoreResult.  call and seen are history: the update_bucket call that
\* folds the point in, and how many values had been folded into the bucket
\* when its baseline was read.
Score(w, k, x) ==
    [key |-> k, value |-> x, is_anomaly |-> IsAnomaly(w, store[k], x),
     call |-> Len(outcome[w]) + 1, seen |-> Len(folded[k])]

NoResult == [call |-> 0]

-----------------------------------------------------------------------------
WorkerInit ==
    /\ Init
    /\ phase = [w \in Clients |-> "created"]
    /\ running = [w \in Clients |-> FALSE]
    /\ stopAsked = [w \in Clients |-> FALSE]
    /\ pos = [w \in Clients |-> 0]
    /\ batch = [w \in Clients |-> <<>>]
    /\ scored = [w \in Clients |-> <<>>]
    /\ reading = [w \in Clients |-> NoResult]
    /\ points_processed_total = [w \in Clients |-> 0]
    /\ anomalies_flagged_total = [w \in Clients |-> 0]

\* run_async is entered: the reader is started, then _running is SET, even
\* when stop() has cleared it already.
Start(w) ==
    /\ phase[w] = "created"
    /\ phase' = [phase EXCEPT ![w] = "loop"]
    /\ running' = [running EXCEPT ![w] = TRUE]
    /\ UNCHANGED <<vars, stopAsked, pos, batch, scored, reading,
                   points_processed_total, anomalies_flagged_total>>

\* stop(), called from another thread, a signal handler or a callback.
Stop(w) ==
    /\ ~stopAsked[w]
    /\ running' = [running EXCEPT ![w] = FALSE]
    /\ stopAsked' = [stopAsked EXCEPT ![w] = TRUE]
    /\ UNCHANGED <<vars, phase, pos, batch, scored, reading,
                   points_processed_total, anomalies_flagged_total>>

\* Mutant: the loop ends only once its stream is empty.
ExitWhenDrained(w) ==
    /\ phase[w] = "loop"
    /\ batch[w] = <<>>
    /\ ~running[w]
    /\ pos[w] = Len(Inbox[w])
    /\ phase' = [phase EXCEPT ![w] = "stopped"]
    /\ UNCHANGED <<vars, running, stopAsked, pos, batch, scored, reading,
                   points_processed_total, anomalies_flagged_total>>

\* The while test fails: run_async returns.
Exit(w) ==
    /\ phase[w] = "loop"
    /\ batch[w] = <<>>
    /\ ~running[w]
    /\ phase' = [phase EXCEPT ![w] = "stopped"]
    /\ UNCHANGED <<vars, running, stopAsked, pos, batch, scored, reading,
                   points_processed_total, anomalies_flagged_total>>

\* poll() takes the next n points off the stream; process_batch gets them,
\* unless poll() raises half way: the points it had taken are then gone.
Poll(w) ==
    /\ phase[w] = "loop"
    /\ batch[w] = <<>>
    /\ running[w]
    /\ \E n \in 1 .. MaxBatch :
          /\ pos[w] + n <= Len(Inbox[w])
          /\ pos' = [pos EXCEPT ![w] = @ + n]
          /\ \/ batch' = [batch EXCEPT
                    ![w] = SubSeq(Inbox[w], pos[w] + 1, pos[w] + n)]
             \/ UNCHANGED batch
    /\ UNCHANGED <<vars, phase, running, stopAsked, scored, reading,
                   points_processed_total, anomalies_flagged_total>>

\* Mutant: update_bucket is started and not waited for.
ReadAndScoreNoWait(w) ==
    /\ phase[w] = "loop"
    /\ batch[w] # <<>>
    /\ LET point == Head(batch[w])
           key == KeyOf(point)
       IN  /\ UpdateBucket(w, key, point.value)
           /\ reading' = [reading EXCEPT ![w] = Score(w, key, point.value)]
    /\ UNCHANGED <<phase, running, stopAsked, pos, batch, scored,
                   points_processed_total, anomalies_flagged_total>>

\* process_point up to the first round trip of update_bucket: the baseline is
\* read (a plain GET, no WATCH), the point is scored, update_bucket is called.
ReadAndScore(w) ==
    /\ phase[w] = "loop"
    /\ batch[w] # <<>>
    /\ LET point == Head(batch[w])
           key == KeyOf(point)
       IN  /\ UpdateBucket(w, key, point.value)
           /\ reading' = [reading EXCEPT ![w] = Score(w, key, point.value)]
    /\ phase' = [phase EXCEPT ![w] = "folding"]
    /\ UNCHANGED <<running, stopAsked, pos, batch, scored,
                   points_processed_total, anomalies_flagged_total>>

\* The GET of get_bucket_state raises: the point is skipped.
ReadFails(w) ==
    /\ phase[w] = "loop"
    /\ batch[w] # <<>>
    /\ batch' = [batch EXCEPT ![w] = Tail(@)]
    /\ UNCHANGED <<vars, phase, running, stopAsked, pos, scored, reading,
                   points_processed_total, anomalies_flagged_total>>

\* Mutant: the baseline is updated first and the point scored against it.
FinishPointScoresLast(w, how) ==
    LET r == reading[w]
    IN  /\ phase' = [phase EXCEPT ![w] = "loop"]
        /\ batch' = [batch EXCEPT ![w] = Tail(@)]
        /\ reading' = [reading EXCEPT ![w] = NoResult]
        /\ scored' = IF how # "returned" THEN scored
                     ELSE [scored EXCEPT ![w] = Append(@,
                             [r EXCEPT !.seen = Len(folded'[r.key]),
                                       !.is_anomaly = IsAnomaly(w, store'[r.key], r.value)])]
        /\ UNCHANGED <<points_processed_total, anomalies_flagged_total>>

\* Mutant: what update_bucket raises ends run_async.
FinishPointEscapes(w, how) ==
    /\ phase' = [phase EXCEPT ![w] = IF how = "returned" THEN "loop" ELSE "stopped"]
    /\ batch' = [batch EXCEPT ![w] = IF how = "returned" THEN Tail(@) ELSE @]
    /\ reading' = [reading EXCEPT ![w] = NoResult]
    /\ UNCHANGED <<scored, points_processed_total, anomalies_flagged_total>>

\* update_bucket is over.  If it returned, the result is counted and
\* published; if it raised, the whole point is skipped, score included.
FinishPoint(w, how) ==
    /\ phase' = [phase EXCEPT ![w] = "loop"]
    /\ batch' = [batch EXCEPT ![w] = Tail(@)]
    /\ reading' = [reading EXCEPT ![w] = NoResult]
    /\ IF how = "returned"
       THEN /\ scored' = [scored EXCEPT ![w] = Append(@, reading[w])]
            /\ points_processed_total' =
                  [points_processed_total EXCEPT ![w] = @ + 1]
            /\ anomalies_flagged_total' =
                  [anomalies_flagged_total EXCEPT
                      ![w] = IF reading[w].is_anomaly THEN @ + 1 ELSE @]
       ELSE UNCHANGED <<scored, points_processed_total,
                        anomalies_flagged_total>>

\* One round trip of the update_bucket call process_point is in.
StoreStep(w) ==
    /\ phase[w] = "folding"
    /\ Step(w)
    /\ IF outcome'[w] = outcome[w]
       THEN UNCHANGED <<phase, batch, scored, reading,
                        points_processed_total, anomalies_flagged_total>>
       ELSE FinishPoint(w, outcome'[w][Len(outcome'[w])])
    /\ UNCHANGED <<running, stopAsked, pos>>

Work(w) ==
    \/ Start(w) \/ Exit(w) \/ Poll(w)
    \/ ReadAndScore(w) \/ ReadFails(w) \/ StoreStep(w)

WorkerNext == \E w \in Clients : Work(w) \/ Stop(w)

WorkerSpec == WorkerInit /\ [][WorkerNext]_allVars

\* The event loop keeps running a worker that can go on.
FairWorkerSpec == WorkerSpec /\ \A w \in Clients : WF_allVars(Work(w))

-----------------------------------------------------------------------------
(* Properties                                                               *)

ScoreResult == [key: Keys, value: Values, is_anomaly: BOOLEAN,
                call: Nat \ {0}, seen: Nat]

\* Types of the workers' own state; a worker is inside update_bucket exactly
\* while it is folding a point.
WorkerTypeOK ==
    /\ phase \in [Clients -> {"created", "loop", "folding", "stopped"}]
    /\ running \in [Clients -> BOOLEAN]
    /\ stopAsked \in [Clients -> BOOLEAN]
    /\ \A w \in Clients : pos[w] \in 0 .. Len(Inbox[w])
    /\ \A w \in Clients : batch[w] \in Seq(Range(Inbox[w]))
    /\ scored \in [Clients -> Seq(ScoreResult)]
    /\ reading \in [Clients -> ScoreResult \cup {NoResult}]
    /\ points_processed_total \in [Clients -> Nat]
    /\ anomalies_flagged_total \in [Clients -> Nat]
    /\ \A w \in Clients : phase[w] = "folding" <=> pc[w] # "idle"

\* "Score against the baseline as it stood BEFORE this point": a published
\* score rests on a baseline that its own point is not part of, although that
\* point may go in several times over lost replies, and although the score is
\* published after the point went in.
ScoredBeforeFold ==
    \A w \in Clients : \A i \in DOMAIN scored[w] :
       LET r == scored[w][i]
       IN  \A n \in DOMAIN folded[r.key] :
              CommittedFor(r.key, n, w, r.call) => r.seen < n

SoleOwner(w, k) ==
    \A v \in Clients \ {w} : \A i \in DOMAIN Inbox[v] : KeyOf(Inbox[v][i]) # k

\* With one worker per series (the intended partitioning) nothing is folded
\* between the baseline a score used and the scored point itself: the
\* unlocked read is not stale.
SoleOwnerScoresFresh ==
    \A w \in Clients : \A i \in DOMAIN scored[w] :
       LET r == scored[w][i]
       IN  SoleOwner(w, r.key) =>
              /\ r.seen + 1 \in DOMAIN folded[r.key]
              /\ CommittedFor(r.key, r.seen + 1, w, r.call)

\* The k-th smallest sample, by rank.
OrderStatistic(samples, k) ==
    CHOOSE v \in Range(samples) :
       /\ Cardinality({i \in DOMAIN samples : samples[i] < v}) < k
       /\ Cardinality({i \in DOMAIN samples : samples[i] <= v}) >= k

Middle(samples) ==
    LET n == Len(samples)
    IN  OrderStatistic(samples, (n + 1) \div 2) + OrderStatistic(samples, n \div 2 + 1)

\* The definitions of an anomaly over raw samples: |x - mean| > threshold *
\* std, both sides multiplied by n and squared, with the two-pass variance;
\* and 0.6745 * |x - median| > threshold * MAD.
ReferenceAnomaly(method, samples, x) ==
    LET n == Len(samples)
        s == SumFunction(samples)
        v == SumFunction([i \in 1 .. n |-> (n * samples[i] - s) * (n * samples[i] - s)])
        away(y) == Abs(2 * y - Middle(samples))
        mad == Middle([i \in 1 .. n |-> away(samples[i])])
    IN  /\ n > 0 /\ n >= MinSamples
        /\ \/ /\ method = "zscore"
              /\ v # 0
              /\ n * (n * x - s) * (n * x - s) > Threshold * Threshold * v
           \/ /\ method = "robust_zscore"
              /\ mad # 0
              /\ 13490 * away(x) > 10000 * Threshold * mad

\* The last values folded into k when only the first n had been.
HistoryWindow(k, n, size) ==
    LET m == IF n < size THEN n ELSE size
    IN  [i \in 1 .. m |-> folded[k][n - m + i].value]

\* End to end: the verdict of a published score is its worker's test over the
\* last WindowSize samples folded in before it was computed, although it is
\* computed from sums and a window other workers were updating.
VerdictMatchesHistory ==
    UniformWindow =>
       \A w \in Clients : \A i \in DOMAIN scored[w] :
          LET r == scored[w][i]
          IN  r.is_anomaly <=>
                 ReferenceAnomaly(Method[w],
                                  HistoryWindow(r.key, r.seen, WindowSize[w]),
                                  r.value)

\* stop() on a worker that is in its loop ends the loop, once the batch in
\* hand is finished.
StopIsHonoured ==
    \A w \in Clients :
       (stopAsked[w] /\ ~running[w] /\ phase[w] # "created")
          ~> phase[w] = "stopped"

\* A worker nobody stops works off its whole stream, whatever its points,
\* polls, reads and updates raise.
StreamIsDrained ==
    \A w \in Clients :
       <>(stopAsked[w] \/ (pos[w] = Len(Inbox[w]) /\ batch[w] = <<>>))

=============================================================================

----------------------- MODULE MCAnomalyScoringWorker -----------------------
(* TLC instances of AnomalyScoringWorker: two workers, buckets of two hours, *)
(* weekends apart, and a metric without seasons.                             *)
EXTENDS AnomalyScoringWorker

CONSTANTS w1, w2

Window2 == [w \in Clients |-> 2]

\* w1 scores by median and MAD, w2 by mean and deviation.
MethodOf == [w \in Clients |-> IF w = w1 THEN "robust_zscore" ELSE "zscore"]

P(metric, hour, weekday, x) ==
    [vm_id |-> "vm", metric_name |-> metric, hour |-> hour, weekday |-> weekday,
     value |-> x]

\* Both workers see the weekday mornings of one series (two partitions, or a
\* rebalance that overlaps); its weekends are in another bucket.  9 is an
\* outlier after 0 and 2, as is 0 after 2 and 9.
OverlappingInbox ==
    [w \in Clients |-> IF w = w1
                       THEN <<P("cpu", 2, 0, 2), P("cpu", 3, 0, 9)>>
                       ELSE <<P("cpu", 3, 4, 0), P("cpu", 2, 5, 2)>>]

\* One series per worker; the last point of w1 is of another bucket, the
\* series of w2 without seasons.
DisjointInbox ==
    [w \in Clients |-> IF w = w1
                       THEN <<P("cpu", 2, 0, 0), P("cpu", 3, 1, 2), P("cpu", 2, 5, 9)>>
                       ELSE <<P("disk", 2, 0, 0), P("disk", 8, 6, 9)>>]

KeySet == UNION {{KeyOf(Inbox[w][i]) : i \in DOMAIN Inbox[w]} : w \in Clients}

=============================================================================

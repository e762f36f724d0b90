------------------------ MODULE RollingBaselineStore ------------------------
(***************************************************************************)
(* The Redis-backed store of rolling baselines: phase0/baseline/           *)
(* rolling_baseline_store.py with the accumulator it keeps                 *)
(* (welford_accumulator.py).  Any number of clients (the scoring worker    *)
(* processes) fold values into the same bucket with the WATCH / GET /      *)
(* MULTI-SET-EXEC loop of update_bucket.  Every network round trip is an   *)
(* action of its own, so that the round trips of different clients         *)
(* interleave; the Python between two round trips belongs to the action    *)
(* before it.  A missing key and a bucket with no samples are the same     *)
(* state, because the code turns a missing key into BucketState().         *)
(***************************************************************************)
EXTENDS Integers, Sequences, Functions

CONSTANTS
    Clients,          \* processes that call update_bucket
    Keys,             \* Redis keys of the buckets
    Values,           \* metric values; floats are represented by integers
    WindowSize,       \* window_size each client was constructed with
    MaxWatchRetries,  \* MAX_WATCH_RETRIES
    WatchErrorOnDisconnect,  \* does the Redis client report a connection lost
                             \* under a WATCH as a WatchError (redis.Redis) or
                             \* raise the error itself
    MaxUpdates,       \* bound: update_bucket calls one client makes
    NoUpdate          \* a client that is not inside update_bucket

ASSUME ConstantsAssumption ==
    /\ Values \subseteq Int
    /\ WindowSize \in [Clients -> Nat]
    /\ MaxWatchRetries \in Nat
    /\ WatchErrorOnDisconnect \in BOOLEAN
    /\ MaxUpdates \in Nat
    /\ NoUpdate \notin [key: Keys, value: Values]

VARIABLES
    store,    \* Redis: the bucket stored under each key
    dirty,    \* Redis: has the key a client watches been written since WATCH
    pc,       \* the round trip each client is about to make
    upd,      \* the arguments of the update_bucket call in progress
    attempt,  \* WATCH conflicts met so far by the call in progress
    current,  \* the bucket the client read inside its WATCH
    outcome,  \* how each finished call of a client ended, in order
    folded,   \* history: the values folded into each bucket, in commit order
    began     \* history: Len(folded[key]) when the call in progress began

vars == <<store, dirty, pc, upd, attempt, current, outcome, folded, began>>

-----------------------------------------------------------------------------
(* The bucket and its statistics.  Welford's (count, mean, m2) is kept as   *)
(* (count, sum, sumsq), with mean = sum/count and m2 = sumsq - sum^2/count, *)
(* so that the arithmetic is exact.                                         *)

BucketState == [count: Nat, sum: Int, sumsq: Int, window: Seq(Values)]

EmptyBucket == [count |-> 0, sum |-> 0, sumsq |-> 0, window |-> <<>>]

WelfordUpdate(acc, x) ==
    [count |-> acc.count + 1, sum |-> acc.sum + x, sumsq |-> acc.sumsq + x * x]

\* Mutant: an eviction that forgets the second moment.
WelfordRemoveSumOnly(acc, x) == [acc EXCEPT !.count = @ - 1, !.sum = @ - x]

\* Called only on a non-empty accumulator: the ValueError branch needs
\* count <= 0, and apply_update has just made it at least 1.
WelfordRemove(acc, x) ==
    IF acc.count = 1
    THEN [count |-> 0, sum |-> 0, sumsq |-> 0]
    ELSE [count |-> acc.count - 1, sum |-> acc.sum - x, sumsq |-> acc.sumsq - x * x]

\* Mutant: pop() in place of pop(0).
ApplyUpdatePopsNewest(s, x, size) ==
    IF Len(s.window) + 1 > size THEN s
    ELSE LET acc == WelfordUpdate(s, x)
         IN  [count |-> acc.count, sum |-> acc.sum, sumsq |-> acc.sumsq,
              window |-> Append(s.window, x)]

\* At most ONE value is evicted, however long the stored window is.
ApplyUpdate(s, x, size) ==
    LET w     == Append(s.window, x)
        full  == Len(w) > size
        added == WelfordUpdate(s, x)
        acc   == IF full THEN WelfordRemove(added, Head(w)) ELSE added
    IN  [count |-> acc.count, sum |-> acc.sum, sumsq |-> acc.sumsq,
         window |-> IF full THEN Tail(w) ELSE w]

-----------------------------------------------------------------------------
(* History: the entry a commit adds to folded[k].  sum and sumsq are the    *)
(* totals of every value folded into the bucket up to and including it.     *)

TotalSum(log, n)   == IF n = 0 THEN 0 ELSE log[n].sum
TotalSumSq(log, n) == IF n = 0 THEN 0 ELSE log[n].sumsq

Entry(log, c, x) ==
    [client |-> c,
     call   |-> Len(outcome[c]) + 1,
     value  |-> x,
     sum    |-> TotalSum(log, Len(log)) + x,
     sumsq  |-> TotalSumSq(log, Len(log)) + x * x]

Outcomes == {"returned", "exhausted", "failed"}

Updates == [key: Keys, value: Values]

Init ==
    /\ store   = [k \in Keys |-> EmptyBucket]
    /\ dirty   = [c \in Clients |-> FALSE]
    /\ pc      = [c \in Clients |-> "idle"]
    /\ upd     = [c \in Clients |-> NoUpdate]
    /\ attempt = [c \in Clients |-> 0]
    /\ current = [c \in Clients |-> EmptyBucket]
    /\ outcome = [c \in Clients |-> <<>>]
    /\ folded  = [k \in Keys |-> <<>>]
    /\ began   = [c \in Clients |-> 0]

-----------------------------------------------------------------------------
(* update_bucket, one action per round trip.                                *)

\* The call is made; the loop of at most MaxWatchRetries attempts starts.
UpdateBucket(c, k, x) ==
    /\ pc[c] = "idle"
    /\ Len(outcome[c]) < MaxUpdates
    /\ pc' = [pc EXCEPT ![c] = "watch"]
    /\ upd' = [upd EXCEPT ![c] = [key |-> k, value |-> x]]
    /\ began' = [began EXCEPT ![c] = Len(folded[k])]
    /\ UNCHANGED <<store, dirty, attempt, current, outcome, folded>>

\* Mutant: a retry loop without its bound.
WatchUnbounded(c) ==
    /\ pc[c] = "watch"
    /\ pc' = [pc EXCEPT ![c] = "get"]
    /\ dirty' = [dirty EXCEPT ![c] = FALSE]
    /\ UNCHANGED <<store, upd, attempt, current, outcome, folded, began>>

\* WATCH: from here on a write of the key by another client is noticed.
Watch(c) ==
    /\ pc[c] = "watch"
    /\ attempt[c] < MaxWatchRetries
    /\ pc' = [pc EXCEPT ![c] = "get"]
    /\ dirty' = [dirty EXCEPT ![c] = FALSE]
    /\ UNCHANGED <<store, upd, attempt, current, outcome, folded, began>>

\* GET inside the WATCH.
Get(c) ==
    /\ pc[c] = "get"
    /\ pc' = [pc EXCEPT ![c] = "exec"]
    /\ current' = [current EXCEPT ![c] = store[upd[c].key]]
    /\ UNCHANGED <<store, dirty, upd, attempt, outcome, folded, began>>

\* The call is over: its locals go out of scope and the pipeline is reset.
Finish(c, how) ==
    /\ pc' = [pc EXCEPT ![c] = "idle"]
    /\ outcome' = [outcome EXCEPT ![c] = Append(@, how)]
    /\ upd' = [upd EXCEPT ![c] = NoUpdate]
    /\ attempt' = [attempt EXCEPT ![c] = 0]
    /\ current' = [current EXCEPT ![c] = EmptyBucket]
    /\ began' = [began EXCEPT ![c] = 0]

\* Clients whose WATCH covers k at this moment.
Watching(k) == {c \in Clients : pc[c] \in {"get", "exec"} /\ upd[c].key = k}

\* EXEC succeeds on the server: the state computed from the read bucket
\* replaces whatever is stored, and every other WATCH on the key is broken.
Commit(c) ==
    LET k == upd[c].key
        x == upd[c].value
    IN  /\ store' = [store EXCEPT
               ![k] = ApplyUpdate(current[c], x, WindowSize[c])]
        /\ folded' = [folded EXCEPT ![k] = Append(@, Entry(@, c, x))]
        /\ dirty' = [d \in Clients |->
               IF d = c THEN FALSE ELSE dirty[d] \/ d \in Watching(k)]

\* Mutant: a plain SET in place of MULTI/EXEC.
ExecUnchecked(c) == pc[c] = "exec" /\ Commit(c) /\ Finish(c, "returned")

Exec(c) ==
    /\ pc[c] = "exec"
    /\ ~dirty[c]
    /\ Commit(c)
    /\ Finish(c, "returned")

\* The WatchError branch: back off, then the next attempt of the loop.
Retry(c) ==
    /\ pc' = [pc EXCEPT ![c] = "watch"]
    /\ attempt' = [attempt EXCEPT ![c] = @ + 1]
    /\ current' = [current EXCEPT ![c] = EmptyBucket]
    /\ UNCHANGED <<upd, outcome, began>>

\* Mutant: the None of an aborted EXEC taken for success.
ExecAbortedIgnored(c) ==
    /\ pc[c] = "exec"
    /\ dirty[c]
    /\ Finish(c, "returned")
    /\ dirty' = [dirty EXCEPT ![c] = FALSE]
    /\ UNCHANGED <<store, folded>>

\* EXEC is refused: the key changed underneath us.
ExecAborted(c) ==
    /\ pc[c] = "exec"
    /\ dirty[c]
    /\ Retry(c)
    /\ dirty' = [dirty EXCEPT ![c] = FALSE]
    /\ UNCHANGED <<store, folded>>

\* Mutant: the error is raised one attempt too late.
ExhaustedLate(c) ==
    /\ pc[c] = "watch"
    /\ attempt[c] > MaxWatchRetries
    /\ Finish(c, "exhausted")
    /\ UNCHANGED <<store, dirty, folded>>

\* The for loop has run out of attempts: RuntimeError.
Exhausted(c) ==
    /\ pc[c] = "watch"
    /\ attempt[c] = MaxWatchRetries
    /\ Finish(c, "exhausted")
    /\ UNCHANGED <<store, dirty, folded>>

\* The connection fails before there is a WATCH: the error is re-raised.
ConnectionError(c) ==
    /\ pc[c] = "watch"
    /\ attempt[c] < MaxWatchRetries
    /\ Finish(c, "failed")
    /\ UNCHANGED <<store, dirty, folded>>

\* Mutant: every exception is retried, not only WatchError.
LoseConnectionRetried(c) == Retry(c)

\* What a connection lost under a WATCH makes of the call.
LoseConnection(c) ==
    \/ WatchErrorOnDisconnect /\ Retry(c)
    \/ ~WatchErrorOnDisconnect /\ Finish(c, "failed")

\* The connection is lost under a WATCH before the server has committed.
Disconnected(c) ==
    /\ pc[c] \in {"get", "exec"}
    /\ LoseConnection(c)
    /\ dirty' = [dirty EXCEPT ![c] = FALSE]
    /\ UNCHANGED <<store, folded>>

\* The connection is lost after EXEC committed and before its reply.
ReplyLost(c) ==
    /\ pc[c] = "exec"
    /\ ~dirty[c]
    /\ Commit(c)
    /\ LoseConnection(c)

Step(c) ==
    \/ Watch(c)
    \/ Get(c)
    \/ Exec(c)
    \/ ExecAborted(c)
    \/ Exhausted(c)
    \/ ConnectionError(c)
    \/ Disconnected(c)
    \/ ReplyLost(c)

Next ==
    \E c \in Clients :
        \/ \E k \in Keys, x \in Values : UpdateBucket(c, k, x)
        \/ Step(c)

Spec == Init /\ [][Next]_vars

\* A client that has started a call goes on with it: redis-py answers or
\* raises, and time.sleep returns.
FairSpec == Spec /\ \A c \in Clients : WF_vars(Step(c))

-----------------------------------------------------------------------------
(* Properties                                                               *)

PcValues == {"idle", "watch", "get", "exec"}

LogEntry == [client: Clients, call: Nat, value: Values, sum: Int, sumsq: Int]

\* Types: the bucket under every key, and the locals of every client.
TypeOK ==
    /\ store \in [Keys -> BucketState]
    /\ dirty \in [Clients -> BOOLEAN]
    /\ pc \in [Clients -> PcValues]
    /\ upd \in [Clients -> Updates \cup {NoUpdate}]
    /\ \A c \in Clients : pc[c] # "idle" <=> upd[c] # NoUpdate
    /\ attempt \in [Clients -> 0 .. MaxWatchRetries]
    /\ \A c \in Clients :
          pc[c] \in {"get", "exec"} => attempt[c] < MaxWatchRetries
    /\ current \in [Clients -> BucketState]
    /\ outcome \in [Clients -> Seq(Outcomes)]
    /\ folded \in [Keys -> Seq(LogEntry)]
    /\ began \in [Clients -> Nat]

\* The point of the WATCH loop (module docstring, "Concurrency note"): a
\* write of a bucket is one update applied to what is stored at that moment,
\* never to an older bucket.
NoLostUpdate ==
    [][\A k \in Keys : store'[k] # store[k] =>
          \E c \in Clients :
             /\ upd[c] # NoUpdate
             /\ upd[c].key = k
             /\ store'[k] = ApplyUpdate(store[k], upd[c].value, WindowSize[c])
      ]_vars

\* Bucket b retains exactly the latest values of a history, in order, and
\* counts them.
RetainsLatest(b, log) ==
    /\ b.count = Len(b.window)
    /\ Len(b.window) <= Len(log)
    /\ \A i \in 1 .. Len(b.window) :
          b.window[i] = log[Len(log) - Len(b.window) + i].value

\* The window of a bucket is exactly the most recently committed values, in
\* commit order, and count is its length: no value is skipped, duplicated
\* or reordered whatever the clients' interleaving.
WindowIsLogSuffix == \A k \in Keys : RetainsLatest(store[k], folded[k])

\* The incremental statistics agree with the window after any number of
\* updates and evictions, so mean and m2 are those of the retained samples.
StatisticsMatchWindow ==
    \A k \in Keys :
       LET w == store[k].window
       IN  /\ store[k].sum = SumFunction(w)
           /\ store[k].sumsq = SumFunction([i \in DOMAIN w |-> w[i] * w[i]])

UniformWindow == \A c, d \in Clients : WindowSize[c] = WindowSize[d]

CommittedFor(k, n, c, i) == folded[k][n].client = c /\ folded[k][n].call = i

\* One call of update_bucket folds its value in at most once, retries and
\* lost replies included (each sample counts once in its baseline).
FoldedAtMostOnce ==
    \A j, k \in Keys : \A m \in DOMAIN folded[j], n \in DOMAIN folded[k] :
       CommittedFor(j, m, folded[k][n].client, folded[k][n].call)
          => j = k /\ m = n

\* What the caller is told is what happened: a call that returned has been
\* folded in, one that ran out of retries has not.
OutcomeIsTruthful ==
    \A c \in Clients : \A i \in DOMAIN outcome[c] :
       LET inLog == \E k \in Keys : \E n \in DOMAIN folded[k] :
                       CommittedFor(k, n, c, i)
       IN  /\ outcome[c][i] = "returned" => inLog
           /\ outcome[c][i] = "exhausted" => ~inLog

\* Lock-freedom: every lost race is paid for by a commit of somebody else
\* made during the call, so RuntimeError means that MaxWatchRetries values
\* went into the bucket meanwhile ("unexpectedly high contention").
ConflictsArePaidFor ==
    ~WatchErrorOnDisconnect =>
       \A c \in Clients : pc[c] # "idle" =>
          attempt[c] <= Len(folded[upd[c].key]) - began[c]

-----------------------------------------------------------------------------
(* Refinement: clients with one window size and a Redis client that raises  *)
(* on a lost connection see the atomic sliding window.                      *)

Promise ==
    INSTANCE SlidingWindow
    WITH Window  <- WindowSize[CHOOSE c \in Clients : TRUE],
         NoCall  <- NoUpdate,
         samples <- [k \in Keys |-> store[k].window],
         call    <- upd

\* Linearizability: every behaviour of the WATCH/GET/EXEC loops, whatever
\* their interleaving and failures, is one of the atomic sliding window.
ImplementsSlidingWindow == Promise!Spec

\* ... and every call ends there too.
ImplementsFairly == Promise!FairSpec

=============================================================================

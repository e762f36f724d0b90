--------------------- MODULE RollingBaselineStoreProofs ---------------------
(***************************************************************************)
(* Theorems about RollingBaselineStore, for every number of clients, keys  *)
(* and updates, every window size and every retry limit.                   *)
(***************************************************************************)
EXTENDS RollingBaselineStore, FoldTheorems

-----------------------------------------------------------------------------
(* The pure part: what apply_update returns.                                *)

LEMMA SquareIsInt == \A a \in Int : a * a \in Int
  OBVIOUS

\* Folding a value into a bucket gives a bucket.
LEMMA ApplyUpdateType ==
    ASSUME NEW s \in BucketState, NEW x \in Values, NEW size \in Nat
    PROVE  ApplyUpdate(s, x, size) \in BucketState
<1> DEFINE w == Append(s.window, x)
           added == WelfordUpdate(s, x)
           removed == WelfordRemove(added, Head(w))
           new == ApplyUpdate(s, x, size)
<1>1. x \in Int /\ x * x \in Int
  BY ConstantsAssumption, SquareIsInt
<1>2. /\ s.window \in Seq(Values)
      /\ s.count \in Nat /\ s.sum \in Int /\ s.sumsq \in Int
  BY DEF BucketState
<1>3. w \in Seq(Values) /\ w # <<>>
  BY <1>2, AppendProperties
<1>4. Head(w) \in Values /\ Tail(w) \in Seq(Values)
  BY <1>3, HeadTailProperties
<1>5. Head(w) \in Int /\ Head(w) * Head(w) \in Int
  BY <1>4, ConstantsAssumption, SquareIsInt
<1>6. added.count \in Nat \ {0} /\ added.sum \in Int /\ added.sumsq \in Int
  BY <1>1, <1>2 DEF WelfordUpdate
<1>7. removed.count \in Nat /\ removed.sum \in Int /\ removed.sumsq \in Int
  BY <1>5, <1>6 DEF WelfordRemove
<1>8. CASE Len(w) > size
  <2>1. new = [count |-> removed.count, sum |-> removed.sum,
               sumsq |-> removed.sumsq, window |-> Tail(w)]
    BY <1>8 DEF ApplyUpdate
  <2>2. QED
    BY <2>1, <1>4, <1>7 DEF BucketState
<1>9. CASE ~(Len(w) > size)
  <2>1. new = [count |-> added.count, sum |-> added.sum,
               sumsq |-> added.sumsq, window |-> w]
    BY <1>9 DEF ApplyUpdate
  <2>2. QED
    BY <2>1, <1>3, <1>6 DEF BucketState
<1>10. QED
  BY <1>8, <1>9

-----------------------------------------------------------------------------
(* Type correctness.                                                        *)

LEMMA InitTypeOK == Init => TypeOK
<1>1. EmptyBucket \in BucketState
  BY EmptySeq DEF EmptyBucket, BucketState
<1>2. QED
  BY <1>1, EmptySeq, ConstantsAssumption DEF Init, TypeOK, PcValues

\* The entry a commit appends to the history is a log entry.
LEMMA EntryType ==
    ASSUME TypeOK, NEW c \in Clients, NEW k \in Keys, NEW x \in Values
    PROVE  Entry(folded[k], c, x) \in LogEntry
<1> DEFINE log == folded[k]
<1>1. log \in Seq(LogEntry) /\ Len(log) \in Nat
  BY LenProperties DEF TypeOK
<1>2. TotalSum(log, Len(log)) \in Int /\ TotalSumSq(log, Len(log)) \in Int
  <2>1. CASE Len(log) = 0
    BY <2>1 DEF TotalSum, TotalSumSq
  <2>2. CASE Len(log) # 0
    <3>1. log[Len(log)] \in LogEntry
      BY <1>1, <2>2, ElementOfSeq
    <3>2. QED
      BY <2>2, <3>1 DEF TotalSum, TotalSumSq, LogEntry
  <2>3. QED
    BY <2>1, <2>2
<1>3. x \in Int /\ x * x \in Int
  BY ConstantsAssumption, SquareIsInt
<1>4. Len(outcome[c]) + 1 \in Nat
  BY LenProperties DEF TypeOK
<1>5. TotalSum(log, Len(log)) + x \in Int /\ TotalSumSq(log, Len(log)) + x * x \in Int
  BY <1>2, <1>3
<1>6. QED
  BY <1>4, <1>5 DEF Entry, LogEntry

\* The locals of a call that ends, and of one that goes round the loop again.
LEMMA FinishType ==
    ASSUME TypeOK, NEW c \in Clients, NEW how \in Outcomes, Finish(c, how)
    PROVE  /\ pc' \in [Clients -> PcValues]
           /\ upd' \in [Clients -> Updates \cup {NoUpdate}]
           /\ \A d \in Clients : pc'[d] # "idle" <=> upd'[d] # NoUpdate
           /\ attempt' \in [Clients -> 0 .. MaxWatchRetries]
           /\ \A d \in Clients :
                 pc'[d] \in {"get", "exec"} => attempt'[d] < MaxWatchRetries
           /\ current' \in [Clients -> BucketState]
           /\ outcome' \in [Clients -> Seq(Outcomes)]
           /\ began' \in [Clients -> Nat]
<1>1. EmptyBucket \in BucketState
  BY EmptySeq DEF EmptyBucket, BucketState
<1>2. Append(outcome[c], how) \in Seq(Outcomes)
  BY AppendProperties DEF TypeOK
<1>3. QED
  BY <1>1, <1>2, ConstantsAssumption DEF Finish, TypeOK, PcValues

LEMMA RetryType ==
    ASSUME TypeOK, NEW c \in Clients, pc[c] \in {"get", "exec"}, Retry(c)
    PROVE  /\ pc' \in [Clients -> PcValues]
           /\ upd' \in [Clients -> Updates \cup {NoUpdate}]
           /\ \A d \in Clients : pc'[d] # "idle" <=> upd'[d] # NoUpdate
           /\ attempt' \in [Clients -> 0 .. MaxWatchRetries]
           /\ \A d \in Clients :
                 pc'[d] \in {"get", "exec"} => attempt'[d] < MaxWatchRetries
           /\ current' \in [Clients -> BucketState]
           /\ outcome' \in [Clients -> Seq(Outcomes)]
           /\ began' \in [Clients -> Nat]
<1>1. EmptyBucket \in BucketState
  BY EmptySeq DEF EmptyBucket, BucketState
<1>2. attempt[c] + 1 \in 0 .. MaxWatchRetries
  BY ConstantsAssumption DEF TypeOK
<1>3. QED
  BY <1>1, <1>2 DEF Retry, TypeOK, PcValues

\* Redis after a commit.
LEMMA CommitType ==
    ASSUME TypeOK, NEW c \in Clients, pc[c] = "exec", Commit(c)
    PROVE  /\ store' \in [Keys -> BucketState]
           /\ folded' \in [Keys -> Seq(LogEntry)]
           /\ dirty' \in [Clients -> BOOLEAN]
<1> DEFINE k == upd[c].key
           x == upd[c].value
<1>1. k \in Keys /\ x \in Values
  BY DEF TypeOK, Updates
<1>2. ApplyUpdate(current[c], x, WindowSize[c]) \in BucketState
  BY <1>1, ApplyUpdateType, ConstantsAssumption DEF TypeOK
<1>3. Append(folded[k], Entry(folded[k], c, x)) \in Seq(LogEntry)
  BY <1>1, EntryType, AppendProperties DEF TypeOK
<1>4. dirty' \in [Clients -> BOOLEAN]
  BY DEF Commit, TypeOK
<1>5. QED
  BY <1>1, <1>2, <1>3, <1>4 DEF Commit, TypeOK

LEMMA NextTypeOK == TypeOK /\ [Next]_vars => TypeOK'
<1> SUFFICES ASSUME TypeOK, [Next]_vars
             PROVE  TypeOK'
  OBVIOUS
<1>1. ASSUME NEW c \in Clients, NEW k \in Keys, NEW x \in Values,
             UpdateBucket(c, k, x)
      PROVE  TypeOK'
  <2>1. [key |-> k, value |-> x] \in Updates /\ [key |-> k, value |-> x] # NoUpdate
    BY ConstantsAssumption DEF Updates
  <2>2. Len(folded[k]) \in Nat
    BY LenProperties DEF TypeOK
  <2>3. QED
    BY <1>1, <2>1, <2>2 DEF UpdateBucket, TypeOK, PcValues
<1>2. ASSUME NEW c \in Clients, Watch(c)
      PROVE  TypeOK'
  BY <1>2 DEF Watch, TypeOK, PcValues
<1>3. ASSUME NEW c \in Clients, Get(c)
      PROVE  TypeOK'
  BY <1>3 DEF Get, TypeOK, PcValues, Updates
<1>4. ASSUME NEW c \in Clients, Exec(c)
      PROVE  TypeOK'
  BY <1>4, FinishType, CommitType DEF Exec, TypeOK, Outcomes
<1>5. ASSUME NEW c \in Clients, ExecAborted(c)
      PROVE  TypeOK'
  BY <1>5, RetryType DEF ExecAborted, TypeOK
<1>6. ASSUME NEW c \in Clients, Exhausted(c)
      PROVE  TypeOK'
  BY <1>6, FinishType DEF Exhausted, TypeOK, Outcomes
<1>7. ASSUME NEW c \in Clients, ConnectionError(c)
      PROVE  TypeOK'
  BY <1>7, FinishType DEF ConnectionError, TypeOK, Outcomes
<1>8. ASSUME NEW c \in Clients, Disconnected(c)
      PROVE  TypeOK'
  BY <1>8, FinishType, RetryType DEF Disconnected, LoseConnection, TypeOK, Outcomes
<1>9. ASSUME NEW c \in Clients, ReplyLost(c)
      PROVE  TypeOK'
  BY <1>9, FinishType, RetryType, CommitType DEF ReplyLost, LoseConnection, TypeOK, Outcomes
<1>10. CASE UNCHANGED vars
  BY <1>10 DEF vars, TypeOK
<1>11. QED
  BY <1>1, <1>2, <1>3, <1>4, <1>5, <1>6, <1>7, <1>8, <1>9, <1>10 DEF Next, Step

\* Type correctness of the store and of every client's call.
THEOREM TypeCorrect == Spec => []TypeOK
<1>1. QED
  BY InitTypeOK, NextTypeOK, PTL DEF Spec

-----------------------------------------------------------------------------
(* The optimistic lock.                                                     *)

\* While its WATCH is unbroken a client holds the bucket that is stored; a
\* WATCH is marked broken only while there is one.
FreshRead ==
    \A c \in Clients :
       /\ pc[c] = "exec" /\ ~dirty[c] => current[c] = store[upd[c].key]
       /\ dirty[c] => pc[c] \in {"get", "exec"}

LEMMA InitFreshRead == Init => FreshRead
  BY DEF Init, FreshRead

\* A commit by c breaks every other WATCH of the key it writes.
LEMMA CommitBreaksWatches ==
    ASSUME TypeOK, FreshRead, NEW c \in Clients, pc[c] = "exec", Commit(c),
           NEW d \in Clients \ {c},
           pc'[d] = pc[d], upd'[d] = upd[d], current'[d] = current[d]
    PROVE  /\ pc'[d] = "exec" /\ ~dirty'[d] => current'[d] = store'[upd'[d].key]
           /\ dirty'[d] => pc'[d] \in {"get", "exec"}
<1>1. upd[c].key \in Keys
  BY DEF TypeOK, Updates
<1>2. pc[d] = "exec" => upd[d].key \in Keys
  BY DEF TypeOK, Updates
<1>3. CASE pc[d] \in {"get", "exec"} /\ upd[d].key = upd[c].key
  BY <1>3 DEF Commit, Watching
<1>4. CASE ~(pc[d] \in {"get", "exec"} /\ upd[d].key = upd[c].key)
  <2>1. dirty'[d] = dirty[d]
    BY <1>4 DEF Commit, Watching, TypeOK
  <2>2. pc[d] = "exec" => store'[upd[d].key] = store[upd[d].key]
    BY <1>1, <1>2, <1>4 DEF Commit, TypeOK
  <2>3. QED
    BY <2>1, <2>2 DEF FreshRead
<1>5. QED
  BY <1>3, <1>4

LEMMA NextFreshRead == TypeOK /\ FreshRead /\ [Next]_vars => FreshRead'
<1> SUFFICES ASSUME TypeOK, FreshRead, [Next]_vars
             PROVE  FreshRead'
  OBVIOUS
<1>1. ASSUME NEW c \in Clients, NEW k \in Keys, NEW x \in Values,
             UpdateBucket(c, k, x)
      PROVE  FreshRead'
  BY <1>1 DEF UpdateBucket, TypeOK, FreshRead
<1>2. ASSUME NEW c \in Clients, Watch(c)
      PROVE  FreshRead'
  BY <1>2 DEF Watch, TypeOK, FreshRead
<1>3. ASSUME NEW c \in Clients, Get(c)
      PROVE  FreshRead'
  BY <1>3 DEF Get, TypeOK, FreshRead
<1>4. ASSUME NEW c \in Clients, Exec(c)
      PROVE  FreshRead'
  <2>1. pc'[c] = "idle" /\ ~dirty'[c]
    BY <1>4 DEF Exec, Commit, Finish, TypeOK
  <2>2. \A d \in Clients \ {c} :
           pc'[d] = pc[d] /\ upd'[d] = upd[d] /\ current'[d] = current[d]
    BY <1>4 DEF Exec, Finish, TypeOK
  <2>3. QED
    BY <1>4, <2>1, <2>2, CommitBreaksWatches DEF Exec, FreshRead
<1>5. ASSUME NEW c \in Clients, ExecAborted(c)
      PROVE  FreshRead'
  BY <1>5 DEF ExecAborted, Retry, TypeOK, FreshRead
<1>6. ASSUME NEW c \in Clients, Exhausted(c)
      PROVE  FreshRead'
  BY <1>6 DEF Exhausted, Finish, TypeOK, FreshRead
<1>7. ASSUME NEW c \in Clients, ConnectionError(c)
      PROVE  FreshRead'
  BY <1>7 DEF ConnectionError, Finish, TypeOK, FreshRead
<1>8. ASSUME NEW c \in Clients, Disconnected(c)
      PROVE  FreshRead'
  BY <1>8 DEF Disconnected, LoseConnection, Finish, Retry, TypeOK, FreshRead
<1>9. ASSUME NEW c \in Clients, ReplyLost(c)
      PROVE  FreshRead'
  <2>1. pc'[c] \in {"idle", "watch"} /\ ~dirty'[c]
    BY <1>9 DEF ReplyLost, Commit, LoseConnection, Finish, Retry, TypeOK
  <2>2. \A d \in Clients \ {c} :
           pc'[d] = pc[d] /\ upd'[d] = upd[d] /\ current'[d] = current[d]
    BY <1>9 DEF ReplyLost, LoseConnection, Finish, Retry, TypeOK
  <2>3. QED
    BY <1>9, <2>1, <2>2, CommitBreaksWatches DEF ReplyLost, FreshRead
<1>10. CASE UNCHANGED vars
  BY <1>10 DEF vars, FreshRead
<1>11. QED
  BY <1>1, <1>2, <1>3, <1>4, <1>5, <1>6, <1>7, <1>8, <1>9, <1>10 DEF Next, Step

\* The optimistic lock works: an EXEC that will succeed writes a bucket
\* computed from the one it replaces.
THEOREM ReadsStayFresh == Spec => []FreshRead
<1>1. QED
  BY InitFreshRead, NextFreshRead, TypeCorrect, PTL DEF Spec

\* Every change of Redis is a commit that applies one update to the stored
\* bucket and logs it.
LEMMA OnlyCommitsChangeRedis ==
    ASSUME TypeOK, FreshRead, [Next]_vars
    PROVE  \/ UNCHANGED <<store, folded>>
           \/ \E c \in Clients :
                 /\ pc[c] = "exec"
                 /\ upd[c] \in Updates
                 /\ current[c] = store[upd[c].key]
                 /\ Commit(c)
<1>1. ASSUME NEW c \in Clients, Exec(c) \/ ReplyLost(c)
      PROVE  /\ pc[c] = "exec" /\ Commit(c) /\ upd[c] \in Updates
             /\ current[c] = store[upd[c].key]
  BY <1>1 DEF Exec, ReplyLost, FreshRead, TypeOK
<1>2. ASSUME NEW c \in Clients, Step(c), ~Exec(c), ~ReplyLost(c)
      PROVE  UNCHANGED <<store, folded>>
  BY <1>2 DEF Step, Watch, Get, ExecAborted, Exhausted, ConnectionError, Disconnected
<1>3. QED
  BY <1>1, <1>2 DEF Next, UpdateBucket, vars

\* What a commit does to the bucket it writes and to all the others.
LEMMA CommitEffect ==
    ASSUME TypeOK, NEW c \in Clients, upd[c] \in Updates,
           current[c] = store[upd[c].key], Commit(c), NEW k \in Keys
    PROVE  IF k = upd[c].key
           THEN /\ store'[k] = ApplyUpdate(store[k], upd[c].value, WindowSize[c])
                /\ folded'[k] = Append(folded[k], Entry(folded[k], c, upd[c].value))
           ELSE store'[k] = store[k] /\ folded'[k] = folded[k]
  BY DEF Commit, TypeOK, Updates

\* No update is ever lost: whatever the interleaving, a bucket changes only
\* by one update applied to its current contents.
THEOREM NoUpdateIsLost == Spec => NoLostUpdate
<1> DEFINE A == \A k \in Keys : store'[k] # store[k] =>
                   \E c \in Clients :
                      /\ upd[c] # NoUpdate
                      /\ upd[c].key = k
                      /\ store'[k] = ApplyUpdate(store[k], upd[c].value, WindowSize[c])
<1>1. TypeOK /\ FreshRead /\ [Next]_vars => [A]_vars
  <2> SUFFICES ASSUME TypeOK, FreshRead, [Next]_vars, NEW k \in Keys,
                      store'[k] # store[k]
               PROVE  \E c \in Clients :
                         /\ upd[c] # NoUpdate
                         /\ upd[c].key = k
                         /\ store'[k] = ApplyUpdate(store[k], upd[c].value, WindowSize[c])
    OBVIOUS
  <2>1. PICK c \in Clients :
           /\ pc[c] = "exec"
           /\ upd[c] \in Updates
           /\ current[c] = store[upd[c].key]
           /\ Commit(c)
    BY OnlyCommitsChangeRedis
  <2>2. upd[c] # NoUpdate
    BY <2>1, ConstantsAssumption DEF Updates
  <2>3. QED
    BY <2>1, <2>2, CommitEffect
<1>2. QED
  BY <1>1, TypeCorrect, ReadsStayFresh, PTL DEF Spec, NoLostUpdate

-----------------------------------------------------------------------------
(* The window and the statistics.                                           *)

\* Folding the next value of a history into a bucket that retains the
\* latest values of the history keeps it so.
LEMMA ApplyUpdateRetainsLatest ==
    ASSUME NEW b \in BucketState, NEW log \in Seq(LogEntry), NEW e \in LogEntry,
           NEW size \in Nat, RetainsLatest(b, log)
    PROVE  RetainsLatest(ApplyUpdate(b, e.value, size), Append(log, e))
<1> DEFINE x == e.value
           w == Append(b.window, x)
           t == Tail(w)
           new == ApplyUpdate(b, x, size)
           n == Len(log)
           m == Len(b.window)
           log2 == Append(log, e)
<1>1. /\ x \in Values /\ b.window \in Seq(Values)
      /\ b.count = m /\ m <= n
      /\ \A i \in 1 .. m : b.window[i] = log[n - m + i].value
  BY DEF LogEntry, BucketState, RetainsLatest
<1>2. n \in Nat /\ m \in Nat
  BY <1>1, LenProperties
<1>3. /\ Len(log2) = n + 1
      /\ \A i \in 1 .. n : log2[i] = log[i]
      /\ log2[n + 1] = e
  BY AppendProperties
<1>4. /\ w \in Seq(Values) /\ w # <<>> /\ Len(w) = m + 1
      /\ \A i \in 1 .. m : w[i] = b.window[i]
      /\ w[m + 1] = x
  BY <1>1, AppendProperties
<1>5. /\ Len(t) = m
      /\ \A i \in 1 .. m : t[i] = w[i + 1]
  BY <1>2, <1>4, HeadTailProperties
<1>6. IF Len(w) > size
      THEN new.window = t /\ new.count = m
      ELSE new.window = w /\ new.count = m + 1
  <2>1. CASE Len(w) > size
    BY <1>1, <1>2, <2>1 DEF ApplyUpdate, WelfordUpdate, WelfordRemove
  <2>2. CASE ~(Len(w) > size)
    BY <1>1, <1>2, <2>2 DEF ApplyUpdate, WelfordUpdate
  <2>3. QED
    BY <2>1, <2>2
<1>7. x = e.value
  OBVIOUS
<1> HIDE DEF x, t, w, new, n, m, log2
<1>8. ASSUME NEW i \in 1 .. m + 1
      PROVE  w[i] = log2[n - m + i].value
  <2>1. CASE i \in 1 .. m
    <3>1. n - m + i \in 1 .. n
      BY <1>1, <1>2, <2>1
    <3>2. QED
      BY <1>1, <1>3, <1>4, <2>1, <3>1
  <2>2. CASE i = m + 1
    <3>1. n - m + i = n + 1
      BY <1>2, <2>2
    <3>2. QED
      BY <1>3, <1>4, <1>7, <2>2, <3>1
  <2>3. QED
    BY <1>2, <2>1, <2>2
<1>9. RetainsLatest(new, log2)
  <2>1. CASE Len(w) > size
    <3>1. ASSUME NEW i \in 1 .. m
          PROVE  t[i] = log2[(n + 1) - m + i].value
      <4>1. i + 1 \in 1 .. m + 1 /\ n - m + (i + 1) = (n + 1) - m + i
        BY <1>2
      <4>2. w[i + 1] = log2[n - m + (i + 1)].value
        BY <1>8, <4>1
      <4>3. QED
        BY <1>5, <4>1, <4>2
    <3>2. m <= n + 1 /\ n + 1 \in Nat
      BY <1>1, <1>2
    <3>3. new.window = t /\ new.count = m /\ Len(new.window) = m
      BY <1>5, <1>6, <2>1
    <3>4. \A i \in 1 .. Len(new.window) :
             new.window[i] = log2[Len(log2) - Len(new.window) + i].value
      BY <1>3, <3>1, <3>3
    <3>5. QED
      BY <1>2, <1>3, <3>2, <3>3, <3>4 DEF RetainsLatest
  <2>2. CASE ~(Len(w) > size)
    <3>1. ASSUME NEW i \in 1 .. m + 1
          PROVE  w[i] = log2[(n + 1) - (m + 1) + i].value
      <4>1. (n + 1) - (m + 1) + i = n - m + i
        BY <1>2
      <4>2. QED
        BY <1>8, <4>1
    <3>2. m + 1 <= n + 1 /\ n + 1 \in Nat /\ m + 1 \in Nat
      BY <1>1, <1>2
    <3>3. new.window = w /\ new.count = m + 1 /\ Len(new.window) = m + 1
      BY <1>4, <1>6, <2>2
    <3>4. QED
      BY <1>3, <3>1, <3>2, <3>3 DEF RetainsLatest
  <2>3. QED
    BY <2>1, <2>2
<1>10. QED
  BY <1>9 DEF new, log2, x

\* The window of every bucket is the tail of its history, for every window
\* size, equal or not among the clients.
THEOREM WindowIsExact == Spec => []WindowIsLogSuffix
<1>1. Init => WindowIsLogSuffix
  BY EmptySeq DEF Init, WindowIsLogSuffix, RetainsLatest, EmptyBucket
<1>2. TypeOK /\ FreshRead /\ WindowIsLogSuffix /\ [Next]_vars => WindowIsLogSuffix'
  <2> SUFFICES ASSUME TypeOK, FreshRead, WindowIsLogSuffix, [Next]_vars,
                      NEW k \in Keys
               PROVE  RetainsLatest(store'[k], folded'[k])
    BY DEF WindowIsLogSuffix, RetainsLatest
  <2>1. CASE UNCHANGED <<store, folded>>
    BY <2>1 DEF WindowIsLogSuffix
  <2>2. ASSUME NEW c \in Clients, upd[c] \in Updates,
               current[c] = store[upd[c].key], Commit(c)
        PROVE  RetainsLatest(store'[k], folded'[k])
    <3>1. CASE k = upd[c].key
      <4> DEFINE e == Entry(folded[k], c, upd[c].value)
      <4>1. upd[c].value \in Values /\ WindowSize[c] \in Nat
        BY <2>2, ConstantsAssumption DEF Updates
      <4>2. e \in LogEntry /\ e.value = upd[c].value
        BY <4>1, EntryType DEF Entry
      <4>3. /\ store[k] \in BucketState /\ folded[k] \in Seq(LogEntry)
            /\ RetainsLatest(store[k], folded[k])
        BY DEF TypeOK, WindowIsLogSuffix
      <4>4. RetainsLatest(ApplyUpdate(store[k], e.value, WindowSize[c]),
                          Append(folded[k], e))
        BY <4>1, <4>2, <4>3, ApplyUpdateRetainsLatest
      <4>5. QED
        BY <2>2, <3>1, <4>2, <4>4, CommitEffect
    <3>2. CASE k # upd[c].key
      BY <2>2, <3>2, CommitEffect DEF WindowIsLogSuffix
    <3>3. QED
      BY <3>1, <3>2
  <2>3. QED
    BY <2>1, <2>2, OnlyCommitsChangeRedis
<1>3. QED
  BY <1>1, <1>2, TypeCorrect, ReadsStayFresh, PTL DEF Spec

-----------------------------------------------------------------------------
(* Lock-freedom.                                                            *)

Conflicts(c) == attempt[c] + (IF dirty[c] THEN 1 ELSE 0)

\* Every conflict of c's call, the broken WATCH it has not noticed yet
\* included, is matched by a value that entered its bucket meanwhile.
PaidBy(c) ==
    /\ pc[c] = "idle" => attempt[c] = 0
    /\ pc[c] # "idle" => Conflicts(c) <= Len(folded[upd[c].key]) - began[c]

Paid == ~WatchErrorOnDisconnect => \A c \in Clients : PaidBy(c)

LEMMA HistoryLength ==
    ASSUME TypeOK, NEW k \in Keys
    PROVE  folded[k] \in Seq(LogEntry) /\ Len(folded[k]) \in Nat
  BY LenProperties DEF TypeOK

\* What one client's step leaves of another client's call.
Untouched(d) ==
    /\ pc'[d] = pc[d] /\ upd'[d] = upd[d]
    /\ attempt'[d] = attempt[d] /\ began'[d] = began[d]

\* The commit of somebody else pays for the WATCH it may break.
LEMMA CommitPaysForOthers ==
    ASSUME TypeOK, NEW c \in Clients, upd[c] \in Updates,
           current[c] = store[upd[c].key], Commit(c),
           NEW d \in Clients \ {c}, PaidBy(d), Untouched(d)
    PROVE  PaidBy(d)'
<1>1. CASE pc[d] = "idle"
  BY <1>1 DEF PaidBy, Untouched
<1>2. CASE pc[d] # "idle"
  <2> DEFINE k == upd[d].key
  <2>1. k \in Keys /\ attempt[d] \in Nat /\ began[d] \in Nat /\ dirty[d] \in BOOLEAN
    BY <1>2, ConstantsAssumption DEF TypeOK, Updates
  <2>2. Len(folded[k]) \in Nat /\ folded[k] \in Seq(LogEntry)
    BY <2>1, HistoryLength
  <2>3. Conflicts(d) <= Len(folded[k]) - began[d]
    BY <1>2 DEF PaidBy
  <2>4. CASE k = upd[c].key
    <3>1. folded'[k] = Append(folded[k], Entry(folded[k], c, upd[c].value))
      BY <2>1, <2>4, CommitEffect
    <3>2. Entry(folded[k], c, upd[c].value) \in LogEntry
      BY <2>1, EntryType DEF Updates
    <3>3. Len(folded'[k]) = Len(folded[k]) + 1
      BY <2>2, <3>1, <3>2, AppendProperties
    <3>4. attempt[d] <= Len(folded[k]) - began[d]
      BY <2>1, <2>2, <2>3 DEF Conflicts
    <3>5. attempt[d] + (IF dirty'[d] THEN 1 ELSE 0) <= Len(folded'[k]) - began[d]
      BY <2>1, <2>2, <3>3, <3>4
    <3>6. QED
      BY <1>2, <3>5 DEF PaidBy, Conflicts, Untouched
  <2>5. CASE k # upd[c].key
    <3>1. folded'[k] = folded[k]
      BY <2>1, <2>5, CommitEffect
    <3>2. dirty'[d] = dirty[d]
      BY <2>5 DEF Commit, Watching, TypeOK
    <3>3. QED
      BY <1>2, <2>3, <3>1, <3>2 DEF PaidBy, Conflicts, Untouched
  <2>6. QED
    BY <2>4, <2>5
<1>3. QED
  BY <1>1, <1>2

LEMMA NextPaid == TypeOK /\ FreshRead /\ Paid /\ [Next]_vars => Paid'
<1> SUFFICES ASSUME TypeOK, FreshRead, Paid, [Next]_vars, ~WatchErrorOnDisconnect,
                    NEW d \in Clients
             PROVE  PaidBy(d)'
  BY DEF Paid
<1>1. PaidBy(d)
  BY DEF Paid
<1>2. attempt[d] \in Nat /\ dirty[d] \in BOOLEAN
  BY ConstantsAssumption DEF TypeOK
<1>3. ASSUME NEW c \in Clients, NEW k \in Keys, NEW x \in Values,
             UpdateBucket(c, k, x)
      PROVE  PaidBy(d)'
  <2>1. CASE d = c
    <3>1. ~dirty'[d] /\ attempt'[d] = 0
      BY <1>1, <1>3, <2>1 DEF UpdateBucket, FreshRead, PaidBy
    <3>2. /\ pc'[d] = "watch" /\ upd'[d].key = k /\ folded' = folded
          /\ began'[d] = Len(folded[k])
      BY <1>3, <2>1 DEF UpdateBucket, TypeOK
    <3>3. Len(folded[k]) \in Nat
      BY HistoryLength
    <3>4. QED
      BY <3>1, <3>2, <3>3 DEF PaidBy, Conflicts
  <2>2. CASE d # c
    BY <1>1, <1>3, <2>2 DEF UpdateBucket, PaidBy, Conflicts, TypeOK
  <2>3. QED
    BY <2>1, <2>2
<1>4. ASSUME NEW c \in Clients, Watch(c) \/ Get(c)
      PROVE  PaidBy(d)'
  <2>1. /\ pc[d] = "idle" <=> pc'[d] = "idle"
        /\ upd' = upd /\ attempt' = attempt /\ began' = began /\ folded' = folded
        /\ dirty'[d] => dirty[d]
    BY <1>4 DEF Watch, Get, TypeOK
  <2>2. CASE pc[d] = "idle"
    BY <1>1, <2>1, <2>2 DEF PaidBy
  <2>3. CASE pc[d] # "idle"
    <3>1. upd[d].key \in Keys /\ began[d] \in Nat
      BY <2>3 DEF TypeOK, Updates
    <3>2. Len(folded[upd[d].key]) \in Nat
      BY <3>1, HistoryLength
    <3>3. QED
      BY <1>1, <1>2, <2>1, <2>3, <3>1, <3>2 DEF PaidBy, Conflicts
  <2>4. QED
    BY <2>2, <2>3
<1>5. ASSUME NEW c \in Clients, ExecAborted(c)
      PROVE  PaidBy(d)'
  <2>1. CASE d = c
    <3>1. /\ pc[d] # "idle" /\ dirty[d] /\ ~dirty'[d]
          /\ attempt'[d] = attempt[d] + 1
          /\ upd' = upd /\ began' = began /\ folded' = folded
          /\ pc'[d] = "watch"
      BY <1>5, <2>1 DEF ExecAborted, Retry, TypeOK
    <3>2. QED
      BY <1>1, <1>2, <3>1 DEF PaidBy, Conflicts
  <2>2. CASE d # c
    BY <1>1, <1>5, <2>2 DEF ExecAborted, Retry, PaidBy, Conflicts, TypeOK
  <2>3. QED
    BY <2>1, <2>2
<1>6. ASSUME NEW c \in Clients, NEW how \in Outcomes, Finish(c, how),
             UNCHANGED folded, d # c => dirty'[d] = dirty[d]
      PROVE  PaidBy(d)'
  BY <1>1, <1>6 DEF Finish, PaidBy, Conflicts, TypeOK
<1>7. ASSUME NEW c \in Clients, Exhausted(c) \/ ConnectionError(c) \/ Disconnected(c)
      PROVE  PaidBy(d)'
  BY <1>6, <1>7 DEF Exhausted, ConnectionError, Disconnected, LoseConnection,
     Outcomes, TypeOK
<1>8. ASSUME NEW c \in Clients, Exec(c) \/ ReplyLost(c)
      PROVE  PaidBy(d)'
  <2>1. /\ upd[c] \in Updates /\ current[c] = store[upd[c].key] /\ Commit(c)
        /\ pc[c] = "exec"
    BY <1>8 DEF Exec, ReplyLost, FreshRead, TypeOK
  <2>2. PICK how \in Outcomes : Finish(c, how)
    BY <1>8 DEF Exec, ReplyLost, LoseConnection, Outcomes
  <2>3. CASE d = c
    BY <2>2, <2>3 DEF Finish, PaidBy, TypeOK
  <2>4. CASE d # c
    <3>1. Untouched(d)
      BY <2>2, <2>4 DEF Untouched, Finish, TypeOK
    <3>2. QED
      BY <1>1, <2>1, <2>4, <3>1, CommitPaysForOthers
  <2>5. QED
    BY <2>3, <2>4
<1>9. CASE UNCHANGED vars
  BY <1>1, <1>9 DEF vars, PaidBy, Conflicts
<1>10. QED
  BY <1>3, <1>4, <1>5, <1>7, <1>8, <1>9 DEF Next, Step

\* Lock-freedom: with a Redis client that raises on a lost connection, every
\* lost race of a call is paid for by a commit of somebody else during the
\* call, whatever the number of clients and the retry limit.
THEOREM ConflictsPaid == Spec => []ConflictsArePaidFor
<1>1. Init => Paid
  BY DEF Init, Paid, PaidBy
<1>2. TypeOK /\ Paid => ConflictsArePaidFor
  <2> SUFFICES ASSUME TypeOK, Paid, ~WatchErrorOnDisconnect,
                      NEW c \in Clients, pc[c] # "idle"
               PROVE  attempt[c] <= Len(folded[upd[c].key]) - began[c]
    BY DEF ConflictsArePaidFor
  <2>1. attempt[c] \in Nat /\ began[c] \in Nat /\ upd[c].key \in Keys
    BY ConstantsAssumption DEF TypeOK, Updates
  <2>2. Len(folded[upd[c].key]) \in Nat
    BY <2>1, HistoryLength
  <2>3. Conflicts(c) <= Len(folded[upd[c].key]) - began[c]
    BY DEF Paid, PaidBy
  <2>4. QED
    BY <2>1, <2>2, <2>3 DEF Conflicts
<1>3. QED
  BY <1>1, <1>2, NextPaid, TypeCorrect, ReadsStayFresh, PTL DEF Spec

-----------------------------------------------------------------------------
(* One call, one fold.                                                      *)

\* The call of c ends without having touched Redis.
EndsWithoutEffect(c) ==
    /\ upd[c] \in Updates
    /\ \E how \in Outcomes \ {"returned"} : Finish(c, how)
    /\ UNCHANGED <<store, folded>>

\* The call of c ends with its commit.
EndsWithCommit(c) ==
    /\ upd[c] \in Updates
    /\ current[c] = store[upd[c].key]
    /\ \E how \in {"returned", "failed"} : Finish(c, how)
    /\ Commit(c)

\* With a Redis client that raises on a lost connection a call ends at the
\* latest with its commit; no other step touches Redis or the outcomes.
LEMMA CallsEndOnce ==
    ASSUME TypeOK, FreshRead, ~WatchErrorOnDisconnect, [Next]_vars
    PROVE  \/ UNCHANGED <<store, folded, upd, outcome>>
           \/ \E c \in Clients, k \in Keys, x \in Values : UpdateBucket(c, k, x)
           \/ \E c \in Clients : EndsWithoutEffect(c)
           \/ \E c \in Clients : EndsWithCommit(c)
<1>1. ASSUME NEW c \in Clients, Watch(c) \/ Get(c) \/ ExecAborted(c)
      PROVE  UNCHANGED <<store, folded, upd, outcome>>
  BY <1>1 DEF Watch, Get, ExecAborted, Retry
<1>2. ASSUME NEW c \in Clients, Exhausted(c) \/ ConnectionError(c) \/ Disconnected(c)
      PROVE  EndsWithoutEffect(c)
  <2>1. upd[c] \in Updates
    BY <1>2 DEF Exhausted, ConnectionError, Disconnected, TypeOK
  <2>2. QED
    BY <1>2, <2>1 DEF EndsWithoutEffect, Exhausted, ConnectionError, Disconnected,
       LoseConnection, Outcomes
<1>3. ASSUME NEW c \in Clients, Exec(c) \/ ReplyLost(c)
      PROVE  EndsWithCommit(c)
  <2>1. upd[c] \in Updates /\ current[c] = store[upd[c].key]
    BY <1>3 DEF Exec, ReplyLost, FreshRead, TypeOK
  <2>2. QED
    BY <1>3, <2>1 DEF EndsWithCommit, Exec, ReplyLost, LoseConnection
<1>4. CASE UNCHANGED vars
  BY <1>4 DEF vars
<1>5. QED
  BY <1>1, <1>2, <1>3, <1>4 DEF Next, Step

\* The outcome a call that ends adds, and those of the calls before it.
LEMMA FinishOutcome ==
    ASSUME TypeOK, NEW c \in Clients, NEW how \in Outcomes, Finish(c, how)
    PROVE  /\ Len(outcome'[c]) = Len(outcome[c]) + 1 /\ Len(outcome[c]) \in Nat
           /\ outcome'[c][Len(outcome[c]) + 1] = how
           /\ \A i \in 1 .. Len(outcome[c]) : outcome'[c][i] = outcome[c][i]
           /\ \A d \in Clients \ {c} : outcome'[d] = outcome[d]
<1>1. outcome[c] \in Seq(Outcomes) /\ outcome'[c] = Append(outcome[c], how)
  BY DEF TypeOK, Finish
<1>2. QED
  BY <1>1, AppendProperties, LenProperties DEF TypeOK, Finish

\* Every entry of the history belongs to a call that is over and did not run
\* out of retries.
LogOfFinished ==
    \A k \in Keys : \A n \in 1 .. Len(folded[k]) :
       LET e == folded[k][n]
       IN  /\ e.call \in 1 .. Len(outcome[e.client])
           /\ outcome[e.client][e.call] \in {"returned", "failed"}

\* A call that returned is in the history.
ReturnedIsLogged ==
    \A c \in Clients : \A i \in 1 .. Len(outcome[c]) :
       outcome[c][i] = "returned" =>
          \E k \in Keys : \E n \in 1 .. Len(folded[k]) : CommittedFor(k, n, c, i)

OncePerCall ==
    \A j, k \in Keys : \A m \in 1 .. Len(folded[j]), n \in 1 .. Len(folded[k]) :
       /\ folded[j][m].client = folded[k][n].client
       /\ folded[j][m].call = folded[k][n].call
       => j = k /\ m = n

\* The inductive invariant: whether an entry's call is over is what tells a
\* new entry from all those before it.
CallsFoldOnce ==
    ~WatchErrorOnDisconnect => LogOfFinished /\ ReturnedIsLogged /\ OncePerCall

\* The history after a commit.
LEMMA CommitLog ==
    ASSUME TypeOK, NEW c \in Clients, EndsWithCommit(c)
    PROVE  LET k == upd[c].key
           IN  /\ k \in Keys
               /\ Len(folded[k]) \in Nat
               /\ Len(folded'[k]) = Len(folded[k]) + 1
               /\ \A n \in 1 .. Len(folded[k]) : folded'[k][n] = folded[k][n]
               /\ folded'[k][Len(folded[k]) + 1].client = c
               /\ folded'[k][Len(folded[k]) + 1].call = Len(outcome[c]) + 1
               /\ \A j \in Keys \ {k} : folded'[j] = folded[j]
<1> DEFINE k == upd[c].key
           e == Entry(folded[k], c, upd[c].value)
<1>1. k \in Keys /\ upd[c].value \in Values
  BY DEF EndsWithCommit, Updates
<1>2. folded[k] \in Seq(LogEntry) /\ Len(folded[k]) \in Nat
  BY <1>1, HistoryLength
<1>3. e \in LogEntry /\ e.client = c /\ e.call = Len(outcome[c]) + 1
  BY <1>1, EntryType DEF Entry
<1>4. folded'[k] = Append(folded[k], e) /\ \A j \in Keys \ {k} : folded'[j] = folded[j]
  BY <1>1, CommitEffect DEF EndsWithCommit
<1>5. /\ Len(folded'[k]) = Len(folded[k]) + 1
      /\ \A n \in 1 .. Len(folded[k]) : folded'[k][n] = folded[k][n]
      /\ folded'[k][Len(folded[k]) + 1] = e
  BY <1>2, <1>3, <1>4, AppendProperties
<1>6. QED
  BY <1>1, <1>2, <1>3, <1>4, <1>5

LEMMA CommitFoldsOnce ==
    ASSUME TypeOK, LogOfFinished, ReturnedIsLogged, OncePerCall,
           NEW c \in Clients, EndsWithCommit(c)
    PROVE  LogOfFinished' /\ ReturnedIsLogged' /\ OncePerCall'
<1> DEFINE k == upd[c].key
           last == Len(folded[k]) + 1
           call == Len(outcome[c]) + 1
           Old(j, n) == n \in 1 .. Len(folded[j])
           New(j, n) == j = k /\ n = last
<1>1. PICK how \in {"returned", "failed"} : Finish(c, how)
  BY DEF EndsWithCommit
<1>2. /\ Len(outcome'[c]) = call /\ call \in Nat \ {0}
      /\ outcome'[c][call] = how
      /\ \A i \in 1 .. Len(outcome[c]) : outcome'[c][i] = outcome[c][i]
      /\ \A d \in Clients \ {c} : outcome'[d] = outcome[d]
  BY <1>1, FinishOutcome DEF Outcomes
<1>3. /\ k \in Keys /\ last \in Nat \ {0}
      /\ Len(folded'[k]) = last
      /\ \A n \in 1 .. Len(folded[k]) : folded'[k][n] = folded[k][n]
      /\ folded'[k][last].client = c /\ folded'[k][last].call = call
      /\ \A j \in Keys \ {k} : folded'[j] = folded[j]
  BY CommitLog
<1>4. \A j \in Keys : folded[j] \in Seq(LogEntry) /\ Len(folded[j]) \in Nat
  BY HistoryLength
<1>5. \A j \in Keys : \A n \in 1 .. Len(folded'[j]) :
         \/ Old(j, n) /\ folded'[j][n] = folded[j][n]
         \/ New(j, n)
  BY <1>3, <1>4
<1>6. \A j \in Keys : \A n \in 1 .. Len(folded[j]) :
         /\ n \in 1 .. Len(folded'[j]) /\ folded'[j][n] = folded[j][n]
         /\ folded[j][n].client \in Clients
  <2> SUFFICES ASSUME NEW j \in Keys, NEW n \in 1 .. Len(folded[j])
               PROVE  /\ n \in 1 .. Len(folded'[j]) /\ folded'[j][n] = folded[j][n]
                      /\ folded[j][n].client \in Clients
    OBVIOUS
  <2>1. folded[j] \in Seq(LogEntry)
    BY HistoryLength
  <2>2. folded[j][n] \in LogEntry
    BY <2>1, ElementOfSeq
  <2>3. folded[j][n].client \in Clients
    BY <2>2 DEF LogEntry
  <2>4. CASE j = k
    BY <1>3, <1>4, <2>3, <2>4
  <2>5. CASE j # k
    BY <1>3, <2>3, <2>5
  <2>6. QED
    BY <2>4, <2>5
<1> HIDE DEF k, last, call
<1>7. LogOfFinished'
  <2> SUFFICES ASSUME NEW j \in Keys, NEW n \in 1 .. Len(folded'[j])
               PROVE  LET e == folded'[j][n]
                      IN  /\ e.call \in 1 .. Len(outcome'[e.client])
                          /\ outcome'[e.client][e.call] \in {"returned", "failed"}
    BY DEF LogOfFinished
  <2>1. CASE New(j, n)
    BY <1>2, <1>3, <2>1
  <2>2. CASE Old(j, n) /\ folded'[j][n] = folded[j][n]
    <3> DEFINE e == folded[j][n]
    <3>1. /\ e.client \in Clients /\ e.call \in 1 .. Len(outcome[e.client])
          /\ outcome[e.client][e.call] \in {"returned", "failed"}
      BY <1>6, <2>2 DEF LogOfFinished
    <3> HIDE DEF e
    <3>2. /\ e.call \in 1 .. Len(outcome'[e.client])
          /\ outcome'[e.client][e.call] = outcome[e.client][e.call]
      <4>1. CASE e.client = c
        BY <1>2, <3>1, <4>1 DEF call
      <4>2. CASE e.client # c
        BY <1>2, <3>1, <4>2
      <4>3. QED
        BY <4>1, <4>2
    <3>3. QED
      BY <2>2, <3>1, <3>2 DEF e
  <2>3. QED
    BY <1>5, <2>1, <2>2
<1>8. ReturnedIsLogged'
  <2> SUFFICES ASSUME NEW d \in Clients, NEW i \in 1 .. Len(outcome'[d]),
                      outcome'[d][i] = "returned"
               PROVE  \E j \in Keys : \E n \in 1 .. Len(folded'[j]) :
                         folded'[j][n].client = d /\ folded'[j][n].call = i
    BY DEF ReturnedIsLogged, CommittedFor
  <2>1. CASE d = c /\ i = call
    BY <1>3, <2>1
  <2>2. CASE ~(d = c /\ i = call)
    <3>1. i \in 1 .. Len(outcome[d]) /\ outcome[d][i] = "returned"
      BY <1>2, <2>2 DEF call
    <3>2. PICK j \in Keys :
             \E n \in 1 .. Len(folded[j]) :
                folded[j][n].client = d /\ folded[j][n].call = i
      BY <3>1 DEF ReturnedIsLogged, CommittedFor
    <3>3. QED
      BY <1>6, <3>2
  <2>3. QED
    BY <2>1, <2>2
<1>9. OncePerCall'
  <2>1. \A j \in Keys : \A n \in 1 .. Len(folded[j]) :
           folded[j][n].client = c => folded[j][n].call # call
    <3> SUFFICES ASSUME NEW j \in Keys, NEW n \in 1 .. Len(folded[j]),
                        folded[j][n].client = c
                 PROVE  folded[j][n].call # call
      OBVIOUS
    <3>1. folded[j][n].call \in 1 .. Len(outcome[c])
      BY DEF LogOfFinished
    <3>2. QED
      BY <1>2, <3>1 DEF call
  <2> SUFFICES ASSUME NEW i \in Keys, NEW j \in Keys,
                      NEW m \in 1 .. Len(folded'[i]), NEW n \in 1 .. Len(folded'[j]),
                      folded'[i][m].client = folded'[j][n].client,
                      folded'[i][m].call = folded'[j][n].call
               PROVE  i = j /\ m = n
    BY DEF OncePerCall
  <2>2. CASE New(i, m) /\ New(j, n)
    BY <2>2
  <2>3. CASE New(i, m) /\ Old(j, n) /\ folded'[j][n] = folded[j][n]
    BY <1>3, <2>1, <2>3
  <2>4. CASE New(j, n) /\ Old(i, m) /\ folded'[i][m] = folded[i][m]
    BY <1>3, <2>1, <2>4
  <2>5. CASE /\ Old(i, m) /\ folded'[i][m] = folded[i][m]
             /\ Old(j, n) /\ folded'[j][n] = folded[j][n]
    BY <2>5 DEF OncePerCall
  <2>6. QED
    BY <1>5, <2>2, <2>3, <2>4, <2>5
<1>10. QED
  BY <1>7, <1>8, <1>9

LEMMA NextCallsFoldOnce ==
    TypeOK /\ FreshRead /\ CallsFoldOnce /\ [Next]_vars => CallsFoldOnce'
<1> SUFFICES ASSUME TypeOK, FreshRead, CallsFoldOnce, [Next]_vars, ~WatchErrorOnDisconnect
             PROVE  LogOfFinished' /\ ReturnedIsLogged' /\ OncePerCall'
  BY DEF CallsFoldOnce
<1>1. LogOfFinished /\ ReturnedIsLogged /\ OncePerCall
  BY DEF CallsFoldOnce
<1>2. CASE UNCHANGED <<store, folded, upd, outcome>>
  BY <1>1, <1>2 DEF LogOfFinished, ReturnedIsLogged, OncePerCall, CommittedFor
<1>3. ASSUME NEW c \in Clients, NEW k \in Keys, NEW x \in Values, UpdateBucket(c, k, x)
      PROVE  LogOfFinished' /\ ReturnedIsLogged' /\ OncePerCall'
  <2>1. folded' = folded /\ outcome' = outcome
    BY <1>3 DEF UpdateBucket
  <2>2. QED
    BY <1>1, <2>1 DEF LogOfFinished, ReturnedIsLogged, OncePerCall, CommittedFor
<1>4. ASSUME NEW c \in Clients, EndsWithoutEffect(c)
      PROVE  LogOfFinished' /\ ReturnedIsLogged' /\ OncePerCall'
  <2>1. PICK how \in Outcomes \ {"returned"} : Finish(c, how)
    BY <1>4 DEF EndsWithoutEffect
  <2>2. /\ Len(outcome'[c]) = Len(outcome[c]) + 1 /\ Len(outcome[c]) \in Nat
        /\ outcome'[c][Len(outcome[c]) + 1] # "returned"
        /\ \A i \in 1 .. Len(outcome[c]) : outcome'[c][i] = outcome[c][i]
        /\ \A d \in Clients \ {c} : outcome'[d] = outcome[d]
    BY <2>1, FinishOutcome
  <2>3. folded' = folded
    BY <1>4 DEF EndsWithoutEffect
  <2>4. LogOfFinished'
    <3> SUFFICES ASSUME NEW k \in Keys, NEW n \in 1 .. Len(folded[k])
                 PROVE  LET e == folded[k][n]
                        IN  /\ e.call \in 1 .. Len(outcome'[e.client])
                            /\ outcome'[e.client][e.call] \in {"returned", "failed"}
      BY <2>3 DEF LogOfFinished
    <3>1. folded[k][n] \in LogEntry
      BY HistoryLength, ElementOfSeq
    <3> DEFINE e == folded[k][n]
    <3>2. /\ e.client \in Clients
          /\ e.call \in 1 .. Len(outcome[e.client])
          /\ outcome[e.client][e.call] \in {"returned", "failed"}
      BY <1>1, <3>1 DEF LogOfFinished, LogEntry
    <3> HIDE DEF e
    <3>3. /\ e.call \in 1 .. Len(outcome'[e.client])
          /\ outcome'[e.client][e.call] = outcome[e.client][e.call]
      <4>1. CASE e.client = c
        BY <2>2, <3>2, <4>1
      <4>2. CASE e.client # c
        BY <2>2, <3>2, <4>2
      <4>3. QED
        BY <4>1, <4>2
    <3>4. QED
      BY <3>2, <3>3 DEF e
  <2>5. ReturnedIsLogged'
    <3> SUFFICES ASSUME NEW d \in Clients, NEW i \in 1 .. Len(outcome'[d]),
                        outcome'[d][i] = "returned"
                 PROVE  \E k \in Keys : \E n \in 1 .. Len(folded[k]) :
                           CommittedFor(k, n, d, i)
      BY <2>3 DEF ReturnedIsLogged, CommittedFor
    <3>1. i \in 1 .. Len(outcome[d]) /\ outcome[d][i] = "returned"
      BY <2>2
    <3>2. QED
      BY <1>1, <3>1 DEF ReturnedIsLogged
  <2>6. OncePerCall'
    BY <1>1, <2>3 DEF OncePerCall
  <2>7. QED
    BY <2>4, <2>5, <2>6
<1>5. QED
  BY <1>1, <1>2, <1>3, <1>4, CallsEndOnce, CommitFoldsOnce

THEOREM CallsAreFoldedOnce == Spec => []CallsFoldOnce
<1>1. Init => CallsFoldOnce
  <2> SUFFICES ASSUME Init
               PROVE  CallsFoldOnce
    OBVIOUS
  <2>1. /\ \A k \in Keys : Len(folded[k]) = 0
        /\ \A c \in Clients : Len(outcome[c]) = 0
    BY EmptySeq DEF Init
  <2>2. QED
    BY <2>1 DEF CallsFoldOnce, LogOfFinished, ReturnedIsLogged, OncePerCall
<1>2. QED
  BY <1>1, NextCallsFoldOnce, TypeCorrect, ReadsStayFresh, PTL DEF Spec

\* Each sample counts once: with a Redis client that raises on a lost
\* connection no call is folded in twice, over all retries and lost replies.
THEOREM FoldsAtMostOnce == Spec => [](~WatchErrorOnDisconnect => FoldedAtMostOnce)
<1>1. TypeOK /\ CallsFoldOnce => (~WatchErrorOnDisconnect => FoldedAtMostOnce)
  <2> SUFFICES ASSUME TypeOK, CallsFoldOnce, ~WatchErrorOnDisconnect
               PROVE  FoldedAtMostOnce
    OBVIOUS
  <2>1. \A k \in Keys : DOMAIN folded[k] = 1 .. Len(folded[k])
    BY HistoryLength, LenProperties
  <2>2. QED
    BY <2>1 DEF CallsFoldOnce, OncePerCall, FoldedAtMostOnce, CommittedFor
<1>2. QED
  BY <1>1, CallsAreFoldedOnce, TypeCorrect, PTL

\* ... and the caller is told the truth about it.
THEOREM OutcomesAreTruthful == Spec => [](~WatchErrorOnDisconnect => OutcomeIsTruthful)
<1>1. TypeOK /\ CallsFoldOnce => (~WatchErrorOnDisconnect => OutcomeIsTruthful)
  <2> SUFFICES ASSUME TypeOK, CallsFoldOnce, ~WatchErrorOnDisconnect,
                      NEW c \in Clients, NEW i \in DOMAIN outcome[c]
               PROVE  LET inLog == \E k \in Keys : \E n \in DOMAIN folded[k] :
                                      CommittedFor(k, n, c, i)
                      IN  /\ outcome[c][i] = "returned" => inLog
                          /\ outcome[c][i] = "exhausted" => ~inLog
    BY DEF OutcomeIsTruthful
  <2>1. \A k \in Keys : DOMAIN folded[k] = 1 .. Len(folded[k])
    BY HistoryLength, LenProperties
  <2>2. i \in 1 .. Len(outcome[c])
    BY LenProperties DEF TypeOK
  <2>3. LogOfFinished /\ ReturnedIsLogged
    BY DEF CallsFoldOnce
  <2>4. outcome[c][i] = "returned" =>
           \E k \in Keys : \E n \in DOMAIN folded[k] : CommittedFor(k, n, c, i)
    BY <2>1, <2>2, <2>3 DEF ReturnedIsLogged
  <2>5. ASSUME NEW k \in Keys, NEW n \in DOMAIN folded[k], CommittedFor(k, n, c, i)
        PROVE  outcome[c][i] # "exhausted"
    BY <2>1, <2>3, <2>5 DEF LogOfFinished, CommittedFor
  <2>6. QED
    BY <2>4, <2>5
<1>2. QED
  BY <1>1, CallsAreFoldedOnce, TypeCorrect, PTL

-----------------------------------------------------------------------------
(* The refinement: the WATCH loops implement the atomic sliding window.     *)

\* With one window size no bucket outgrows it.
BoundedWindows ==
    UniformWindow =>
       \A k \in Keys, c \in Clients : Len(store[k].window) <= WindowSize[c]

\* apply_update on a bucket that is not overfull keeps the last size values.
LEMMA ApplyUpdateWindow ==
    ASSUME NEW s \in BucketState, NEW x \in Values, NEW size \in Nat,
           Len(s.window) <= size
    PROVE  LET w == Append(s.window, x)
           IN  /\ ApplyUpdate(s, x, size).window =
                     SubSeq(w, IF Len(w) > size THEN Len(w) - size + 1 ELSE 1, Len(w))
               /\ Len(ApplyUpdate(s, x, size).window) <= size
<1> DEFINE w == Append(s.window, x)
<1>1. s.window \in Seq(Values) /\ Len(s.window) \in Nat
  BY LenProperties DEF BucketState
<1>2. w \in Seq(Values) /\ w # <<>> /\ Len(w) = Len(s.window) + 1
  BY <1>1, AppendProperties
<1>3. ApplyUpdate(s, x, size).window = IF Len(w) > size THEN Tail(w) ELSE w
  BY DEF ApplyUpdate
<1>4. Len(Tail(w)) = Len(w) - 1 /\ Tail(w) = SubSeq(w, 2, Len(w))
  BY <1>2, HeadTailProperties, TailIsSubSeq
<1>5. SubSeq(w, 1, Len(w)) = w
  <2>1. \A i \in 1 .. Len(w) : w[i] \in Values
    BY <1>2, ElementOfSeq
  <2>2. /\ SubSeq(w, 1, Len(w)) \in Seq(Values)
        /\ Len(SubSeq(w, 1, Len(w))) = Len(w)
        /\ \A i \in 1 .. Len(w) : SubSeq(w, 1, Len(w))[i] = w[i]
    BY <1>1, <1>2, <2>1, SubSeqProperties
  <2>3. QED
    BY <1>2, <2>2, SeqEqual
<1> HIDE DEF w
<1>6. CASE Len(w) > size
  <2>1. Len(w) = size + 1
    BY <1>1, <1>2, <1>6
  <2>2. Len(w) - size + 1 = 2 /\ Len(Tail(w)) <= size
    BY <1>4, <2>1
  <2>3. QED
    BY <1>3, <1>4, <1>6, <2>2 DEF w
<1>7. CASE ~(Len(w) > size)
  <2>1. Len(w) <= size
    BY <1>1, <1>2, <1>7
  <2>2. QED
    BY <1>3, <1>5, <1>7, <2>1 DEF w
<1>8. QED
  BY <1>6, <1>7

LEMMA NextBoundedWindows ==
    TypeOK /\ FreshRead /\ BoundedWindows /\ [Next]_vars => BoundedWindows'
<1> SUFFICES ASSUME TypeOK, FreshRead, BoundedWindows, [Next]_vars, UniformWindow,
                    NEW k \in Keys, NEW d \in Clients
             PROVE  Len(store'[k].window) <= WindowSize[d]
  BY DEF BoundedWindows
<1>1. Len(store[k].window) <= WindowSize[d]
  BY DEF BoundedWindows
<1>2. ASSUME NEW c \in Clients, upd[c] \in Updates,
             current[c] = store[upd[c].key], Commit(c)
      PROVE  Len(store'[k].window) <= WindowSize[d]
  <2>1. CASE k = upd[c].key
    <3>1. /\ store[k] \in BucketState /\ upd[c].value \in Values
          /\ WindowSize[c] \in Nat /\ WindowSize[c] = WindowSize[d]
      BY <1>2, ConstantsAssumption DEF TypeOK, Updates, UniformWindow
    <3>2. store'[k] = ApplyUpdate(store[k], upd[c].value, WindowSize[c])
      BY <1>2, <2>1, CommitEffect
    <3>3. QED
      BY <1>1, <3>1, <3>2, ApplyUpdateWindow
  <2>2. CASE k # upd[c].key
    BY <1>1, <1>2, <2>2, CommitEffect
  <2>3. QED
    BY <2>1, <2>2
<1>3. QED
  BY <1>1, <1>2, OnlyCommitsChangeRedis

\* Clients with one window size never store more values than it allows.
THEOREM WindowsAreBounded == Spec => []BoundedWindows
<1>1. Init => BoundedWindows
  <2> SUFFICES ASSUME Init, NEW k \in Keys, NEW c \in Clients
               PROVE  Len(store[k].window) <= WindowSize[c]
    BY DEF BoundedWindows
  <2>1. Len(store[k].window) = 0
    BY EmptySeq DEF Init, EmptyBucket
  <2>2. QED
    BY <2>1, ConstantsAssumption
<1>2. QED
  BY <1>1, NextBoundedWindows, TypeCorrect, ReadsStayFresh, PTL DEF Spec

\* With one window size, a window holds every value folded in, or as many as
\* it has room for.
FullWindows ==
    UniformWindow =>
       \A k \in Keys, c \in Clients :
          Len(store[k].window) = IF Len(folded[k]) < WindowSize[c] THEN Len(folded[k])
                                 ELSE WindowSize[c]

LEMMA ApplyUpdateLength ==
    ASSUME NEW s \in BucketState, NEW x \in Values, NEW size \in Nat
    PROVE  LET n == Len(s.window)
           IN  Len(ApplyUpdate(s, x, size).window) = IF n < size THEN n + 1 ELSE n
<1> DEFINE w == Append(s.window, x)
<1>1. s.window \in Seq(Values) /\ Len(s.window) \in Nat
  BY LenProperties DEF BucketState
<1>2. w \in Seq(Values) /\ w # <<>> /\ Len(w) = Len(s.window) + 1
  BY <1>1, AppendProperties
<1>3. Len(Tail(w)) = Len(w) - 1
  BY <1>2, HeadTailProperties
<1>4. ApplyUpdate(s, x, size).window = IF Len(w) > size THEN Tail(w) ELSE w
  BY DEF ApplyUpdate
<1> HIDE DEF w
<1>5. QED
  BY <1>1, <1>2, <1>3, <1>4

LEMMA NextFullWindows ==
    TypeOK /\ FreshRead /\ FullWindows /\ [Next]_vars => FullWindows'
<1> SUFFICES ASSUME TypeOK, FreshRead, FullWindows, [Next]_vars, UniformWindow,
                    NEW k \in Keys, NEW d \in Clients
             PROVE  Len(store'[k].window) =
                       IF Len(folded'[k]) < WindowSize[d] THEN Len(folded'[k])
                       ELSE WindowSize[d]
  BY DEF FullWindows
<1>1. Len(store[k].window) = IF Len(folded[k]) < WindowSize[d] THEN Len(folded[k])
                             ELSE WindowSize[d]
  BY DEF FullWindows
<1>2. ASSUME NEW c \in Clients, upd[c] \in Updates,
             current[c] = store[upd[c].key], Commit(c), k = upd[c].key
      PROVE  Len(store'[k].window) =
                IF Len(folded'[k]) < WindowSize[d] THEN Len(folded'[k]) ELSE WindowSize[d]
  <2>1. /\ store[k] \in BucketState /\ upd[c].value \in Values
        /\ WindowSize[c] \in Nat /\ WindowSize[c] = WindowSize[d]
    BY <1>2, ConstantsAssumption DEF TypeOK, Updates, UniformWindow
  <2>2. /\ store'[k] = ApplyUpdate(store[k], upd[c].value, WindowSize[c])
        /\ folded'[k] = Append(folded[k], Entry(folded[k], c, upd[c].value))
    BY <1>2, CommitEffect
  <2>3. Len(folded[k]) \in Nat /\ Len(folded'[k]) = Len(folded[k]) + 1
    <3>1. Entry(folded[k], c, upd[c].value) \in LogEntry
      BY <2>1, EntryType
    <3>2. folded[k] \in Seq(LogEntry) /\ Len(folded[k]) \in Nat
      BY HistoryLength
    <3>3. QED
      BY <2>2, <3>1, <3>2, AppendProperties
  <2> DEFINE n == Len(store[k].window)
  <2>4. Len(store'[k].window) = IF n < WindowSize[d] THEN n + 1 ELSE n
    BY <2>1, <2>2, ApplyUpdateLength
  <2>5. QED
    BY <1>1, <2>1, <2>3, <2>4
<1>3. QED
  BY <1>1, <1>2, OnlyCommitsChangeRedis, CommitEffect

\* Clients with one window size retain every value folded in, until the
\* window is full, and from then on keep it full.
THEOREM WindowsAreFull == Spec => []FullWindows
<1>1. Init => FullWindows
  <2> SUFFICES ASSUME Init, NEW k \in Keys, NEW c \in Clients
               PROVE  Len(store[k].window) =
                         IF Len(folded[k]) < WindowSize[c] THEN Len(folded[k])
                         ELSE WindowSize[c]
    BY DEF FullWindows
  <2>1. Len(store[k].window) = 0 /\ Len(folded[k]) = 0
    BY EmptySeq DEF Init, EmptyBucket
  <2>2. QED
    BY <2>1, ConstantsAssumption
<1>2. QED
  BY <1>1, NextFullWindows, TypeCorrect, ReadsStayFresh, PTL DEF Spec

\* Every step of the WATCH loops is a step of the sliding window or stutters.
LEMMA StepRefines ==
    ASSUME TypeOK, FreshRead, BoundedWindows, ~WatchErrorOnDisconnect,
           UniformWindow, [Next]_vars
    PROVE  [Promise!Next]_Promise!vars
<1> DEFINE samples == [k \in Keys |-> store[k].window]
<1>1. CASE UNCHANGED <<store, folded, upd, outcome>>
  BY <1>1 DEF Promise!vars
<1>2. ASSUME NEW c \in Clients, NEW k \in Keys, NEW x \in Values, UpdateBucket(c, k, x)
      PROVE  Promise!Next
  <2>1. upd[c] = NoUpdate
    BY <1>2 DEF UpdateBucket, TypeOK
  <2>2. Promise!Begin(c, k, x)
    BY <1>2, <2>1 DEF UpdateBucket, Promise!Begin
  <2>3. QED
    BY <2>2 DEF Promise!Next
<1>3. ASSUME NEW c \in Clients, EndsWithoutEffect(c)
      PROVE  Promise!Next
  <2>1. PICK how \in Outcomes \ {"returned"} : Finish(c, how)
    BY <1>3 DEF EndsWithoutEffect
  <2>2. upd[c] # NoUpdate
    BY <1>3, ConstantsAssumption DEF EndsWithoutEffect, Updates
  <2>3. Promise!End(c, how)
    BY <2>1, <2>2 DEF Finish, Promise!End
  <2>4. Promise!GiveUp(c)
    BY <1>3, <2>3 DEF EndsWithoutEffect, Promise!GiveUp
  <2>5. QED
    BY <2>4 DEF Promise!Next
<1>4. ASSUME NEW c \in Clients, EndsWithCommit(c)
      PROVE  Promise!Next
  <2> DEFINE k == upd[c].key
             x == upd[c].value
             Window == WindowSize[CHOOSE d \in Clients : TRUE]
  <2>1. PICK how \in {"returned", "failed"} : Finish(c, how)
    BY <1>4 DEF EndsWithCommit
  <2>2. upd[c] # NoUpdate /\ k \in Keys /\ x \in Values
    BY <1>4, ConstantsAssumption DEF EndsWithCommit, Updates
  <2>3. Promise!End(c, how)
    BY <2>1, <2>2 DEF Finish, Promise!End
  <2>4. WindowSize[c] = Window /\ Window \in Nat
    <3>1. (CHOOSE d \in Clients : TRUE) \in Clients
      OBVIOUS
    <3>2. QED
      BY <3>1, ConstantsAssumption DEF UniformWindow
  <2>5. store[k] \in BucketState /\ Len(store[k].window) <= Window
    BY <2>2, <2>4 DEF TypeOK, BoundedWindows
  <2>6. /\ store'[k] = ApplyUpdate(store[k], x, WindowSize[c])
        /\ \A j \in Keys \ {k} : store'[j] = store[j]
    BY <1>4, <2>2, CommitEffect DEF EndsWithCommit
  <2>7. store'[k].window = Promise!LastOf(Append(store[k].window, x))
    <3> DEFINE w == Append(store[k].window, x)
    <3> HIDE DEF Window
    <3>1. ApplyUpdate(store[k], x, Window).window =
             SubSeq(w, IF Len(w) > Window THEN Len(w) - Window + 1 ELSE 1, Len(w))
      BY <2>2, <2>4, <2>5, ApplyUpdateWindow
    <3>2. QED
      BY <2>4, <2>6, <3>1 DEF Window, Promise!LastOf
  <2>8. samples' = [samples EXCEPT ![k] = Promise!LastOf(Append(@, x))]
    BY <2>2, <2>6, <2>7
  <2>9. Promise!Fold(c)
    BY <2>3, <2>8 DEF Promise!Fold
  <2>10. QED
    BY <2>9 DEF Promise!Next
<1>5. QED
  BY <1>1, <1>2, <1>3, <1>4, CallsEndOnce

\* Linearizability: for clients of one window size and a Redis client that
\* raises on a lost connection, update_bucket is atomic: every behaviour of
\* the WATCH loops is one of the sliding window.
THEOREM StoreIsSlidingWindow ==
    ASSUME ~WatchErrorOnDisconnect, UniformWindow
    PROVE  Spec => ImplementsSlidingWindow
<1>1. Init => Promise!Init
  BY DEF Init, EmptyBucket, Promise!Init
<1>2. TypeOK /\ FreshRead /\ BoundedWindows /\ [Next]_vars => [Promise!Next]_Promise!vars
  BY StepRefines
<1>3. QED
  BY <1>1, <1>2, TypeCorrect, ReadsStayFresh, WindowsAreBounded, PTL
  DEF Spec, ImplementsSlidingWindow, Promise!Spec

-----------------------------------------------------------------------------
(* The statistics: what the eviction takes out is what went in.             *)

\* The totals of a history are running totals of its values.
Accumulates(log) ==
    \A n \in 1 .. Len(log) :
       /\ log[n].sum = TotalSum(log, n - 1) + log[n].value
       /\ log[n].sumsq = TotalSumSq(log, n - 1) + log[n].value * log[n].value

\* The statistics of bucket b are those of the retained end of a history.
Telescopes(b, log) ==
    LET n == Len(log)
        m == Len(b.window)
    IN  /\ b.sum = TotalSum(log, n) - TotalSum(log, n - m)
        /\ b.sumsq = TotalSumSq(log, n) - TotalSumSq(log, n - m)

ExactStatistics ==
    \A k \in Keys : Accumulates(folded[k]) /\ Telescopes(store[k], folded[k])

LEMMA TotalsAreInts ==
    ASSUME NEW log \in Seq(LogEntry), NEW n \in 0 .. Len(log)
    PROVE  TotalSum(log, n) \in Int /\ TotalSumSq(log, n) \in Int
<1>1. CASE n = 0
  BY <1>1 DEF TotalSum, TotalSumSq
<1>2. CASE n # 0
  <2>1. n \in 1 .. Len(log)
    BY <1>2, LenProperties
  <2>2. log[n] \in LogEntry
    BY <2>1, ElementOfSeq
  <2>3. QED
    BY <1>2, <2>2 DEF TotalSum, TotalSumSq, LogEntry
<1>3. QED
  BY <1>1, <1>2

\* The totals so far are not touched by a further entry.
LEMMA AppendKeepsTotals ==
    ASSUME NEW log \in Seq(LogEntry), NEW e \in LogEntry, NEW n \in 0 .. Len(log)
    PROVE  /\ TotalSum(Append(log, e), n) = TotalSum(log, n)
           /\ TotalSumSq(Append(log, e), n) = TotalSumSq(log, n)
<1>1. Len(log) \in Nat /\ \A i \in 1 .. Len(log) : Append(log, e)[i] = log[i]
  BY AppendProperties, LenProperties
<1>2. QED
  BY <1>1 DEF TotalSum, TotalSumSq

LEMMA AppendAccumulates ==
    ASSUME NEW log \in Seq(LogEntry), NEW e \in LogEntry, Accumulates(log),
           e.sum = TotalSum(log, Len(log)) + e.value,
           e.sumsq = TotalSumSq(log, Len(log)) + e.value * e.value
    PROVE  Accumulates(Append(log, e))
<1> DEFINE log2 == Append(log, e)
<1>1. /\ Len(log) \in Nat /\ Len(log2) = Len(log) + 1
      /\ \A i \in 1 .. Len(log) : log2[i] = log[i]
      /\ log2[Len(log) + 1] = e
  BY AppendProperties, LenProperties
<1> SUFFICES ASSUME NEW n \in 1 .. Len(log2)
             PROVE  /\ log2[n].sum = TotalSum(log2, n - 1) + log2[n].value
                    /\ log2[n].sumsq = TotalSumSq(log2, n - 1) + log2[n].value * log2[n].value
  BY DEF Accumulates
<1>2. /\ n - 1 \in 0 .. Len(log)
      /\ TotalSum(log2, n - 1) = TotalSum(log, n - 1)
      /\ TotalSumSq(log2, n - 1) = TotalSumSq(log, n - 1)
  BY <1>1, AppendKeepsTotals
<1>3. CASE n = Len(log) + 1
  BY <1>1, <1>2, <1>3
<1>4. CASE n \in 1 .. Len(log)
  BY <1>1, <1>2, <1>4 DEF Accumulates
<1>5. QED
  BY <1>1, <1>3, <1>4

\* The statistics apply_update returns.
LEMMA ApplyUpdateStatistics ==
    ASSUME NEW s \in BucketState, NEW x \in Values, NEW size \in Nat
    PROVE  LET w   == Append(s.window, x)
               new == ApplyUpdate(s, x, size)
           IN  IF Len(w) > size
               THEN /\ new.window = Tail(w)
                    /\ new.sum = IF s.count = 0 THEN 0 ELSE (s.sum + x) - Head(w)
                    /\ new.sumsq = IF s.count = 0 THEN 0
                                   ELSE (s.sumsq + x * x) - Head(w) * Head(w)
               ELSE /\ new.window = w
                    /\ new.sum = s.sum + x
                    /\ new.sumsq = s.sumsq + x * x
<1> DEFINE w == Append(s.window, x)
           new == ApplyUpdate(s, x, size)
<1>1. s.count + 1 = 1 <=> s.count = 0
  BY DEF BucketState
<1>2. CASE Len(w) > size
  <2>1. new.window = Tail(w)
    BY <1>2, Zenon DEF ApplyUpdate
  <2>2. CASE s.count = 0
    BY <1>1, <1>2, <2>1, <2>2, Zenon DEF ApplyUpdate, WelfordUpdate, WelfordRemove
  <2>3. CASE s.count # 0
    <3>1. s.count + 1 # 1
      BY <1>1, <2>3
    <3> DEFINE added == WelfordUpdate(s, x)
    <3>2. added.count # 1
      BY <3>1, Zenon DEF WelfordUpdate
    <3>3. WelfordRemove(added, Head(w)) =
             [count |-> added.count - 1, sum |-> added.sum - Head(w),
              sumsq |-> added.sumsq - Head(w) * Head(w)]
      BY <3>2, Zenon DEF WelfordRemove
    <3>4. new.sum = added.sum - Head(w) /\ new.sumsq = added.sumsq - Head(w) * Head(w)
      <4> DEFINE acc == WelfordRemove(added, Head(w))
      <4>1. new.sum = acc.sum /\ new.sumsq = acc.sumsq
        BY <1>2, Zenon DEF ApplyUpdate
      <4>2. acc.sum = added.sum - Head(w) /\ acc.sumsq = added.sumsq - Head(w) * Head(w)
        BY <3>3
      <4>3. QED
        BY <4>1, <4>2, Zenon
    <3>5. added.sum = s.sum + x /\ added.sumsq = s.sumsq + x * x
      BY Zenon DEF WelfordUpdate
    <3>6. new.sum = (s.sum + x) - Head(w)
      BY <3>4, <3>5, Zenon
    <3>7. new.sumsq = (s.sumsq + x * x) - Head(w) * Head(w)
      BY <3>4, <3>5, Zenon
    <3>8. QED
      BY <1>2, <2>1, <2>3, <3>6, <3>7, Zenon
  <2>4. QED
    BY <2>2, <2>3
<1>3. CASE ~(Len(w) > size)
  BY <1>3, Zenon DEF ApplyUpdate, WelfordUpdate
<1>4. QED
  BY <1>2, <1>3, Zenon

\* The totals around the entry a full bucket evicts, m entries before the
\* last one: the value evicted is what that entry added.
LEMMA EvictedEntry ==
    ASSUME NEW b \in BucketState, NEW log \in Seq(LogEntry), NEW e \in LogEntry,
           RetainsLatest(b, log), Accumulates(Append(log, e))
    PROVE  LET n    == Len(log)
               m    == Len(b.window)
               old  == Head(Append(b.window, e.value))
               log2 == Append(log, e)
           IN  /\ old \in Values /\ m \in 0 .. n
               /\ TotalSum(log2, n + 1 - m) = TotalSum(log, n - m) + old
               /\ TotalSumSq(log2, n + 1 - m) = TotalSumSq(log, n - m) + old * old
<1> DEFINE n == Len(log)
           m == Len(b.window)
           w == Append(b.window, e.value)
           old == Head(w)
           log2 == Append(log, e)
           i == n + 1 - m
<1>1. b.window \in Seq(Values) /\ e.value \in Values
  BY DEF BucketState, LogEntry
<1>2. m \in Nat /\ n \in Nat /\ m <= n
  BY <1>1, LenProperties DEF RetainsLatest
<1>3. w \in Seq(Values) /\ w # <<>> /\ Len(w) = m + 1
  BY <1>1, AppendProperties
<1>4. old \in Values /\ old = w[1]
  BY <1>3, HeadTailProperties
<1>5. Len(log2) = n + 1
  BY AppendProperties
<1>6. RetainsLatest(ApplyUpdate(b, e.value, n + 1), log2)
  BY <1>2, ApplyUpdateRetainsLatest
<1>7. ApplyUpdate(b, e.value, n + 1).window = w
  <2>1. ~(Len(w) > n + 1) /\ n + 1 \in Nat
    BY <1>2, <1>3
  <2>2. QED
    BY <1>1, <2>1, ApplyUpdateStatistics
<1>8. \A j \in 1 .. Len(w) : w[j] = log2[Len(log2) - Len(w) + j].value
  BY <1>6, <1>7 DEF RetainsLatest
<1>9. /\ TotalSum(log2, n - m) = TotalSum(log, n - m)
      /\ TotalSumSq(log2, n - m) = TotalSumSq(log, n - m)
  <2>1. n - m \in 0 .. n
    BY <1>2
  <2>2. QED
    BY <2>1, AppendKeepsTotals
<1>10. /\ i \in 1 .. Len(log2) /\ i # 0 /\ i - 1 = n - m
       /\ Len(log2) - Len(w) + 1 = i /\ 1 \in 1 .. Len(w) /\ m \in 0 .. n
  <2> HIDE DEF n, m, w, log2
  <2>1. QED
    BY <1>2, <1>3, <1>5
<1> HIDE DEF n, m, w, old, log2, i
<1>11. old = log2[i].value
  BY <1>4, <1>8, <1>10
<1>12. /\ log2[i].sum = TotalSum(log2, i - 1) + log2[i].value
       /\ log2[i].sumsq = TotalSumSq(log2, i - 1) + log2[i].value * log2[i].value
  BY <1>10 DEF Accumulates, log2
<1>13. TotalSum(log2, i) = log2[i].sum /\ TotalSumSq(log2, i) = log2[i].sumsq
  BY <1>10 DEF TotalSum, TotalSumSq
<1>14. /\ TotalSum(log2, i) = TotalSum(log, n - m) + old
       /\ TotalSumSq(log2, i) = TotalSumSq(log, n - m) + old * old
  BY <1>9, <1>10, <1>11, <1>12, <1>13, Zenon
<1>15. QED
  BY <1>4, <1>10, <1>14, Zenon DEF n, m, w, old, log2, i

LEMMA ApplyUpdateTelescopes ==
    ASSUME NEW b \in BucketState, NEW log \in Seq(LogEntry), NEW e \in LogEntry,
           NEW size \in Nat, RetainsLatest(b, log),
           Accumulates(log), Telescopes(b, log),
           e.sum = TotalSum(log, Len(log)) + e.value,
           e.sumsq = TotalSumSq(log, Len(log)) + e.value * e.value
    PROVE  Telescopes(ApplyUpdate(b, e.value, size), Append(log, e))
<1> DEFINE x == e.value
           w == Append(b.window, x)
           new == ApplyUpdate(b, x, size)
           n == Len(log)
           m == Len(b.window)
           log2 == Append(log, e)
           old == Head(w)
           xx == x * x
           oo == old * old
<1>1. /\ x \in Values /\ b.window \in Seq(Values)
      /\ b.count = m /\ b.sum \in Int /\ b.sumsq \in Int
  BY DEF LogEntry, BucketState, RetainsLatest
<1>2. n \in Nat /\ Len(log2) = n + 1 /\ log2[n + 1] = e
  BY AppendProperties, LenProperties
<1>3. w \in Seq(Values) /\ w # <<>> /\ Len(w) = m + 1
  BY <1>1, AppendProperties
<1>4. Len(Tail(w)) = m
  <2>1. m \in Nat /\ Len(Tail(w)) = Len(w) - 1
    BY <1>1, <1>3, HeadTailProperties, LenProperties
  <2>2. QED
    BY <1>3, <2>1
<1>5. /\ old \in Values /\ m \in 0 .. n
      /\ TotalSum(log2, n + 1 - m) = TotalSum(log, n - m) + old
      /\ TotalSumSq(log2, n + 1 - m) = TotalSumSq(log, n - m) + oo
  <2>1. Accumulates(log2)
    BY AppendAccumulates
  <2>2. QED
    BY <2>1, EvictedEntry
<1>6. x \in Int /\ old \in Int /\ xx \in Int /\ oo \in Int
  BY <1>1, <1>5, SquareIsInt, ConstantsAssumption
<1>7. n + 1 # 0 /\ n - m \in 0 .. n
  <2> HIDE DEF n, m
  <2>1. QED
    BY <1>2, <1>5
<1>8. /\ TotalSum(log2, n + 1) = TotalSum(log, n) + x
      /\ TotalSumSq(log2, n + 1) = TotalSumSq(log, n) + xx
  BY <1>2, <1>7 DEF TotalSum, TotalSumSq
<1>9. /\ TotalSum(log2, n - m) = TotalSum(log, n - m)
      /\ TotalSumSq(log2, n - m) = TotalSumSq(log, n - m)
  BY <1>7, AppendKeepsTotals
<1>10. /\ TotalSum(log, n) \in Int /\ TotalSumSq(log, n) \in Int
       /\ TotalSum(log, n - m) \in Int /\ TotalSumSq(log, n - m) \in Int
  <2>1. n \in 0 .. n
    BY <1>2
  <2>2. QED
    BY <1>7, <2>1, TotalsAreInts
<1>11. /\ b.sum = TotalSum(log, n) - TotalSum(log, n - m)
       /\ b.sumsq = TotalSumSq(log, n) - TotalSumSq(log, n - m)
  BY DEF Telescopes
<1>12. IF Len(w) > size
       THEN /\ new.window = Tail(w)
            /\ new.sum = IF m = 0 THEN 0 ELSE (b.sum + x) - old
            /\ new.sumsq = IF m = 0 THEN 0 ELSE (b.sumsq + xx) - oo
       ELSE /\ new.window = w
            /\ new.sum = b.sum + x
            /\ new.sumsq = b.sumsq + xx
  BY <1>1, ApplyUpdateStatistics, Zenon
<1>13. Len(new.window) = IF Len(w) > size THEN m ELSE Len(w)
  BY <1>4, <1>12, Zenon
<1> HIDE DEF n, m, w, log2, old, xx, oo, new, x
<1>14. /\ new.sum = TotalSum(log2, n + 1) - TotalSum(log2, n + 1 - Len(new.window))
       /\ new.sumsq = TotalSumSq(log2, n + 1) - TotalSumSq(log2, n + 1 - Len(new.window))
  <2>1. CASE Len(w) > size /\ m = 0
    <3>1. n + 1 - Len(new.window) = n + 1
      BY <1>2, <1>13, <2>1
    <3>2. TotalSum(log2, n + 1) \in Int /\ TotalSumSq(log2, n + 1) \in Int
      BY <1>6, <1>8, <1>10
    <3>3. QED
      BY <1>12, <2>1, <3>1, <3>2
  <2>2. CASE Len(w) > size /\ m # 0
    <3>1. n + 1 - Len(new.window) = n + 1 - m
      BY <1>13, <2>2
    <3>2. /\ new.sum = (b.sum + x) - old
          /\ new.sumsq = (b.sumsq + xx) - oo
      BY <1>12, <2>2
    <3>3. /\ TotalSum(log2, n + 1 - Len(new.window)) = TotalSum(log, n - m) + old
          /\ TotalSumSq(log2, n + 1 - Len(new.window)) = TotalSumSq(log, n - m) + oo
      BY <1>5, <3>1
    <3>4. new.sum = TotalSum(log2, n + 1) - TotalSum(log2, n + 1 - Len(new.window))
      BY <1>6, <1>8, <1>10, <1>11, <3>2, <3>3
    <3>5. new.sumsq = TotalSumSq(log2, n + 1) - TotalSumSq(log2, n + 1 - Len(new.window))
      BY <1>6, <1>8, <1>10, <1>11, <3>2, <3>3
    <3>6. QED
      BY <3>4, <3>5
  <2>3. CASE ~(Len(w) > size)
    <3>1. n + 1 - Len(new.window) = n - m
      BY <1>2, <1>3, <1>5, <1>13, <2>3
    <3>2. QED
      BY <1>6, <1>8, <1>9, <1>10, <1>11, <1>12, <2>3, <3>1
  <2>4. QED
    BY <2>1, <2>2, <2>3
<1>15. QED
  BY <1>2, <1>14 DEF Telescopes, new, log2, x

\* The incremental statistics never drift: after any number of updates,
\* evictions and conflicts, sum and sum of squares of a bucket are the
\* difference of two running totals of its history, those of the samples its
\* window retains.
THEOREM StatisticsAreExact == Spec => []ExactStatistics
<1>1. Init => ExactStatistics
  <2> SUFFICES ASSUME Init, NEW k \in Keys
               PROVE  Accumulates(folded[k]) /\ Telescopes(store[k], folded[k])
    BY DEF ExactStatistics
  <2>1. folded[k] = <<>> /\ store[k] = EmptyBucket /\ Len(<<>>) = 0
    BY EmptySeq DEF Init
  <2>2. QED
    BY <2>1 DEF Accumulates, Telescopes, EmptyBucket, TotalSum, TotalSumSq
<1>2. TypeOK /\ FreshRead /\ WindowIsLogSuffix /\ ExactStatistics /\ [Next]_vars
      => ExactStatistics'
  <2> SUFFICES ASSUME TypeOK, FreshRead, WindowIsLogSuffix, ExactStatistics,
                      [Next]_vars, NEW k \in Keys
               PROVE  Accumulates(folded'[k]) /\ Telescopes(store'[k], folded'[k])
    BY DEF ExactStatistics, Accumulates, Telescopes, TotalSum, TotalSumSq
  <2>1. CASE UNCHANGED <<store, folded>>
    BY <2>1 DEF ExactStatistics
  <2>2. ASSUME NEW c \in Clients, upd[c] \in Updates,
               current[c] = store[upd[c].key], Commit(c)
        PROVE  Accumulates(folded'[k]) /\ Telescopes(store'[k], folded'[k])
    <3>1. CASE k = upd[c].key
      <4> DEFINE e == Entry(folded[k], c, upd[c].value)
      <4>1. upd[c].value \in Values /\ WindowSize[c] \in Nat
        BY <2>2, ConstantsAssumption DEF Updates
      <4>2. /\ e \in LogEntry /\ e.value = upd[c].value
            /\ e.sum = TotalSum(folded[k], Len(folded[k])) + e.value
            /\ e.sumsq = TotalSumSq(folded[k], Len(folded[k])) + e.value * e.value
        BY <4>1, EntryType DEF Entry
      <4>3. /\ store[k] \in BucketState /\ folded[k] \in Seq(LogEntry)
            /\ RetainsLatest(store[k], folded[k])
            /\ Accumulates(folded[k]) /\ Telescopes(store[k], folded[k])
        BY DEF TypeOK, WindowIsLogSuffix, ExactStatistics
      <4>4. Accumulates(Append(folded[k], e))
        BY <4>2, <4>3, AppendAccumulates
      <4>5. Telescopes(ApplyUpdate(store[k], e.value, WindowSize[c]),
                       Append(folded[k], e))
        BY <4>1, <4>2, <4>3, ApplyUpdateTelescopes
      <4>6. /\ store'[k] = ApplyUpdate(store[k], upd[c].value, WindowSize[c])
            /\ folded'[k] = Append(folded[k], e)
        BY <2>2, <3>1, CommitEffect
      <4>7. e.value = upd[c].value
        BY <4>2
      <4> HIDE DEF e
      <4>8. QED
        BY <4>4, <4>5, <4>6, <4>7
    <3>2. CASE k # upd[c].key
      BY <2>2, <3>2, CommitEffect DEF ExactStatistics
    <3>3. QED
      BY <3>1, <3>2
  <2>3. QED
    BY <2>1, <2>2, OnlyCommitsChangeRedis
<1>3. QED
  BY <1>1, <1>2, TypeCorrect, ReadsStayFresh, WindowIsExact, PTL DEF Spec

\* The history before the values the window retains, and what it comes to
\* with each of them.
LEMMA TotalsGrowAlongWindow ==
    ASSUME NEW b \in BucketState, NEW log \in Seq(LogEntry),
           RetainsLatest(b, log), Accumulates(log),
           NEW i \in 1 .. Len(b.window)
    PROVE  LET before == Len(log) - Len(b.window)
           IN  /\ before \in Nat /\ before + i \in 1 .. Len(log)
               /\ b.window[i] \in Int
               /\ TotalSum(log, before + i) = TotalSum(log, before + (i - 1)) + b.window[i]
               /\ TotalSumSq(log, before + i)
                     = TotalSumSq(log, before + (i - 1)) + b.window[i] * b.window[i]
<1> DEFINE w == b.window
           n == Len(log)
           m == Len(w)
           before == n - m
           j == before + i
<1>1. w \in Seq(Values) /\ m \in Nat /\ n \in Nat /\ m <= n
  BY LenProperties DEF RetainsLatest, BucketState
<1>2. i \in 1 .. m
  OBVIOUS
<1>3. w[i] \in Int
  BY <1>1, ElementOfSeq, ConstantsAssumption
<1>4. w[i] = log[j].value
  BY <1>2 DEF RetainsLatest
<1> HIDE DEF w, n, m
<1>5. before \in Nat /\ j \in 1 .. n /\ j # 0 /\ j - 1 = before + (i - 1)
  BY <1>1, <1>2
<1> HIDE DEF before, j
<1>6. /\ log[j].sum = TotalSum(log, j - 1) + log[j].value
      /\ log[j].sumsq = TotalSumSq(log, j - 1) + log[j].value * log[j].value
  BY <1>5 DEF Accumulates, n
<1>7. TotalSum(log, j) = log[j].sum /\ TotalSumSq(log, j) = log[j].sumsq
  BY <1>5 DEF TotalSum, TotalSumSq
<1>8. /\ TotalSum(log, j) = TotalSum(log, before + (i - 1)) + w[i]
      /\ TotalSumSq(log, j) = TotalSumSq(log, before + (i - 1)) + w[i] * w[i]
  BY <1>4, <1>5, <1>6, <1>7, Zenon
<1>9. QED
  BY <1>3, <1>5, <1>8, Zenon DEF w, n, m, before, j

\* The incremental statistics agree with the window: sum and sum of squares
\* of a bucket, and with them mean and m2, are those of the samples it retains
\* at that moment, after any number of updates, evictions and conflicts.
THEOREM StatisticsAreThoseOfTheWindow == Spec => []StatisticsMatchWindow
<1>1. TypeOK /\ WindowIsLogSuffix /\ ExactStatistics => StatisticsMatchWindow
  <2> SUFFICES ASSUME TypeOK, WindowIsLogSuffix, ExactStatistics, NEW k \in Keys
               PROVE  /\ store[k].sum = SumFunction(store[k].window)
                      /\ store[k].sumsq = SumFunction([i \in DOMAIN store[k].window |->
                                              store[k].window[i] * store[k].window[i]])
    BY DEF StatisticsMatchWindow
  <2> DEFINE b == store[k]
             w == b.window
             log == folded[k]
             n == Len(log)
             m == Len(w)
             before == n - m
             squares == [i \in DOMAIN w |-> w[i] * w[i]]
             total == [i \in 0 .. m |-> TotalSum(log, before + i)]
             totalsq == [i \in 0 .. m |-> TotalSumSq(log, before + i)]
  <2>1. /\ b \in BucketState /\ log \in Seq(LogEntry)
        /\ RetainsLatest(b, log) /\ Accumulates(log) /\ Telescopes(b, log)
    BY DEF TypeOK, WindowIsLogSuffix, ExactStatistics
  <2>2. w \in Seq(Values) /\ m \in Nat /\ n \in Nat /\ m <= n /\ DOMAIN w = 1 .. m
    BY <2>1, LenProperties DEF RetainsLatest, BucketState
  <2>3. \A i \in 1 .. m :
           /\ w[i] \in Int
           /\ TotalSum(log, before + i) = TotalSum(log, before + (i - 1)) + w[i]
           /\ TotalSumSq(log, before + i) = TotalSumSq(log, before + (i - 1)) + w[i] * w[i]
    BY <2>1, TotalsGrowAlongWindow
  <2>4. /\ b.sum = TotalSum(log, n) - TotalSum(log, n - m)
        /\ b.sumsq = TotalSumSq(log, n) - TotalSumSq(log, n - m)
    BY <2>1 DEF Telescopes
  <2>5. \A i \in 1 .. m : w[i] * w[i] \in Int
    BY <2>3, SquareIsInt
  <2>6. w \in [1 .. m -> Int] /\ squares \in [1 .. m -> Int]
    <3>1. w \in [1 .. m -> Values]
      BY <2>2, LenProperties
    <3>2. QED
      BY <2>2, <2>3, <2>5, <3>1
  <2>7. \A i \in 1 .. m : squares[i] = w[i] * w[i]
    BY <2>2
  <2> HIDE DEF w, n, m, squares
  <2>8. \A i \in 0 .. m : before + i \in 0 .. n
    BY <2>2
  <2>9. total \in [0 .. m -> Int] /\ totalsq \in [0 .. m -> Int]
    BY <2>1, <2>8, TotalsAreInts DEF n
  <2>10. \A i \in 1 .. m : i \in 0 .. m /\ i - 1 \in 0 .. m
    BY <2>2
  <2>11. \A i \in 1 .. m : /\ total[i] = total[i - 1] + w[i]
                           /\ totalsq[i] = totalsq[i - 1] + squares[i]
    BY <2>3, <2>7, <2>10
  <2>12. /\ 0 \in 0 .. m /\ m \in 0 .. m /\ before + m = n /\ before + 0 = n - m
    BY <2>2
  <2>13. /\ total[m] - total[0] = b.sum
         /\ totalsq[m] - totalsq[0] = b.sumsq
    BY <2>4, <2>12
  <2> HIDE DEF total, totalsq
  <2>14. SumFunction(w) = total[m] - total[0]
    BY <2>2, <2>6, <2>9, <2>11, SumOfRun
  <2>15. SumFunction(squares) = totalsq[m] - totalsq[0]
    BY <2>2, <2>6, <2>9, <2>11, SumOfRun
  <2>16. QED
    BY <2>13, <2>14, <2>15, Zenon DEF w, squares
<1>2. QED
  BY <1>1, TypeCorrect, WindowIsExact, StatisticsAreExact, PTL

=============================================================================

--------------------- MODULE AnomalyScoringWorkerProofs ---------------------
(***************************************************************************)
(* Proofs about the scoring workers on top of the store they share: what   *)
(* is proved of the store carries over, because every step of a worker is  *)
(* a step of the store or leaves it alone.  The last sections follow a     *)
(* verdict from the bucket it is computed from to the textbook test over   *)
(* the samples in the history.                                             *)
(***************************************************************************)
EXTENDS AnomalyScoringWorker, RollingBaselineStoreProofs

-----------------------------------------------------------------------------
(* What a worker has in its hands.                                          *)

\* Points come from the worker's own stream.
FromInbox(w) ==
    /\ pos[w] \in 0 .. Len(Inbox[w])
    /\ batch[w] \in Seq(Range(Inbox[w]))

\* The result of the point being folded in belongs to the call in progress.
Folding(w) ==
    LET r == reading[w]
    IN  /\ r \in ScoreResult /\ batch[w] # <<>>
        /\ upd[w] = [key |-> r.key, value |-> r.value]
        /\ r.call = Len(outcome[w]) + 1
        /\ r.seen <= Len(folded[r.key])
        /\ \E i \in DOMAIN Inbox[w] : KeyOf(Inbox[w][i]) = r.key

\* A published result: its point is in the history, behind all that the
\* baseline it was scored against had seen.
FoldedLater(w, r) ==
    /\ r \in ScoreResult
    /\ \E n \in 1 .. Len(folded[r.key]) :
          CommittedFor(r.key, n, w, r.call) /\ folded[r.key][n].value = r.value
          /\ r.seen < n

PhaseOK ==
    /\ phase \in [Clients -> {"created", "loop", "folding", "stopped"}]
    /\ \A w \in Clients : phase[w] = "folding" <=> pc[w] # "idle"
    /\ \A w \in Clients : phase[w] = "folding" => Folding(w)

FlagsOK == running \in [Clients -> BOOLEAN] /\ stopAsked \in [Clients -> BOOLEAN]

StreamOK ==
    /\ DOMAIN pos = Clients /\ DOMAIN batch = Clients
    /\ \A w \in Clients : FromInbox(w)

ResultsOK ==
    /\ scored \in [Clients -> Seq(ScoreResult)]
    /\ reading \in [Clients -> ScoreResult \cup {NoResult}]
    /\ points_processed_total \in [Clients -> Nat]
    /\ anomalies_flagged_total \in [Clients -> Nat]
    /\ \A w \in Clients : \A i \in 1 .. Len(scored[w]) : FoldedLater(w, scored[w][i])

WorkersOK == PhaseOK /\ FlagsOK /\ StreamOK /\ ResultsOK

\* The inductive invariant: the store's types and the workers'.
WInv == TypeOK /\ WorkersOK

-----------------------------------------------------------------------------
(* Steps of the store.                                                      *)

Continues(w) == pc'[w] # "idle" /\ upd'[w] = upd[w] /\ outcome'[w] = outcome[w]

EndsWith(w, how) == pc'[w] = "idle" /\ outcome'[w] = Append(outcome[w], how)

\* A step leaves the calls of the others alone; the call it belongs to goes on
\* or ends, and returns only by committing.
LEMMA StepIs ==
    ASSUME TypeOK, NEW w \in Clients, Step(w)
    PROVE  /\ pc[w] # "idle" /\ upd[w] \in Updates
           /\ \A v \in Clients \ {w} :
                 pc'[v] = pc[v] /\ upd'[v] = upd[v] /\ outcome'[v] = outcome[v]
           /\ \/ Continues(w)
              \/ \E how \in Outcomes : EndsWith(w, how) /\ (how = "returned" => Commit(w))
           /\ UNCHANGED <<store, folded>> \/ Commit(w)
           /\ ~WatchErrorOnDisconnect /\ Commit(w) => ~Continues(w) \/ UNCHANGED folded
<1>1. /\ pc \in [Clients -> PcValues]
      /\ DOMAIN upd = Clients /\ DOMAIN outcome = Clients /\ DOMAIN pc = Clients
      /\ pc[w] # "idle" => upd[w] \in Updates
  BY DEF TypeOK
<1>2. CASE Watch(w) \/ Get(w)
  BY <1>1, <1>2 DEF Watch, Get, Continues
<1>3. ASSUME Retry(w)
      PROVE  /\ Continues(w)
             /\ \A v \in Clients \ {w} :
                   pc'[v] = pc[v] /\ upd'[v] = upd[v] /\ outcome'[v] = outcome[v]
  BY <1>1, <1>3 DEF Retry, Continues
<1>4. ASSUME NEW how \in Outcomes, Finish(w, how)
      PROVE  /\ EndsWith(w, how) /\ ~Continues(w)
             /\ \A v \in Clients \ {w} :
                   pc'[v] = pc[v] /\ upd'[v] = upd[v] /\ outcome'[v] = outcome[v]
  BY <1>1, <1>4 DEF Finish, EndsWith, Continues
<1>5. "returned" \in Outcomes /\ "failed" \in Outcomes /\ "exhausted" \in Outcomes
      /\ "failed" # "returned" /\ "exhausted" # "returned"
  BY DEF Outcomes
<1>6. CASE Exec(w)
  <2>1. pc[w] = "exec" /\ Commit(w) /\ Finish(w, "returned")
    BY <1>6 DEF Exec
  <2> HIDE DEF Finish, Commit, EndsWith, Continues
  <2>2. QED
    BY <1>1, <1>4, <1>5, <2>1
<1>7. CASE ExecAborted(w)
  BY <1>1, <1>3, <1>7 DEF ExecAborted
<1>8. CASE Exhausted(w)
  BY <1>1, <1>4, <1>5, <1>8 DEF Exhausted
<1>9. CASE ConnectionError(w)
  BY <1>1, <1>4, <1>5, <1>9 DEF ConnectionError
<1>10. CASE Disconnected(w)
  <2>1. pc[w] \in {"get", "exec"} /\ UNCHANGED <<store, folded>>
        /\ (Retry(w) \/ Finish(w, "failed"))
    BY <1>10 DEF Disconnected, LoseConnection
  <2>2. QED
    BY <1>1, <1>3, <1>4, <1>5, <2>1
<1>11. CASE ReplyLost(w)
  <2>1. pc[w] = "exec" /\ Commit(w)
        /\ ((WatchErrorOnDisconnect /\ Retry(w)) \/ Finish(w, "failed"))
    BY <1>11 DEF ReplyLost, LoseConnection
  <2>2. QED
    BY <1>1, <1>3, <1>4, <1>5, <2>1
<1>12. QED
  BY <1>2, <1>6, <1>7, <1>8, <1>9, <1>10, <1>11 DEF Step

\* The history only grows, and by one entry of the call that commits.
Grows(k) ==
    /\ Len(folded[k]) \in Nat /\ Len(folded'[k]) \in Nat
    /\ Len(folded[k]) <= Len(folded'[k])
    /\ \A n \in 1 .. Len(folded[k]) : folded'[k][n] = folded[k][n]

LEMMA CommitAdds ==
    ASSUME TypeOK, NEW w \in Clients, pc[w] # "idle", Commit(w)
    PROVE  /\ upd[w] \in Updates
           /\ \A k \in Keys : Grows(k)
           /\ \A k \in Keys : k # upd[w].key => folded'[k] = folded[k]
           /\ LET k == upd[w].key
                  n == Len(folded[k]) + 1
              IN  /\ Len(folded'[k]) = n
                  /\ folded'[k][n].client = w
                  /\ folded'[k][n].call = Len(outcome[w]) + 1
                  /\ folded'[k][n].value = upd[w].value
<1> DEFINE k == upd[w].key
           e == Entry(folded[k], w, upd[w].value)
<1>1. upd[w] \in Updates /\ k \in Keys /\ upd[w].value \in Values
  BY DEF TypeOK, Updates
<1>2. \A j \in Keys : folded[j] \in Seq(LogEntry) /\ Len(folded[j]) \in Nat
  BY HistoryLength
<1>3. e \in LogEntry /\ e.client = w /\ e.call = Len(outcome[w]) + 1
      /\ e.value = upd[w].value
  BY <1>1, EntryType DEF Entry
<1>4. folded'[k] = Append(folded[k], e) /\ \A j \in Keys : j # k => folded'[j] = folded[j]
  BY <1>1 DEF Commit, TypeOK
<1>5. /\ Len(folded'[k]) = Len(folded[k]) + 1
      /\ \A n \in 1 .. Len(folded[k]) : folded'[k][n] = folded[k][n]
      /\ folded'[k][Len(folded[k]) + 1] = e
  BY <1>1, <1>2, <1>3, <1>4, AppendProperties
<1> HIDE DEF k, e
<1>6. ASSUME NEW j \in Keys
      PROVE  Grows(j)
  BY <1>2, <1>4, <1>5 DEF Grows
<1>7. QED
  BY <1>1, <1>3, <1>4, <1>5, <1>6 DEF k

LEMMA HistoryGrows ==
    ASSUME TypeOK, NEW w \in Clients, Step(w)
    PROVE  \A k \in Keys : Grows(k)
<1>1. pc[w] # "idle" /\ (UNCHANGED <<store, folded>> \/ Commit(w))
  BY StepIs
<1>2. CASE Commit(w)
  BY <1>1, <1>2, CommitAdds
<1>3. CASE UNCHANGED <<store, folded>>
  BY <1>3, HistoryLength DEF Grows
<1>4. QED
  BY <1>1, <1>2, <1>3

\* What was published stays so.
LEMMA PublishedStays ==
    ASSUME NEW w, NEW r, FoldedLater(w, r), Grows(r.key)
    PROVE  FoldedLater(w, r)'
<1>1. PICK n \in 1 .. Len(folded[r.key]) :
              CommittedFor(r.key, n, w, r.call) /\ folded[r.key][n].value = r.value
              /\ r.seen < n
  BY DEF FoldedLater
<1>2. n \in 1 .. Len(folded'[r.key]) /\ folded'[r.key][n] = folded[r.key][n]
  BY DEF Grows
<1>3. CommittedFor(r.key, n, w, r.call)'
  BY <1>1, <1>2 DEF CommittedFor
<1>4. QED
  BY <1>1, <1>2, <1>3 DEF FoldedLater


-----------------------------------------------------------------------------
(* Every step of a worker is a step of the store, or leaves it alone.       *)

\* The point a worker is about to process has a bucket and a value.
LEMMA NextPoint ==
    ASSUME NEW w \in Clients, batch[w] \in Seq(Range(Inbox[w])), batch[w] # <<>>
    PROVE  /\ KeyOf(Head(batch[w])) \in Keys /\ Head(batch[w]).value \in Values
           /\ \E i \in DOMAIN Inbox[w] : Head(batch[w]) = Inbox[w][i]
           /\ Tail(batch[w]) \in Seq(Range(Inbox[w]))
<1>1. Head(batch[w]) \in Range(Inbox[w]) /\ Tail(batch[w]) \in Seq(Range(Inbox[w]))
  BY HeadTailProperties
<1>2. PICK i \in DOMAIN Inbox[w] : Head(batch[w]) = Inbox[w][i]
  BY <1>1 DEF Range
<1>3. QED
  BY <1>1, <1>2, WorkerAssumption

LEMMA WorkIsStoreStep == WInv /\ [WorkerNext]_allVars => [Next]_vars
<1> SUFFICES ASSUME WInv, [WorkerNext]_allVars
             PROVE  [Next]_vars
  OBVIOUS
<1>1. CASE UNCHANGED allVars
  BY <1>1 DEF allVars
<1>2. ASSUME NEW w \in Clients, Work(w) \/ Stop(w)
      PROVE  [Next]_vars
  <2>1. CASE Start(w) \/ Stop(w) \/ Exit(w) \/ ReadFails(w)
    BY <2>1 DEF Start, Stop, Exit, ReadFails
  <2>2. CASE Poll(w)
    BY <2>2 DEF Poll
  <2>3. CASE ReadAndScore(w)
    <3>1. batch[w] # <<>>
          /\ UpdateBucket(w, KeyOf(Head(batch[w])), Head(batch[w]).value)
      BY <2>3 DEF ReadAndScore
    <3>2. KeyOf(Head(batch[w])) \in Keys /\ Head(batch[w]).value \in Values
      BY <3>1, NextPoint DEF WInv, WorkersOK, StreamOK, FromInbox
    <3> HIDE DEF UpdateBucket, KeyOf
    <3>3. QED
      BY <3>1, <3>2 DEF Next
  <2>4. CASE StoreStep(w)
    BY <2>4 DEF StoreStep, Next
  <2>5. QED
    BY <1>2, <2>1, <2>2, <2>3, <2>4 DEF Work
<1>3. QED
  BY <1>1, <1>2 DEF WorkerNext

-----------------------------------------------------------------------------
(* The workers' part of the invariant, action by action.                    *)

\* Steps that leave the store and the results alone.
LEMMA QuietStep ==
    ASSUME WorkersOK, UNCHANGED vars,
           UNCHANGED <<scored, reading, points_processed_total, anomalies_flagged_total>>,
           phase' \in [Clients -> {"created", "loop", "folding", "stopped"}],
           \A w \in Clients : phase'[w] = "folding" <=> phase[w] = "folding",
           \A w \in Clients : phase[w] = "folding" => batch'[w] = batch[w],
           FlagsOK', StreamOK'
    PROVE  WorkersOK'
<1>1. UNCHANGED <<pc, upd, outcome, folded>>
  BY DEF vars
<1>2. PhaseOK'
  BY <1>1 DEF WorkersOK, PhaseOK, Folding
<1>3. ResultsOK'
  BY <1>1 DEF WorkersOK, ResultsOK, FoldedLater, CommittedFor
<1>4. QED
  BY <1>2, <1>3 DEF WorkersOK

LEMMA TakesPoints ==
    ASSUME NEW w \in Clients, NEW n \in 1 .. MaxBatch,
           pos[w] \in 0 .. Len(Inbox[w]), pos[w] + n <= Len(Inbox[w])
    PROVE  /\ pos[w] + n \in 0 .. Len(Inbox[w])
           /\ SubSeq(Inbox[w], pos[w] + 1, pos[w] + n) \in Seq(Range(Inbox[w]))
<1>1. Inbox[w] \in Seq(Range(Inbox[w])) /\ MaxBatch \in Nat /\ Len(Inbox[w]) \in Nat
  BY WorkerAssumption, LenProperties
<1>2. \A i \in pos[w] + 1 .. pos[w] + n : i \in 1 .. Len(Inbox[w])
  BY <1>1
<1>3. SubSeq(Inbox[w], pos[w] + 1, pos[w] + n) \in Seq(Range(Inbox[w]))
  BY <1>1, <1>2, SubSeqProperties
<1>4. QED
  BY <1>1, <1>3

LEMMA QuietSteps ==
    ASSUME WInv, NEW w \in Clients,
           Start(w) \/ Stop(w) \/ Exit(w) \/ Poll(w) \/ ReadFails(w)
    PROVE  WorkersOK'
<1>1. phase \in [Clients -> {"created", "loop", "folding", "stopped"}]
      /\ running \in [Clients -> BOOLEAN] /\ stopAsked \in [Clients -> BOOLEAN]
      /\ DOMAIN pos = Clients /\ DOMAIN batch = Clients
      /\ (\A v \in Clients : FromInbox(v)) /\ WorkersOK
  BY DEF WInv, WorkersOK, PhaseOK, FlagsOK, StreamOK
<1>2. CASE Start(w)
  <2>1. FlagsOK' /\ StreamOK'
    BY <1>1, <1>2 DEF Start, FlagsOK, StreamOK, FromInbox
  <2>2. phase' \in [Clients -> {"created", "loop", "folding", "stopped"}]
        /\ \A v \in Clients : phase'[v] = "folding" <=> phase[v] = "folding"
    BY <1>1, <1>2 DEF Start
  <2>3. UNCHANGED <<vars, batch>>
        /\ UNCHANGED <<scored, reading, points_processed_total, anomalies_flagged_total>>
    BY <1>2 DEF Start
  <2>4. QED
    BY <1>1, <2>1, <2>2, <2>3, QuietStep
<1>3. CASE Stop(w)
  <2>1. FlagsOK' /\ StreamOK'
    BY <1>1, <1>3 DEF Stop, FlagsOK, StreamOK, FromInbox
  <2>2. UNCHANGED <<vars, phase, batch>>
        /\ UNCHANGED <<scored, reading, points_processed_total, anomalies_flagged_total>>
    BY <1>3 DEF Stop
  <2>3. QED
    BY <1>1, <2>1, <2>2, QuietStep
<1>4. CASE Exit(w)
  <2>1. FlagsOK' /\ StreamOK'
    BY <1>1, <1>4 DEF Exit, FlagsOK, StreamOK, FromInbox
  <2>2. phase' \in [Clients -> {"created", "loop", "folding", "stopped"}]
        /\ \A v \in Clients : phase'[v] = "folding" <=> phase[v] = "folding"
    BY <1>1, <1>4 DEF Exit
  <2>3. UNCHANGED <<vars, batch>>
        /\ UNCHANGED <<scored, reading, points_processed_total, anomalies_flagged_total>>
    BY <1>4 DEF Exit
  <2>4. QED
    BY <1>1, <2>1, <2>2, <2>3, QuietStep
<1>5. CASE Poll(w)
  <2>1. PICK n \in 1 .. MaxBatch :
               /\ pos[w] + n <= Len(Inbox[w])
               /\ pos' = [pos EXCEPT ![w] = pos[w] + n]
               /\ \/ batch' = [batch EXCEPT
                        ![w] = SubSeq(Inbox[w], pos[w] + 1, pos[w] + n)]
                  \/ UNCHANGED batch
    BY <1>5 DEF Poll
  <2>2. /\ pos[w] + n \in 0 .. Len(Inbox[w])
        /\ SubSeq(Inbox[w], pos[w] + 1, pos[w] + n) \in Seq(Range(Inbox[w]))
    BY <1>1, <2>1, TakesPoints DEF FromInbox
  <2>3. FlagsOK' /\ UNCHANGED vars /\ UNCHANGED phase
        /\ UNCHANGED <<scored, reading, points_processed_total, anomalies_flagged_total>>
    BY <1>1, <1>5 DEF Poll, FlagsOK
  <2>4. \A v \in Clients : phase[v] = "folding" => batch'[v] = batch[v]
    BY <1>1, <1>5, <2>1 DEF Poll
  <2>5. DOMAIN pos' = Clients /\ DOMAIN batch' = Clients
    BY <1>1, <2>1
  <2> DEFINE taken == SubSeq(Inbox[w], pos[w] + 1, pos[w] + n)
  <2>6. /\ pos'[w] = pos[w] + n
        /\ \A v \in Clients \ {w} : pos'[v] = pos[v]
        /\ batch'[w] = taken \/ batch'[w] = batch[w]
        /\ \A v \in Clients \ {w} : batch'[v] = batch[v]
    BY <1>1, <2>1
  <2> HIDE DEF taken
  <2>7. \A v \in Clients : FromInbox(v)'
    BY <1>1, <2>2, <2>6 DEF FromInbox, taken
  <2>8. StreamOK'
    BY <2>5, <2>7 DEF StreamOK
  <2>9. QED
    BY <1>1, <2>3, <2>8, <2>4, QuietStep
<1>6. CASE ReadFails(w)
  <2>1. phase[w] = "loop" /\ batch[w] # <<>> /\ batch' = [batch EXCEPT ![w] = Tail(batch[w])]
        /\ UNCHANGED <<pos, phase, vars, running, stopAsked>>
        /\ UNCHANGED <<scored, reading, points_processed_total, anomalies_flagged_total>>
    BY <1>6 DEF ReadFails
  <2>2. Tail(batch[w]) \in Seq(Range(Inbox[w]))
    BY <1>1, <2>1, NextPoint DEF FromInbox
  <2>3. FlagsOK' /\ StreamOK'
    BY <1>1, <2>1, <2>2 DEF FlagsOK, StreamOK, FromInbox
  <2>4. \A v \in Clients : phase[v] = "folding" => batch'[v] = batch[v]
    BY <1>1, <2>1
  <2>5. QED
    BY <1>1, <2>1, <2>3, <2>4, QuietStep
<1>7. QED
  BY <1>2, <1>3, <1>4, <1>5, <1>6


LEMMA ScoreType ==
    ASSUME TypeOK, NEW w \in Clients, NEW k \in Keys, NEW x \in Values
    PROVE  LET r == Score(w, k, x)
           IN  /\ r \in ScoreResult /\ r.key = k /\ r.value = x
               /\ r.call = Len(outcome[w]) + 1 /\ r.seen = Len(folded[k])
<1>1. Len(folded[k]) \in Nat
  BY HistoryLength
<1>2. outcome[w] \in Seq(Outcomes)
  BY DEF TypeOK
<1>3. Len(outcome[w]) + 1 \in Nat \ {0}
  BY <1>2, LenProperties
<1> DEFINE verdict == IsAnomaly(w, store[k], x)
<1>4. verdict \in BOOLEAN
  BY DEF IsAnomaly
<1> HIDE DEF verdict
<1>5. Score(w, k, x) = [key |-> k, value |-> x, is_anomaly |-> verdict,
                        call |-> Len(outcome[w]) + 1, seen |-> Len(folded[k])]
  BY DEF Score, verdict
<1>6. QED
  BY <1>1, <1>3, <1>4, <1>5 DEF ScoreResult

LEMMA ReadingStep ==
    ASSUME WInv, NEW w \in Clients, ReadAndScore(w)
    PROVE  WorkersOK'
<1> DEFINE point == Head(batch[w])
           k     == KeyOf(point)
           x     == point.value
<1>1. /\ phase[w] = "loop" /\ batch[w] # <<>>
      /\ UpdateBucket(w, k, x)
      /\ reading' = [reading EXCEPT ![w] = Score(w, k, x)]
      /\ phase' = [phase EXCEPT ![w] = "folding"]
      /\ UNCHANGED <<running, stopAsked, pos, batch, scored,
                     points_processed_total, anomalies_flagged_total>>
  BY DEF ReadAndScore
<1>2. TypeOK /\ PhaseOK /\ FlagsOK /\ StreamOK /\ ResultsOK
  BY DEF WInv, WorkersOK
<1>3. k \in Keys /\ x \in Values /\ \E i \in DOMAIN Inbox[w] : KeyOf(Inbox[w][i]) = k
  BY <1>1, <1>2, NextPoint DEF StreamOK, FromInbox
<1> HIDE DEF point, k, x
<1> DEFINE r == Score(w, k, x)
<1>4. /\ r \in ScoreResult /\ r.key = k /\ r.value = x
      /\ r.call = Len(outcome[w]) + 1 /\ r.seen = Len(folded[k])
  BY <1>2, <1>3, ScoreType
<1> HIDE DEF r
<1>5. /\ pc' = [pc EXCEPT ![w] = "watch"]
      /\ upd' = [upd EXCEPT ![w] = [key |-> k, value |-> x]]
      /\ UNCHANGED <<outcome, folded, batch>> /\ batch[w] # <<>>
  BY <1>1 DEF UpdateBucket
<1>6. /\ DOMAIN pc = Clients /\ DOMAIN upd = Clients
      /\ phase \in [Clients -> {"created", "loop", "folding", "stopped"}]
      /\ reading \in [Clients -> ScoreResult \cup {NoResult}]
  BY <1>2 DEF TypeOK, PhaseOK, ResultsOK
<1>7. /\ pc'[w] = "watch" /\ upd'[w] = [key |-> k, value |-> x]
      /\ phase'[w] = "folding" /\ reading'[w] = r
      /\ \A v \in Clients \ {w} : /\ pc'[v] = pc[v] /\ upd'[v] = upd[v]
                                  /\ phase'[v] = phase[v] /\ reading'[v] = reading[v]
  BY <1>1, <1>5, <1>6 DEF r
<1>8. Folding(w)'
  <2>1. Len(folded[k]) \in Nat
    BY <1>2, <1>3, HistoryLength
  <2>2. QED
    BY <1>3, <1>4, <1>5, <1>7, <2>1 DEF Folding
<1>9. PhaseOK'
  <2>1. phase' \in [Clients -> {"created", "loop", "folding", "stopped"}]
    BY <1>1, <1>6
  <2>2. \A v \in Clients : phase'[v] = "folding" <=> pc'[v] # "idle"
    BY <1>2, <1>7 DEF PhaseOK
  <2>3. ASSUME NEW v \in Clients, phase'[v] = "folding"
        PROVE  Folding(v)'
    <3>1. CASE v = w
      BY <1>8, <3>1
    <3>2. CASE v # w
      BY <1>2, <1>5, <1>7, <2>3, <3>2 DEF PhaseOK, Folding
    <3>3. QED
      BY <3>1, <3>2
  <2>4. QED
    BY <2>1, <2>2, <2>3 DEF PhaseOK
<1>10. FlagsOK' /\ StreamOK'
  BY <1>1, <1>2 DEF FlagsOK, StreamOK, FromInbox
<1>11. ResultsOK'
  <2>1. reading' \in [Clients -> ScoreResult \cup {NoResult}]
    BY <1>1, <1>4, <1>6 DEF r
  <2>2. QED
    BY <1>1, <1>2, <1>5, <2>1 DEF ResultsOK, FoldedLater, CommittedFor
<1>12. QED
  BY <1>9, <1>10, <1>11 DEF WorkersOK

\* What FinishPoint publishes.
LEMMA Publishes ==
    ASSUME WorkersOK, NEW w \in Clients, NEW how, FinishPoint(w, how),
           reading[w] \in ScoreResult
    PROVE  /\ phase'[w] = "loop" /\ batch'[w] = Tail(batch[w])
           /\ scored' \in [Clients -> Seq(ScoreResult)]
           /\ reading' \in [Clients -> ScoreResult \cup {NoResult}]
           /\ points_processed_total' \in [Clients -> Nat]
           /\ anomalies_flagged_total' \in [Clients -> Nat]
           /\ phase' \in [Clients -> {"created", "loop", "folding", "stopped"}]
           /\ DOMAIN batch' = Clients
           /\ \A v \in Clients \ {w} : /\ phase'[v] = phase[v] /\ batch'[v] = batch[v]
                                       /\ scored'[v] = scored[v] /\ reading'[v] = reading[v]
           /\ IF how = "returned" THEN scored'[w] = Append(scored[w], reading[w])
              ELSE scored'[w] = scored[w]
<1>1. /\ phase \in [Clients -> {"created", "loop", "folding", "stopped"}]
      /\ DOMAIN batch = Clients
      /\ scored \in [Clients -> Seq(ScoreResult)]
      /\ reading \in [Clients -> ScoreResult \cup {NoResult}]
      /\ points_processed_total \in [Clients -> Nat]
      /\ anomalies_flagged_total \in [Clients -> Nat]
  BY DEF WorkersOK, PhaseOK, StreamOK, ResultsOK
<1>2. /\ phase' = [phase EXCEPT ![w] = "loop"]
      /\ batch' = [batch EXCEPT ![w] = Tail(batch[w])]
      /\ reading' = [reading EXCEPT ![w] = NoResult]
  BY DEF FinishPoint
<1>3. /\ phase'[w] = "loop" /\ batch'[w] = Tail(batch[w])
      /\ reading' \in [Clients -> ScoreResult \cup {NoResult}]
      /\ phase' \in [Clients -> {"created", "loop", "folding", "stopped"}]
      /\ DOMAIN batch' = Clients
      /\ \A v \in Clients \ {w} : /\ phase'[v] = phase[v] /\ batch'[v] = batch[v]
                                  /\ reading'[v] = reading[v]
  BY <1>1, <1>2
<1>4. CASE how = "returned"
  <2>1. /\ scored' = [scored EXCEPT ![w] = Append(scored[w], reading[w])]
        /\ points_processed_total' =
              [points_processed_total EXCEPT ![w] = points_processed_total[w] + 1]
        /\ anomalies_flagged_total' =
              [anomalies_flagged_total EXCEPT
                 ![w] = IF reading[w].is_anomaly THEN anomalies_flagged_total[w] + 1
                        ELSE anomalies_flagged_total[w]]
    BY <1>4 DEF FinishPoint
  <2>2. Append(scored[w], reading[w]) \in Seq(ScoreResult)
    BY <1>1, AppendProperties
  <2>3. scored' \in [Clients -> Seq(ScoreResult)]
        /\ scored'[w] = Append(scored[w], reading[w])
        /\ \A v \in Clients \ {w} : scored'[v] = scored[v]
    BY <1>1, <2>1, <2>2
  <2>4. points_processed_total' \in [Clients -> Nat]
        /\ anomalies_flagged_total' \in [Clients -> Nat]
    BY <1>1, <2>1
  <2>5. QED
    BY <1>3, <1>4, <2>3, <2>4
<1>5. CASE how # "returned"
  BY <1>1, <1>3, <1>5 DEF FinishPoint
<1>6. QED
  BY <1>4, <1>5

\* A call that returned has put its point behind everything its baseline saw.
LEMMA ReturnedIsFolded ==
    ASSUME WInv, NEW w \in Clients, phase[w] = "folding", Commit(w),
           NEW r, r = reading[w]
    PROVE  FoldedLater(w, r)'
<1> DEFINE k == r.key
           n == Len(folded[k]) + 1
<1>1. /\ TypeOK /\ pc[w] # "idle"
      /\ r \in ScoreResult /\ upd[w] = [key |-> r.key, value |-> r.value]
      /\ r.call = Len(outcome[w]) + 1 /\ r.seen <= Len(folded[k])
  BY DEF WInv, WorkersOK, PhaseOK, Folding
<1>2. upd[w].key = k /\ upd[w].value = r.value /\ k \in Keys /\ r.seen \in Nat
      /\ Len(folded[k]) \in Nat
  BY <1>1, HistoryLength DEF ScoreResult
<1>3. /\ Len(folded'[k]) = n
      /\ folded'[k][n].client = w
      /\ folded'[k][n].call = Len(outcome[w]) + 1
      /\ folded'[k][n].value = upd[w].value
  BY <1>1, <1>2, CommitAdds
<1>4. n \in 1 .. Len(folded'[k]) /\ r.seen < n
  BY <1>1, <1>2, <1>3
<1> HIDE DEF n
<1>5. QED
  BY <1>1, <1>2, <1>3, <1>4 DEF FoldedLater, CommittedFor

\* A step of the worker's update_bucket call.
LEMMA FoldingStep ==
    ASSUME WInv, NEW w \in Clients, StoreStep(w)
    PROVE  WorkersOK'
<1>1. /\ phase[w] = "folding" /\ Step(w) /\ UNCHANGED <<running, stopAsked, pos>>
      /\ TypeOK /\ PhaseOK /\ FlagsOK /\ StreamOK /\ ResultsOK
  BY DEF StoreStep, WInv, WorkersOK
<1>2. /\ \A v \in Clients \ {w} :
            pc'[v] = pc[v] /\ upd'[v] = upd[v] /\ outcome'[v] = outcome[v]
      /\ Continues(w) \/ \E how \in Outcomes : EndsWith(w, how)
                                               /\ (how = "returned" => Commit(w))
  BY <1>1, StepIs
<1>3. \A k \in Keys : Grows(k)
  BY <1>1, HistoryGrows
<1>4. outcome[w] \in Seq(Outcomes) /\ Folding(w) /\ reading[w] \in ScoreResult
  BY <1>1 DEF TypeOK, PhaseOK, Folding
<1>5. FlagsOK'
  BY <1>1 DEF FlagsOK
\* Calls in progress go on unharmed, the published stays published.
<1>6. ASSUME NEW v \in Clients, phase[v] = "folding", reading'[v] = reading[v],
             upd'[v] = upd[v], outcome'[v] = outcome[v], batch'[v] = batch[v]
      PROVE  Folding(v)'
  <2>1. Folding(v)
    BY <1>1, <1>6 DEF PhaseOK
  <2> DEFINE r == reading[v]
  <2>2. Grows(r.key) /\ r.seen \in Nat
    BY <1>3, <2>1 DEF Folding, ScoreResult
  <2>3. r.seen <= Len(folded'[r.key])
    BY <2>1, <2>2 DEF Grows, Folding
  <2>4. QED
    BY <1>6, <2>1, <2>3 DEF Folding
<1>7. ASSUME NEW v, NEW r, FoldedLater(v, r)
      PROVE  FoldedLater(v, r)'
  <2>1. r.key \in Keys
    BY <1>7 DEF FoldedLater, ScoreResult
  <2>2. QED
    BY <1>3, <1>7, <2>1, PublishedStays
<1>8. CASE Continues(w)
  <2>1. pc'[w] # "idle" /\ upd'[w] = upd[w] /\ outcome'[w] = outcome[w]
    BY <1>8 DEF Continues
  <2>2. UNCHANGED <<phase, batch, scored, reading,
                    points_processed_total, anomalies_flagged_total>>
    BY <2>1 DEF StoreStep
  <2>3. \A v \in Clients : pc'[v] # "idle" <=> pc[v] # "idle"
    BY <1>1, <1>2, <2>1 DEF PhaseOK
  <2>4. \A v \in Clients : upd'[v] = upd[v] /\ outcome'[v] = outcome[v]
    BY <1>2, <2>1
  <2>5. \A v \in Clients : phase'[v] = "folding" => Folding(v)'
    BY <1>6, <2>2, <2>4
  <2>6. PhaseOK'
    BY <1>1, <2>2, <2>3, <2>5 DEF PhaseOK
  <2>7. StreamOK'
    BY <1>1, <2>2 DEF StreamOK, FromInbox
  <2>8. ResultsOK'
    BY <1>1, <1>7, <2>2 DEF ResultsOK
  <2>9. QED
    BY <1>5, <2>6, <2>7, <2>8 DEF WorkersOK
<1>9. ASSUME NEW how \in Outcomes, EndsWith(w, how), how = "returned" => Commit(w)
      PROVE  WorkersOK'
  <2>1. /\ pc'[w] = "idle" /\ outcome'[w] = Append(outcome[w], how)
        /\ Len(outcome'[w]) = Len(outcome[w]) + 1 /\ Len(outcome[w]) \in Nat
        /\ outcome'[w][Len(outcome'[w])] = how
    BY <1>4, <1>9, AppendProperties, LenProperties DEF EndsWith
  <2>2. outcome'[w] # outcome[w]
    BY <2>1
  <2>3. FinishPoint(w, how)
    BY <2>1, <2>2 DEF StoreStep
  <2>4. /\ phase'[w] = "loop" /\ batch'[w] = Tail(batch[w])
        /\ scored' \in [Clients -> Seq(ScoreResult)]
        /\ reading' \in [Clients -> ScoreResult \cup {NoResult}]
        /\ points_processed_total' \in [Clients -> Nat]
        /\ anomalies_flagged_total' \in [Clients -> Nat]
        /\ phase' \in [Clients -> {"created", "loop", "folding", "stopped"}]
        /\ DOMAIN batch' = Clients
        /\ \A v \in Clients \ {w} : /\ phase'[v] = phase[v] /\ batch'[v] = batch[v]
                                    /\ scored'[v] = scored[v] /\ reading'[v] = reading[v]
        /\ IF how = "returned" THEN scored'[w] = Append(scored[w], reading[w])
           ELSE scored'[w] = scored[w]
    BY <1>4, <2>3, Publishes DEF WInv
  <2>5. PhaseOK'
    <3>1. ASSUME NEW v \in Clients
          PROVE  phase'[v] = "folding" <=> pc'[v] # "idle"
      <4>1. CASE v = w
        BY <2>1, <2>4, <4>1
      <4>2. CASE v # w
        <5>1. pc'[v] = pc[v] /\ phase'[v] = phase[v]
          BY <1>2, <2>4, <4>2
        <5>2. QED
          BY <1>1, <5>1 DEF PhaseOK
      <4>3. QED
        BY <4>1, <4>2
    <3>2. \A v \in Clients : phase'[v] = "folding" => Folding(v)'
      BY <1>2, <1>6, <2>4
    <3>3. QED
      BY <2>4, <3>1, <3>2 DEF PhaseOK
  <2>6. StreamOK'
    <3>1. batch[w] \in Seq(Range(Inbox[w]))
      BY <1>1 DEF StreamOK, FromInbox
    <3>2. Tail(batch[w]) \in Seq(Range(Inbox[w]))
      BY <1>4, <3>1, HeadTailProperties DEF Folding
    <3>3. QED
      BY <1>1, <2>4, <3>2 DEF StreamOK, FromInbox
  <2>7. ASSUME NEW v \in Clients, NEW i \in 1 .. Len(scored'[v])
        PROVE  FoldedLater(v, scored[v][i])'
    <3>1. CASE scored'[v] = scored[v]
      <4>1. FoldedLater(v, scored[v][i])
        BY <1>1, <2>7, <3>1 DEF ResultsOK
      <4>2. QED
        BY <1>7, <3>1, <4>1
    <3>2. CASE scored'[v] # scored[v]
      <4>1. v = w /\ how = "returned" /\ scored'[w] = Append(scored[w], reading[w])
        BY <2>4, <3>2
      <4>2. scored[w] \in Seq(ScoreResult)
        BY <1>1 DEF ResultsOK
      <4>3. /\ Len(scored'[w]) = Len(scored[w]) + 1
            /\ \A j \in 1 .. Len(scored[w]) : scored'[w][j] = scored[w][j]
            /\ scored'[w][Len(scored[w]) + 1] = reading[w]
            /\ Len(scored[w]) \in Nat
        BY <1>4, <4>1, <4>2, AppendProperties, LenProperties
      <4>4. CASE i \in 1 .. Len(scored[w])
        <5>1. FoldedLater(w, scored[w][i])
          BY <1>1, <4>4 DEF ResultsOK
        <5>2. QED
          BY <1>7, <4>1, <4>3, <4>4, <5>1
      <4>5. CASE i = Len(scored[w]) + 1
        <5>1. PICK r : r = reading[w]
          OBVIOUS
        <5>2. FoldedLater(w, r)'
          BY <1>1, <1>9, <4>1, <5>1, ReturnedIsFolded
        <5>3. QED
          BY <4>1, <4>3, <4>5, <5>1, <5>2
      <4>6. QED
        BY <2>7, <4>1, <4>3, <4>4, <4>5
    <3>3. QED
      BY <3>1, <3>2
  <2>8. ResultsOK'
    BY <2>4, <2>7 DEF ResultsOK
  <2>9. QED
    BY <1>5, <2>5, <2>6, <2>8 DEF WorkersOK
<1>10. QED
  BY <1>2, <1>8, <1>9

LEMMA InitWInv == WorkerInit => WInv
<1> SUFFICES ASSUME WorkerInit
             PROVE  WInv
  OBVIOUS
<1>1. TypeOK
  BY InitTypeOK DEF WorkerInit
<1>2. \A w \in Clients : Inbox[w] \in Seq(Range(Inbox[w])) /\ Len(Inbox[w]) \in Nat
  BY WorkerAssumption, LenProperties
<1>3. \A S : <<>> \in Seq(S)
  BY EmptySeq
<1>4. PhaseOK
  BY DEF WorkerInit, Init, PhaseOK
<1>5. FlagsOK /\ StreamOK
  BY <1>2, <1>3 DEF WorkerInit, FlagsOK, StreamOK, FromInbox
<1>6. ResultsOK
  <2>1. scored \in [Clients -> Seq(ScoreResult)]
    BY <1>3 DEF WorkerInit
  <2>2. \A w \in Clients : Len(scored[w]) = 0
    BY DEF WorkerInit
  <2>3. \A w \in Clients : \A i \in 1 .. Len(scored[w]) : FoldedLater(w, scored[w][i])
    BY <2>2
  <2>4. QED
    BY <2>1, <2>3 DEF WorkerInit, ResultsOK
<1>7. QED
  BY <1>1, <1>4, <1>5, <1>6 DEF WInv, WorkersOK

LEMMA NextWInv == WInv /\ [WorkerNext]_allVars => WInv'
<1> SUFFICES ASSUME WInv, [WorkerNext]_allVars
             PROVE  WInv'
  OBVIOUS
<1>1. TypeOK'
  <2>1. TypeOK /\ [Next]_vars
    BY WorkIsStoreStep DEF WInv
  <2>2. QED
    BY <2>1, NextTypeOK
<1>2. CASE UNCHANGED allVars
  <2>1. WorkersOK
    BY DEF WInv
  <2>2. UNCHANGED <<vars, phase, running, stopAsked, pos, batch, scored, reading,
                    points_processed_total, anomalies_flagged_total>>
    BY <1>2 DEF allVars, workerVars
  <2>3. UNCHANGED <<pc, upd, outcome, folded>>
    BY <2>2 DEF vars
  <2>4. WorkersOK'
    BY <2>1, <2>2, <2>3 DEF WorkersOK, PhaseOK, Folding, FlagsOK, StreamOK, FromInbox,
                            ResultsOK, FoldedLater, CommittedFor
  <2>5. QED
    BY <1>1, <2>4 DEF WInv
<1>3. ASSUME NEW w \in Clients, Work(w) \/ Stop(w)
      PROVE  WorkersOK'
  BY <1>3, QuietSteps, ReadingStep, FoldingStep DEF Work
<1>4. QED
  BY <1>1, <1>2, <1>3 DEF WorkerNext, WInv

THEOREM WorkersStayConsistent == WorkerSpec => []WInv
<1>1. WorkerInit => WInv
  BY InitWInv
<1>2. WInv /\ [WorkerNext]_allVars => WInv'
  BY NextWInv
<1>3. QED
  BY <1>1, <1>2, PTL DEF WorkerSpec

\* The workers use the store as its specification says clients do: whatever
\* is proved of the store (no update is lost, windows are exact, ...) holds
\* with any workers on top of it.
THEOREM WorkersUseTheStore == WorkerSpec => Spec
<1>1. WorkerInit => Init
  BY DEF WorkerInit
<1>2. WInv /\ [WorkerNext]_allVars => [Next]_vars
  BY WorkIsStoreStep
<1>3. QED
  BY <1>1, <1>2, WorkersStayConsistent, PTL DEF WorkerSpec, Spec

\* Types of the workers' own state, for any number of workers and points.
THEOREM WorkerTypes == WorkerSpec => []WorkerTypeOK
<1>1. WInv => WorkerTypeOK
  BY DEF WInv, WorkersOK, PhaseOK, FlagsOK, StreamOK, FromInbox, ResultsOK, WorkerTypeOK
<1>2. QED
  BY <1>1, WorkersStayConsistent, PTL

\* What a step of an update_bucket call makes of the results: those in hand
\* stay in hand, and a published one is old or is the one of a commit.
LEMMA ResultsAfter ==
    ASSUME WInv, NEW w \in Clients, StoreStep(w)
    PROVE  /\ \A v \in Clients : phase'[v] = "folding" =>
                 phase[v] = "folding" /\ reading'[v] = reading[v]
           /\ \A v \in Clients : \A i \in 1 .. Len(scored'[v]) :
                 \/ i \in 1 .. Len(scored[v]) /\ scored'[v][i] = scored[v][i]
                 \/ v = w /\ scored'[v][i] = reading[w] /\ Commit(w)
<1>1. /\ phase[w] = "folding" /\ Step(w)
      /\ TypeOK /\ PhaseOK /\ ResultsOK /\ WorkersOK
  BY DEF StoreStep, WInv, WorkersOK
<1>2. Continues(w) \/ \E how \in Outcomes : EndsWith(w, how) /\ (how = "returned" => Commit(w))
  BY <1>1, StepIs
<1>3. outcome[w] \in Seq(Outcomes) /\ reading[w] \in ScoreResult
      /\ scored[w] \in Seq(ScoreResult)
  BY <1>1 DEF TypeOK, PhaseOK, Folding, ResultsOK
<1>4. CASE Continues(w)
  BY <1>4 DEF StoreStep, Continues
<1>5. ASSUME NEW how \in Outcomes, EndsWith(w, how), how = "returned" => Commit(w)
      PROVE  /\ \A v \in Clients : phase'[v] = "folding" =>
                   phase[v] = "folding" /\ reading'[v] = reading[v]
             /\ \A v \in Clients : \A i \in 1 .. Len(scored'[v]) :
                   \/ i \in 1 .. Len(scored[v]) /\ scored'[v][i] = scored[v][i]
                   \/ v = w /\ scored'[v][i] = reading[w] /\ Commit(w)
  <2>1. /\ outcome'[w] # outcome[w]
        /\ outcome'[w][Len(outcome'[w])] = how
    <3>1. /\ Len(outcome'[w]) = Len(outcome[w]) + 1 /\ Len(outcome[w]) \in Nat
          /\ outcome'[w][Len(outcome'[w])] = how
      BY <1>3, <1>5, AppendProperties, LenProperties DEF EndsWith
    <3>2. QED
      BY <3>1
  <2>2. FinishPoint(w, how)
    BY <2>1 DEF StoreStep
  <2>3. /\ phase'[w] = "loop"
        /\ \A v \in Clients \ {w} : /\ phase'[v] = phase[v]
                                    /\ scored'[v] = scored[v] /\ reading'[v] = reading[v]
        /\ IF how = "returned" THEN scored'[w] = Append(scored[w], reading[w])
           ELSE scored'[w] = scored[w]
    BY <1>1, <1>3, <2>2, Publishes
  <2>4. CASE how = "returned"
    <3>1. /\ Len(scored'[w]) = Len(scored[w]) + 1 /\ Len(scored[w]) \in Nat
          /\ \A j \in 1 .. Len(scored[w]) : scored'[w][j] = scored[w][j]
          /\ scored'[w][Len(scored[w]) + 1] = reading[w]
      BY <1>3, <2>3, <2>4, AppendProperties, LenProperties
    <3>2. QED
      BY <1>5, <2>3, <2>4, <3>1
  <2>5. CASE how # "returned"
    BY <2>3, <2>5
  <2>6. QED
    BY <2>4, <2>5
<1>6. QED
  BY <1>2, <1>4, <1>5

-----------------------------------------------------------------------------
(* The baseline is read before the point goes in.                           *)

\* A call is over, or in progress.
CallBegun(e) ==
    \/ e.call <= Len(outcome[e.client])
    \/ e.call = Len(outcome[e.client]) + 1 /\ pc[e.client] # "idle"

\* Only calls that have begun have folded anything in.
CallsBegun ==
    \A k \in Keys : \A n \in 1 .. Len(folded[k]) : CallBegun(folded[k][n])

\* Wherever the call of a result has folded its point in, it is behind all
\* that the baseline of the result had seen.
OwnBehind(w, r) ==
    \A n \in 1 .. Len(folded[r.key]) : CommittedFor(r.key, n, w, r.call) => r.seen < n

ReadFirst ==
    /\ \A w \in Clients : phase[w] = "folding" => OwnBehind(w, reading[w])
    /\ \A w \in Clients : \A i \in 1 .. Len(scored[w]) : OwnBehind(w, scored[w][i])

\* A call that has begun stays begun, and the one that makes a step has.
LEMMA BegunStays ==
    ASSUME TypeOK, NEW w \in Clients, Step(w), NEW e \in LogEntry,
           CallBegun(e) \/ (e.client = w /\ e.call = Len(outcome[w]) + 1)
    PROVE  CallBegun(e)'
<1>1. /\ pc[w] # "idle"
      /\ \A v \in Clients \ {w} : pc'[v] = pc[v] /\ outcome'[v] = outcome[v]
      /\ Continues(w) \/ \E how \in Outcomes : EndsWith(w, how)
  BY StepIs
<1>2. /\ outcome[w] \in Seq(Outcomes) /\ Len(outcome[w]) \in Nat
      /\ e.client \in Clients /\ e.call \in Nat
  BY LenProperties DEF TypeOK, LogEntry
<1>3. CASE e.client # w
  BY <1>1, <1>2, <1>3 DEF CallBegun
<1>4. CASE e.client = w
  <2>1. e.call <= Len(outcome[w]) + 1
    BY <1>2, <1>4 DEF CallBegun
  <2>2. CASE Continues(w)
    BY <1>1, <1>2, <1>4, <2>1, <2>2 DEF CallBegun, Continues
  <2>3. ASSUME NEW how \in Outcomes, EndsWith(w, how)
        PROVE  CallBegun(e)'
    <3>1. Len(outcome'[w]) = Len(outcome[w]) + 1
      BY <1>2, <2>3, AppendProperties DEF EndsWith
    <3>2. QED
      BY <1>4, <2>1, <3>1 DEF CallBegun
  <2>4. QED
    BY <1>1, <2>2, <2>3
<1>5. QED
  BY <1>3, <1>4

LEMMA NextCallsBegun == TypeOK /\ CallsBegun /\ [Next]_vars => CallsBegun'
<1> SUFFICES ASSUME TypeOK, CallsBegun, [Next]_vars,
                    NEW k \in Keys, NEW n \in 1 .. Len(folded'[k])
             PROVE  CallBegun(folded[k][n])'
  BY DEF CallsBegun
<1>1. PICK e : e = folded'[k][n]
  OBVIOUS
<1>2. e \in LogEntry /\ e.client \in Clients
  <2>1. folded'[k] \in Seq(LogEntry)
    BY NextTypeOK DEF TypeOK
  <2>2. e \in LogEntry
    BY <1>1, <2>1, ElementOfSeq
  <2>3. QED
    BY <2>2 DEF LogEntry
<1>3. ASSUME UNCHANGED folded
      PROVE  CallBegun(e)
  BY <1>1, <1>3 DEF CallsBegun
<1>4. CallBegun(e)'
  <2>1. CASE UNCHANGED vars
    BY <1>3, <2>1 DEF vars, CallBegun
  <2>2. ASSUME NEW c \in Clients, NEW j \in Keys, NEW x \in Values, UpdateBucket(c, j, x)
        PROVE  CallBegun(e)'
    <3>1. /\ UNCHANGED <<outcome, folded>> /\ pc' = [pc EXCEPT ![c] = "watch"]
          /\ DOMAIN pc = Clients
      BY <2>2 DEF UpdateBucket, TypeOK
    <3>2. pc[e.client] # "idle" => pc'[e.client] # "idle"
      BY <1>2, <3>1
    <3>3. QED
      BY <1>3, <3>1, <3>2 DEF CallBegun
  <2>3. ASSUME NEW w \in Clients, Step(w)
        PROVE  CallBegun(e)'
    <3>1. pc[w] # "idle" /\ (UNCHANGED <<store, folded>> \/ Commit(w))
      BY <2>3, StepIs
    <3>2. CallBegun(e) \/ (e.client = w /\ e.call = Len(outcome[w]) + 1)
      <4>1. CASE UNCHANGED folded
        BY <1>3, <4>1
      <4>2. CASE Commit(w)
        <5>1. /\ Grows(k) /\ (k # upd[w].key => folded'[k] = folded[k])
              /\ k = upd[w].key =>
                    /\ Len(folded'[k]) = Len(folded[k]) + 1
                    /\ folded'[k][Len(folded[k]) + 1].client = w
                    /\ folded'[k][Len(folded[k]) + 1].call = Len(outcome[w]) + 1
          <6>1. Grows(k) /\ (k # upd[w].key => folded'[k] = folded[k])
            BY <3>1, <4>2, CommitAdds
          <6>2. LET j == upd[w].key
                    m == Len(folded[j]) + 1
                IN  /\ Len(folded'[j]) = m
                    /\ folded'[j][m].client = w
                    /\ folded'[j][m].call = Len(outcome[w]) + 1
            BY <3>1, <4>2, CommitAdds, Zenon
          <6>3. QED
            BY <6>1, <6>2, Zenon
        <5>2. CASE n \in 1 .. Len(folded[k])
          BY <1>1, <5>1, <5>2 DEF Grows, CallsBegun
        <5>3. CASE n \notin 1 .. Len(folded[k])
          <6>1. k = upd[w].key /\ n = Len(folded[k]) + 1
            BY <5>1, <5>3 DEF Grows
          <6>2. QED
            BY <1>1, <5>1, <6>1
        <5>4. QED
          BY <5>2, <5>3
      <4>3. QED
        BY <3>1, <4>1, <4>2
    <3>3. QED
      BY <1>2, <2>3, <3>2, BegunStays
  <2>4. QED
    BY <2>1, <2>2, <2>3 DEF Next
<1>5. QED
  BY <1>1, <1>4 DEF CallBegun

LEMMA BehindStays ==
    ASSUME NEW w, NEW r, OwnBehind(w, r), Grows(r.key),
           r.seen \in Nat, r.seen <= Len(folded[r.key])
    PROVE  OwnBehind(w, r)'
<1> SUFFICES ASSUME NEW n \in 1 .. Len(folded'[r.key]),
                    folded'[r.key][n].client = w, folded'[r.key][n].call = r.call
             PROVE  r.seen < n
  BY DEF OwnBehind, CommittedFor
<1>1. CASE n \in 1 .. Len(folded[r.key])
  BY <1>1 DEF OwnBehind, CommittedFor, Grows
<1>2. CASE n \notin 1 .. Len(folded[r.key])
  BY <1>2 DEF Grows
<1>3. QED
  BY <1>1, <1>2

LEMMA BehindFolding ==
    ASSUME WInv, ReadFirst, NEW w \in Clients, StoreStep(w)
    PROVE  ReadFirst'
<1>1. TypeOK /\ PhaseOK /\ ResultsOK /\ phase[w] = "folding" /\ Step(w)
  BY DEF StoreStep, WInv, WorkersOK
<1>2. \A k \in Keys : Grows(k)
  BY <1>1, HistoryGrows
<1>3. ASSUME NEW v \in Clients, phase[v] = "folding", NEW r, r = reading[v]
      PROVE  OwnBehind(v, r)'
  <2>1. Folding(v) /\ OwnBehind(v, r)
    BY <1>1, <1>3 DEF PhaseOK, ReadFirst
  <2>2. r.key \in Keys /\ r.seen \in Nat /\ r.seen <= Len(folded[r.key])
    BY <1>3, <2>1 DEF Folding, ScoreResult
  <2>3. QED
    BY <1>2, <2>1, <2>2, BehindStays
<1>4. ASSUME NEW v \in Clients, NEW i \in 1 .. Len(scored[v]), NEW r, r = scored[v][i]
      PROVE  OwnBehind(v, r)'
  <2>1. FoldedLater(v, r) /\ OwnBehind(v, r)
    BY <1>1, <1>4 DEF ResultsOK, ReadFirst
  <2>2. r.key \in Keys /\ r.seen \in Nat
    BY <2>1 DEF FoldedLater, ScoreResult
  <2>3. Len(folded[r.key]) \in Nat
    BY <1>1, <2>2, HistoryLength
  <2>4. r.seen <= Len(folded[r.key])
    BY <2>1, <2>2, <2>3 DEF FoldedLater
  <2>5. QED
    BY <1>2, <2>1, <2>2, <2>4, BehindStays
<1>5. ASSUME NEW v \in Clients, phase'[v] = "folding"
      PROVE  OwnBehind(v, reading[v])'
  <2>1. PICK r : r = reading[v]
    OBVIOUS
  <2>2. phase[v] = "folding" /\ reading'[v] = r
    BY <1>5, <2>1, ResultsAfter
  <2>3. OwnBehind(v, r)'
    BY <1>3, <2>1, <2>2
  <2>4. QED
    BY <2>2, <2>3 DEF OwnBehind
<1>6. ASSUME NEW v \in Clients, NEW i \in 1 .. Len(scored'[v])
      PROVE  OwnBehind(v, scored[v][i])'
  <2>1. PICK r : r = scored'[v][i]
    OBVIOUS
  <2>2. \/ i \in 1 .. Len(scored[v]) /\ r = scored[v][i]
        \/ v = w /\ r = reading[w]
    BY <1>6, <2>1, ResultsAfter
  <2>3. OwnBehind(v, r)'
    BY <1>1, <1>3, <1>4, <2>2
  <2>4. QED
    BY <2>1, <2>3 DEF OwnBehind
<1>7. QED
  BY <1>5, <1>6 DEF ReadFirst

\* When the baseline is read, the call that will fold the point in has not
\* begun.
LEMMA BehindReading ==
    ASSUME WInv, CallsBegun, ReadFirst, NEW w \in Clients, ReadAndScore(w)
    PROVE  ReadFirst'
<1> DEFINE k == KeyOf(Head(batch[w]))
           x == Head(batch[w]).value
           s == Score(w, k, x)
<1>1. /\ UNCHANGED scored /\ UpdateBucket(w, k, x) /\ batch[w] # <<>>
      /\ reading' = [reading EXCEPT ![w] = s]
      /\ phase' = [phase EXCEPT ![w] = "folding"]
      /\ TypeOK /\ StreamOK
      /\ DOMAIN phase = Clients /\ DOMAIN reading = Clients
  BY DEF ReadAndScore, WInv, WorkersOK, PhaseOK, ResultsOK
<1>2. k \in Keys /\ x \in Values
  BY <1>1, NextPoint DEF StreamOK, FromInbox
<1>3. UNCHANGED folded /\ pc[w] = "idle"
  BY <1>1 DEF UpdateBucket
<1> HIDE DEF k, x
<1>4. s.key = k /\ s.call = Len(outcome[w]) + 1 /\ Len(outcome[w]) \in Nat
  <2>1. outcome[w] \in Seq(Outcomes)
    BY <1>1 DEF TypeOK
  <2>2. s.key = k /\ s.call = Len(outcome[w]) + 1
    BY DEF Score
  <2>3. QED
    BY <2>1, <2>2, LenProperties
<1> HIDE DEF s
<1>5. OwnBehind(w, s)
  <2>1. ASSUME NEW n \in 1 .. Len(folded[k]), folded[k][n].client = w
        PROVE  folded[k][n].call # s.call
    <3>1. folded[k][n] \in LogEntry
      BY <1>1, <1>2, HistoryLength, ElementOfSeq
    <3>2. CallBegun(folded[k][n]) /\ folded[k][n].call \in Nat
      BY <1>2, <3>1 DEF CallsBegun, LogEntry
    <3>3. QED
      BY <1>3, <1>4, <2>1, <3>2 DEF CallBegun
  <2>2. QED
    BY <1>4, <2>1 DEF OwnBehind, CommittedFor
<1>6. ASSUME NEW v, NEW r, OwnBehind(v, r)
      PROVE  OwnBehind(v, r)'
  BY <1>3, <1>6 DEF OwnBehind, CommittedFor
<1>7. ASSUME NEW v \in Clients, phase'[v] = "folding"
      PROVE  OwnBehind(v, reading[v])'
  <2>1. PICK r : r = reading'[v]
    OBVIOUS
  <2>2. OwnBehind(v, r)
    <3>1. CASE v = w
      BY <1>1, <1>5, <2>1, <3>1
    <3>2. CASE v # w
      BY <1>1, <1>7, <2>1, <3>2 DEF ReadFirst
    <3>3. QED
      BY <3>1, <3>2
  <2>3. OwnBehind(v, r)'
    BY <1>6, <2>2
  <2>4. QED
    BY <2>1, <2>3 DEF OwnBehind
<1>8. ASSUME NEW v \in Clients, NEW i \in 1 .. Len(scored'[v])
      PROVE  OwnBehind(v, scored[v][i])'
  <2>1. PICK r : r = scored[v][i]
    OBVIOUS
  <2>2. OwnBehind(v, r)
    BY <1>1, <1>8, <2>1 DEF ReadFirst
  <2>3. OwnBehind(v, r)'
    BY <1>6, <2>2
  <2>4. QED
    BY <1>1, <2>1, <2>3 DEF OwnBehind
<1>9. QED
  BY <1>7, <1>8 DEF ReadFirst

LEMMA NextReadFirst ==
    WInv /\ CallsBegun /\ ReadFirst /\ [WorkerNext]_allVars => ReadFirst'
<1> SUFFICES ASSUME WInv, CallsBegun, ReadFirst, [WorkerNext]_allVars
             PROVE  ReadFirst'
  OBVIOUS
<1>1. ASSUME UNCHANGED <<folded, scored, reading>>,
             \A v \in Clients : phase'[v] = "folding" <=> phase[v] = "folding"
      PROVE  ReadFirst'
  BY <1>1 DEF ReadFirst, OwnBehind, CommittedFor
<1>2. CASE UNCHANGED allVars
  BY <1>1, <1>2 DEF allVars, workerVars, vars
<1>3. ASSUME NEW w \in Clients, Work(w) \/ Stop(w)
      PROVE  ReadFirst'
  <2>1. DOMAIN phase = Clients
    BY DEF WInv, WorkersOK, PhaseOK
  <2>2. CASE Start(w) \/ Exit(w)
    <3>1. UNCHANGED <<folded, scored, reading>> /\ phase[w] # "folding"
          /\ (phase' = [phase EXCEPT ![w] = "loop"]
              \/ phase' = [phase EXCEPT ![w] = "stopped"])
      BY <2>2 DEF Start, Exit, vars
    <3>2. \A v \in Clients : phase'[v] = "folding" <=> phase[v] = "folding"
      BY <2>1, <3>1
    <3>3. QED
      BY <1>1, <3>1, <3>2
  <2>3. CASE Stop(w) \/ Poll(w) \/ ReadFails(w)
    BY <1>1, <2>3 DEF Stop, Poll, ReadFails, vars
  <2>4. CASE ReadAndScore(w)
    BY <2>4, BehindReading
  <2>5. CASE StoreStep(w)
    BY <2>5, BehindFolding
  <2>6. QED
    BY <1>3, <2>2, <2>3, <2>4, <2>5 DEF Work
<1>4. QED
  BY <1>2, <1>3 DEF WorkerNext

\* A published score rests on a baseline that its own point is not part of,
\* however the workers' reads and updates interleave, whatever connections
\* they lose and however often the point goes in.
THEOREM ScoresPrecedeFolds == WorkerSpec => []ScoredBeforeFold
<1>1. Init => CallsBegun
  <2>1. ASSUME Init
        PROVE  \A k \in Keys : Len(folded[k]) = 0
    BY <2>1, EmptySeq DEF Init
  <2>2. QED
    BY <2>1 DEF CallsBegun
<1>2. WorkerInit => ReadFirst
  <2> SUFFICES ASSUME WorkerInit
               PROVE  ReadFirst
    OBVIOUS
  <2>1. \A w \in Clients : phase[w] = "created" /\ Len(scored[w]) = 0
    BY EmptySeq DEF WorkerInit
  <2>2. QED
    BY <2>1 DEF ReadFirst
<1>3. WInv /\ ReadFirst => ScoredBeforeFold
  <2> SUFFICES ASSUME WInv, ReadFirst, NEW w \in Clients, NEW i \in DOMAIN scored[w]
               PROVE  LET r == scored[w][i]
                      IN  \A n \in DOMAIN folded[r.key] :
                             CommittedFor(r.key, n, w, r.call) => r.seen < n
    BY DEF ScoredBeforeFold
  <2>1. TypeOK /\ ResultsOK
    BY DEF WInv, WorkersOK
  <2>2. i \in 1 .. Len(scored[w])
    BY <2>1, LenProperties DEF ResultsOK
  <2>3. PICK r : r = scored[w][i]
    OBVIOUS
  <2>4. FoldedLater(w, r) /\ OwnBehind(w, r)
    BY <2>1, <2>2, <2>3 DEF ResultsOK, ReadFirst
  <2>5. DOMAIN folded[r.key] = 1 .. Len(folded[r.key])
    BY <2>1, <2>4, HistoryLength, LenProperties DEF FoldedLater, ScoreResult
  <2>6. QED
    BY <2>3, <2>4, <2>5 DEF OwnBehind
<1>4. TypeOK /\ CallsBegun /\ [Next]_vars => CallsBegun'
  BY NextCallsBegun
<1>5. Spec => []TypeOK
  BY TypeCorrect
<1>6. Spec => []CallsBegun
  BY <1>1, <1>4, <1>5, PTL DEF Spec
<1>7. WInv /\ CallsBegun /\ ReadFirst /\ [WorkerNext]_allVars => ReadFirst'
  BY NextReadFirst
<1>8. QED
  BY <1>2, <1>3, <1>6, <1>7, WorkersStayConsistent, WorkersUseTheStore, PTL DEF WorkerSpec

-----------------------------------------------------------------------------
(* One worker per series: the unlocked read is not stale.                   *)

\* All that a bucket has seen since it was read for the point in progress is
\* that point, once or, after lost replies, several times.
OwnSince(w, r) == \A n \in r.seen + 1 .. Len(folded[r.key]) :
                     CommittedFor(r.key, n, w, r.call)

\* The first entry after those a published score saw is its own point.
Fresh(w, r) == /\ r.seen + 1 \in 1 .. Len(folded[r.key])
               /\ CommittedFor(r.key, r.seen + 1, w, r.call)

FreshInHand ==
    \A w \in Clients :
       phase[w] = "folding" /\ SoleOwner(w, reading[w].key) => OwnSince(w, reading[w])

FreshPublished ==
    \A w \in Clients : \A i \in 1 .. Len(scored[w]) :
       SoleOwner(w, scored[w][i].key) => Fresh(w, scored[w][i])

FreshReads == FreshInHand /\ FreshPublished

LEMMA FreshStays ==
    ASSUME NEW w, NEW r, Fresh(w, r), Grows(r.key)
    PROVE  Fresh(w, r)'
<1>1. r.seen + 1 \in 1 .. Len(folded'[r.key])
      /\ folded'[r.key][r.seen + 1] = folded[r.key][r.seen + 1]
  BY DEF Fresh, Grows
<1>2. QED
  BY <1>1 DEF Fresh, CommittedFor

\* A commit by another worker is on another bucket; one's own is one's own.
LEMMA OwnStays ==
    ASSUME WInv, NEW v \in Clients, phase[v] = "folding",
           NEW r, r = reading[v], SoleOwner(v, r.key), OwnSince(v, r),
           NEW w \in Clients, phase[w] = "folding", Commit(w)
    PROVE  OwnSince(v, r)'
<1>1. /\ TypeOK /\ Folding(v) /\ Folding(w) /\ pc[w] # "idle"
  BY DEF WInv, WorkersOK, PhaseOK
<1>2. /\ r \in ScoreResult /\ r.key \in Keys /\ r.seen \in Nat
      /\ r.call = Len(outcome[v]) + 1
  BY <1>1 DEF Folding, ScoreResult
<1>3. Grows(r.key) /\ (r.key # upd[w].key => folded'[r.key] = folded[r.key])
  BY <1>1, <1>2, CommitAdds
<1>4. CASE v # w
  <2>1. PICK i \in DOMAIN Inbox[w] : KeyOf(Inbox[w][i]) = reading[w].key
    BY <1>1 DEF Folding
  <2>2. upd[w].key = reading[w].key
    BY <1>1 DEF Folding
  <2>3. r.key # upd[w].key
    BY <1>4, <2>1, <2>2 DEF SoleOwner
  <2>4. QED
    BY <1>3, <2>3 DEF OwnSince, CommittedFor
<1>5. CASE v = w
  <2>1. upd[w].key = r.key
    BY <1>1, <1>5 DEF Folding
  <2>2. /\ Len(folded'[r.key]) = Len(folded[r.key]) + 1
        /\ folded'[r.key][Len(folded[r.key]) + 1].client = w
        /\ folded'[r.key][Len(folded[r.key]) + 1].call = Len(outcome[w]) + 1
    BY <1>1, <2>1, CommitAdds
  <2>3. ASSUME NEW n \in r.seen + 1 .. Len(folded'[r.key])
        PROVE  folded'[r.key][n].client = v /\ folded'[r.key][n].call = r.call
    <3>1. CASE n = Len(folded[r.key]) + 1
      BY <1>2, <1>5, <2>2, <3>1
    <3>2. CASE n # Len(folded[r.key]) + 1
      <4>1. n \in r.seen + 1 .. Len(folded[r.key])
            /\ folded'[r.key][n] = folded[r.key][n]
        BY <1>2, <1>3, <2>2, <3>2 DEF Grows
      <4>2. QED
        BY <4>1 DEF OwnSince, CommittedFor
    <3>3. QED
      BY <3>1, <3>2
  <2>4. QED
    BY <2>3 DEF OwnSince, CommittedFor
<1>6. QED
  BY <1>4, <1>5

LEMMA FreshFolding ==
    ASSUME WInv, FreshReads, NEW w \in Clients, StoreStep(w)
    PROVE  FreshReads'
<1>1. /\ phase[w] = "folding" /\ Step(w)
      /\ TypeOK /\ PhaseOK /\ ResultsOK /\ pc[w] # "idle"
  BY DEF StoreStep, WInv, WorkersOK, PhaseOK
<1>2. UNCHANGED <<store, folded>> \/ Commit(w)
  BY <1>1, StepIs
<1>3. \A k \in Keys : Grows(k)
  BY <1>1, HistoryGrows
<1>4. Folding(w)
  BY <1>1 DEF PhaseOK
<1>5. ASSUME NEW v \in Clients, phase[v] = "folding",
             NEW r, r = reading[v], SoleOwner(v, r.key)
      PROVE  OwnSince(v, r)'
  <2>1. OwnSince(v, r)
    BY <1>5 DEF FreshReads, FreshInHand
  <2>2. CASE UNCHANGED <<store, folded>>
    BY <2>1, <2>2 DEF OwnSince, CommittedFor
  <2>3. CASE Commit(w)
    BY <1>1, <1>5, <2>1, <2>3, OwnStays
  <2>4. QED
    BY <1>2, <2>2, <2>3
<1>6. ASSUME NEW v \in Clients, NEW i \in 1 .. Len(scored[v]),
             NEW r, r = scored[v][i], SoleOwner(v, r.key)
      PROVE  Fresh(v, r)'
  <2>1. Fresh(v, r)
    BY <1>6 DEF FreshReads, FreshPublished
  <2>2. FoldedLater(v, r)
    BY <1>1, <1>6 DEF ResultsOK
  <2>3. Grows(r.key)
    BY <1>3, <2>2 DEF FoldedLater, ScoreResult
  <2>4. QED
    BY <2>1, <2>3, FreshStays
<1>7. ASSUME NEW v \in Clients, phase'[v] = "folding", SoleOwner(v, reading'[v].key)
      PROVE  OwnSince(v, reading[v])'
  <2>1. PICK r : r = reading[v]
    OBVIOUS
  <2>2. phase[v] = "folding" /\ reading'[v] = r
    BY <1>7, <2>1, ResultsAfter
  <2>3. OwnSince(v, r)'
    BY <1>5, <1>7, <2>1, <2>2
  <2>4. QED
    BY <2>2, <2>3 DEF OwnSince
<1>8. ASSUME NEW r, r = reading[w], SoleOwner(w, r.key), Commit(w)
      PROVE  Fresh(w, r)'
  <2>1. OwnSince(w, r)'
    BY <1>1, <1>5, <1>8
  <2>2. r \in ScoreResult /\ r.seen \in Nat /\ r.key \in Keys
        /\ r.seen <= Len(folded[r.key]) /\ upd[w].key = r.key
    BY <1>4, <1>8 DEF Folding, ScoreResult
  <2>3. Len(folded'[r.key]) = Len(folded[r.key]) + 1 /\ Len(folded[r.key]) \in Nat
    BY <1>1, <1>8, <2>2, CommitAdds, HistoryLength
  <2>4. r.seen + 1 \in r.seen + 1 .. Len(folded'[r.key])
        /\ r.seen + 1 \in 1 .. Len(folded'[r.key])
    BY <2>2, <2>3
  <2>5. QED
    BY <2>1, <2>4 DEF OwnSince, Fresh
<1>9. ASSUME NEW v \in Clients, NEW i \in 1 .. Len(scored'[v]),
             SoleOwner(v, scored'[v][i].key)
      PROVE  Fresh(v, scored[v][i])'
  <2>1. PICK r : r = scored'[v][i]
    OBVIOUS
  <2>2. \/ i \in 1 .. Len(scored[v]) /\ r = scored[v][i]
        \/ v = w /\ r = reading[w] /\ Commit(w)
    BY <1>9, <2>1, ResultsAfter
  <2>3. Fresh(v, r)'
    BY <1>6, <1>8, <1>9, <2>1, <2>2
  <2>4. QED
    BY <2>1, <2>3 DEF Fresh
<1>10. QED
  BY <1>7, <1>9 DEF FreshReads, FreshInHand, FreshPublished, SoleOwner

LEMMA FreshReading ==
    ASSUME WInv, FreshReads, NEW w \in Clients, ReadAndScore(w)
    PROVE  FreshReads'
<1> DEFINE k == KeyOf(Head(batch[w]))
           x == Head(batch[w]).value
           s == Score(w, k, x)
<1>1. /\ UNCHANGED scored /\ UpdateBucket(w, k, x) /\ batch[w] # <<>>
      /\ reading' = [reading EXCEPT ![w] = s]
      /\ phase' = [phase EXCEPT ![w] = "folding"]
      /\ TypeOK /\ StreamOK
      /\ DOMAIN phase = Clients /\ DOMAIN reading = Clients
  BY DEF ReadAndScore, WInv, WorkersOK, PhaseOK, ResultsOK
<1>2. k \in Keys /\ x \in Values
  BY <1>1, NextPoint DEF StreamOK, FromInbox
<1>3. UNCHANGED folded
  BY <1>1 DEF UpdateBucket
<1> HIDE DEF k, x
<1>4. s.key = k /\ s.seen = Len(folded[k]) /\ Len(folded[k]) \in Nat
  <2>1. s.key = k /\ s.seen = Len(folded[k])
    BY DEF Score
  <2>2. QED
    BY <1>1, <1>2, <2>1, HistoryLength, Zenon
<1> HIDE DEF s
<1>5. FreshPublished'
  <2>1. UNCHANGED <<folded, scored>>
    BY <1>1, <1>3
  <2>2. ASSUME NEW v, NEW r, Fresh(v, r)
        PROVE  Fresh(v, r)'
    BY <1>3, <2>2 DEF Fresh, CommittedFor
  <2>3. SUFFICES ASSUME NEW v \in Clients, NEW i \in 1 .. Len(scored'[v]),
                        SoleOwner(v, scored'[v][i].key)
                 PROVE  Fresh(v, scored[v][i])'
    BY DEF FreshPublished, SoleOwner
  <2>4. PICK r : r = scored[v][i]
    OBVIOUS
  <2>5. Fresh(v, r)
    BY <2>1, <2>3, <2>4 DEF FreshReads, FreshPublished
  <2>6. Fresh(v, r)' /\ r = scored'[v][i]
    BY <2>1, <2>2, <2>4, <2>5
  <2>7. QED
    BY <2>6 DEF Fresh
<1>6. FreshInHand'
  <2>1. SUFFICES ASSUME NEW v \in Clients, phase'[v] = "folding",
                        SoleOwner(v, reading'[v].key)
                 PROVE  OwnSince(v, reading[v])'
    BY DEF FreshInHand, SoleOwner
  <2>2. CASE v = w
    <3>1. reading'[v] = s
      BY <1>1, <2>2
    <3>2. QED
      BY <1>3, <1>4, <3>1 DEF OwnSince
  <2>3. CASE v # w
    <3>1. reading'[v] = reading[v] /\ phase'[v] = phase[v]
      BY <1>1, <2>3
    <3>2. OwnSince(v, reading[v])
      BY <2>1, <3>1 DEF FreshReads, FreshInHand
    <3>3. QED
      BY <1>3, <3>1, <3>2 DEF OwnSince, CommittedFor
  <2>4. QED
    BY <2>2, <2>3
<1>7. QED
  BY <1>5, <1>6 DEF FreshReads

LEMMA NextFreshReads == WInv /\ FreshReads /\ [WorkerNext]_allVars => FreshReads'
<1> SUFFICES ASSUME WInv, FreshReads, [WorkerNext]_allVars
             PROVE  FreshReads'
  OBVIOUS
<1>1. ASSUME UNCHANGED <<folded, scored, reading>>,
             \A v \in Clients : phase'[v] = "folding" <=> phase[v] = "folding"
      PROVE  FreshReads'
  BY <1>1 DEF FreshReads, FreshInHand, FreshPublished, SoleOwner, OwnSince, Fresh,
              CommittedFor
<1>2. CASE UNCHANGED allVars
  BY <1>1, <1>2 DEF allVars, workerVars, vars
<1>3. ASSUME NEW w \in Clients, Work(w) \/ Stop(w)
      PROVE  FreshReads'
  <2>1. DOMAIN phase = Clients
    BY DEF WInv, WorkersOK, PhaseOK
  <2>2. CASE Start(w) \/ Exit(w)
    <3>1. UNCHANGED <<folded, scored, reading>> /\ phase[w] # "folding"
          /\ (phase' = [phase EXCEPT ![w] = "loop"]
              \/ phase' = [phase EXCEPT ![w] = "stopped"])
      BY <2>2 DEF Start, Exit, vars
    <3>2. \A v \in Clients : phase'[v] = "folding" <=> phase[v] = "folding"
      BY <2>1, <3>1
    <3>3. QED
      BY <1>1, <3>1, <3>2
  <2>3. CASE Stop(w) \/ Poll(w) \/ ReadFails(w)
    BY <1>1, <2>3 DEF Stop, Poll, ReadFails, vars
  <2>4. CASE ReadAndScore(w)
    BY <2>4, FreshReading
  <2>5. CASE StoreStep(w)
    BY <2>5, FreshFolding
  <2>6. QED
    BY <1>3, <2>2, <2>3, <2>4, <2>5 DEF Work
<1>4. QED
  BY <1>2, <1>3 DEF WorkerNext

\* With one worker per series nothing is folded between the baseline a score
\* used and the scored point itself, whatever the other workers do.
THEOREM SoleOwnersScoreFresh == WorkerSpec => []SoleOwnerScoresFresh
<1>1. WorkerInit => FreshReads
  <2> SUFFICES ASSUME WorkerInit
               PROVE  FreshReads
    OBVIOUS
  <2>1. \A w \in Clients : phase[w] = "created" /\ scored[w] = <<>>
    BY DEF WorkerInit
  <2>2. FreshInHand
    BY <2>1 DEF FreshInHand
  <2>3. FreshPublished
    BY <2>1 DEF FreshPublished
  <2>4. QED
    BY <2>2, <2>3 DEF FreshReads
<1>2. WInv /\ FreshReads => SoleOwnerScoresFresh
  <2> SUFFICES ASSUME WInv, FreshReads, NEW w \in Clients, NEW i \in DOMAIN scored[w]
               PROVE  LET r == scored[w][i]
                      IN  SoleOwner(w, r.key) =>
                             /\ r.seen + 1 \in DOMAIN folded[r.key]
                             /\ CommittedFor(r.key, r.seen + 1, w, r.call)
    BY DEF SoleOwnerScoresFresh
  <2>1. TypeOK /\ ResultsOK
    BY DEF WInv, WorkersOK
  <2>2. i \in 1 .. Len(scored[w])
    BY <2>1, LenProperties DEF ResultsOK
  <2>3. PICK r : r = scored[w][i]
    OBVIOUS
  <2>4. FoldedLater(w, r) /\ (SoleOwner(w, r.key) => Fresh(w, r))
    BY <2>1, <2>2, <2>3 DEF ResultsOK, FreshReads, FreshPublished
  <2>5. DOMAIN folded[r.key] = 1 .. Len(folded[r.key])
    BY <2>1, <2>4, HistoryLength, LenProperties DEF FoldedLater, ScoreResult
  <2>6. QED
    BY <2>3, <2>4, <2>5 DEF Fresh
<1>3. WInv /\ FreshReads /\ [WorkerNext]_allVars => FreshReads'
  BY NextFreshReads
<1>4. QED
  BY <1>1, <1>2, <1>3, WorkersStayConsistent, PTL DEF WorkerSpec

-----------------------------------------------------------------------------
(* What is computed from a bucket is the textbook test on its window.  The  *)
(* median found by sorting is the sample in the middle, by rank ...         *)

LargestElement(s, n, m) == m \in 1 .. n /\ \A i \in 1 .. n : s[i] <= s[m]

\* A sequence of integers that is not empty has a largest element.
LEMMA LargestExists ==
    ASSUME NEW n \in Nat, NEW s \in [1 .. n + 1 -> Int]
    PROVE  \E m : LargestElement(s, n + 1, m)
<1> DEFINE S == {k \in Nat : k <= n => \E m : LargestElement(s, k + 1, m)}
<1>1. 0 \in S
  <2>1. LargestElement(s, 0 + 1, 1)
    BY DEF LargestElement
  <2>2. QED
    BY <2>1
<1>2. ASSUME NEW k \in Nat, k \in S
      PROVE  k + 1 \in S
  <2> SUFFICES ASSUME k + 1 <= n
               PROVE  \E m : LargestElement(s, k + 1 + 1, m)
    OBVIOUS
  <2>1. PICK m : LargestElement(s, k + 1, m)
    BY <1>2
  <2>2. \A i \in 1 .. k + 1 + 1 : s[i] \in Int /\ (i \in 1 .. k + 1 \/ i = k + 1 + 1)
    OBVIOUS
  <2>3. CASE s[m] <= s[k + 1 + 1]
    <3>1. LargestElement(s, k + 1 + 1, k + 1 + 1)
      BY <2>1, <2>2, <2>3 DEF LargestElement
    <3>2. QED
      BY <3>1
  <2>4. CASE ~(s[m] <= s[k + 1 + 1])
    <3>1. LargestElement(s, k + 1 + 1, m)
      BY <2>1, <2>2, <2>4 DEF LargestElement
    <3>2. QED
      BY <3>1
  <2>5. QED
    BY <2>3, <2>4
<1> HIDE DEF S
<1>3. n \in S
  BY <1>1, <1>2, EveryNatural
<1>4. QED
  BY <1>3 DEF S

Sorts(p, s, n) ==
    /\ p \in Bijection(1 .. n, 1 .. n)
    /\ \A i, j \in 1 .. n : i < j => s[p[i]] <= s[p[j]]

LEMMA SwapLargest ==
    ASSUME NEW n \in Nat, NEW s \in [1 .. n + 1 -> Int], NEW m, LargestElement(s, n + 1, m),
           NEW q, Sorts(q, [i \in 1 .. n |-> IF i = m THEN s[n + 1] ELSE s[i]], n)
    PROVE  \E p : Sorts(p, s, n + 1)
<1> DEFINE r == [i \in 1 .. n |-> IF i = m THEN s[n + 1] ELSE s[i]]
           p == [i \in 1 .. n + 1 |-> IF i = n + 1 THEN m
                                      ELSE IF q[i] = m THEN n + 1 ELSE q[i]]
<1>1. /\ q \in [1 .. n -> 1 .. n]
      /\ \A i, j \in 1 .. n : q[i] = q[j] => i = j
      /\ \A y \in 1 .. n : \E i \in 1 .. n : q[i] = y
      /\ \A i, j \in 1 .. n : i < j => r[q[i]] <= r[q[j]]
  BY DEF Sorts, Bijection, Injection, Surjection, IsInjective
<1>2. m \in 1 .. n + 1 /\ \A i \in 1 .. n + 1 : s[i] <= s[m]
  BY DEF LargestElement
<1>3. \A i \in 1 .. n : i \in 1 .. n + 1 /\ i # n + 1
  OBVIOUS
<1>4. \A i \in 1 .. n + 1 : i \in 1 .. n \/ i = n + 1
  OBVIOUS
<1>5. /\ p[n + 1] = m
      /\ \A i \in 1 .. n : q[i] = m => p[i] = n + 1
      /\ \A i \in 1 .. n : q[i] # m => p[i] = q[i]
  BY <1>3
<1>6. p \in [1 .. n + 1 -> 1 .. n + 1]
  <2>1. ASSUME NEW i \in 1 .. n + 1
        PROVE  p[i] \in 1 .. n + 1
    <3>1. n + 1 \in 1 .. n + 1 /\ \A y \in 1 .. n : y \in 1 .. n + 1
      OBVIOUS
    <3> HIDE DEF p
    <3>2. CASE i = n + 1
      BY <1>2, <1>5, <3>2
    <3>3. CASE i \in 1 .. n
      BY <1>1, <1>5, <3>1, <3>3
    <3>4. QED
      BY <1>4, <3>2, <3>3
  <2>2. QED
    BY <2>1
<1> HIDE DEF p
<1>7. ASSUME NEW i \in 1 .. n
      PROVE  s[p[i]] = r[q[i]]
  BY <1>1, <1>5
<1>8. \A i, j \in 1 .. n + 1 : p[i] = p[j] => i = j
  <2>1. ASSUME NEW j \in 1 .. n
        PROVE  p[j] # m
    <3>1. q[j] \in 1 .. n /\ q[j] # n + 1
      BY <1>1
    <3>2. QED
      BY <1>5, <3>1
  <2>2. ASSUME NEW i \in 1 .. n, NEW j \in 1 .. n, p[i] = p[j]
        PROVE  i = j
    <3>1. q[i] \in 1 .. n /\ q[j] \in 1 .. n /\ q[i] # n + 1 /\ q[j] # n + 1
      BY <1>1
    <3>2. q[i] = q[j]
      BY <1>5, <2>2, <3>1
    <3>3. QED
      BY <1>1, <3>2
  <2>3. QED
    BY <1>4, <1>5, <2>1, <2>2
<1>9. \A y \in 1 .. n + 1 : \E i \in 1 .. n + 1 : p[i] = y
  <2> SUFFICES ASSUME NEW y \in 1 .. n + 1
               PROVE  \E i \in 1 .. n + 1 : p[i] = y
    OBVIOUS
  <2>1. CASE y = m
    BY <1>5, <2>1
  <2>2. CASE y # m /\ y = n + 1
    <3>1. m \in 1 .. n
      BY <1>2, <1>4, <2>2
    <3>2. PICK i \in 1 .. n : q[i] = m
      BY <1>1, <3>1
    <3>3. QED
      BY <1>3, <1>5, <2>2, <3>2
  <2>3. CASE y # m /\ y # n + 1
    <3>1. PICK i \in 1 .. n : q[i] = y
      BY <1>1, <1>4, <2>3
    <3>2. QED
      BY <1>3, <1>5, <2>3, <3>1
  <2>4. QED
    BY <2>1, <2>2, <2>3
<1>10. ASSUME NEW i \in 1 .. n + 1, NEW j \in 1 .. n + 1, i < j
       PROVE  s[p[i]] <= s[p[j]]
  <2>1. i \in 1 .. n
    BY <1>10
  <2>2. CASE j = n + 1
    BY <1>2, <1>5, <1>6, <2>2
  <2>3. CASE j # n + 1
    <3>1. j \in 1 .. n
      BY <2>3
    <3>2. QED
      BY <1>1, <1>7, <1>10, <2>1, <3>1
  <2>4. QED
    BY <2>2, <2>3
<1>11. Sorts(p, s, n + 1)
  BY <1>6, <1>8, <1>9, <1>10 DEF Sorts, Bijection, Injection, Surjection, IsInjective
<1>12. QED
  BY <1>11

\* Integers can be sorted.
LEMMA SortingExists ==
    ASSUME NEW n \in Nat, NEW s \in [1 .. n -> Int]
    PROVE  \E p : Sorts(p, s, n)
<1> DEFINE S == {k \in Nat : \A r \in [1 .. k -> Int] : \E p : Sorts(p, r, k)}
<1>1. 0 \in S
  <2> SUFFICES ASSUME NEW r \in [1 .. 0 -> Int]
               PROVE  \E p : Sorts(p, r, 0)
    OBVIOUS
  <2>1. 1 .. 0 = {}
    OBVIOUS
  <2>2. Sorts([i \in {} |-> i], r, 0)
    BY <2>1 DEF Sorts, Bijection, Injection, Surjection, IsInjective
  <2>3. QED
    BY <2>2
<1>2. ASSUME NEW k \in Nat, k \in S
      PROVE  k + 1 \in S
  <2> SUFFICES ASSUME NEW r \in [1 .. k + 1 -> Int]
               PROVE  \E p : Sorts(p, r, k + 1)
    OBVIOUS
  <2>1. PICK m : LargestElement(r, k + 1, m)
    BY LargestExists
  <2> DEFINE t == [i \in 1 .. k |-> IF i = m THEN r[k + 1] ELSE r[i]]
  <2>2. t \in [1 .. k -> Int]
    BY DEF LargestElement
  <2>3. PICK q : Sorts(q, t, k)
    BY <1>2, <2>2
  <2>4. QED
    BY <2>1, <2>3, SwapLargest
<1> HIDE DEF S
<1>3. n \in S
  BY <1>1, <1>2, EveryNatural
<1>4. QED
  BY <1>3 DEF S

\* sorted() returns the elements of a sequence in ascending order.
LEMMA SortedSorts ==
    ASSUME NEW n \in Nat, NEW s \in [1 .. n -> Int]
    PROVE  \E p : /\ Sorts(p, s, n)
                  /\ Sorted(s) = [i \in 1 .. n |-> s[p[i]]]
<1> DEFINE order == CHOOSE p \in Bijection(1 .. n, 1 .. n) :
                       \A i, j \in 1 .. n : i < j => s[p[i]] <= s[p[j]]
<1>1. DOMAIN s = 1 .. n
  OBVIOUS
<1>2. Sorted(s) = [i \in 1 .. n |-> s[order[i]]]
  BY <1>1 DEF Sorted
<1>3. PICK p : Sorts(p, s, n)
  BY SortingExists
<1>4. Sorts(order, s, n)
  BY <1>3 DEF Sorts
<1> HIDE DEF order
<1>5. QED
  BY <1>2, <1>4

Smaller(s, v) == {i \in DOMAIN s : s[i] < v}
UpTo(s, v) == {i \in DOMAIN s : s[i] <= v}

\* The k-th element of the sorted sequence has rank k.
LEMMA SortedRank ==
    ASSUME NEW n \in Nat, NEW s \in [1 .. n -> Int], NEW k \in 1 .. n
    PROVE  LET v == Sorted(s)[k]
           IN  /\ v \in Range(s) /\ v \in Int
               /\ Cardinality(Smaller(s, v)) < k
               /\ Cardinality(UpTo(s, v)) >= k
<1>1. PICK p : Sorts(p, s, n) /\ Sorted(s) = [i \in 1 .. n |-> s[p[i]]]
  BY SortedSorts
<1> DEFINE v == Sorted(s)[k]
<1>2. /\ p \in [1 .. n -> 1 .. n]
      /\ \A i, j \in 1 .. n : p[i] = p[j] => i = j
      /\ \A y \in 1 .. n : \E i \in 1 .. n : p[i] = y
      /\ \A i, j \in 1 .. n : i < j => s[p[i]] <= s[p[j]]
  BY <1>1 DEF Sorts, Bijection, Injection, Surjection, IsInjective
<1>3. v = s[p[k]] /\ p[k] \in 1 .. n /\ v \in Int /\ DOMAIN s = 1 .. n
  BY <1>1, <1>2
<1>4. v \in Range(s)
  BY <1>3 DEF Range
<1> HIDE DEF v
<1>5. IsFiniteSet(1 .. n) /\ Smaller(s, v) \in SUBSET (1 .. n) /\ UpTo(s, v) \in SUBSET (1 .. n)
  <2>1. Smaller(s, v) \in SUBSET (1 .. n) /\ UpTo(s, v) \in SUBSET (1 .. n)
    BY <1>3 DEF Smaller, UpTo
  <2>2. QED
    BY <2>1, FS_Interval
<1>6. IsFiniteSet(Smaller(s, v)) /\ IsFiniteSet(UpTo(s, v))
  BY <1>5, FS_Subset
<1>7. Cardinality(Smaller(s, v)) < k
  <2> DEFINE place == [y \in Smaller(s, v) |-> CHOOSE i \in 1 .. n : p[i] = y]
             T == 1 .. (k - 1)
  <2>1. ASSUME NEW y \in Smaller(s, v)
        PROVE  place[y] \in 1 .. n /\ p[place[y]] = y /\ place[y] \in T
    <3>1. y \in 1 .. n /\ s[y] < v
      BY <1>3 DEF Smaller
    <3>2. \E i \in 1 .. n : p[i] = y
      BY <1>2, <3>1
    <3>3. place[y] \in 1 .. n /\ p[place[y]] = y
      BY <3>2
    <3> HIDE DEF place
    <3>4. ~(v <= s[y])
      BY <1>3, <3>1
    <3>5. place[y] # k
      BY <1>3, <3>3, <3>4
    <3>6. ~(k < place[y])
      BY <1>2, <1>3, <3>3, <3>4
    <3>7. QED
      BY <3>3, <3>5, <3>6
  <2>2. place \in Injection(Smaller(s, v), T)
    <3>1. \A y \in Smaller(s, v) : place[y] \in T
      BY <2>1
    <3>2. \A x, y \in Smaller(s, v) : place[x] = place[y] => x = y
      <4>1. \A y \in Smaller(s, v) : p[place[y]] = y
        BY <2>1
      <4> HIDE DEF place
      <4>2. QED
        BY <4>1
    <3>3. QED
      BY <3>1, <3>2 DEF Injection, IsInjective
  <2>3. IsFiniteSet(T) /\ Cardinality(T) = k - 1
    BY FS_Interval
  <2> HIDE DEF place, T
  <2>4. Cardinality(Smaller(s, v)) <= Cardinality(T)
    BY <2>2, <2>3, FS_Injection
  <2>5. Cardinality(Smaller(s, v)) \in Nat
    BY <1>6, FS_CardinalityType
  <2>6. QED
    BY <2>3, <2>4, <2>5
<1>8. Cardinality(UpTo(s, v)) >= k
  <2> DEFINE T == 1 .. k
             f == [i \in T |-> p[i]]
  <2>1. ASSUME NEW i \in T
        PROVE  f[i] \in UpTo(s, v) /\ i \in 1 .. n
    <3>1. i \in 1 .. n /\ (i = k \/ i < k)
      OBVIOUS
    <3>2. p[i] \in 1 .. n /\ s[p[i]] \in Int
      BY <1>2, <3>1
    <3>3. s[p[i]] <= s[p[k]]
      <4>1. CASE i = k
        BY <3>2, <4>1
      <4>2. CASE i < k
        BY <1>2, <3>1, <4>2
      <4>3. QED
        BY <3>1, <4>1, <4>2
    <3>4. QED
      BY <1>3, <3>1, <3>2, <3>3 DEF UpTo
  <2>2. f \in Injection(T, UpTo(s, v))
    <3>1. \A i, j \in T : f[i] = f[j] => i = j
      BY <1>2, <2>1
    <3>2. QED
      BY <2>1, <3>1 DEF Injection, IsInjective
  <2>3. Cardinality(T) = k
    BY FS_Interval
  <2> HIDE DEF f, T
  <2>4. Cardinality(T) <= Cardinality(UpTo(s, v))
    BY <1>6, <2>2, FS_Injection
  <2>5. QED
    BY <2>3, <2>4
<1>9. QED
  BY <1>3, <1>4, <1>7, <1>8 DEF v

\* There is one element of a rank.
LEMMA OneOfRank ==
    ASSUME NEW n \in Nat, NEW s \in [1 .. n -> Int], NEW k \in Nat,
           NEW u \in Int, NEW v \in Int, u < v,
           Cardinality(UpTo(s, u)) >= k, Cardinality(Smaller(s, v)) < k
    PROVE  FALSE
<1>1. IsFiniteSet(1 .. n) /\ Smaller(s, v) \in SUBSET (1 .. n) /\ UpTo(s, u) \in SUBSET Smaller(s, v)
  <2>1. \A i \in 1 .. n : s[i] \in Int /\ (s[i] <= u => s[i] < v)
    OBVIOUS
  <2>2. DOMAIN s = 1 .. n
    OBVIOUS
  <2>3. Smaller(s, v) \in SUBSET (1 .. n) /\ UpTo(s, u) \in SUBSET Smaller(s, v)
    BY <2>1, <2>2 DEF Smaller, UpTo
  <2>4. IsFiniteSet(1 .. n)
    BY FS_Interval
  <2>5. QED
    BY <2>3, <2>4
<1>2. IsFiniteSet(Smaller(s, v))
  BY <1>1, FS_Subset
<1>3. Cardinality(UpTo(s, u)) <= Cardinality(Smaller(s, v))
      /\ IsFiniteSet(UpTo(s, u))
  BY <1>1, <1>2, FS_Subset
<1>4. Cardinality(UpTo(s, u)) \in Nat /\ Cardinality(Smaller(s, v)) \in Nat
  BY <1>2, <1>3, FS_CardinalityType
<1>5. QED
  BY <1>3, <1>4

LEMMA OrderStatisticIs ==
    ASSUME NEW n \in Nat, NEW s \in [1 .. n -> Int], NEW k \in 1 .. n
    PROVE  OrderStatistic(s, k) = Sorted(s)[k] /\ Sorted(s)[k] \in Int
<1> DEFINE Ranked(v) == Cardinality(Smaller(s, v)) < k /\ Cardinality(UpTo(s, v)) >= k
           v == Sorted(s)[k]
           u == CHOOSE x \in Range(s) : Ranked(x)
<1>1. OrderStatistic(s, k) = u
  BY DEF OrderStatistic, Smaller, UpTo
<1>2. v \in Range(s) /\ v \in Int /\ Ranked(v)
  BY SortedRank
<1>3. u \in Range(s) /\ Ranked(u)
  BY <1>2
<1>4. u \in Int
  BY <1>3 DEF Range
<1> HIDE DEF u, v
<1>5. ~(u < v) /\ ~(v < u)
  BY <1>2, <1>3, <1>4, OneOfRank
<1>6. u = v
  BY <1>2, <1>4, <1>5
<1>7. QED
  BY <1>1, <1>2, <1>6 DEF v

\* The median by sorting is the median by rank.
LEMMA MedianByRank ==
    ASSUME NEW n \in Nat \ {0}, NEW s \in [1 .. n -> Int]
    PROVE  TwiceMedian(s) = Middle(s) /\ Middle(s) \in Int
<1> DEFINE half == n \div 2
           t == Sorted(s)
<1>1. s \in Seq(Int) /\ Len(s) = n
  BY SeqDef, LenProperties
<1>2. /\ n = (2 * half) + (n % 2) /\ n % 2 \in {0, 1} /\ half \in Nat
  OBVIOUS
<1>3. (n + 1) \div 2 = half + (n % 2)
  BY <1>2
<1> HIDE DEF half, t
<1>4. half + (n % 2) \in 1 .. n /\ half + 1 \in 1 .. n
  BY <1>2
<1>5. /\ OrderStatistic(s, half + (n % 2)) = t[half + (n % 2)] /\ t[half + (n % 2)] \in Int
      /\ OrderStatistic(s, half + 1) = t[half + 1] /\ t[half + 1] \in Int
  BY <1>4, OrderStatisticIs DEF t
<1>6. Middle(s) = t[half + (n % 2)] + t[half + 1]
  BY <1>1, <1>3, <1>5 DEF Middle, half
<1>7. TwiceMedian(s) = IF n % 2 = 1 THEN 2 * t[half + 1] ELSE t[half] + t[half + 1]
  BY <1>1 DEF TwiceMedian, half, t
<1>8. CASE n % 2 = 1
  BY <1>5, <1>6, <1>7, <1>8
<1>9. CASE n % 2 = 0
  <2>1. half \in Int /\ half + 0 = half
    BY <1>2
  <2>2. QED
    BY <1>5, <1>6, <1>7, <1>9, <2>1
<1>10. QED
  BY <1>2, <1>8, <1>9

-----------------------------------------------------------------------------
(* ... and the variance found from two running sums is the two-pass one.     *)

\* n times the i first squared deviations from s, of sum a and sum of squares b.
Deviations(n, s, a, b, i) == (n * n * b - 2 * n * s * a) + i * s * s

Deviation(n, s, x) == (n * x - s) * (n * x - s)

LEMMA DeviationIsInt == \A n, s, x \in Int : Deviation(n, s, x) \in Int
  BY DEF Deviation

LEMMA DeviationsAreInt == \A n, s, a, b, i \in Int : Deviations(n, s, a, b, i) \in Int
  BY DEF Deviations

\* One sample more.
DeviationAdds(n, s, a, b, i, x) ==
    Deviations(n, s, a + x, b + x * x, i + 1) = Deviations(n, s, a, b, i) + Deviation(n, s, x)

LEMMA DeviationsGrow == \A n, s, a, b, i, x \in Int : DeviationAdds(n, s, a, b, i, x)
  BY DEF DeviationAdds, Deviations, Deviation

LEMMA AllDeviations ==
    ASSUME NEW n \in Int, NEW s \in Int, NEW q \in Int
    PROVE  /\ Deviations(n, s, 0, 0, 0) = 0
           /\ Deviations(n, s, s, q, n) = n * (n * q - s * s)
BY DEF Deviations

\* The sum of squared deviations, in two passes and from the two sums.
Squares(f, n) == [i \in 1 .. n |-> f[i] * f[i]]

TwoPasses(f, n, s, q) ==
    /\ s \in Int /\ q \in Int
    /\ SumFunction([i \in 1 .. n |-> (n * f[i] - s) * (n * f[i] - s)]) = n * (n * q - s * s)

\* n times the sum of squared deviations, in two passes, is what the sums give.
LEMMA TwoPassVariance ==
    ASSUME NEW n \in Nat, NEW f \in [1 .. n -> Int]
    PROVE  TwoPasses(f, n, SumFunction(f), SumFunction(Squares(f, n)))
<1> DEFINE s == SumFunction(f)
           q == SumFunction(Squares(f, n))
           squares == Squares(f, n)
           deviations == [i \in 1 .. n |-> (n * f[i] - s) * (n * f[i] - s)]
<1>1. squares \in [1 .. n -> Int]
  BY SquareIsInt DEF Squares
<1> HIDE DEF squares, s, q
<1>2. PICK a \in [0 .. n -> Int] :
         /\ a[0] = 0 /\ a[n] = s
         /\ \A i \in 1 .. n : a[i] = a[i - 1] + f[i]
  BY RunningTotals DEF s
<1>3. PICK b \in [0 .. n -> Int] :
         /\ b[0] = 0 /\ b[n] = q
         /\ \A i \in 1 .. n : b[i] = b[i - 1] + squares[i]
  BY <1>1, RunningTotals DEF squares, q
<1>4. s \in Int /\ q \in Int
  <2>1. n \in 0 .. n
    OBVIOUS
  <2>2. QED
    BY <1>2, <1>3, <2>1
<1>5. \A i \in 1 .. n : f[i] \in Int /\ Deviation(n, s, f[i]) \in Int
  <2>1. n \in Int
    OBVIOUS
  <2>2. QED
    BY <1>4, <2>1, DeviationIsInt
<1>6. deviations \in [1 .. n -> Int]
  BY <1>5 DEF Deviation
<1> DEFINE total == [i \in 0 .. n |-> Deviations(n, s, a[i], b[i], i)]
<1>7. total \in [0 .. n -> Int]
  <2>1. ASSUME NEW i \in 0 .. n
        PROVE  Deviations(n, s, a[i], b[i], i) \in Int
    <3>1. a[i] \in Int /\ b[i] \in Int /\ i \in Int /\ n \in Int
      OBVIOUS
    <3>2. QED
      BY <1>4, <3>1, DeviationsAreInt
  <2>2. QED
    BY <2>1
<1>8. ASSUME NEW i \in 1 .. n
      PROVE  total[i] = total[i - 1] + deviations[i]
  <2> DEFINE j == i - 1
  <2>1. j \in 0 .. n /\ i \in 0 .. n /\ i = j + 1 /\ j \in Int /\ f[i] \in Int /\ n \in Int
    OBVIOUS
  <2>2. a[i] = a[j] + f[i] /\ b[i] = b[j] + f[i] * f[i]
    BY <1>2, <1>3 DEF squares, Squares
  <2>3. a[j] \in Int /\ b[j] \in Int
    BY <2>1
  <2>4. /\ total[i] = Deviations(n, s, a[i], b[i], i)
        /\ total[j] = Deviations(n, s, a[j], b[j], j)
    BY <2>1
  <2>5. deviations[i] = Deviation(n, s, f[i])
    BY DEF Deviation
  <2> HIDE DEF j, total, deviations
  <2>6. DeviationAdds(n, s, a[j], b[j], j, f[i])
    BY <1>4, <2>1, <2>3, DeviationsGrow, Zenon
  <2>7. Deviations(n, s, a[i], b[i], i) = Deviations(n, s, a[j], b[j], j) + Deviation(n, s, f[i])
    BY <2>1, <2>2, <2>6, Zenon DEF DeviationAdds
  <2>8. QED
    BY <2>4, <2>5, <2>7, Zenon DEF j
<1>9. /\ total[0] = Deviations(n, s, 0, 0, 0)
      /\ total[n] = Deviations(n, s, s, q, n)
  <2>1. 0 \in 0 .. n /\ n \in 0 .. n
    OBVIOUS
  <2>2. QED
    BY <1>2, <1>3, <2>1
<1>10. total[0] = 0 /\ total[n] = n * (n * q - s * s) /\ total[n] \in Int
  <2>1. n \in Int /\ n \in 0 .. n
    OBVIOUS
  <2>2. Deviations(n, s, 0, 0, 0) = 0 /\ Deviations(n, s, s, q, n) = n * (n * q - s * s)
    BY <1>4, <2>1, AllDeviations, Zenon
  <2> HIDE DEF total
  <2>3. QED
    BY <1>7, <1>9, <2>1, <2>2
<1> HIDE DEF total, deviations
<1>11. SumFunction(deviations) = total[n] - total[0]
  BY <1>6, <1>7, <1>8, SumOfRun
<1>12. SumFunction(deviations) = total[n]
  BY <1>10, <1>11
<1>13. QED
  BY <1>4, <1>10, <1>12, Zenon DEF deviations, s, q, TwoPasses

-----------------------------------------------------------------------------
(* The verdicts.                                                            *)

LEMMA ProductIsInt == \A a, b \in Int : a * b \in Int
  OBVIOUS

LEMMA Scaling ==
    ASSUME NEW n \in Nat \ {0}, NEW a \in Int, NEW b \in Int
    PROVE  (n * a > n * b <=> a > b) /\ (n * a # 0 <=> a # 0)
<1>1. a > b => n * a > n * b
  OBVIOUS
<1>2. a < b => n * a < n * b
  OBVIOUS
<1>3. a = b => n * a = n * b
  OBVIOUS
<1>4. n * a \in Int /\ n * b \in Int /\ n * 0 = 0
  OBVIOUS
<1>5. a > 0 => n * a > 0
  OBVIOUS
<1>6. a < 0 => n * a < 0
  OBVIOUS
<1>7. QED
  BY <1>1, <1>2, <1>3, <1>4, <1>5, <1>6

\* The test by squares is the test over the two-pass variance.
LEMMA ZScoreVerdict ==
    ASSUME NEW b, NEW n \in Nat, b.window \in [1 .. n -> Int], Len(b.window) = n,
           b.count = n, b.sum = SumFunction(b.window),
           b.sumsq = SumFunction([i \in DOMAIN b.window |-> b.window[i] * b.window[i]]),
           NEW x \in Int
    PROVE  n >= MinSamples /\ ZScoreExceeds(b, x)
             <=> ReferenceAnomaly("zscore", b.window, x)
<1> DEFINE f == b.window
           s == b.sum
           q == b.sumsq
           v == SumFunction([i \in 1 .. n |-> (n * f[i] - s) * (n * f[i] - s)])
           d == n * x - s
           spread == n * q - s * s
           limit == Threshold * Threshold
<1>1. /\ s \in Int /\ q \in Int /\ v = n * spread
  <2>1. s = SumFunction(f) /\ DOMAIN f = 1 .. n /\ q = SumFunction(Squares(f, n))
    BY DEF Squares
  <2> HIDE DEF f, s, q, d, limit
  <2>2. TwoPasses(f, n, s, q)
    BY <2>1, TwoPassVariance DEF f
  <2>3. QED
    BY <2>2 DEF TwoPasses
<1>2. ReferenceAnomaly("zscore", f, x)
        <=> n > 0 /\ n >= MinSamples /\ v # 0 /\ n * d * d > limit * v
  BY DEF ReferenceAnomaly
<1>3. ZScoreExceeds(b, x) <=> spread # 0 /\ d * d > limit * spread
  BY DEF ZScoreExceeds, Spread
<1>4. d \in Int /\ spread \in Int /\ limit \in Int
  BY <1>1, WorkerAssumption
<1>5. n = 0 => spread = 0
  <2> SUFFICES ASSUME n = 0
               PROVE  spread = 0
    OBVIOUS
  <2>1. PICK total \in [0 .. n -> Int] : total[0] = 0 /\ total[n] = SumFunction(f)
    BY RunningTotals
  <2>2. s = 0
    BY <2>1
  <2>3. QED
    BY <1>1, <2>2
<1> DEFINE dd == d * d
           ls == limit * spread
<1>6. dd \in Int /\ ls \in Int
  BY <1>4, ProductIsInt
<1> HIDE DEF f, s, q, v, d, spread, limit
<1>7. n * d * d = n * dd /\ limit * v = n * ls
  BY <1>1, <1>4
<1>8. CASE n = 0
  BY <1>2, <1>3, <1>5, <1>8 DEF f
<1>9. CASE n # 0
  <2> HIDE DEF dd, ls
  <2>1. n \in Nat \ {0}
    BY <1>9
  <2>2. n * dd > n * ls <=> dd > ls
    BY <1>6, <2>1, Scaling
  <2>3. v # 0 <=> spread # 0
    BY <1>1, <1>4, <2>1, Scaling
  <2>4. ZScoreExceeds(b, x) <=> spread # 0 /\ dd > ls
    BY <1>3, Zenon DEF dd, ls
  <2>5. QED
    BY <1>2, <1>7, <2>1, <2>2, <2>3, <2>4 DEF f
<1>10. QED
  BY <1>8, <1>9

LEMMA AbsIsInt == \A y \in Int : Abs(y) \in Int
  BY DEF Abs

\* The test with sorted medians is the test with medians by rank.
LEMMA RobustVerdict ==
    ASSUME NEW f, NEW n \in Nat, f \in [1 .. n -> Int], Len(f) = n, f \in Seq(Int),
           NEW x \in Int
    PROVE  n >= MinSamples /\ RobustZExceeds(f, x)
             <=> ReferenceAnomaly("robust_zscore", f, x)
<1> DEFINE m == Middle(f)
           away(y) == Abs(2 * y - m)
           far == [i \in 1 .. n |-> away(f[i])]
           mad == Middle(far)
<1>1. ReferenceAnomaly("robust_zscore", f, x)
        <=> n > 0 /\ n >= MinSamples /\ mad # 0 /\ 13490 * away(x) > 10000 * Threshold * mad
  BY DEF ReferenceAnomaly
<1>2. CASE n = 0
  <2>1. f = <<>>
    BY <1>2, EmptySeq
  <2>2. QED
    BY <1>1, <1>2, <2>1 DEF RobustZExceeds
<1>3. CASE n # 0
  <2>1. n \in Nat \ {0} /\ f # <<>> /\ n > 0
    BY <1>3, EmptySeq
  <2>2. TwiceMedian(f) = m /\ m \in Int
    BY <2>1, MedianByRank
  <2>3. \A y : TwiceDeviation(f, y) = away(y)
    BY <2>2 DEF TwiceDeviation
  <2> HIDE DEF m
  <2>4. \A y \in Int : away(y) \in Int
    BY <2>2, AbsIsInt
  <2>5. [i \in DOMAIN f |-> TwiceDeviation(f, f[i])] = far
    BY <2>3
  <2>6. far \in [1 .. n -> Int]
    BY <2>4
  <2> HIDE DEF far
  <2>7. FourMad(f) = mad /\ mad \in Int
    BY <2>1, <2>5, <2>6, MedianByRank DEF FourMad
  <2>8. RobustZExceeds(f, x)
          <=> mad # 0 /\ 2 * 6745 * away(x) > 10000 * Threshold * mad
    BY <2>1, <2>3, <2>7 DEF RobustZExceeds
  <2>9. 2 * 6745 * away(x) = 13490 * away(x)
    BY <2>4
  <2> HIDE DEF away, mad
  <2>10. QED
    BY <1>1, <2>1, <2>8, <2>9
<1>4. QED
  BY <1>2, <1>3

\* The test a worker makes on a bucket is the reference's on its window.
LEMMA VerdictIs ==
    ASSUME NEW b, NEW w \in Clients, NEW n \in Nat, b.window \in [1 .. n -> Int], Len(b.window) = n,
           b.count = n, b.sum = SumFunction(b.window), b.window \in Seq(Int),
           b.sumsq = SumFunction([i \in DOMAIN b.window |-> b.window[i] * b.window[i]]),
           NEW x \in Int
    PROVE  IsAnomaly(w, b, x) <=> ReferenceAnomaly(Method[w], b.window, x)
<1>1. Method[w] = "zscore" \/ Method[w] = "robust_zscore"
  BY WorkerAssumption
<1>2. CASE Method[w] = "zscore"
  BY <1>2, ZScoreVerdict DEF IsAnomaly
<1>3. CASE Method[w] = "robust_zscore"
  BY <1>3, RobustVerdict DEF IsAnomaly
<1>4. QED
  BY <1>1, <1>2, <1>3

\* The verdict of a result is the reference's, on what its baseline had seen.
Right(w, r) ==
    r.is_anomaly <=>
       ReferenceAnomaly(Method[w], HistoryWindow(r.key, r.seen, WindowSize[w]), r.value)

RightVerdicts ==
    UniformWindow =>
       /\ \A w \in Clients : phase[w] = "folding" => Right(w, reading[w])
       /\ \A w \in Clients : \A i \in 1 .. Len(scored[w]) : Right(w, scored[w][i])

\* The past does not change.
LEMMA PastStays ==
    ASSUME NEW k, NEW n \in Nat, NEW size \in Nat, Grows(k), n <= Len(folded[k])
    PROVE  HistoryWindow(k, n, size)' = HistoryWindow(k, n, size)
<1> DEFINE m == IF n < size THEN n ELSE size
<1>1. m \in Nat /\ m <= n
  OBVIOUS
<1> HIDE DEF m
<1>2. \A i \in 1 .. m : n - m + i \in 1 .. Len(folded[k])
  BY <1>1 DEF Grows
<1>3. \A i \in 1 .. m : folded'[k][n - m + i].value = folded[k][n - m + i].value
  BY <1>2 DEF Grows
<1>4. QED
  BY <1>3 DEF HistoryWindow, m

LEMMA RightStays ==
    ASSUME NEW w \in Clients, NEW r \in ScoreResult, Right(w, r),
           Grows(r.key), r.seen <= Len(folded[r.key])
    PROVE  Right(w, r)'
<1>1. r.seen \in Nat /\ WindowSize[w] \in Nat
  BY ConstantsAssumption DEF ScoreResult
<1>2. HistoryWindow(r.key, r.seen, WindowSize[w])' = HistoryWindow(r.key, r.seen, WindowSize[w])
  BY <1>1, PastStays
<1>3. QED
  BY <1>2 DEF Right

\* A full window is the end of the history.
LEMMA WindowIsPast ==
    ASSUME TypeOK, WindowIsLogSuffix, FullWindows, UniformWindow,
           NEW w \in Clients, NEW k \in Keys
    PROVE  store[k].window = HistoryWindow(k, Len(folded[k]), WindowSize[w])
<1> DEFINE b == store[k].window
           n == Len(folded[k])
           m == IF n < WindowSize[w] THEN n ELSE WindowSize[w]
<1>1. b \in Seq(Values)
  BY DEF TypeOK, BucketState
<1>2. Len(b) = m
  BY DEF FullWindows
<1>3. b = [i \in 1 .. m |-> b[i]]
  BY <1>1, <1>2, LenProperties
<1>4. \A i \in 1 .. m : b[i] = folded[k][n - m + i].value
  BY <1>2 DEF WindowIsLogSuffix, RetainsLatest
<1>5. HistoryWindow(k, n, WindowSize[w]) = [i \in 1 .. m |-> folded[k][n - m + i].value]
  BY DEF HistoryWindow
<1> HIDE DEF b, n, m
<1>6. QED
  BY <1>3, <1>4, <1>5 DEF b, n

LEMMA ScoreIsRight ==
    ASSUME TypeOK, WindowIsLogSuffix, StatisticsMatchWindow, FullWindows, UniformWindow,
           NEW w \in Clients, NEW k \in Keys, NEW x \in Values
    PROVE  Right(w, Score(w, k, x))
<1> DEFINE b == store[k]
           n == Len(b.window)
<1>1. b.window \in Seq(Values) /\ Values \subseteq Int /\ x \in Int
  BY ConstantsAssumption DEF TypeOK, BucketState
<1>2. /\ n \in Nat /\ b.window \in Seq(Int) /\ b.window \in [1 .. n -> Int]
  <2>1. n \in Nat /\ b.window \in [1 .. n -> Values]
    BY <1>1, LenProperties
  <2>2. b.window \in [1 .. n -> Int]
    BY <1>1, <2>1
  <2>3. QED
    BY <2>1, <2>2, SeqDef
<1>3. b.count = n
  BY DEF WindowIsLogSuffix, RetainsLatest
<1>4. /\ b.sum = SumFunction(b.window)
      /\ b.sumsq = SumFunction([i \in DOMAIN b.window |-> b.window[i] * b.window[i]])
  BY DEF StatisticsMatchWindow
<1>5. b.window = HistoryWindow(k, Len(folded[k]), WindowSize[w])
  BY WindowIsPast
<1> HIDE DEF b, n
<1>6. IsAnomaly(w, b, x) <=> ReferenceAnomaly(Method[w], b.window, x)
  BY <1>1, <1>2, <1>3, <1>4, VerdictIs DEF n
<1>7. /\ Score(w, k, x).is_anomaly = IsAnomaly(w, b, x) /\ Score(w, k, x).key = k
      /\ Score(w, k, x).seen = Len(folded[k]) /\ Score(w, k, x).value = x
  BY DEF Score, b
<1>8. QED
  BY <1>5, <1>6, <1>7, Zenon DEF Right

\* What the theorems about the store say of a state.
StoreIsExact == WindowIsLogSuffix /\ StatisticsMatchWindow /\ FullWindows

LEMMA RightFolding ==
    ASSUME WInv, RightVerdicts, UniformWindow, NEW w \in Clients, StoreStep(w)
    PROVE  RightVerdicts'
<1>1. TypeOK /\ PhaseOK /\ ResultsOK /\ phase[w] = "folding" /\ Step(w)
  BY DEF StoreStep, WInv, WorkersOK
<1>2. \A k \in Keys : Grows(k)
  BY <1>1, HistoryGrows
<1>3. ASSUME NEW v \in Clients, phase[v] = "folding", NEW r, r = reading[v]
      PROVE  Right(v, r)'
  <2>1. Folding(v) /\ Right(v, r)
    BY <1>1, <1>3 DEF PhaseOK, RightVerdicts
  <2>2. r \in ScoreResult /\ r.key \in Keys /\ r.seen <= Len(folded[r.key])
    BY <1>3, <2>1 DEF Folding, ScoreResult
  <2>3. QED
    BY <1>2, <2>1, <2>2, RightStays
<1>4. ASSUME NEW v \in Clients, NEW i \in 1 .. Len(scored[v]), NEW r, r = scored[v][i]
      PROVE  Right(v, r)'
  <2>1. FoldedLater(v, r) /\ Right(v, r)
    BY <1>1, <1>4 DEF ResultsOK, RightVerdicts
  <2>2. r \in ScoreResult /\ r.key \in Keys /\ r.seen \in Nat
    BY <2>1 DEF FoldedLater, ScoreResult
  <2>3. Len(folded[r.key]) \in Nat
    BY <1>1, <2>2, HistoryLength
  <2>4. r.seen <= Len(folded[r.key])
    BY <2>1, <2>2, <2>3 DEF FoldedLater
  <2>5. QED
    BY <1>2, <2>1, <2>2, <2>4, RightStays
<1>5. ASSUME NEW v \in Clients, phase'[v] = "folding"
      PROVE  Right(v, reading[v])'
  <2>1. PICK r : r = reading[v]
    OBVIOUS
  <2>2. phase[v] = "folding" /\ reading'[v] = r
    BY <1>5, <2>1, ResultsAfter
  <2>3. Right(v, r)'
    BY <1>3, <2>1, <2>2
  <2>4. QED
    BY <2>2, <2>3 DEF Right
<1>6. ASSUME NEW v \in Clients, NEW i \in 1 .. Len(scored'[v])
      PROVE  Right(v, scored[v][i])'
  <2>1. PICK r : r = scored'[v][i]
    OBVIOUS
  <2>2. \/ i \in 1 .. Len(scored[v]) /\ r = scored[v][i]
        \/ v = w /\ r = reading[w]
    BY <1>6, <2>1, ResultsAfter
  <2>3. Right(v, r)'
    BY <1>1, <1>3, <1>4, <2>2
  <2>4. QED
    BY <2>1, <2>3 DEF Right
<1>7. QED
  BY <1>5, <1>6 DEF RightVerdicts

LEMMA RightReading ==
    ASSUME WInv, StoreIsExact, RightVerdicts, UniformWindow,
           NEW w \in Clients, ReadAndScore(w)
    PROVE  RightVerdicts'
<1> DEFINE k == KeyOf(Head(batch[w]))
           x == Head(batch[w]).value
           s == Score(w, k, x)
<1>1. /\ UNCHANGED scored /\ UpdateBucket(w, k, x) /\ batch[w] # <<>>
      /\ reading' = [reading EXCEPT ![w] = s]
      /\ phase' = [phase EXCEPT ![w] = "folding"]
      /\ TypeOK /\ StreamOK
      /\ DOMAIN phase = Clients /\ DOMAIN reading = Clients
  BY DEF ReadAndScore, WInv, WorkersOK, PhaseOK, ResultsOK
<1>2. k \in Keys /\ x \in Values
  BY <1>1, NextPoint DEF StreamOK, FromInbox
<1>3. UNCHANGED folded
  BY <1>1 DEF UpdateBucket
<1> HIDE DEF k, x
<1>4. Right(w, s)
  BY <1>1, <1>2, ScoreIsRight DEF StoreIsExact
<1> HIDE DEF s
<1>5. ASSUME NEW v, NEW r, Right(v, r)
      PROVE  Right(v, r)'
  BY <1>3, <1>5 DEF Right, HistoryWindow
<1>6. ASSUME NEW v \in Clients, phase'[v] = "folding"
      PROVE  Right(v, reading[v])'
  <2>1. PICK r : r = reading'[v]
    OBVIOUS
  <2>2. Right(v, r)
    <3>1. CASE v = w
      BY <1>1, <1>4, <2>1, <3>1
    <3>2. CASE v # w
      BY <1>1, <1>6, <2>1, <3>2 DEF RightVerdicts
    <3>3. QED
      BY <3>1, <3>2
  <2>3. Right(v, r)'
    BY <1>5, <2>2
  <2>4. QED
    BY <2>1, <2>3 DEF Right
<1>7. ASSUME NEW v \in Clients, NEW i \in 1 .. Len(scored'[v])
      PROVE  Right(v, scored[v][i])'
  <2>1. PICK r : r = scored[v][i]
    OBVIOUS
  <2>2. Right(v, r)
    BY <1>1, <1>7, <2>1 DEF RightVerdicts
  <2>3. Right(v, r)'
    BY <1>5, <2>2
  <2>4. QED
    BY <1>1, <2>1, <2>3 DEF Right
<1>8. QED
  BY <1>6, <1>7 DEF RightVerdicts

LEMMA NextRightVerdicts ==
    WInv /\ StoreIsExact /\ RightVerdicts /\ [WorkerNext]_allVars => RightVerdicts'
<1> SUFFICES ASSUME WInv, StoreIsExact, RightVerdicts, [WorkerNext]_allVars, UniformWindow
             PROVE  RightVerdicts'
  BY DEF RightVerdicts, UniformWindow
<1>1. ASSUME UNCHANGED <<folded, scored, reading>>,
             \A v \in Clients : phase'[v] = "folding" <=> phase[v] = "folding"
      PROVE  RightVerdicts'
  BY <1>1 DEF RightVerdicts, Right, HistoryWindow
<1>2. CASE UNCHANGED allVars
  BY <1>1, <1>2 DEF allVars, workerVars, vars
<1>3. ASSUME NEW w \in Clients, Work(w) \/ Stop(w)
      PROVE  RightVerdicts'
  <2>1. DOMAIN phase = Clients
    BY DEF WInv, WorkersOK, PhaseOK
  <2>2. CASE Start(w) \/ Exit(w)
    <3>1. UNCHANGED <<folded, scored, reading>> /\ phase[w] # "folding"
          /\ (phase' = [phase EXCEPT ![w] = "loop"]
              \/ phase' = [phase EXCEPT ![w] = "stopped"])
      BY <2>2 DEF Start, Exit, vars
    <3>2. \A v \in Clients : phase'[v] = "folding" <=> phase[v] = "folding"
      BY <2>1, <3>1
    <3>3. QED
      BY <1>1, <3>1, <3>2
  <2>3. CASE Stop(w) \/ Poll(w) \/ ReadFails(w)
    BY <1>1, <2>3 DEF Stop, Poll, ReadFails, vars
  <2>4. CASE ReadAndScore(w)
    BY <2>4, RightReading
  <2>5. CASE StoreStep(w)
    BY <2>5, RightFolding
  <2>6. QED
    BY <1>3, <2>2, <2>3, <2>4, <2>5 DEF Work
<1>4. QED
  BY <1>2, <1>3 DEF WorkerNext

\* With one window size, the verdict of every published score is its worker's
\* textbook test over the samples folded in before it was computed, although
\* it is computed from running sums that other workers update meanwhile.
THEOREM VerdictsMatchHistory == WorkerSpec => []VerdictMatchesHistory
<1>1. WorkerInit => RightVerdicts
  <2> SUFFICES ASSUME WorkerInit
               PROVE  RightVerdicts
    OBVIOUS
  <2>1. \A w \in Clients : phase[w] = "created" /\ Len(scored[w]) = 0
    BY EmptySeq DEF WorkerInit
  <2>2. QED
    BY <2>1 DEF RightVerdicts
<1>2. WInv /\ RightVerdicts => VerdictMatchesHistory
  <2> SUFFICES ASSUME WInv, RightVerdicts, UniformWindow,
                      NEW w \in Clients, NEW i \in DOMAIN scored[w]
               PROVE  LET r == scored[w][i]
                      IN  r.is_anomaly <=>
                             ReferenceAnomaly(Method[w],
                                HistoryWindow(r.key, r.seen, WindowSize[w]), r.value)
    BY DEF VerdictMatchesHistory
  <2>1. i \in 1 .. Len(scored[w])
    BY LenProperties DEF WInv, WorkersOK, ResultsOK
  <2>2. QED
    BY <2>1 DEF RightVerdicts, Right
<1>3. WInv /\ StoreIsExact /\ RightVerdicts /\ [WorkerNext]_allVars => RightVerdicts'
  BY NextRightVerdicts
<1>4. Spec => [](WindowIsLogSuffix) /\ []StatisticsMatchWindow /\ []FullWindows
  BY WindowIsExact, StatisticsAreThoseOfTheWindow, WindowsAreFull
<1>5. WindowIsLogSuffix /\ StatisticsMatchWindow /\ FullWindows => StoreIsExact
  BY DEF StoreIsExact
<1>6. QED
  BY <1>1, <1>2, <1>3, <1>4, <1>5, WorkersStayConsistent, WorkersUseTheStore, PTL
     DEF WorkerSpec

=============================================================================

-------------------------- MODULE IngestionProofs --------------------------
(***************************************************************************)
(* Proofs about the ingestion pipeline and its three ingestors.            *)
(* PipelineNext is the pipeline in front of any transport: it fetches any  *)
(* events, and a poll may return, or raise with any of them settled.       *)
(* PipelineInv is inductive for it.  The Shares lemmas say that an         *)
(* ingestor's copy of the pipeline is this one; the Steps lemmas, that its *)
(* steps are steps of PipelineNext and keep what is said of the ingestor.  *)
(***************************************************************************)
EXTENDS MCIngestion, FoldTheorems

-----------------------------------------------------------------------------
(* The valid events of a sequence.                                          *)

Singles(s, lost) ==
    [i \in DOMAIN s |-> IF i \notin lost /\ Valid(s[i]) THEN <<s[i]>> ELSE <<>>]

LEMMA SinglesType ==
    ASSUME NEW s \in Seq(Events), NEW lost
    PROVE  /\ Singles(s, lost) \in Seq(Seq(Events)) /\ Len(Singles(s, lost)) = Len(s)
           /\ Len(s) \in Nat
           /\ \A i \in 1 .. Len(s) :
                 /\ s[i] \in Events
                 /\ Singles(s, lost)[i] = IF i \notin lost /\ Valid(s[i]) THEN <<s[i]>> ELSE <<>>
           /\ Kept(s, lost) = FlattenSeq(Singles(s, lost))
<1>1. /\ Len(s) \in Nat /\ DOMAIN s = 1 .. Len(s)
      /\ \A i \in 1 .. Len(s) : s[i] \in Events
  BY LenProperties, ElementOfSeq
<1>2. \A e \in Events : <<e>> \in Seq(Events)
  OBVIOUS
<1>3. <<>> \in Seq(Events)
  BY EmptySeq
<1> DEFINE f == [i \in 1 .. Len(s) |->
                    IF i \notin lost /\ Valid(s[i]) THEN <<s[i]>> ELSE <<>>]
<1>4. \A i \in 1 .. Len(s) : f[i] \in Seq(Events)
  BY <1>1, <1>2, <1>3
<1>5. \A i \in 1 .. Len(s) :
         f[i] = IF i \notin lost /\ Valid(s[i]) THEN <<s[i]>> ELSE <<>>
  OBVIOUS
<1>6. Singles(s, lost) = f
  BY <1>1 DEF Singles
<1>7. f \in [1 .. Len(s) -> Seq(Events)]
  BY <1>4
<1> HIDE DEF f
<1>8. f \in Seq(Seq(Events)) /\ Len(f) = Len(s)
  <2> DEFINE E == Seq(Events)
             n == Len(s)
  <2> HIDE DEF E, n
  <2>1. f \in [1 .. n -> E] /\ n \in Nat
    BY <1>1, <1>7 DEF E, n
  <2>2. f \in Seq(E)
    BY <2>1, SeqDef
  <2>3. Len(f) = n
    BY <2>1, <2>2, LenProperties
  <2>4. QED
    BY <2>2, <2>3 DEF E, n
<1>9. QED
  BY <1>1, <1>5, <1>6, <1>8 DEF Kept, Singles

\* What is kept of two sequences in a row; lostT are the indices in t.
LEMMA KeptConcat ==
    ASSUME NEW s \in Seq(Events), NEW t \in Seq(Events), NEW lost, NEW lostS, NEW lostT,
           \A i \in 1 .. Len(s) : i \in lost <=> i \in lostS,
           \A i \in 1 .. Len(t) : Len(s) + i \in lost <=> i \in lostT
    PROVE  /\ Kept(s, lostS) \in Seq(Events) /\ Kept(t, lostT) \in Seq(Events)
           /\ Kept(Cat(s, t), lost) = Cat(Kept(s, lostS), Kept(t, lostT))
<1> DEFINE u == Cat(s, t)
           n == Len(s)
           m == Len(t)
           F == Seq(Events)
           ss == Singles(s, lostS)
           tt == Singles(t, lostT)
           uu == Singles(u, lost)
<1>1. /\ u \in Seq(Events) /\ Len(u) = n + m /\ n \in Nat /\ m \in Nat
      /\ \A i \in 1 .. n : u[i] = s[i]
      /\ \A i \in 1 .. m : u[n + i] = t[i]
  <2>1. /\ Cat(s, t) \in Seq(Events) /\ Len(Cat(s, t)) = Len(s) + Len(t)
        /\ Len(s) \in Nat /\ Len(t) \in Nat
        /\ \A i \in 1 .. Len(s) : Cat(s, t)[i] = s[i]
        /\ \A i \in 1 .. Len(t) : Cat(s, t)[Len(s) + i] = t[i]
    BY ConcatProperties, LenProperties DEF Cat
  <2>2. QED
    BY <2>1
<1> HIDE DEF u
<1>2. /\ ss \in Seq(F) /\ Len(ss) = n
      /\ \A i \in 1 .. n :
            ss[i] = IF i \notin lostS /\ Valid(s[i]) THEN <<s[i]>> ELSE <<>>
      /\ Kept(s, lostS) = FlattenSeq(ss)
  BY SinglesType
<1>3. /\ tt \in Seq(F) /\ Len(tt) = m
      /\ \A i \in 1 .. m :
            tt[i] = IF i \notin lostT /\ Valid(t[i]) THEN <<t[i]>> ELSE <<>>
      /\ Kept(t, lostT) = FlattenSeq(tt)
  BY SinglesType
<1>4. /\ uu \in Seq(F) /\ Len(uu) = n + m
      /\ \A i \in 1 .. n + m :
            uu[i] = IF i \notin lost /\ Valid(u[i]) THEN <<u[i]>> ELSE <<>>
      /\ Kept(u, lost) = FlattenSeq(uu)
  <2>1. /\ uu \in Seq(F) /\ Len(uu) = Len(u)
        /\ \A i \in 1 .. Len(u) :
              uu[i] = IF i \notin lost /\ Valid(u[i]) THEN <<u[i]>> ELSE <<>>
        /\ Kept(u, lost) = FlattenSeq(uu)
    BY <1>1, SinglesType
  <2>2. QED
    BY <1>1, <2>1
<1>5. (\A i \in 1 .. n : i \in lost <=> i \in lostS)
      /\ (\A i \in 1 .. m : n + i \in lost <=> i \in lostT)
  OBVIOUS
<1> HIDE DEF n, m, ss, tt, uu
<1>6. \A i \in 1 .. n : uu[i] = ss[i]
  BY <1>1, <1>2, <1>4, <1>5
<1>7. \A i \in 1 .. m : uu[n + i] = tt[i]
  <2>1. ASSUME NEW i \in 1 .. m
        PROVE  uu[n + i] = tt[i]
    <3>1. n + i \in 1 .. n + m
      BY <1>1
    <3>2. u[n + i] = t[i] /\ (n + i \in lost <=> i \in lostT)
      BY <1>1, <1>5
    <3>3. QED
      BY <1>3, <1>4, <3>1, <3>2
  <2>2. QED
    BY <2>1
<1>8. uu = Cat(ss, tt)
  <2> HIDE DEF F
  <2>1. ss \in Seq(F) /\ tt \in Seq(F)
    BY <1>2, <1>3
  <2>2. /\ Cat(ss, tt) \in Seq(F) /\ Len(Cat(ss, tt)) = Len(ss) + Len(tt)
        /\ Len(ss) \in Nat /\ Len(tt) \in Nat
        /\ \A i \in 1 .. Len(ss) : Cat(ss, tt)[i] = ss[i]
        /\ \A i \in 1 .. Len(tt) : Cat(ss, tt)[Len(ss) + i] = tt[i]
    BY <2>1, ConcatProperties, LenProperties DEF Cat
  <2> DEFINE v == Cat(ss, tt)
  <2> HIDE DEF v
  <2>3. /\ v \in Seq(F) /\ Len(v) = n + m
        /\ \A i \in 1 .. n : v[i] = ss[i]
        /\ \A i \in 1 .. m : v[n + i] = tt[i]
    BY <1>2, <1>3, <2>2 DEF v
  <2>4. \A i \in 1 .. n + m : v[i] = uu[i]
    <3>1. ASSUME NEW i \in 1 .. n + m
          PROVE  v[i] = uu[i]
      <4>1. CASE i \in 1 .. n
        BY <1>6, <2>3, <4>1
      <4>2. CASE i \notin 1 .. n
        <5>1. PICK j \in 1 .. m : i = n + j
          <6>1. i - n \in 1 .. m /\ i = n + (i - n)
            BY <1>1, <4>2
          <6>2. QED
            BY <6>1
        <5>2. v[n + j] = tt[j] /\ uu[n + j] = tt[j]
          BY <1>7, <2>3
        <5>3. QED
          BY <5>1, <5>2
      <4>3. QED
        BY <4>1, <4>2
    <3>2. QED
      BY <3>1
  <2>5. v = uu
    BY <1>4, <2>3, <2>4, SeqEqual
  <2>6. QED
    BY <2>5 DEF v
<1>9. FlattenSeq(Cat(ss, tt)) = Cat(FlattenSeq(ss), FlattenSeq(tt))
      /\ FlattenSeq(ss) \in Seq(Events) /\ FlattenSeq(tt) \in Seq(Events)
  BY <1>2, <1>3, FlattenConcat
<1>10. QED
  BY <1>2, <1>3, <1>4, <1>8, <1>9 DEF u

\* Nothing is kept of what is lost.
LEMMA KeptOfLost ==
    ASSUME NEW s \in Seq(Events), NEW lost, \A i \in 1 .. Len(s) : i \in lost
    PROVE  Kept(s, lost) = <<>>
<1>1. /\ Singles(s, lost) \in Seq(Seq(Events)) /\ Len(Singles(s, lost)) = Len(s)
      /\ \A i \in 1 .. Len(s) : Singles(s, lost)[i] = <<>>
      /\ Kept(s, lost) = FlattenSeq(Singles(s, lost))
  BY SinglesType
<1> DEFINE f == Singles(s, lost)
           E == Events
<1> HIDE DEF f, E
<1>2. f \in Seq(Seq(E)) /\ \A i \in 1 .. Len(f) : f[i] = <<>>
  BY <1>1 DEF f, E
<1>3. FlattenSeq(f) = <<>>
  BY <1>2, FlattenEmpties
<1>4. QED
  BY <1>1, <1>3 DEF f

LEMMA KeptNone == Kept(<<>>, {}) = <<>>
<1> DEFINE z == <<>>
           none == {}
<1>1. z \in Seq(Events) /\ \A i \in 1 .. Len(z) : i \in none
  BY EmptySeq
<1> HIDE DEF z, none
<1>2. Kept(z, none) = <<>>
  BY <1>1, KeptOfLost
<1>3. QED
  BY <1>2 DEF z, none

LEMMA KeptFew ==
    ASSUME NEW e \in Events
    PROVE  /\ Kept(<<>>, {}) = <<>>
           /\ Kept(<<e>>, {}) = IF Valid(e) THEN <<e>> ELSE <<>>
<1>1. <<>> \in Seq(Events) /\ <<e>> \in Seq(Events) /\ Len(<<e>>) = 1 /\ Len(<<>>) = 0
  BY EmptySeq
<1>2. Kept(<<>>, {}) = <<>>
  BY KeptNone
<1>3. Singles(<<e>>, {}) = <<IF Valid(e) THEN <<e>> ELSE <<>>>>
  BY DEF Singles
<1>4. Kept(<<e>>, {}) = FlattenSeq(Singles(<<e>>, {}))
  BY <1>1, SinglesType
<1>5. (IF Valid(e) THEN <<e>> ELSE <<>>) \in Seq(Events)
  BY <1>1
<1>6. QED
  BY <1>2, <1>3, <1>4, <1>5, FlattenFew

LEMMA EventsOfCat ==
    ASSUME NEW s \in Seq(Events), NEW t \in Seq(Events)
    PROVE  ToSet(Cat(s, t)) = ToSet(s) \cup ToSet(t)
BY ToSetCat

-----------------------------------------------------------------------------
(* The pipeline, whatever ingestor drives it.                               *)

PipelineNext ==
    \/ StartLoop \/ StopLoop \/ LoopStep \/ WindowElapses
    \/ ProcessValid \/ ProcessInvalid \/ PollReturns
    \/ \E events \in Seq(Events) : Fetch(events)
    \/ \E settled \in SUBSET Events :
          \/ PoisonRaises(settled) \/ DeadLetterRaises(settled)
          \/ TransportRaises(settled) \/ CrashLoop(settled)

Batch == [records: Seq(Events), n_invalid: Nat]

\* A poll goes on only while the loop runs, and begins with empty hands.
PollOK ==
    /\ InPoll => running
    /\ phase = "poll" => fetched = <<>> /\ drained = <<>> /\ pollFrom = Len(taken)

\* What was fetched before the current poll is emitted, buffered or lost; what
\* was fetched by it is drained or in hand.
Split(before, now) ==
    /\ taken = Cat(before, now)
    /\ InPoll => pollFrom = Len(before)
    /\ ~InPoll => now = <<>>
    /\ \A i \in lostAt : i <= Len(before)
    /\ Cat(EmittedRecords, buffer) = Kept(before, lostAt)
    /\ Cat(drained, Kept(fetched, {})) = Kept(now, {})
    /\ ToSet(fetched) \cup ToSet(drained) \subseteq ToSet(now)

Conserved == \E before, now \in Seq(Events) : Split(before, now)

\* The invalid events of the first i batches.
InvalidIn(total) ==
    /\ total \in [0 .. Len(emitted) -> Nat]
    /\ total[0] = 0
    /\ \A i \in 1 .. Len(emitted) : total[i] = total[i - 1] + emitted[i].n_invalid
    /\ validation_errors_total = total[Len(emitted)] + n_invalid

Counted ==
    /\ \E total : InvalidIn(total)
    /\ events_received_total =
          Len(EmittedRecords) + Len(buffer) + validation_errors_total

\* The inductive invariant of the pipeline.
PipelineInv ==
    PipelineTypeOK /\ PollOK /\ Conserved /\ Counted /\ CountedIsDeadLettered

-----------------------------------------------------------------------------
(* Types.                                                                   *)

LEMMA PipelineTypes == PipelineTypeOK /\ PipelineNext => PipelineTypeOK'
<1> SUFFICES ASSUME PipelineTypeOK, PipelineNext
             PROVE  PipelineTypeOK'
  OBVIOUS
<1> USE DEF pollVars, accVars, countVars, historyVars, loopVars, InPoll
<1>1. <<>> \in Seq(Events) /\ <<>> \in Seq(Batch)
  BY EmptySeq
<1>2. CASE StartLoop \/ StopLoop \/ WindowElapses
  <2>1. CASE StartLoop
    BY <2>1 DEF StartLoop, PipelineTypeOK
  <2>2. CASE StopLoop
    BY <2>2 DEF StopLoop, PipelineTypeOK
  <2>3. CASE WindowElapses
    BY <2>3 DEF WindowElapses, PipelineTypeOK
  <2>4. QED
    BY <1>2, <2>1, <2>2, <2>3
<1>3. CASE LoopStep
  <2>1. CASE LoopTest
    <3>1. Len(taken) \in Nat
      BY LenProperties DEF PipelineTypeOK
    <3>2. QED
      BY <2>1, <3>1 DEF LoopTest, PipelineTypeOK
  <2>2. CASE NoFlush \/ FlushNothing \/ OnBatchEnds
    BY <2>2 DEF NoFlush, FlushNothing, OnBatchEnds, PipelineTypeOK
  <2>3. CASE Flush
    <3> DEFINE b == [records |-> buffer, n_invalid |-> n_invalid]
    <3>1. b \in Batch /\ emitted \in Seq(Batch)
      BY DEF Batch, PipelineTypeOK
    <3>2. emitted' = Append(emitted, b)
      BY <2>3 DEF Flush
    <3> HIDE DEF b
    <3>3. emitted' \in Seq(Batch)
      BY <3>1, <3>2, AppendProperties
    <3>4. ToSet(buffer) \subseteq Events
      BY ElementOfSeq, LenProperties DEF ToSet, PipelineTypeOK
    <3>5. batched' \subseteq Events
      BY <2>3, <3>4 DEF Flush, PipelineTypeOK
    <3>6. QED
      BY <1>1, <2>3, <3>3, <3>5 DEF Flush, PipelineTypeOK, Batch
  <2>4. QED
    BY <1>3, <2>1, <2>2, <2>3 DEF LoopStep
<1>4. CASE ProcessValid
  <2>1. Head(fetched) \in Events /\ Tail(fetched) \in Seq(Events)
    BY <1>4, HeadTail DEF ProcessValid, Facing, PipelineTypeOK
  <2>2. Append(drained, Head(fetched)) \in Seq(Events)
    BY <2>1, AppendProperties DEF PipelineTypeOK
  <2>3. QED
    BY <1>4, <2>1, <2>2 DEF ProcessValid, Facing, PipelineTypeOK
<1>5. CASE ProcessInvalid
  <2>1. Head(fetched) \in Events /\ Tail(fetched) \in Seq(Events)
    BY <1>5, HeadTail DEF ProcessInvalid, Facing, PipelineTypeOK
  <2>2. Append(dlq, Head(fetched)) \in Seq(Events)
    BY <2>1, AppendProperties DEF PipelineTypeOK
  <2>3. QED
    BY <1>5, <2>1, <2>2 DEF ProcessInvalid, Facing, PipelineTypeOK
<1>6. CASE PollReturns
  <2>1. buffer \o drained \in Seq(Events)
    BY ConcatProperties DEF PipelineTypeOK
  <2>2. Len(drained) \in Nat
    BY LenProperties DEF PipelineTypeOK
  <2>3. QED
    BY <1>1, <1>6, <2>1, <2>2 DEF PollReturns, PipelineTypeOK
<1>7. ASSUME NEW events \in Seq(Events), Fetch(events)
      PROVE  PipelineTypeOK'
  <2>1. taken \o events \in Seq(Events)
    BY ConcatProperties DEF PipelineTypeOK
  <2>2. QED
    BY <1>7, <2>1 DEF Fetch, PipelineTypeOK
<1>8. ASSUME NEW settled \in SUBSET Events,
             PoisonRaises(settled) \/ DeadLetterRaises(settled) \/ TransportRaises(settled)
      PROVE  PipelineTypeOK'
  <2>1. Raise(settled) /\ UNCHANGED dlq /\ last_poll_invalid_count' \in Nat
    BY <1>8 DEF PoisonRaises, DeadLetterRaises, TransportRaises, PipelineTypeOK
  <2>2. pollFrom + 1 .. Len(taken) \subseteq Nat
    BY LenProperties DEF PipelineTypeOK
  <2>3. QED
    BY <1>1, <2>1, <2>2 DEF Raise, PipelineTypeOK
<1>9. ASSUME NEW settled \in SUBSET Events, CrashLoop(settled)
      PROVE  PipelineTypeOK'
  BY <1>1, <1>9 DEF CrashLoop, PipelineTypeOK, Batch
<1>10. QED
  BY <1>2, <1>3, <1>4, <1>5, <1>6, <1>7, <1>8, <1>9 DEF PipelineNext

-----------------------------------------------------------------------------
(* Conservation: what happens to the split of the fetched events.           *)

Joins(s, t, lost) ==
    (\A i \in lost : i <= Len(s)) =>
       /\ Kept(Cat(s, t), lost) = Cat(Kept(s, lost), Kept(t, {}))
       /\ Kept(Cat(s, t), lost \cup (Len(s) + 1 .. Len(Cat(s, t)))) = Kept(s, lost)
       /\ Kept(s, lost) \in Seq(Events) /\ Kept(t, {}) \in Seq(Events)

LEMMA KeptJoins == \A s, t \in Seq(Events), lost \in SUBSET Nat : Joins(s, t, lost)
<1> SUFFICES ASSUME NEW s \in Seq(Events), NEW t \in Seq(Events), NEW lost \in SUBSET Nat,
                    \A i \in lost : i <= Len(s)
             PROVE  /\ Kept(Cat(s, t), lost) = Cat(Kept(s, lost), Kept(t, {}))
                    /\ Kept(Cat(s, t), lost \cup (Len(s) + 1 .. Len(Cat(s, t)))) = Kept(s, lost)
                    /\ Kept(s, lost) \in Seq(Events) /\ Kept(t, {}) \in Seq(Events)
  BY DEF Joins
<1> DEFINE n == Len(s)
           m == Len(t)
           none == {}
           all == 1 .. m
           more == lost \cup (n + 1 .. Len(Cat(s, t)))
<1>1. n \in Nat /\ m \in Nat /\ Len(Cat(s, t)) = n + m
  BY CatLaws DEF CatFacts
<1>2. (\A i \in 1 .. n : i \in lost <=> i \in lost)
      /\ (\A i \in 1 .. m : n + i \in lost <=> i \in none)
  BY <1>1
<1>3. \A i \in 1 .. n : i \in more <=> i \in lost
  BY <1>1
<1>4. (\A i \in 1 .. m : n + i \in more <=> i \in all) /\ (\A i \in 1 .. m : i \in all)
  BY <1>1
<1> HIDE DEF none, all, more
<1>5. /\ Kept(s, lost) \in Seq(Events) /\ Kept(t, none) \in Seq(Events)
      /\ Kept(Cat(s, t), lost) = Cat(Kept(s, lost), Kept(t, none))
  BY <1>2, KeptConcat
<1>6. Kept(Cat(s, t), more) = Cat(Kept(s, lost), Kept(t, all))
  BY <1>3, <1>4, KeptConcat
<1>7. Kept(t, all) = <<>>
  BY <1>4, KeptOfLost
<1>8. Cat(Kept(s, lost), <<>>) = Kept(s, lost)
  BY <1>5, CatEmpty
<1>9. QED
  BY <1>5, <1>6, <1>7, <1>8 DEF none, more

LEMMA KeptStays ==
    ASSUME kind' = kind, NEW s
    PROVE  /\ Kept(s, lostAt)' = Kept(s, lostAt')
           /\ Kept(s, {})' = Kept(s, {})
           /\ Kept(fetched, {})' = Kept(fetched', {})
BY DEF Kept, Valid

\* Split of the next state.
SplitNext(before, now) ==
    /\ taken' = Cat(before, now)
    /\ InPoll' => pollFrom' = Len(before)
    /\ ~InPoll' => now = <<>>
    /\ \A i \in lostAt' : i <= Len(before)
    /\ Cat(EmittedRecords', buffer') = Kept(before, lostAt')
    /\ Cat(drained', Kept(fetched', {})) = Kept(now, {})
    /\ ToSet(fetched') \cup ToSet(drained') \subseteq ToSet(now)

LEMMA SplitIsConserved ==
    ASSUME kind' = kind, NEW before \in Seq(Events), NEW now \in Seq(Events),
           SplitNext(before, now)
    PROVE  Conserved'
<1>1. Split(before, now)'
  BY KeptStays DEF Split, SplitNext, Cat, ToSet
<1>2. QED
  BY <1>1 DEF Conserved

LEMMA ConservedIdle ==
    ASSUME Conserved, UNCHANGED <<kind, taken, lostAt, emitted, buffer, drained, fetched>>,
           ~InPoll, ~InPoll'
    PROVE  Conserved'
<1>1. PICK before \in Seq(Events), now \in Seq(Events) : Split(before, now)
  BY DEF Conserved
<1>2. EmittedRecords' = EmittedRecords
  BY DEF EmittedRecords
<1>3. SplitNext(before, now)
  BY <1>1, <1>2 DEF Split, SplitNext
<1>4. QED
  BY <1>1, <1>3, SplitIsConserved

LEMMA ConservedSame ==
    ASSUME Conserved, UNCHANGED <<kind, taken, lostAt, emitted, buffer, drained, fetched,
                                  phase, pollFrom>>
    PROVE  Conserved'
<1>1. PICK before \in Seq(Events), now \in Seq(Events) : Split(before, now)
  BY DEF Conserved
<1>2. EmittedRecords' = EmittedRecords /\ InPoll' = InPoll
  BY DEF EmittedRecords, InPoll
<1>3. SplitNext(before, now)
  BY <1>1, <1>2 DEF Split, SplitNext
<1>4. QED
  BY <1>1, <1>3, SplitIsConserved

\* What the split of an idle pipeline is.
LEMMA IdleSplit ==
    ASSUME PipelineTypeOK, NEW before \in Seq(Events), NEW now \in Seq(Events),
           Split(before, now), ~InPoll
    PROVE  before = taken /\ now = <<>> /\ fetched = <<>> /\ drained = <<>>
<1>1. now = <<>> /\ fetched = <<>> /\ drained = <<>>
  BY DEF Split, PipelineTypeOK
<1>2. Cat(before, <<>>) = before
  BY CatEmpty
<1>3. QED
  BY <1>1, <1>2 DEF Split

LEMMA LoopTestConserves ==
    ASSUME PipelineTypeOK, Conserved, LoopTest
    PROVE  Conserved'
<1>1. /\ phase = "await" /\ pollFrom' = Len(taken)
      /\ UNCHANGED <<kind, taken, lostAt, emitted, buffer, drained, fetched>>
  BY DEF LoopTest, accVars, loopVars
<1>2. ~InPoll
  BY <1>1 DEF InPoll
<1>3. PICK before \in Seq(Events), now \in Seq(Events) : Split(before, now)
  BY DEF Conserved
<1>4. before = taken /\ now = <<>>
  BY <1>2, <1>3, IdleSplit
<1>5. EmittedRecords' = EmittedRecords
  BY <1>1 DEF EmittedRecords
<1>6. SplitNext(before, now)
  BY <1>1, <1>3, <1>4, <1>5 DEF Split, SplitNext
<1>7. QED
  BY <1>1, <1>6, SplitIsConserved

LEMMA FetchConserves ==
    ASSUME PipelineTypeOK, Conserved, NEW events \in Seq(Events), Fetch(events)
    PROVE  Conserved'
<1>1. /\ InPoll /\ fetched = <<>> /\ InPoll'
      /\ fetched' = events /\ taken' = Cat(taken, events)
      /\ UNCHANGED <<kind, pollFrom, lostAt, emitted, buffer, drained>>
  BY DEF Fetch, InPoll, Cat, accVars, loopVars
<1>2. PICK before \in Seq(Events), now \in Seq(Events) : Split(before, now)
  BY DEF Conserved
<1> DEFINE next == Cat(now, events)
<1>3. next \in Seq(Events) /\ Cat(before, next) = Cat(taken, events)
  <2>1. CatFacts(Events, now, events)
    BY CatLaws
  <2>2. Cat(Cat(before, now), events) = Cat(before, Cat(now, events))
    BY CatAssociates
  <2>3. QED
    BY <1>2, <2>1, <2>2 DEF Split, CatFacts
<1>4. Kept(next, {}) = Cat(Kept(now, {}), Kept(events, {}))
  BY KeptJoins DEF Joins
<1>5. Kept(fetched, {}) = <<>> /\ Cat(drained, <<>>) = drained
  <2>1. \A i \in 1 .. 0 : i \in {}
    OBVIOUS
  <2>2. Kept(<<>>, {}) = <<>>
    BY KeptNone
  <2>3. QED
    BY <1>1, <2>2, CatEmpty DEF PipelineTypeOK
<1>6. ToSet(next) = ToSet(now) \cup ToSet(events)
  BY EventsOfCat
<1> HIDE DEF next
<1>7. EmittedRecords' = EmittedRecords
  BY <1>1 DEF EmittedRecords
<1>8. SplitNext(before, next)
  BY <1>1, <1>2, <1>3, <1>4, <1>5, <1>6, <1>7 DEF Split, SplitNext
<1>9. QED
  BY <1>1, <1>3, <1>8, SplitIsConserved

LEMMA HeadKept ==
    ASSUME PipelineTypeOK, fetched # <<>>, NEW CONSTANT e, e = Head(fetched)
    PROVE  /\ e \in Events /\ Tail(fetched) \in Seq(Events) /\ <<e>> \in Seq(Events)
           /\ Kept(Tail(fetched), {}) \in Seq(Events)
           /\ Kept(fetched, {}) =
                 IF Valid(e) THEN Cat(<<e>>, Kept(Tail(fetched), {})) ELSE Kept(Tail(fetched), {})
           /\ ToSet(fetched) = {e} \cup ToSet(Tail(fetched))
<1> DEFINE t == Tail(fetched)
           o == <<e>>
<1>1. e \in Events /\ t \in Seq(Events) /\ o \in Seq(Events) /\ fetched = Cat(o, t)
  BY HeadTail DEF PipelineTypeOK
<1>2. Kept(o, {}) = (IF Valid(e) THEN o ELSE <<>>)
  BY <1>1, KeptFew
<1>3. ToSet(o) = {e}
  BY DEF ToSet
<1> HIDE DEF t, o
<1>4. Kept(fetched, {}) = Cat(Kept(o, {}), Kept(t, {})) /\ Kept(t, {}) \in Seq(Events)
  BY <1>1, KeptJoins DEF Joins
<1>5. Cat(<<>>, Kept(t, {})) = Kept(t, {})
  BY <1>4, CatEmpty
<1>6. ToSet(fetched) = ToSet(o) \cup ToSet(t)
  BY <1>1, EventsOfCat
<1>7. QED
  BY <1>1, <1>2, <1>3, <1>4, <1>5, <1>6 DEF t, o

LEMMA ProcessValidConserves ==
    ASSUME PipelineTypeOK, Conserved, ProcessValid
    PROVE  Conserved'
<1>1. PICK e : e = Head(fetched)
  OBVIOUS
<1>2. /\ InPoll /\ InPoll' /\ fetched # <<>> /\ kind[e] = "valid"
      /\ drained' = Append(drained, e) /\ fetched' = Tail(fetched)
      /\ UNCHANGED <<kind, taken, pollFrom, lostAt, emitted, buffer>>
  BY <1>1 DEF ProcessValid, Facing, InPoll, accVars, historyVars, loopVars
<1>3. PICK before \in Seq(Events), now \in Seq(Events) : Split(before, now)
  BY DEF Conserved
<1>4. /\ e \in Events /\ <<e>> \in Seq(Events) /\ Tail(fetched) \in Seq(Events)
      /\ Kept(Tail(fetched), {}) \in Seq(Events)
      /\ Kept(fetched, {}) = Cat(<<e>>, Kept(Tail(fetched), {}))
      /\ ToSet(fetched) = {e} \cup ToSet(Tail(fetched))
  BY <1>1, <1>2, HeadKept DEF Valid
<1>5. drained' = Cat(drained, <<e>>) /\ drained \in Seq(Events)
  BY <1>2, <1>4, AppendIsConcat DEF Cat, PipelineTypeOK
<1>6. Cat(drained', Kept(fetched', {})) = Cat(drained, Kept(fetched, {}))
  <2> DEFINE o == <<e>>
             k == Kept(Tail(fetched), {})
  <2>1. drained \in Seq(Events) /\ o \in Seq(Events) /\ k \in Seq(Events)
    BY <1>4, <1>5
  <2> HIDE DEF o, k
  <2>2. Cat(Cat(drained, o), k) = Cat(drained, Cat(o, k))
    BY <2>1, CatAssociates
  <2>3. Cat(drained', Kept(fetched', {})) = Cat(Cat(drained, o), k)
    BY <1>2, <1>5 DEF o, k
  <2>4. QED
    BY <1>4, <2>2, <2>3 DEF o, k
<1>7. ToSet(drained') = ToSet(drained) \cup {e}
  <2>1. ToSet(<<e>>) = {e}
    BY DEF ToSet
  <2>2. QED
    BY <1>4, <1>5, <2>1, EventsOfCat
<1>8. EmittedRecords' = EmittedRecords
  BY <1>2 DEF EmittedRecords
<1>9. SplitNext(before, now)
  BY <1>2, <1>3, <1>4, <1>6, <1>7, <1>8 DEF Split, SplitNext
<1>10. QED
  BY <1>2, <1>9, SplitIsConserved

LEMMA ProcessInvalidConserves ==
    ASSUME PipelineTypeOK, Conserved, ProcessInvalid
    PROVE  Conserved'
<1>1. PICK e : e = Head(fetched)
  OBVIOUS
<1>2. /\ InPoll /\ InPoll' /\ fetched # <<>> /\ kind[e] = "invalid"
      /\ fetched' = Tail(fetched)
      /\ UNCHANGED <<kind, drained, taken, pollFrom, lostAt, emitted, buffer>>
  BY <1>1 DEF ProcessInvalid, Facing, InPoll, accVars, historyVars, loopVars
<1>3. PICK before \in Seq(Events), now \in Seq(Events) : Split(before, now)
  BY DEF Conserved
<1>4. /\ Kept(fetched, {}) = Kept(Tail(fetched), {})
      /\ ToSet(fetched) = {e} \cup ToSet(Tail(fetched))
  BY <1>1, <1>2, HeadKept DEF Valid
<1>5. EmittedRecords' = EmittedRecords
  BY <1>2 DEF EmittedRecords
<1>6. SplitNext(before, now)
  BY <1>2, <1>3, <1>4, <1>5 DEF Split, SplitNext
<1>7. QED
  BY <1>2, <1>6, SplitIsConserved

\* The whole of the poll is lost, and counts as fetched before the next.
LEMMA RaiseConserves ==
    ASSUME PipelineTypeOK, Conserved, InPoll, NEW settled, Raise(settled)
    PROVE  Conserved'
<1>1. PICK before \in Seq(Events), now \in Seq(Events) : Split(before, now)
  BY DEF Conserved
<1>2. /\ taken = Cat(before, now) /\ pollFrom = Len(before)
      /\ \A i \in lostAt : i <= Len(before)
      /\ Cat(EmittedRecords, buffer) = Kept(before, lostAt)
  BY <1>1 DEF Split
<1>3. /\ Len(before) \in Nat /\ Len(taken) \in Nat /\ Len(before) <= Len(taken)
      /\ taken \in Seq(Events)
  <2>1. CatFacts(Events, before, now)
    BY CatLaws
  <2>2. QED
    BY <1>2, <2>1 DEF CatFacts, PipelineTypeOK
<1>4. /\ ~InPoll' /\ fetched' = <<>> /\ drained' = <<>>
      /\ lostAt' = lostAt \cup (Len(before) + 1 .. Len(taken))
      /\ UNCHANGED <<kind, taken, emitted, buffer>>
  BY <1>2 DEF Raise, InPoll, accVars, loopVars
<1>5. Kept(taken, lostAt') = Kept(before, lostAt)
  <2>1. lostAt \in SUBSET Nat
    BY DEF PipelineTypeOK
  <2>2. Joins(before, now, lostAt)
    BY <2>1, KeptJoins
  <2>3. QED
    BY <1>2, <1>4, <2>2 DEF Joins
<1>6. Cat(<<>>, <<>>) = <<>> /\ Cat(taken, <<>>) = taken /\ <<>> \in Seq(Events)
  BY <1>3, CatEmpty, EmptySeq
<1>7. EmittedRecords' = EmittedRecords
  BY <1>4 DEF EmittedRecords
<1>8. ToSet(<<>>) = {}
  BY DEF ToSet
<1> DEFINE z == <<>>
<1>9. SplitNext(taken, z)
  <2>1. taken' = Cat(taken, z) /\ (~InPoll' => z = <<>>)
    BY <1>4, <1>6
  <2>2. \A i \in lostAt' : i <= Len(taken)
    <3>1. lostAt \subseteq Nat
      BY DEF PipelineTypeOK
    <3>2. QED
      BY <1>2, <1>3, <1>4, <3>1
  <2>3. Cat(EmittedRecords', buffer') = Kept(taken, lostAt')
    BY <1>2, <1>4, <1>5, <1>7
  <2>4. Cat(drained', Kept(fetched', {})) = Kept(z, {})
    BY <1>4, <1>6, KeptNone
  <2>5. ToSet(fetched') \cup ToSet(drained') \subseteq ToSet(z)
    BY <1>4, <1>8
  <2>6. QED
    BY <1>4, <2>1, <2>2, <2>3, <2>4, <2>5 DEF SplitNext
<1> HIDE DEF z
<1>10. QED
  BY <1>3, <1>4, <1>6, <1>9, SplitIsConserved DEF z

LEMMA EmittedType ==
    ASSUME PipelineTypeOK
    PROVE  /\ [i \in DOMAIN emitted |-> emitted[i].records] \in Seq(Seq(Events))
           /\ EmittedRecords \in Seq(Events)
<1> DEFINE ss == [i \in DOMAIN emitted |-> emitted[i].records]
           F == Seq(Events)
           n == Len(emitted)
<1>1. n \in Nat /\ DOMAIN emitted = 1 .. n /\ \A i \in 1 .. n : emitted[i] \in Batch
  BY LenProperties, ElementOfSeq DEF PipelineTypeOK, Batch
<1>2. \A i \in 1 .. n : emitted[i].records \in F
  BY <1>1 DEF Batch
<1> HIDE DEF F, n
<1>3. ss \in [1 .. n -> F]
  BY <1>1, <1>2
<1> HIDE DEF ss
<1>4. ss \in Seq(F)
  BY <1>1, <1>3, SeqDef
<1>5. ss \in Seq(Seq(Events)) /\ <<>> \in Seq(Seq(Events))
  BY <1>4, EmptySeq DEF F
<1>6. FlattenSeq(ss) \in Seq(Events)
  BY <1>5, FlattenConcat
<1>7. QED
  BY <1>5, <1>6 DEF EmittedRecords, ss

LEMMA PollReturnsConserves ==
    ASSUME PipelineTypeOK, Conserved, PollReturns
    PROVE  Conserved'
<1>1. PICK before \in Seq(Events), now \in Seq(Events) : Split(before, now)
  BY DEF Conserved
<1>2. /\ InPoll /\ ~InPoll' /\ fetched = <<>>
      /\ fetched' = <<>> /\ drained' = <<>>
      /\ buffer' = Cat(buffer, drained)
      /\ UNCHANGED <<kind, taken, lostAt, emitted>>
  BY DEF PollReturns, InPoll, Cat, historyVars, loopVars
<1>3. /\ taken = Cat(before, now)
      /\ \A i \in lostAt : i <= Len(before)
      /\ Cat(EmittedRecords, buffer) = Kept(before, lostAt)
      /\ Cat(drained, Kept(<<>>, {})) = Kept(now, {})
  BY <1>1, <1>2 DEF Split
<1>4. /\ EmittedRecords \in Seq(Events) /\ buffer \in Seq(Events)
      /\ drained \in Seq(Events) /\ taken \in Seq(Events) /\ lostAt \in SUBSET Nat
      /\ <<>> \in Seq(Events)
  BY EmittedType, EmptySeq DEF PipelineTypeOK
<1>5. Kept(now, {}) = drained
  BY <1>3, <1>4, KeptNone, CatEmpty
<1>6. Cat(EmittedRecords, Cat(buffer, drained)) = Kept(taken, lostAt)
  <2>1. Joins(before, now, lostAt)
    BY <1>4, KeptJoins
  <2>2. Kept(taken, lostAt) = Cat(Kept(before, lostAt), drained)
    BY <1>3, <1>5, <2>1 DEF Joins
  <2> DEFINE x == EmittedRecords
  <2> HIDE DEF x
  <2>3. x \in Seq(Events)
    BY <1>4 DEF x
  <2>4. Cat(Cat(x, buffer), drained) = Cat(x, Cat(buffer, drained))
    BY <1>4, <2>3, CatAssociates
  <2>5. QED
    BY <1>3, <2>2, <2>4 DEF x
<1>7. /\ Cat(<<>>, <<>>) = <<>> /\ Cat(taken, <<>>) = taken
      /\ ToSet(<<>>) = {}
  <2>1. ToSet(<<>>) = {}
    BY DEF ToSet
  <2>2. QED
    BY <1>4, <2>1, CatEmpty
<1>8. EmittedRecords' = EmittedRecords
  BY <1>2 DEF EmittedRecords
<1>9. \A i \in lostAt : i <= Len(taken)
  <2>1. CatFacts(Events, before, now)
    BY CatLaws
  <2>2. QED
    BY <1>3, <1>4, <2>1 DEF CatFacts
<1> DEFINE z == <<>>
<1>10. SplitNext(taken, z)
  <2>1. taken' = Cat(taken, z) /\ (~InPoll' => z = <<>>)
    BY <1>2, <1>7
  <2>2. \A i \in lostAt' : i <= Len(taken)
    BY <1>2, <1>9
  <2>3. Cat(EmittedRecords', buffer') = Kept(taken, lostAt')
    BY <1>2, <1>6, <1>8
  <2>4. Cat(drained', Kept(fetched', {})) = Kept(z, {})
    BY <1>2, <1>7, KeptNone
  <2>5. ToSet(fetched') \cup ToSet(drained') \subseteq ToSet(z)
    BY <1>2, <1>7
  <2>6. QED
    BY <1>2, <2>1, <2>2, <2>3, <2>4, <2>5 DEF SplitNext
<1> HIDE DEF z
<1>11. QED
  BY <1>2, <1>4, <1>10, SplitIsConserved DEF z

\* A flush moves the buffer behind the records emitted so far.
LEMMA FlushEmits ==
    ASSUME PipelineTypeOK, Flush
    PROVE  EmittedRecords' = Cat(EmittedRecords, buffer)
<1> DEFINE ss == [i \in DOMAIN emitted |-> emitted[i].records]
           uu == [i \in DOMAIN emitted' |-> emitted'[i].records]
           n  == Len(emitted)
           F  == Seq(Events)
           b  == [records |-> buffer, n_invalid |-> n_invalid]
           o  == <<buffer>>
<1>1. /\ n \in Nat /\ DOMAIN emitted = 1 .. n /\ DOMAIN emitted' = 1 .. n + 1
      /\ \A i \in 1 .. n : emitted'[i] = emitted[i]
      /\ emitted'[n + 1] = b
  <2>1. emitted \in Seq(Batch) /\ b \in Batch
    BY DEF PipelineTypeOK, Batch
  <2>2. emitted' = Append(emitted, b)
    BY DEF Flush
  <2> HIDE DEF b
  <2>3. /\ emitted' \in Seq(Batch) /\ Len(emitted') = n + 1 /\ n \in Nat
        /\ \A i \in 1 .. n : emitted'[i] = emitted[i]
        /\ emitted'[n + 1] = b
    BY <2>1, <2>2, AppendProperties, LenProperties
  <2>4. QED
    BY <2>1, <2>3, LenProperties
<1>2. /\ DOMAIN uu = 1 .. n + 1 /\ DOMAIN ss = 1 .. n
      /\ \A i \in 1 .. n : uu[i] = ss[i]
      /\ uu[n + 1] = buffer
  BY <1>1
<1>3. ss \in Seq(F) /\ buffer \in F
  BY EmittedType DEF PipelineTypeOK
<1>4. EmittedRecords = FlattenSeq(ss) /\ EmittedRecords' = FlattenSeq(uu)
  BY DEF EmittedRecords
<1>5. uu = [i \in 1 .. n + 1 |-> uu[i]]
  BY <1>2
<1> HIDE DEF uu, ss, F, n, b
<1>6. n \in Nat /\ Len(ss) = n
  BY <1>1, <1>2, <1>3, LenProperties
<1>7. o \in Seq(F) /\ Len(o) = 1 /\ o[1] = buffer
  BY <1>3
<1> HIDE DEF o
<1>8. /\ Cat(ss, o) \in Seq(F) /\ Len(Cat(ss, o)) = n + 1
      /\ \A i \in 1 .. n : Cat(ss, o)[i] = ss[i]
      /\ Cat(ss, o)[n + 1] = o[1]
  <2>1. CatFacts(F, ss, o)
    BY <1>3, <1>7, CatLaws
  <2>2. QED
    BY <1>6, <1>7, <2>1 DEF CatFacts
<1>9. uu \in Seq(F) /\ Len(uu) = n + 1
  <2>1. \A i \in 1 .. n + 1 : uu[i] \in F
    <3>1. \A i \in 1 .. n : ss[i] \in F
      BY <1>3, <1>6, ElementOfSeq
    <3>2. QED
      BY <1>2, <1>3, <1>6, <3>1
  <2>2. uu \in [1 .. n + 1 -> F] /\ n + 1 \in Nat
    BY <1>5, <1>6, <2>1
  <2>3. QED
    BY <2>2, SeqDef, LenProperties
<1>10. \A i \in 1 .. n + 1 : uu[i] = Cat(ss, o)[i]
  BY <1>2, <1>6, <1>7, <1>8
<1>11. uu = Cat(ss, o)
  <2> DEFINE v == Cat(ss, o)
  <2> HIDE DEF v
  <2>1. v \in Seq(F) /\ Len(v) = n + 1 /\ \A i \in 1 .. n + 1 : uu[i] = v[i]
    BY <1>8, <1>10 DEF v
  <2>2. uu = v
    BY <1>9, <2>1, SeqEqual
  <2>3. QED
    BY <2>2 DEF v
<1>12. FlattenSeq(Cat(ss, o)) = Cat(FlattenSeq(ss), FlattenSeq(o))
  BY <1>3, <1>7, FlattenConcat DEF F
<1>13. FlattenSeq(o) = buffer
  BY <1>3, FlattenFew DEF o, F
<1>14. QED
  BY <1>4, <1>11, <1>12, <1>13

LEMMA FlushConserves ==
    ASSUME PipelineTypeOK, Conserved, Flush
    PROVE  Conserved'
<1>1. PICK before \in Seq(Events), now \in Seq(Events) : Split(before, now)
  BY DEF Conserved
<1>2. /\ ~InPoll /\ ~InPoll' /\ buffer' = <<>>
      /\ UNCHANGED <<kind, taken, lostAt, fetched, drained>>
  BY DEF Flush, InPoll, pollVars, loopVars
<1>3. EmittedRecords' = Cat(EmittedRecords, buffer)
  BY FlushEmits
<1>4. Cat(EmittedRecords', <<>>) = EmittedRecords'
  <2>1. EmittedRecords \in Seq(Events) /\ buffer \in Seq(Events)
    BY EmittedType DEF PipelineTypeOK
  <2> DEFINE x == EmittedRecords
  <2> HIDE DEF x
  <2>2. CatFacts(Events, x, buffer)
    BY <2>1, CatLaws DEF x
  <2>3. EmittedRecords' \in Seq(Events)
    BY <1>3, <2>2 DEF CatFacts, x
  <2> DEFINE y == EmittedRecords'
  <2> HIDE DEF y
  <2>4. Cat(y, <<>>) = y
    BY <2>3, CatEmpty DEF y
  <2>5. QED
    BY <2>4 DEF y
<1>5. SplitNext(before, now)
  BY <1>1, <1>2, <1>3, <1>4 DEF Split, SplitNext
<1>6. QED
  BY <1>1, <1>2, <1>5, SplitIsConserved

\* A process that starts with nothing.
LEMMA NothingIsConserved ==
    ASSUME taken = <<>>, lostAt = {}, emitted = <<>>, buffer = <<>>, fetched = <<>>,
           drained = <<>>, ~InPoll
    PROVE  Conserved
<1> DEFINE z == <<>>
<1>1. z \in Seq(Events)
  BY EmptySeq
<1>2. EmittedRecords = <<>>
  <2>1. [i \in DOMAIN emitted |-> emitted[i].records] = <<>>
    OBVIOUS
  <2>2. FlattenSeq(<<>>) = <<>>
    BY <1>1, FlattenFew
  <2>3. QED
    BY <2>1, <2>2 DEF EmittedRecords
<1>3. Cat(<<>>, <<>>) = <<>>
  BY CatEmpty, <1>1
<1>4. Split(z, z)
  BY <1>2, <1>3, KeptNone DEF Split
<1> HIDE DEF z
<1>5. QED
  BY <1>1, <1>4 DEF Conserved

LEMMA CrashConserves ==
    ASSUME NEW settled, CrashLoop(settled)
    PROVE  Conserved'
<1> DEFINE z == <<>>
<1>1. z \in Seq(Events)
  BY EmptySeq
<1>2. /\ ~InPoll' /\ kind' = kind
      /\ taken' = <<>> /\ lostAt' = {} /\ emitted' = <<>> /\ buffer' = <<>>
      /\ fetched' = <<>> /\ drained' = <<>>
  BY DEF CrashLoop, InPoll
<1>3. EmittedRecords' = <<>>
  <2>1. [i \in DOMAIN emitted' |-> emitted'[i].records] = <<>>
    BY <1>2
  <2>2. FlattenSeq(<<>>) = <<>>
    BY <1>1, FlattenFew
  <2>3. QED
    BY <2>1, <2>2 DEF EmittedRecords
<1>4. Cat(<<>>, <<>>) = <<>>
  BY CatEmpty, <1>1
<1>5. SplitNext(z, z)
  BY <1>2, <1>3, <1>4, KeptNone DEF SplitNext
<1> HIDE DEF z
<1>6. QED
  BY <1>1, <1>2, <1>5, SplitIsConserved

LEMMA PipelineConserves ==
    PipelineTypeOK /\ Conserved /\ PipelineNext => Conserved'
<1> SUFFICES ASSUME PipelineTypeOK, Conserved, PipelineNext
             PROVE  Conserved'
  OBVIOUS
<1>1. CASE StartLoop
  <2>1. /\ ~InPoll /\ ~InPoll'
        /\ UNCHANGED <<kind, taken, lostAt, emitted, buffer, drained, fetched>>
    BY <1>1 DEF StartLoop, InPoll, pollVars, accVars, historyVars
  <2>2. QED
    BY <2>1, ConservedIdle
<1>2. CASE StopLoop
  <2>1. /\ UNCHANGED <<kind, taken, lostAt, emitted, buffer, drained, fetched,
                       phase, pollFrom>>
    BY <1>2 DEF StopLoop, pollVars, accVars, historyVars
  <2>2. QED
    BY <2>1, ConservedSame
<1>3. CASE WindowElapses
  <2>1. /\ UNCHANGED <<kind, taken, lostAt, emitted, buffer, drained, fetched,
                       phase, pollFrom>>
    BY <1>3 DEF WindowElapses, pollVars, historyVars, loopVars
  <2>2. QED
    BY <2>1, ConservedSame
<1>4. CASE LoopStep
  <2>1. CASE NoFlush \/ FlushNothing \/ OnBatchEnds
    <3>1. /\ ~InPoll /\ ~InPoll'
          /\ UNCHANGED <<kind, taken, lostAt, emitted, buffer, drained, fetched>>
      BY <2>1 DEF NoFlush, FlushNothing, OnBatchEnds, InPoll, pollVars, accVars,
                  historyVars, loopVars
    <3>2. QED
      BY <3>1, ConservedIdle
  <2>2. QED
    BY <1>4, <2>1, LoopTestConserves, FlushConserves DEF LoopStep
<1>5. ASSUME NEW settled \in SUBSET Events,
             PoisonRaises(settled) \/ DeadLetterRaises(settled) \/ TransportRaises(settled)
      PROVE  Conserved'
  <2>1. Raise(settled) /\ InPoll
    BY <1>5 DEF PoisonRaises, DeadLetterRaises, TransportRaises, Facing, InPoll
  <2>2. QED
    BY <2>1, RaiseConserves
<1>6. QED
  BY <1>1, <1>2, <1>3, <1>4, <1>5, ProcessValidConserves, ProcessInvalidConserves,
     PollReturnsConserves, FetchConserves, CrashConserves DEF PipelineNext

-----------------------------------------------------------------------------
(* The poll and the counters.                                               *)

LEMMA PipelinePolls ==
    PipelineTypeOK /\ PollOK /\ PipelineNext => PollOK'
<1> SUFFICES ASSUME PipelineTypeOK, PollOK, PipelineNext
             PROVE  PollOK'
  OBVIOUS
<1> USE DEF pollVars, accVars, countVars, historyVars, loopVars, InPoll, PollOK
<1>1. CASE StartLoop
  BY <1>1 DEF StartLoop
<1>2. CASE StopLoop
  BY <1>2 DEF StopLoop
<1>3. CASE WindowElapses
  BY <1>3 DEF WindowElapses
<1>4. CASE LoopTest
  BY <1>4 DEF LoopTest, PipelineTypeOK
<1>5. CASE NoFlush \/ FlushNothing \/ OnBatchEnds
  BY <1>5 DEF NoFlush, FlushNothing, OnBatchEnds
<1>6. CASE Flush
  BY <1>6 DEF Flush
<1>7. CASE ProcessValid \/ ProcessInvalid
  BY <1>7 DEF ProcessValid, ProcessInvalid, Facing
<1>8. CASE PollReturns
  BY <1>8 DEF PollReturns
<1>9. ASSUME NEW events \in Seq(Events), Fetch(events)
      PROVE  PollOK'
  BY <1>9 DEF Fetch
<1>10. ASSUME NEW settled \in SUBSET Events,
              PoisonRaises(settled) \/ DeadLetterRaises(settled) \/ TransportRaises(settled)
       PROVE  PollOK'
  BY <1>10 DEF PoisonRaises, DeadLetterRaises, TransportRaises, Raise
<1>11. ASSUME NEW settled \in SUBSET Events, CrashLoop(settled)
       PROVE  PollOK'
  BY <1>11 DEF CrashLoop
<1>12. QED
  BY <1>1, <1>2, <1>3, <1>4, <1>5, <1>6, <1>7, <1>8, <1>9, <1>10, <1>11
  DEF PipelineNext, LoopStep

LEMMA CountedSame ==
    ASSUME Counted, UNCHANGED <<emitted, buffer, n_invalid, countVars>>
    PROVE  Counted'
<1>1. EmittedRecords' = EmittedRecords
  BY DEF EmittedRecords
<1>2. PICK total : InvalidIn(total)
  BY DEF Counted
<1>3. InvalidIn(total)'
  BY <1>2 DEF InvalidIn, countVars
<1>4. QED
  BY <1>1, <1>3 DEF Counted, countVars

LEMMA PollReturnsCounts ==
    ASSUME PipelineTypeOK, Counted, PollReturns
    PROVE  Counted'
<1>1. /\ buffer' = Cat(buffer, drained)
      /\ n_invalid' = n_invalid + last_poll_invalid_count
      /\ events_received_total' =
            events_received_total + Len(drained) + last_poll_invalid_count
      /\ validation_errors_total' = validation_errors_total + last_poll_invalid_count
      /\ emitted' = emitted
  BY DEF PollReturns, Cat, historyVars
<1>2. EmittedRecords' = EmittedRecords
  BY <1>1 DEF EmittedRecords
<1>3. PICK total : InvalidIn(total)
  BY DEF Counted
<1>4. /\ Len(emitted) \in Nat
      /\ n_invalid \in Nat /\ last_poll_invalid_count \in Nat
      /\ validation_errors_total \in Nat /\ events_received_total \in Nat
  BY LenProperties DEF PipelineTypeOK
<1>5. InvalidIn(total)'
  <2>1. total[Len(emitted)] \in Nat
    BY <1>3, <1>4 DEF InvalidIn
  <2>2. validation_errors_total' = total[Len(emitted)] + n_invalid'
    BY <1>1, <1>3, <1>4, <2>1 DEF InvalidIn
  <2>3. QED
    BY <1>1, <1>3, <2>2 DEF InvalidIn
<1>6. Len(buffer') = Len(buffer) + Len(drained) /\ Len(buffer) \in Nat /\ Len(drained) \in Nat
  BY <1>1, CatType DEF PipelineTypeOK
<1>7. Len(EmittedRecords) \in Nat
  BY EmittedType, LenProperties
<1>8. events_received_total = Len(EmittedRecords) + Len(buffer) + validation_errors_total
  BY DEF Counted
<1>9. events_received_total' =
         Len(EmittedRecords') + Len(buffer') + validation_errors_total'
  BY <1>1, <1>2, <1>4, <1>6, <1>7, <1>8
<1>10. QED
  BY <1>5, <1>9 DEF Counted

LEMMA FlushCounts ==
    ASSUME PipelineTypeOK, Counted, Flush
    PROVE  Counted'
<1> DEFINE n == Len(emitted)
           b == [records |-> buffer, n_invalid |-> n_invalid]
<1>1. /\ emitted' = Append(emitted, b) /\ buffer' = <<>> /\ n_invalid' = 0
      /\ UNCHANGED countVars
  BY DEF Flush
<1>2. emitted \in Seq(Batch) /\ b \in Batch /\ b.n_invalid = n_invalid /\ n_invalid \in Nat
  BY DEF PipelineTypeOK, Batch
<1> HIDE DEF b
<1>3. /\ n \in Nat /\ Len(emitted') = n + 1
      /\ \A i \in 1 .. n : emitted'[i] = emitted[i]
      /\ emitted'[n + 1] = b
  BY <1>1, <1>2, AppendProperties, LenProperties
<1>4. PICK total : InvalidIn(total)
  BY DEF Counted
<1> HIDE DEF n
<1>5. /\ total \in [0 .. n -> Nat] /\ total[0] = 0
      /\ \A i \in 1 .. n : total[i] = total[i - 1] + emitted[i].n_invalid
      /\ validation_errors_total = total[n] + n_invalid
  BY <1>4 DEF InvalidIn, n
<1> DEFINE next == [i \in 0 .. n + 1 |-> IF i = n + 1 THEN total[n] + n_invalid ELSE total[i]]
<1>6. total[n] \in Nat
  BY <1>3, <1>5
<1>7. next \in [0 .. n + 1 -> Nat] /\ next[0] = 0
  BY <1>2, <1>3, <1>5, <1>6
<1>8. next[n + 1] = total[n] + n_invalid /\ \A i \in 0 .. n : next[i] = total[i]
  BY <1>3
<1> HIDE DEF next
<1>9. ASSUME NEW i \in 1 .. n + 1
      PROVE  next[i] = next[i - 1] + emitted'[i].n_invalid
  <2>1. CASE i = n + 1
    BY <1>2, <1>3, <1>8, <2>1
  <2>2. CASE i \in 1 .. n
    <3>1. i \in 0 .. n /\ i - 1 \in 0 .. n
      BY <1>3, <2>2
    <3>2. QED
      BY <1>3, <1>5, <1>8, <2>2, <3>1
  <2>3. QED
    BY <1>3, <2>1, <2>2
<1>10. PICK r : InvalidIn(r)'
  <2>1. PICK r : r = next
    OBVIOUS
  <2>2. /\ r \in [0 .. Len(emitted') -> Nat] /\ r[0] = 0
        /\ \A i \in 1 .. Len(emitted') : r[i] = r[i - 1] + emitted'[i].n_invalid
    BY <1>3, <1>7, <1>9, <2>1
  <2>3. validation_errors_total' = r[Len(emitted')] + n_invalid'
    BY <1>1, <1>2, <1>3, <1>5, <1>6, <1>8, <2>1 DEF countVars
  <2>4. InvalidIn(r)'
    BY <2>2, <2>3 DEF InvalidIn
  <2>5. QED
    BY <2>4
<1>11. Len(EmittedRecords') = Len(EmittedRecords) + Len(buffer)
  <2> DEFINE x == EmittedRecords
  <2>1. x \in Seq(Events) /\ buffer \in Seq(Events)
    BY EmittedType DEF PipelineTypeOK
  <2>2. EmittedRecords' = Cat(x, buffer)
    BY FlushEmits
  <2> HIDE DEF x
  <2>3. Len(Cat(x, buffer)) = Len(x) + Len(buffer)
    BY <2>1, CatType
  <2>4. QED
    BY <2>2, <2>3 DEF x
<1>12. Len(EmittedRecords) \in Nat /\ Len(buffer) \in Nat /\ Len(buffer') = 0
       /\ validation_errors_total \in Nat
  BY <1>1, EmittedType, LenProperties DEF PipelineTypeOK
<1>13. events_received_total' =
          Len(EmittedRecords') + Len(buffer') + validation_errors_total'
  BY <1>1, <1>11, <1>12 DEF Counted, countVars
<1>14. QED
  BY <1>10, <1>13 DEF Counted

\* Zero events of zero batches.
LEMMA NothingCounts ==
    [i \in 0 .. 0 |-> 0] \in [0 .. 0 -> Nat] /\ [i \in 0 .. 0 |-> 0][0] = 0
OBVIOUS

LEMMA CrashCounts ==
    ASSUME NEW settled, CrashLoop(settled)
    PROVE  Counted'
<1>1. /\ emitted' = <<>> /\ buffer' = <<>> /\ n_invalid' = 0
      /\ events_received_total' = 0 /\ validation_errors_total' = 0
  BY DEF CrashLoop
<1>2. EmittedRecords' = <<>>
  <2>1. [i \in DOMAIN emitted' |-> emitted'[i].records] = <<>>
    BY <1>1
  <2>2. FlattenSeq(<<>>) = <<>>
    BY FlattenFew, EmptySeq
  <2>3. QED
    BY <2>1, <2>2 DEF EmittedRecords
<1>3. PICK r : r = [i \in 0 .. 0 |-> 0]
  OBVIOUS
<1>4. InvalidIn(r)'
  BY <1>1, <1>3, NothingCounts DEF InvalidIn
<1>5. QED
  BY <1>1, <1>2, <1>4 DEF Counted

LEMMA PipelineCounts ==
    PipelineTypeOK /\ Counted /\ PipelineNext => Counted'
<1> SUFFICES ASSUME PipelineTypeOK, Counted, PipelineNext
             PROVE  Counted'
  OBVIOUS
<1>1. CASE Flush
  BY <1>1, FlushCounts
<1>2. CASE PollReturns
  BY <1>2, PollReturnsCounts
<1>3. ASSUME NEW settled \in SUBSET Events, CrashLoop(settled)
      PROVE  Counted'
  BY <1>3, CrashCounts
<1>4. ASSUME UNCHANGED <<emitted, buffer, n_invalid, countVars>>
      PROVE  Counted'
  BY <1>4, CountedSame
<1> USE DEF pollVars, accVars, historyVars, loopVars
<1>5. CASE StartLoop \/ StopLoop \/ WindowElapses
  <2>1. UNCHANGED <<emitted, buffer, n_invalid, countVars>>
    BY <1>5 DEF StartLoop, StopLoop, WindowElapses
  <2>2. QED
    BY <1>4, <2>1
<1>6. CASE LoopTest \/ NoFlush \/ FlushNothing \/ OnBatchEnds
  <2>1. UNCHANGED <<emitted, buffer, n_invalid, countVars>>
    BY <1>6 DEF LoopTest, NoFlush, FlushNothing, OnBatchEnds
  <2>2. QED
    BY <1>4, <2>1
<1>7. CASE ProcessValid \/ ProcessInvalid
  <2>1. UNCHANGED <<emitted, buffer, n_invalid, countVars>>
    BY <1>7 DEF ProcessValid, ProcessInvalid
  <2>2. QED
    BY <1>4, <2>1
<1>8. ASSUME NEW events \in Seq(Events), Fetch(events)
      PROVE  Counted'
  <2>1. UNCHANGED <<emitted, buffer, n_invalid, countVars>>
    BY <1>8 DEF Fetch
  <2>2. QED
    BY <1>4, <2>1
<1>9. ASSUME NEW settled \in SUBSET Events,
             PoisonRaises(settled) \/ DeadLetterRaises(settled) \/ TransportRaises(settled)
      PROVE  Counted'
  <2>1. UNCHANGED <<emitted, buffer, n_invalid, countVars>>
    BY <1>9 DEF PoisonRaises, DeadLetterRaises, TransportRaises, Raise
  <2>2. QED
    BY <1>4, <2>1
<1>10. QED
  BY <1>1, <1>2, <1>3, <1>5, <1>6, <1>7, <1>8, <1>9 DEF PipelineNext, LoopStep

LEMMA PipelineDeadLetters ==
    PipelineTypeOK /\ CountedIsDeadLettered /\ PipelineNext => CountedIsDeadLettered'
<1> SUFFICES ASSUME PipelineTypeOK, CountedIsDeadLettered, PipelineNext
             PROVE  CountedIsDeadLettered'
  OBVIOUS
<1>1. /\ validation_errors_total \in Nat /\ last_poll_invalid_count \in Nat
      /\ Len(dlq) \in Nat
  BY LenProperties DEF PipelineTypeOK
<1>2. validation_errors_total <= Len(dlq)
  BY <1>1 DEF CountedIsDeadLettered
<1>3. InPoll => validation_errors_total + last_poll_invalid_count <= Len(dlq)
  BY <1>1 DEF CountedIsDeadLettered
<1> USE DEF pollVars, countVars, loopVars, InPoll, CountedIsDeadLettered
<1>4. CASE StartLoop \/ StopLoop \/ WindowElapses
  BY <1>1, <1>2, <1>3, <1>4 DEF StartLoop, StopLoop, WindowElapses
<1>5. CASE LoopTest
  BY <1>1, <1>2, <1>5 DEF LoopTest
<1>6. CASE NoFlush \/ FlushNothing \/ OnBatchEnds \/ Flush
  BY <1>2, <1>6 DEF NoFlush, FlushNothing, OnBatchEnds, Flush
<1>7. CASE ProcessValid
  BY <1>3, <1>7 DEF ProcessValid, Facing
<1>8. CASE ProcessInvalid
  <2>1. Head(fetched) \in Events
    BY <1>8, HeadTail DEF ProcessInvalid, Facing, PipelineTypeOK
  <2>2. Len(dlq') = Len(dlq) + 1
    BY <1>8, <2>1, AppendProperties DEF ProcessInvalid, PipelineTypeOK
  <2>3. QED
    BY <1>1, <1>3, <1>8, <2>2 DEF ProcessInvalid, Facing
<1>9. CASE PollReturns
  BY <1>1, <1>3, <1>9 DEF PollReturns
<1>10. ASSUME NEW events \in Seq(Events), Fetch(events)
       PROVE  CountedIsDeadLettered'
  BY <1>3, <1>10 DEF Fetch
<1>11. ASSUME NEW settled \in SUBSET Events,
              PoisonRaises(settled) \/ DeadLetterRaises(settled) \/ TransportRaises(settled)
       PROVE  CountedIsDeadLettered'
  BY <1>1, <1>2, <1>11 DEF PoisonRaises, DeadLetterRaises, TransportRaises, Raise
<1>12. ASSUME NEW settled \in SUBSET Events, CrashLoop(settled)
       PROVE  CountedIsDeadLettered'
  BY <1>1, <1>12 DEF CrashLoop
<1>13. QED
  BY <1>4, <1>5, <1>6, <1>7, <1>8, <1>9, <1>10, <1>11, <1>12 DEF PipelineNext, LoopStep

-----------------------------------------------------------------------------
(* The invariant of the pipeline, and what follows from it.                 *)

LEMMA PipelineStarts == PipelineInit => PipelineInv
<1> SUFFICES ASSUME PipelineInit
             PROVE  PipelineInv
  OBVIOUS
<1> USE DEF PipelineInit
<1>1. <<>> \in Seq(Events) /\ <<>> \in Seq(Batch)
  BY EmptySeq
<1>2. PipelineTypeOK /\ PollOK /\ ~InPoll
  BY <1>1 DEF PipelineTypeOK, PollOK, InPoll, Batch
<1>3. Conserved
  BY <1>2, NothingIsConserved
<1>4. Counted
  <2>1. PICK r : r = [i \in 0 .. 0 |-> 0]
    OBVIOUS
  <2>2. InvalidIn(r)
    BY <2>1, NothingCounts DEF InvalidIn
  <2>3. EmittedRecords = <<>>
    <3>1. [i \in DOMAIN emitted |-> emitted[i].records] = <<>>
      OBVIOUS
    <3>2. FlattenSeq(<<>>) = <<>>
      BY <1>1, FlattenFew
    <3>3. QED
      BY <3>1, <3>2 DEF EmittedRecords
  <2>4. QED
    BY <2>2, <2>3 DEF Counted
<1>5. CountedIsDeadLettered
  BY <1>2 DEF CountedIsDeadLettered
<1>6. QED
  BY <1>2, <1>3, <1>4, <1>5 DEF PipelineInv

LEMMA PipelineSteps == PipelineInv /\ (PipelineNext \/ UNCHANGED pipelineVars) => PipelineInv'
<1> SUFFICES ASSUME PipelineInv, PipelineNext \/ UNCHANGED pipelineVars
             PROVE  PipelineInv'
  OBVIOUS
<1>1. CASE PipelineNext
  BY <1>1, PipelineTypes, PipelinePolls, PipelineConserves, PipelineCounts,
     PipelineDeadLetters DEF PipelineInv
<1>2. CASE UNCHANGED pipelineVars
  <2>1. UNCHANGED <<kind, taken, lostAt, emitted, buffer, drained, fetched, phase, pollFrom,
                    running, last_poll_invalid_count, n_invalid, elapsed, dlq, countVars,
                    batched, gone, starts>>
    BY <1>2 DEF pipelineVars, pollVars, accVars, historyVars, loopVars
  <2>2. Conserved'
    BY <2>1, ConservedSame DEF PipelineInv
  <2>3. Counted'
    BY <2>1, CountedSame DEF PipelineInv
  <2>4. PipelineTypeOK' /\ PollOK' /\ CountedIsDeadLettered'
    BY <2>1 DEF PipelineInv, PipelineTypeOK, PollOK, CountedIsDeadLettered, InPoll, countVars
  <2>5. QED
    BY <2>2, <2>3, <2>4 DEF PipelineInv
<1>3. QED
  BY <1>1, <1>2

LEMMA PipelineIsSafe ==
    PipelineInv => RecordsAreConserved /\ CountersAgree /\ CountedIsDeadLettered
<1> SUFFICES ASSUME PipelineInv
             PROVE  RecordsAreConserved /\ CountersAgree
  BY DEF PipelineInv
<1>1. RecordsAreConserved
  <2>1. PICK before \in Seq(Events), now \in Seq(Events) : Split(before, now)
    BY DEF PipelineInv, Conserved
  <2> DEFINE x == EmittedRecords
             k == Kept(fetched, {})
  <2>2. x \in Seq(Events) /\ buffer \in Seq(Events) /\ drained \in Seq(Events)
        /\ lostAt \in SUBSET Nat /\ fetched \in Seq(Events)
    BY EmittedType DEF PipelineInv, PipelineTypeOK
  <2>3. k \in Seq(Events)
    <3>1. Joins(fetched, fetched, {})
      BY <2>2, KeptJoins
    <3>2. QED
      BY <3>1 DEF Joins
  <2>4. Joins(before, now, lostAt)
    BY <2>2, KeptJoins
  <2>5. Kept(taken, lostAt) = Cat(Cat(x, buffer), Cat(drained, k))
    BY <2>1, <2>4 DEF Split, Joins
  <2> HIDE DEF x, k
  <2>6. PICK y : y = Cat(x, buffer) /\ y \in Seq(Events)
    BY <2>2, CatType
  <2>7. Cat(Cat(y, drained), k) = Cat(y, Cat(drained, k))
    BY <2>2, <2>3, <2>6, CatAssociates
  <2>8. Cat(Cat(Cat(x, buffer), drained), k) = Kept(taken, lostAt)
    BY <2>5, <2>6, <2>7
  <2>9. x \o buffer \o drained \o k = Kept(taken, lostAt)
    BY <2>8, Zenon DEF Cat
  <2>10. QED
    BY <2>9, Zenon DEF RecordsAreConserved, x, k
<1>2. CountersAgree
  <2>1. PICK total : InvalidIn(total)
    BY DEF PipelineInv, Counted
  <2> DEFINE n == Len(emitted)
             f == [i \in DOMAIN emitted |-> emitted[i].n_invalid]
  <2>2. n \in Nat /\ DOMAIN emitted = 1 .. n /\ \A i \in 1 .. n : emitted[i] \in Batch
    BY LenProperties, ElementOfSeq DEF PipelineInv, PipelineTypeOK, Batch
  <2>3. f \in [1 .. n -> Int]
    BY <2>2 DEF Batch
  <2>4. /\ total \in [0 .. n -> Int] /\ total[0] = 0 /\ total[n] \in Nat
        /\ \A i \in 1 .. n : total[i] = total[i - 1] + f[i]
        /\ validation_errors_total = total[n] + n_invalid
    BY <2>1, <2>2 DEF InvalidIn
  <2> HIDE DEF f, n
  <2>5. SumFunction(f) = total[n] - total[0]
    BY <2>2, <2>3, <2>4, SumOfRun
  <2>6. validation_errors_total = SumFunction(f) + n_invalid
    BY <2>4, <2>5
  <2>7. events_received_total =
           Len(EmittedRecords) + Len(buffer) + validation_errors_total
    BY DEF PipelineInv, Counted
  <2>8. QED
    BY <2>6, <2>7 DEF CountersAgree, f
<1>3. QED
  BY <1>1, <1>2

-----------------------------------------------------------------------------
(* Where an event is that the transport takes for consumed.                 *)

Held(e) == e \in batched \cup InMemory \cup gone

\* What a poll has in its hands is what it fetched, and no other poll's.
LEMMA HandsAreTaken ==
    ASSUME PipelineTypeOK, Conserved, InPoll
    PROVE  ToSet(fetched) \cup ToSet(drained)
              \subseteq {taken[i] : i \in pollFrom + 1 .. Len(taken)}
<1>1. PICK before \in Seq(Events), now \in Seq(Events) : Split(before, now)
  BY DEF Conserved
<1>2. /\ taken = Cat(before, now) /\ pollFrom = Len(before)
      /\ ToSet(fetched) \cup ToSet(drained) \subseteq ToSet(now)
  BY <1>1 DEF Split
<1>3. CatFacts(Events, before, now)
  BY CatLaws
<1>4. ASSUME NEW e \in ToSet(now)
      PROVE  e \in {taken[i] : i \in pollFrom + 1 .. Len(taken)}
  <2>1. PICK j \in 1 .. Len(now) : e = now[j]
    BY LenProperties DEF ToSet
  <2>2. taken[pollFrom + j] = e /\ pollFrom + j \in pollFrom + 1 .. Len(taken)
    BY <1>2, <1>3, <2>1 DEF CatFacts
  <2>3. QED
    BY <2>2
<1>5. QED
  BY <1>2, <1>4

LEMMA RaiseSettles ==
    ASSUME PipelineTypeOK, Conserved, InPoll, NEW settled, Raise(settled),
           NEW e, Held(e), e \in settled
    PROVE  Held(e)'
<1>1. /\ buffer' = buffer /\ batched' = batched
      /\ gone' = gone \cup ({taken[i] : i \in pollFrom + 1 .. Len(taken)} \cap settled)
  BY DEF Raise, accVars
<1>2. CASE e \in batched \cup ToSet(buffer) \cup gone
  BY <1>1, <1>2 DEF Held, InMemory
<1>3. CASE e \in ToSet(fetched) \cup ToSet(drained)
  BY <1>1, <1>3, HandsAreTaken DEF Held
<1>4. QED
  BY <1>2, <1>3 DEF Held, InMemory

\* A call that raises with nothing fetched loses nothing.
LEMMA EmptyRaiseKeeps ==
    ASSUME PollOK, phase = "poll", NEW settled, TransportRaises(settled), NEW e, Held(e)
    PROVE  Held(e)'
<1>1. /\ buffer' = buffer /\ batched' = batched /\ gone \subseteq gone'
      /\ fetched = <<>> /\ drained = <<>>
  BY DEF TransportRaises, Raise, accVars, PollOK
<1>2. ToSet(<<>>) = {}
  BY DEF ToSet
<1>3. QED
  BY <1>1, <1>2 DEF Held, InMemory

LEMMA CrashSettles ==
    ASSUME NEW settled, CrashLoop(settled), NEW e, Held(e), e \in settled
    PROVE  Held(e)'
BY DEF CrashLoop, Held

LEMMA ProcessSettles ==
    ASSUME PipelineTypeOK, Conserved, NEW settled, Process(settled),
           NEW e, Held(e), Valid(e), e \in settled
    PROVE  Held(e)'
<1>1. CASE ProcessValid
  <2>1. /\ fetched # <<>> /\ fetched' = Tail(fetched)
        /\ drained' = Append(drained, Head(fetched))
        /\ UNCHANGED <<buffer, batched, gone>>
    BY <1>1 DEF ProcessValid, Facing, accVars, historyVars
  <2>2. PICK h : h = Head(fetched)
    OBVIOUS
  <2>3. /\ h \in Events /\ <<h>> \in Seq(Events)
        /\ ToSet(fetched) = {h} \cup ToSet(Tail(fetched))
    BY <2>1, <2>2, HeadKept
  <2>4. ToSet(drained') = ToSet(drained) \cup {h}
    <3>1. drained' = Cat(drained, <<h>>) /\ drained \in Seq(Events)
      BY <2>1, <2>2, <2>3, AppendIsConcat DEF Cat, PipelineTypeOK
    <3>2. ToSet(<<h>>) = {h}
      BY DEF ToSet
    <3>3. QED
      BY <2>3, <3>1, <3>2, EventsOfCat
  <2>5. QED
    BY <2>1, <2>3, <2>4 DEF Held, InMemory
<1>2. CASE ProcessInvalid
  <2>1. /\ fetched # <<>> /\ fetched' = Tail(fetched) /\ ~Valid(Head(fetched))
        /\ UNCHANGED <<drained, buffer, batched, gone>>
    BY <1>2 DEF ProcessInvalid, Facing, Valid, accVars, historyVars
  <2>2. PICK h : h = Head(fetched)
    OBVIOUS
  <2>3. ToSet(fetched) = {h} \cup ToSet(Tail(fetched))
    BY <2>1, <2>2, HeadKept
  <2>4. h # e
    BY <2>1, <2>2
  <2>5. QED
    BY <2>1, <2>3, <2>4 DEF Held, InMemory
<1>3. CASE PoisonRaises(settled) \/ DeadLetterRaises(settled)
  <2>1. Raise(settled) /\ InPoll
    BY <1>3 DEF PoisonRaises, DeadLetterRaises, Facing, InPoll
  <2>2. QED
    BY <2>1, RaiseSettles
<1>4. QED
  BY <1>1, <1>2, <1>3 DEF Process

\* The steps at which nothing can be lost.
Quiet ==
    \/ StartLoop \/ StopLoop \/ LoopStep \/ WindowElapses \/ PollReturns
    \/ \E events \in Seq(Events) : Fetch(events)
    \/ UNCHANGED pipelineVars

LEMMA QuietKeeps ==
    ASSUME PipelineTypeOK, Quiet, NEW e, Held(e)
    PROVE  Held(e)'
<1> USE DEF pollVars, accVars, historyVars, loopVars
<1>1. ToSet(<<>>) = {}
  BY DEF ToSet
<1>2. ASSUME UNCHANGED <<fetched, drained, buffer, batched, gone>>
      PROVE  Held(e)'
  BY <1>2 DEF Held, InMemory
<1>3. CASE StartLoop \/ StopLoop \/ WindowElapses \/ UNCHANGED pipelineVars
  BY <1>2, <1>3 DEF StartLoop, StopLoop, WindowElapses, pipelineVars
<1>4. CASE LoopStep
  <2>1. CASE LoopTest \/ NoFlush \/ FlushNothing \/ OnBatchEnds
    BY <1>2, <2>1 DEF LoopTest, NoFlush, FlushNothing, OnBatchEnds
  <2>2. CASE Flush
    <3>1. /\ batched' = batched \cup ToSet(buffer)
          /\ UNCHANGED <<fetched, drained, gone>>
      BY <2>2 DEF Flush
    <3>2. QED
      BY <3>1 DEF Held, InMemory
  <2>3. QED
    BY <1>4, <2>1, <2>2 DEF LoopStep
<1>5. CASE PollReturns
  <2>1. /\ fetched = <<>> /\ buffer' = Cat(buffer, drained)
        /\ UNCHANGED <<fetched, batched, gone>>
    BY <1>5 DEF PollReturns, Cat
  <2>2. ToSet(buffer') = ToSet(buffer) \cup ToSet(drained)
    BY <2>1, EventsOfCat DEF PipelineTypeOK
  <2>3. QED
    BY <1>1, <2>1, <2>2 DEF Held, InMemory
<1>6. ASSUME NEW events \in Seq(Events), Fetch(events)
      PROVE  Held(e)'
  <2>1. /\ fetched = <<>>
        /\ UNCHANGED <<drained, buffer, batched, gone>>
    BY <1>6 DEF Fetch
  <2>2. QED
    BY <1>1, <2>1 DEF Held, InMemory
<1>7. QED
  BY <1>3, <1>4, <1>5, <1>6 DEF Quiet

-----------------------------------------------------------------------------
(* The ingestors: what they do to the pipeline are steps of the pipeline.   *)

LEMMA KafkaShares ==
    /\ Kafka!Events = Events /\ (Kafka!PipelineInit <=> PipelineInit)
    /\ (Kafka!StartLoop <=> StartLoop) /\ (Kafka!StopLoop <=> StopLoop)
    /\ (Kafka!LoopStep <=> LoopStep) /\ (Kafka!WindowElapses <=> WindowElapses)
    /\ (Kafka!PollReturns <=> PollReturns)
    /\ \A events : Kafka!Fetch(events) <=> Fetch(events)
    /\ \A settled : /\ Kafka!Process(settled) <=> Process(settled)
                    /\ Kafka!TransportRaises(settled) <=> TransportRaises(settled)
                    /\ Kafka!CrashLoop(settled) <=> CrashLoop(settled)
    /\ (Kafka!PipelineTypeOK <=> PipelineTypeOK) /\ Kafka!InMemory = InMemory
    /\ \A e : Kafka!Valid(e) <=> Valid(e)
    /\ (UNCHANGED Kafka!pipelineVars <=> UNCHANGED pipelineVars)
<1> USE DEF Kafka!pollVars, pollVars, Kafka!accVars, accVars, Kafka!countVars,
            countVars, Kafka!historyVars, historyVars, Kafka!loopVars, loopVars,
            Kafka!InPoll, InPoll
<1>1. Kafka!Events = Events
  BY DEF Kafka!Events, Events
<1>2. Kafka!PipelineInit <=> PipelineInit
  BY DEF Kafka!PipelineInit, PipelineInit, Kafka!Events, Events, Kafka!Kinds, Kinds
<1>3. Kafka!StartLoop <=> StartLoop
  BY DEF Kafka!StartLoop, StartLoop
<1>4. Kafka!StopLoop <=> StopLoop
  BY DEF Kafka!StopLoop, StopLoop
<1>5. Kafka!WindowElapses <=> WindowElapses
  BY DEF Kafka!WindowElapses, WindowElapses
<1>6. Kafka!LoopTest <=> LoopTest
  BY DEF Kafka!LoopTest, LoopTest
<1>7. Kafka!NoFlush <=> NoFlush
  BY DEF Kafka!NoFlush, NoFlush
<1>8. Kafka!FlushNothing <=> FlushNothing
  BY DEF Kafka!FlushNothing, FlushNothing
<1>9. Kafka!Flush <=> Flush
  BY DEF Kafka!Flush, Flush, Kafka!ToSet, ToSet
<1>10. Kafka!OnBatchEnds <=> OnBatchEnds
  BY DEF Kafka!OnBatchEnds, OnBatchEnds
<1>11. Kafka!PollReturns <=> PollReturns
  BY DEF Kafka!PollReturns, PollReturns
<1>12. \A events : Kafka!Fetch(events) <=> Fetch(events)
  BY DEF Kafka!Fetch, Fetch
<1>13. Kafka!ProcessValid <=> ProcessValid
  BY DEF Kafka!ProcessValid, ProcessValid, Kafka!Facing, Facing
<1>14. Kafka!ProcessInvalid <=> ProcessInvalid
  BY DEF Kafka!ProcessInvalid, ProcessInvalid, Kafka!Facing, Facing
<1>15. \A settled : Kafka!Raise(settled) <=> Raise(settled)
  BY DEF Kafka!Raise, Raise
<1>16. \A settled : Kafka!Process(settled) <=> Process(settled)
  BY <1>13, <1>14, <1>15 DEF Kafka!Process, Process, Kafka!PoisonRaises,
     PoisonRaises, Kafka!DeadLetterRaises, DeadLetterRaises, Kafka!Facing, Facing
<1>17. \A settled : Kafka!TransportRaises(settled) <=> TransportRaises(settled)
  BY <1>15 DEF Kafka!TransportRaises, TransportRaises
<1>18. Kafka!InMemory = InMemory
  BY DEF Kafka!InMemory, InMemory, Kafka!ToSet, ToSet
<1>19. \A settled : Kafka!CrashLoop(settled) <=> CrashLoop(settled)
  BY <1>18 DEF Kafka!CrashLoop, CrashLoop
<1>20. Kafka!PipelineTypeOK <=> PipelineTypeOK
  BY DEF Kafka!PipelineTypeOK, PipelineTypeOK, Kafka!Events, Events, Kafka!Kinds,
         Kinds
<1>21. \A e : Kafka!Valid(e) <=> Valid(e)
  BY DEF Kafka!Valid, Valid
<1>22. (UNCHANGED Kafka!pipelineVars <=> UNCHANGED pipelineVars)
  BY DEF Kafka!pipelineVars, pipelineVars
<1>23. Kafka!LoopStep <=> LoopStep
  BY <1>6, <1>7, <1>8, <1>9, <1>10 DEF Kafka!LoopStep, LoopStep
<1>24. QED
  BY <1>1, <1>2, <1>3, <1>4, <1>5, <1>11, <1>12, <1>16, <1>17, <1>18, <1>19, <1>20,
     <1>21, <1>22, <1>23

LEMMA KinesisShares ==
    /\ Kinesis!Events = Events /\ (Kinesis!PipelineInit <=> PipelineInit)
    /\ (Kinesis!StartLoop <=> StartLoop) /\ (Kinesis!StopLoop <=> StopLoop)
    /\ (Kinesis!LoopStep <=> LoopStep) /\ (Kinesis!WindowElapses <=> WindowElapses)
    /\ (Kinesis!PollReturns <=> PollReturns)
    /\ \A events : Kinesis!Fetch(events) <=> Fetch(events)
    /\ \A settled : /\ Kinesis!Process(settled) <=> Process(settled)
                    /\ Kinesis!TransportRaises(settled) <=> TransportRaises(settled)
                    /\ Kinesis!CrashLoop(settled) <=> CrashLoop(settled)
    /\ (Kinesis!PipelineTypeOK <=> PipelineTypeOK) /\ Kinesis!InMemory = InMemory
    /\ \A e : Kinesis!Valid(e) <=> Valid(e)
    /\ (UNCHANGED Kinesis!pipelineVars <=> UNCHANGED pipelineVars)
<1> USE DEF Kinesis!pollVars, pollVars, Kinesis!accVars, accVars, Kinesis!countVars,
            countVars, Kinesis!historyVars, historyVars, Kinesis!loopVars, loopVars,
            Kinesis!InPoll, InPoll
<1>1. Kinesis!Events = Events
  BY DEF Kinesis!Events, Events
<1>2. Kinesis!PipelineInit <=> PipelineInit
  BY DEF Kinesis!PipelineInit, PipelineInit, Kinesis!Events, Events, Kinesis!Kinds,
         Kinds
<1>3. Kinesis!StartLoop <=> StartLoop
  BY DEF Kinesis!StartLoop, StartLoop
<1>4. Kinesis!StopLoop <=> StopLoop
  BY DEF Kinesis!StopLoop, StopLoop
<1>5. Kinesis!WindowElapses <=> WindowElapses
  BY DEF Kinesis!WindowElapses, WindowElapses
<1>6. Kinesis!LoopTest <=> LoopTest
  BY DEF Kinesis!LoopTest, LoopTest
<1>7. Kinesis!NoFlush <=> NoFlush
  BY DEF Kinesis!NoFlush, NoFlush
<1>8. Kinesis!FlushNothing <=> FlushNothing
  BY DEF Kinesis!FlushNothing, FlushNothing
<1>9. Kinesis!Flush <=> Flush
  BY DEF Kinesis!Flush, Flush, Kinesis!ToSet, ToSet
<1>10. Kinesis!OnBatchEnds <=> OnBatchEnds
  BY DEF Kinesis!OnBatchEnds, OnBatchEnds
<1>11. Kinesis!PollReturns <=> PollReturns
  BY DEF Kinesis!PollReturns, PollReturns
<1>12. \A events : Kinesis!Fetch(events) <=> Fetch(events)
  BY DEF Kinesis!Fetch, Fetch
<1>13. Kinesis!ProcessValid <=> ProcessValid
  BY DEF Kinesis!ProcessValid, ProcessValid, Kinesis!Facing, Facing
<1>14. Kinesis!ProcessInvalid <=> ProcessInvalid
  BY DEF Kinesis!ProcessInvalid, ProcessInvalid, Kinesis!Facing, Facing
<1>15. \A settled : Kinesis!Raise(settled) <=> Raise(settled)
  BY DEF Kinesis!Raise, Raise
<1>16. \A settled : Kinesis!Process(settled) <=> Process(settled)
  BY <1>13, <1>14, <1>15 DEF Kinesis!Process, Process, Kinesis!PoisonRaises,
     PoisonRaises, Kinesis!DeadLetterRaises, DeadLetterRaises, Kinesis!Facing,
     Facing
<1>17. \A settled : Kinesis!TransportRaises(settled) <=> TransportRaises(settled)
  BY <1>15 DEF Kinesis!TransportRaises, TransportRaises
<1>18. Kinesis!InMemory = InMemory
  BY DEF Kinesis!InMemory, InMemory, Kinesis!ToSet, ToSet
<1>19. \A settled : Kinesis!CrashLoop(settled) <=> CrashLoop(settled)
  BY <1>18 DEF Kinesis!CrashLoop, CrashLoop
<1>20. Kinesis!PipelineTypeOK <=> PipelineTypeOK
  BY DEF Kinesis!PipelineTypeOK, PipelineTypeOK, Kinesis!Events, Events,
         Kinesis!Kinds, Kinds
<1>21. \A e : Kinesis!Valid(e) <=> Valid(e)
  BY DEF Kinesis!Valid, Valid
<1>22. (UNCHANGED Kinesis!pipelineVars <=> UNCHANGED pipelineVars)
  BY DEF Kinesis!pipelineVars, pipelineVars
<1>23. Kinesis!LoopStep <=> LoopStep
  BY <1>6, <1>7, <1>8, <1>9, <1>10 DEF Kinesis!LoopStep, LoopStep
<1>24. QED
  BY <1>1, <1>2, <1>3, <1>4, <1>5, <1>11, <1>12, <1>16, <1>17, <1>18, <1>19, <1>20,
     <1>21, <1>22, <1>23

LEMMA PubSubShares ==
    /\ PubSub!Events = Events /\ (PubSub!PipelineInit <=> PipelineInit)
    /\ (PubSub!StartLoop <=> StartLoop) /\ (PubSub!StopLoop <=> StopLoop)
    /\ (PubSub!LoopStep <=> LoopStep) /\ (PubSub!WindowElapses <=> WindowElapses)
    /\ (PubSub!PollReturns <=> PollReturns)
    /\ \A events : PubSub!Fetch(events) <=> Fetch(events)
    /\ \A settled : /\ PubSub!Process(settled) <=> Process(settled)
                    /\ PubSub!TransportRaises(settled) <=> TransportRaises(settled)
                    /\ PubSub!CrashLoop(settled) <=> CrashLoop(settled)
    /\ (PubSub!PipelineTypeOK <=> PipelineTypeOK) /\ PubSub!InMemory = InMemory
    /\ \A e : PubSub!Valid(e) <=> Valid(e)
    /\ (UNCHANGED PubSub!pipelineVars <=> UNCHANGED pipelineVars)
<1> USE DEF PubSub!pollVars, pollVars, PubSub!accVars, accVars, PubSub!countVars,
            countVars, PubSub!historyVars, historyVars, PubSub!loopVars, loopVars,
            PubSub!InPoll, InPoll
<1>1. PubSub!Events = Events
  BY DEF PubSub!Events, Events
<1>2. PubSub!PipelineInit <=> PipelineInit
  BY DEF PubSub!PipelineInit, PipelineInit, PubSub!Events, Events, PubSub!Kinds,
         Kinds
<1>3. PubSub!StartLoop <=> StartLoop
  BY DEF PubSub!StartLoop, StartLoop
<1>4. PubSub!StopLoop <=> StopLoop
  BY DEF PubSub!StopLoop, StopLoop
<1>5. PubSub!WindowElapses <=> WindowElapses
  BY DEF PubSub!WindowElapses, WindowElapses
<1>6. PubSub!LoopTest <=> LoopTest
  BY DEF PubSub!LoopTest, LoopTest
<1>7. PubSub!NoFlush <=> NoFlush
  BY DEF PubSub!NoFlush, NoFlush
<1>8. PubSub!FlushNothing <=> FlushNothing
  BY DEF PubSub!FlushNothing, FlushNothing
<1>9. PubSub!Flush <=> Flush
  BY DEF PubSub!Flush, Flush, PubSub!ToSet, ToSet
<1>10. PubSub!OnBatchEnds <=> OnBatchEnds
  BY DEF PubSub!OnBatchEnds, OnBatchEnds
<1>11. PubSub!PollReturns <=> PollReturns
  BY DEF PubSub!PollReturns, PollReturns
<1>12. \A events : PubSub!Fetch(events) <=> Fetch(events)
  BY DEF PubSub!Fetch, Fetch
<1>13. PubSub!ProcessValid <=> ProcessValid
  BY DEF PubSub!ProcessValid, ProcessValid, PubSub!Facing, Facing
<1>14. PubSub!ProcessInvalid <=> ProcessInvalid
  BY DEF PubSub!ProcessInvalid, ProcessInvalid, PubSub!Facing, Facing
<1>15. \A settled : PubSub!Raise(settled) <=> Raise(settled)
  BY DEF PubSub!Raise, Raise
<1>16. \A settled : PubSub!Process(settled) <=> Process(settled)
  BY <1>13, <1>14, <1>15 DEF PubSub!Process, Process, PubSub!PoisonRaises,
     PoisonRaises, PubSub!DeadLetterRaises, DeadLetterRaises, PubSub!Facing, Facing
<1>17. \A settled : PubSub!TransportRaises(settled) <=> TransportRaises(settled)
  BY <1>15 DEF PubSub!TransportRaises, TransportRaises
<1>18. PubSub!InMemory = InMemory
  BY DEF PubSub!InMemory, InMemory, PubSub!ToSet, ToSet
<1>19. \A settled : PubSub!CrashLoop(settled) <=> CrashLoop(settled)
  BY <1>18 DEF PubSub!CrashLoop, CrashLoop
<1>20. PubSub!PipelineTypeOK <=> PipelineTypeOK
  BY DEF PubSub!PipelineTypeOK, PipelineTypeOK, PubSub!Events, Events, PubSub!Kinds,
         Kinds
<1>21. \A e : PubSub!Valid(e) <=> Valid(e)
  BY DEF PubSub!Valid, Valid
<1>22. (UNCHANGED PubSub!pipelineVars <=> UNCHANGED pipelineVars)
  BY DEF PubSub!pipelineVars, pipelineVars
<1>23. PubSub!LoopStep <=> LoopStep
  BY <1>6, <1>7, <1>8, <1>9, <1>10 DEF PubSub!LoopStep, LoopStep
<1>24. QED
  BY <1>1, <1>2, <1>3, <1>4, <1>5, <1>11, <1>12, <1>16, <1>17, <1>18, <1>19, <1>20,
     <1>21, <1>22, <1>23

LEMMA KindStays == PipelineNext \/ UNCHANGED pipelineVars => kind' = kind
<1> USE DEF loopVars
<1>1. ASSUME NEW settled, Process(settled) \/ TransportRaises(settled) \/ CrashLoop(settled)
      PROVE  kind' = kind
  BY <1>1 DEF Process, ProcessValid, ProcessInvalid, PoisonRaises, DeadLetterRaises,
              TransportRaises, CrashLoop, Raise
<1>2. CASE LoopStep
  BY <1>2 DEF LoopStep, LoopTest, NoFlush, FlushNothing, Flush, OnBatchEnds
<1>3. CASE StartLoop \/ StopLoop \/ WindowElapses \/ PollReturns
  BY <1>3 DEF StartLoop, StopLoop, WindowElapses, PollReturns
<1>4. ASSUME NEW events, Fetch(events)
      PROVE  kind' = kind
  BY <1>4 DEF Fetch
<1>5. CASE UNCHANGED pipelineVars
  BY <1>5 DEF pipelineVars
<1>6. QED
  BY <1>1, <1>2, <1>3, <1>4, <1>5 DEF PipelineNext, Process

\* Steps of an ingestor as steps of the pipeline.
Drives == PipelineNext \/ UNCHANGED pipelineVars

LEMMA QuietDrives == Quiet => Drives
BY DEF Quiet, Drives, PipelineNext

LEMMA ProcessDrives ==
    ASSUME NEW settled \in SUBSET Events,
           Process(settled) \/ TransportRaises(settled) \/ CrashLoop(settled)
    PROVE  Drives
BY DEF Process, Drives, PipelineNext

-----------------------------------------------------------------------------
(* Kafka.                                                                   *)

\* A consumer that is there has been given the events up to its position, the
\* next one starts behind what is committed: the events before are held.
KafkaOK ==
    /\ open \in BOOLEAN
    /\ position \in 0 .. MaxEvents /\ committed \in 0 .. position
    /\ \A e \in 1 .. (IF open THEN position ELSE committed) : Valid(e) => Held(e)

LEMMA KafkaSteps == PipelineInv /\ KafkaOK /\ Kafka!Next => Drives /\ KafkaOK'
<1> SUFFICES ASSUME PipelineInv, KafkaOK, Kafka!Next
             PROVE  Drives /\ KafkaOK'
  OBVIOUS
<1> USE PipelineAssumption
<1> DEFINE upto == IF open THEN position ELSE committed
<1>1. PipelineTypeOK /\ PollOK /\ Conserved
  BY DEF PipelineInv
<1>2. /\ open \in BOOLEAN /\ MaxEvents \in Nat
      /\ position \in Nat /\ position <= MaxEvents /\ committed \in Nat
      /\ committed <= position /\ upto \in 0 .. MaxEvents
      /\ \A e \in 1 .. upto : Valid(e) => Held(e)
  BY DEF KafkaOK
<1> HIDE DEF upto
<1>3. ASSUME Drives, NEW e, Held(e)', Valid(e)'
      PROVE  Valid(e)
  BY <1>3, KindStays DEF Valid, Drives
<1>4. ASSUME Drives, NEW n \in 0 .. upto, \A e \in 1 .. n : Valid(e) /\ Held(e) => Held(e)'
      PROVE  \A e \in 1 .. n : Valid(e)' => Held(e)'
  <2>1. \A e : Valid(e)' = Valid(e)
    BY <1>4, KindStays DEF Valid, Drives
  <2>2. \A e \in 1 .. n : e \in 1 .. upto
    BY <1>2, <1>4
  <2>3. QED
    BY <1>2, <1>4, <2>1, <2>2
<1>5. ASSUME Quiet
      PROVE  Drives /\ \A n \in 0 .. upto : \A e \in 1 .. n : Valid(e)' => Held(e)'
  <2>1. Drives
    BY <1>5, QuietDrives
  <2>2. \A e : Held(e) => Held(e)'
    BY <1>1, <1>5, QuietKeeps
  <2>3. QED
    BY <1>4, <2>1, <2>2
<1>6. CASE Kafka!Start
  <2>1. StartLoop /\ open' = TRUE /\ committed' = committed
        /\ position' = IF open THEN position ELSE committed
    BY <1>6, KafkaShares DEF Kafka!Start
  <2>2. position' = upto
    BY <2>1 DEF upto
  <2>3. Drives /\ \A e \in 1 .. position' : Valid(e)' => Held(e)'
    BY <1>2, <1>5, <2>1, <2>2 DEF Quiet
  <2>4. QED
    BY <1>2, <2>1, <2>3 DEF KafkaOK
<1>7. CASE Kafka!Stop
  <2>1. StopLoop /\ open' = FALSE /\ position' = position
        /\ committed' \in (IF open THEN {committed, position} ELSE {committed})
    BY <1>7, KafkaShares DEF Kafka!Stop
  <2>2. committed' \in 0 .. upto /\ committed' \in 0 .. position
    BY <1>2, <2>1 DEF upto
  <2>3. Drives /\ \A e \in 1 .. committed' : Valid(e)' => Held(e)'
    BY <1>5, <2>1, <2>2 DEF Quiet
  <2>4. QED
    BY <1>2, <2>1, <2>2, <2>3 DEF KafkaOK
<1>8. CASE Kafka!PollMessage
  <2> DEFINE events == <<position + 1>>
  <2>1. /\ position < MaxEvents /\ Fetch(events)
        /\ position' = position + 1 /\ open' = open /\ committed' = committed
    BY <1>8, KafkaShares DEF Kafka!PollMessage
  <2>2. events \in Seq(Events)
    <3>1. position + 1 \in Events
      BY <1>2, <2>1 DEF Events
    <3>2. QED
      BY <3>1
  <2>3. position + 1 \in ToSet(fetched')
    BY <2>1 DEF Fetch, ToSet
  <2>4. PICK last : last = position'
    OBVIOUS
  <2>5. Held(last)'
    BY <2>1, <2>3, <2>4 DEF Held, InMemory
  <2> HIDE DEF events
  <2>6. Drives /\ \A n \in 0 .. upto : \A e \in 1 .. n : Valid(e)' => Held(e)'
    BY <1>5, <2>1, <2>2 DEF Quiet
  <2>7. ASSUME NEW e \in 1 .. (IF open' THEN position' ELSE committed'), Valid(e)'
        PROVE  Held(e)'
    <3>1. e = last \/ e \in 1 .. upto
      BY <1>2, <2>1, <2>4, <2>7 DEF upto
    <3>2. QED
      BY <1>2, <2>6, <2>5, <2>7, <3>1
  <2>8. QED
    BY <1>2, <2>1, <2>6, <2>7 DEF KafkaOK
<1>9. CASE Kafka!AutoCommit
  <2>1. /\ UNCHANGED pipelineVars /\ open /\ committed' = position
        /\ open' = open /\ position' = position
    BY <1>9, KafkaShares DEF Kafka!AutoCommit
  <2>2. Drives /\ \A e \in 1 .. position : Valid(e)' => Held(e)'
    BY <1>2, <1>5, <2>1 DEF Quiet, upto
  <2>3. QED
    BY <1>2, <2>1, <2>2 DEF KafkaOK
<1>10. CASE Kafka!Crash
  <2>1. /\ CrashLoop(1 .. committed) /\ open' = FALSE
        /\ position' = position /\ committed' = committed
    BY <1>10, KafkaShares DEF Kafka!Crash
  <2>2. 1 .. committed \in SUBSET Events
    BY <1>2 DEF Events
  <2>3. Drives
    BY <2>1, <2>2, ProcessDrives
  <2>4. committed \in 0 .. upto
    BY <1>2 DEF upto
  <2>5. \A e \in 1 .. committed : Held(e) => Held(e)'
    BY <2>1, CrashSettles
  <2>6. \A e \in 1 .. committed : Valid(e)' => Held(e)'
    BY <1>4, <2>3, <2>4, <2>5
  <2>7. QED
    BY <1>2, <2>1, <2>3, <2>6 DEF KafkaOK
<1>11. ASSUME UNCHANGED <<open, position, committed>>,
              Drives, \A e \in 1 .. upto : Valid(e) /\ Held(e) => Held(e)'
       PROVE  Drives /\ KafkaOK'
  <2>1. \A e \in 1 .. upto : Valid(e)' => Held(e)'
    BY <1>2, <1>4, <1>11
  <2>2. QED
    BY <1>2, <1>11, <2>1 DEF KafkaOK, upto
<1>12. CASE Kafka!Loop
  <2>1. /\ PollReturns \/ LoopStep \/ Process(Events)
        /\ UNCHANGED <<open, position, committed>>
    BY <1>12, KafkaShares DEF Kafka!Loop, Kafka!PollNone, Kafka!kafkaVars
  <2>2. CASE PollReturns \/ LoopStep
    BY <1>1, <1>11, <2>1, <2>2, QuietDrives, QuietKeeps DEF Quiet
  <2>3. CASE Process(Events)
    <3>1. Drives
      BY <2>3, ProcessDrives
    <3>2. \A e \in 1 .. upto : e \in Events
      BY <1>2 DEF Events
    <3>3. \A e \in 1 .. upto : Valid(e) /\ Held(e) => Held(e)'
      BY <1>1, <2>3, <3>2, ProcessSettles
    <3>4. QED
      BY <1>11, <2>1, <3>1, <3>3
  <2>4. QED
    BY <2>1, <2>2, <2>3
<1>13. CASE Kafka!WindowElapses /\ UNCHANGED Kafka!kafkaVars
  <2>1. WindowElapses /\ UNCHANGED <<open, position, committed>>
    BY <1>13, KafkaShares DEF Kafka!kafkaVars
  <2>2. QED
    BY <1>1, <1>11, <2>1, QuietDrives, QuietKeeps DEF Quiet
<1>14. QED
  BY <1>6, <1>7, <1>8, <1>9, <1>10, <1>12, <1>13 DEF Kafka!Next

-----------------------------------------------------------------------------
(* Kinesis.                                                                 *)

Reads == shard_iterator \notin {-1, -2}

\* The iterator is at the tip when it is obtained; what it passes is held.
KinesisOK ==
    /\ connected \in BOOLEAN /\ closed \in BOOLEAN
    /\ tip \in 0 .. MaxEvents /\ from \in 0 .. tip
    /\ shard_iterator \in (from .. tip) \cup {-1, -2}
    /\ Reads => \A e \in from + 1 .. shard_iterator : Valid(e) => Held(e)

LEMMA KinesisSteps == PipelineInv /\ KinesisOK /\ Kinesis!Next => Drives /\ KinesisOK'
<1> SUFFICES ASSUME PipelineInv, KinesisOK, Kinesis!Next
             PROVE  Drives /\ KinesisOK'
  OBVIOUS
<1> USE PipelineAssumption
<1>1. PipelineTypeOK /\ PollOK /\ Conserved
  BY DEF PipelineInv
<1>2. /\ connected \in BOOLEAN /\ closed \in BOOLEAN /\ MaxEvents \in Nat
      /\ tip \in 0 .. MaxEvents /\ from \in 0 .. tip
      /\ shard_iterator \in (from .. tip) \cup {-1, -2}
      /\ Reads => \A e \in from + 1 .. shard_iterator : Valid(e) => Held(e)
  BY DEF KinesisOK
<1>3. Kinesis!NoIterator = -1 /\ Kinesis!Expired = -2
  BY DEF Kinesis!NoIterator, Kinesis!Expired
<1>4. ASSUME Drives
      PROVE  \A e : Valid(e)' = Valid(e)
  BY <1>4, KindStays DEF Valid, Drives
\* The service moves, or the pipeline does something that loses nothing.
<1>5. ASSUME Drives, UNCHANGED <<shard_iterator, from>>,
             \A e \in Events : Valid(e) /\ Held(e) => Held(e)',
             connected' \in BOOLEAN, closed' \in BOOLEAN, tip' \in tip .. MaxEvents
      PROVE  Drives /\ KinesisOK'
  <2>1. Reads => \A e \in from + 1 .. shard_iterator : e \in Events
    BY <1>2 DEF Events, Reads
  <2>2. Reads => \A e \in from + 1 .. shard_iterator : Valid(e)' => Held(e)'
    BY <1>2, <1>4, <1>5, <2>1
  <2>3. /\ tip' \in 0 .. MaxEvents /\ from' \in 0 .. tip'
        /\ shard_iterator' \in (from' .. tip') \cup {-1, -2}
    BY <1>2, <1>5
  <2>4. QED
    BY <1>2, <1>5, <2>2, <2>3 DEF KinesisOK, Reads
<1>6. ASSUME Quiet
      PROVE  Drives /\ \A e : Held(e) => Held(e)'
  BY <1>1, <1>6, QuietDrives, QuietKeeps
<1>7. CASE Kinesis!Start
  <2>1. /\ StartLoop /\ connected' = TRUE /\ tip' = tip /\ closed' = closed
        /\ IF connected THEN shard_iterator' = shard_iterator /\ from' = from
                        ELSE shard_iterator' = tip /\ from' = tip
    BY <1>7, KinesisShares DEF Kinesis!Start
  <2>2. CASE connected
    BY <1>2, <1>5, <1>6, <2>1, <2>2 DEF Quiet
  <2>3. CASE ~connected
    <3>1. Drives
      BY <1>6, <2>1 DEF Quiet
    <3>2. from' + 1 .. shard_iterator' = {}
      BY <1>2, <2>1, <2>3
    <3>3. /\ tip' \in 0 .. MaxEvents /\ from' \in 0 .. tip'
          /\ shard_iterator' \in (from' .. tip') \cup {-1, -2}
      BY <1>2, <2>1, <2>3
    <3>4. QED
      BY <1>2, <2>1, <3>1, <3>2, <3>3 DEF KinesisOK
  <2>4. QED
    BY <1>2, <2>2, <2>3
\* Without an iterator there is nothing to hold.
<1>8. ASSUME Drives, shard_iterator' \in {-1, -2},
             connected' \in BOOLEAN, UNCHANGED <<tip, closed, from>>
      PROVE  Drives /\ KinesisOK'
  BY <1>2, <1>8 DEF KinesisOK, Reads
<1>9. CASE Kinesis!Stop
  BY <1>3, <1>6, <1>8, <1>9, KinesisShares DEF Kinesis!Stop, Quiet
<1>10. CASE Kinesis!StartFails \/ Kinesis!RecordArrives \/ Kinesis!ShardCloses
  <2>1. /\ UNCHANGED pipelineVars /\ UNCHANGED <<shard_iterator, from>>
        /\ connected' \in BOOLEAN /\ closed' \in BOOLEAN /\ tip' \in tip .. MaxEvents
    <3>1. CASE Kinesis!StartFails \/ Kinesis!ShardCloses
      <4>1. /\ UNCHANGED pipelineVars /\ UNCHANGED <<tip, shard_iterator, from>>
            /\ connected' \in BOOLEAN /\ closed' \in BOOLEAN
        BY <1>2, <3>1, KinesisShares DEF Kinesis!StartFails, Kinesis!ShardCloses
      <4>2. tip \in tip .. MaxEvents
        BY <1>2
      <4>3. QED
        BY <4>1, <4>2
    <3>2. CASE Kinesis!RecordArrives
      <4>1. /\ tip < MaxEvents /\ tip' = tip + 1
            /\ UNCHANGED pipelineVars /\ UNCHANGED <<connected, shard_iterator, closed, from>>
        BY <3>2, KinesisShares DEF Kinesis!RecordArrives
      <4>2. tip' \in tip .. MaxEvents
        BY <1>2, <4>1
      <4>3. QED
        BY <1>2, <4>1, <4>2
    <3>3. QED
      BY <1>10, <3>1, <3>2
  <2>2. QED
    BY <1>5, <1>6, <2>1 DEF Quiet
<1>11. CASE Kinesis!IteratorExpires
  <2>1. /\ UNCHANGED pipelineVars /\ UNCHANGED <<connected, tip, closed, from>>
        /\ shard_iterator' = -2
    BY <1>3, <1>11, KinesisShares DEF Kinesis!IteratorExpires
  <2>2. QED
    BY <1>2, <1>6, <1>8, <2>1 DEF Quiet
<1>12. CASE Kinesis!Crash
  <2>1. /\ CrashLoop(Events) /\ connected' = FALSE /\ shard_iterator' = -1
        /\ UNCHANGED <<tip, closed, from>>
    BY <1>3, <1>12, KinesisShares DEF Kinesis!Crash
  <2>2. QED
    BY <1>8, <2>1, ProcessDrives
<1>13. CASE Kinesis!GetRecords
  <2>1. /\ Reads /\ UNCHANGED <<connected, tip, closed, from>>
        /\ \E to \in shard_iterator .. tip :
              /\ Fetch([i \in 1 .. to - shard_iterator |-> shard_iterator + i])
              /\ shard_iterator' \in {-1, to}
    BY <1>3, <1>13, KinesisShares DEF Kinesis!GetRecords, Reads
  <2>2. PICK to \in shard_iterator .. tip :
              /\ Fetch([i \in 1 .. to - shard_iterator |-> shard_iterator + i])
              /\ shard_iterator' \in {-1, to}
    BY <2>1
  <2> DEFINE m == to - shard_iterator
             events == [i \in 1 .. m |-> shard_iterator + i]
  <2>3. m \in Nat /\ shard_iterator \in from .. tip
    BY <1>2, <2>1, <2>2 DEF Reads
  <2>4. events \in Seq(Events)
    <3>1. events \in [1 .. m -> Events]
      BY <1>2, <2>2, <2>3 DEF Events
    <3>2. QED
      BY <2>3, <3>1, SeqDef
  <2>5. fetched' = events
    BY <2>2 DEF Fetch
  <2>6. Drives /\ \A e : Held(e) => Held(e)'
    BY <1>6, <2>2, <2>4 DEF Quiet
  <2>7. CASE shard_iterator' = -1
    BY <1>2, <1>8, <2>1, <2>6, <2>7
  <2>8. CASE shard_iterator' = to
    <3>1. ASSUME NEW e \in from + 1 .. to, Valid(e)'
          PROVE  Held(e)'
      <4>1. CASE e \in from + 1 .. shard_iterator
        BY <1>2, <1>4, <2>1, <2>6, <3>1, <4>1
      <4>2. CASE e \notin from + 1 .. shard_iterator
        <5>1. e - shard_iterator \in 1 .. m
          BY <1>2, <2>2, <2>3, <4>2
        <5>2. events[e - shard_iterator] = e
          BY <1>2, <2>3, <5>1
        <5>3. DOMAIN events = 1 .. m
          OBVIOUS
        <5> HIDE DEF events, m
        <5>4. e \in ToSet(fetched')
          BY <2>5, <5>1, <5>2, <5>3 DEF ToSet
        <5>5. QED
          BY <5>4 DEF Held, InMemory
      <4>3. QED
        BY <4>1, <4>2
    <3>2. shard_iterator' \in from .. tip
      BY <1>2, <2>2, <2>3, <2>8
    <3>3. QED
      BY <1>2, <2>1, <2>6, <2>8, <3>1, <3>2 DEF KinesisOK
  <2>9. QED
    BY <2>2, <2>7, <2>8
<1>14. CASE Kinesis!GetRecordsRaises
  <2>1. /\ phase = "poll" /\ TransportRaises({})
        /\ UNCHANGED <<connected, shard_iterator, tip, closed, from>>
    BY <1>14, KinesisShares DEF Kinesis!GetRecordsRaises, Kinesis!kinesisVars
  <2>2. \A e : Held(e) => Held(e)'
    BY <1>1, <2>1, EmptyRaiseKeeps
  <2>3. Drives
    <3>1. {} \in SUBSET Events
      OBVIOUS
    <3>2. QED
      BY <2>1, <3>1, ProcessDrives
  <2>4. QED
    BY <1>2, <1>5, <2>1, <2>2, <2>3
<1>15. CASE \/ Kinesis!AllProcessed
            \/ Kinesis!LoopStep /\ UNCHANGED Kinesis!kinesisVars
            \/ Kinesis!WindowElapses /\ UNCHANGED Kinesis!kinesisVars
  <2>1. /\ PollReturns \/ LoopStep \/ WindowElapses
        /\ UNCHANGED <<connected, shard_iterator, tip, closed, from>>
    BY <1>15, KinesisShares DEF Kinesis!AllProcessed, Kinesis!kinesisVars
  <2>2. Drives /\ \A e : Held(e) => Held(e)'
    BY <1>6, <2>1 DEF Quiet
  <2>3. QED
    BY <1>2, <1>5, <2>1, <2>2
<1>16. CASE Kinesis!Process(Kinesis!Events) /\ UNCHANGED Kinesis!kinesisVars
  <2>1. /\ Process(Events)
        /\ UNCHANGED <<connected, shard_iterator, tip, closed, from>>
    BY <1>16, KinesisShares DEF Kinesis!kinesisVars
  <2>2. \A e \in Events : Valid(e) /\ Held(e) => Held(e)'
    BY <1>1, <2>1, ProcessSettles
  <2>3. Drives
    BY <2>1, ProcessDrives
  <2>4. QED
    BY <1>2, <1>5, <2>1, <2>2, <2>3
<1>17. QED
  BY <1>7, <1>9, <1>10, <1>11, <1>12, <1>13, <1>14, <1>15, <1>16
  DEF Kinesis!Next, Kinesis!Loop

-----------------------------------------------------------------------------
(* Pub/Sub.                                                                 *)

\* Where a message is that Pub/Sub will not deliver again.
Settled(e) ==
    \/ Valid(e) /\ Held(e)
    \/ kind[e] = "invalid" /\ e \in ToSet(dlq)

\* Where a message is that the current poll has worked off.
Processed(e) ==
    \/ Valid(e) /\ e \in ToSet(drained)
    \/ kind[e] = "invalid" /\ e \in ToSet(dlq)

\* The poll holds the acknowledgements of what it has in its hands, and
\* nothing it has fetched is acknowledged before it is over.
PubSubOK ==
    /\ connected \in BOOLEAN
    /\ lease \in [Events -> {"ready", "leased", "acked"}]
    /\ ack_ids \subseteq Events
    /\ phase # "process" => ack_ids = {}
    /\ \A e \in Events : lease[e] = "acked" => Settled(e)
    /\ \A e \in ack_ids : e \in ToSet(fetched) \/ Processed(e)
    /\ InPoll => \A i \in pollFrom + 1 .. Len(taken) : lease[taken[i]] # "acked"

\* The orders of a set are sequences that hold it.
LEMMA OrdersOfSet ==
    ASSUME NEW S \in SUBSET Events, NEW order \in SetToSeqs(S)
    PROVE  order \in Seq(Events) /\ ToSet(order) = S
<1> DEFINE n == Cardinality(S)
           D == 1 .. n
<1>1. IsFiniteSet(Events)
  BY PipelineAssumption, FS_Interval DEF Events
<1>2. IsFiniteSet(S) /\ n \in Nat
  BY <1>1, FS_Subset, FS_CardinalityType
<1>3. order \in [D -> S] /\ \A i, j \in D : i # j => order[i] # order[j]
  BY DEF SetToSeqs
<1> HIDE DEF n
<1>4. order \in Injection(D, S)
  BY <1>3 DEF Injection, IsInjective
<1>5. IsFiniteSet(D) /\ Cardinality(D) = n
  BY <1>2, FS_Interval
<1>6. order \in Surjection(D, S)
  BY <1>2, <1>4, <1>5, FS_Injection DEF n
<1>7. ToSet(order) = S
  BY <1>3, <1>6 DEF ToSet, Surjection
<1>8. order \in Seq(Events)
  BY <1>2, <1>3, SeqDef
<1>9. QED
  BY <1>7, <1>8

LEMMA PubSubOrders == \A S : PubSub!SetToSeqs(S) = SetToSeqs(S)
<1>1. \A S : PubSub!Cardinality(S) = Cardinality(S)
  BY DEF PubSub!Cardinality, Cardinality
<1>2. QED
  BY <1>1 DEF PubSub!SetToSeqs, SetToSeqs

\* The dead-letter file only grows.
LEMMA DeadLettersStay ==
    ASSUME PipelineTypeOK, Drives
    PROVE  ToSet(dlq) \subseteq ToSet(dlq')
<1> USE DEF pollVars, accVars, countVars, historyVars, loopVars
<1>1. CASE ProcessInvalid
  <2>1. PICK e : e = Head(fetched)
    OBVIOUS
  <2>2. e \in Events /\ dlq' = Append(dlq, e) /\ dlq \in Seq(Events)
    BY <1>1, <2>1, HeadTail DEF ProcessInvalid, Facing, PipelineTypeOK
  <2>3. dlq' = Cat(dlq, <<e>>) /\ <<e>> \in Seq(Events)
    BY <2>2, AppendIsConcat DEF Cat
  <2>4. QED
    BY <2>2, <2>3, EventsOfCat
<1>2. ASSUME NEW settled,
             \/ PoisonRaises(settled) \/ DeadLetterRaises(settled)
             \/ TransportRaises(settled) \/ CrashLoop(settled)
      PROVE  dlq' = dlq
  BY <1>2 DEF PoisonRaises, DeadLetterRaises, TransportRaises, CrashLoop
<1>3. CASE StartLoop \/ StopLoop \/ WindowElapses \/ ProcessValid \/ PollReturns
  BY <1>3 DEF StartLoop, StopLoop, WindowElapses, ProcessValid, PollReturns
<1>4. CASE LoopStep
  BY <1>4 DEF LoopStep, LoopTest, NoFlush, FlushNothing, Flush, OnBatchEnds
<1>5. ASSUME NEW events, Fetch(events)
      PROVE  dlq' = dlq
  BY <1>5 DEF Fetch
<1>6. CASE UNCHANGED pipelineVars
  BY <1>6 DEF pipelineVars
<1>7. QED
  BY <1>1, <1>2, <1>3, <1>4, <1>5, <1>6 DEF Drives, PipelineNext

LEMMA SettledStays ==
    ASSUME PipelineTypeOK, Drives, NEW e, Valid(e) /\ Held(e) => Held(e)', Settled(e)
    PROVE  Settled(e)'
<1>1. kind' = kind /\ ToSet(dlq) \subseteq ToSet(dlq')
  BY KindStays, DeadLettersStay DEF Drives
<1>2. QED
  BY <1>1 DEF Settled, Valid

\* A message that is worked off goes from the hands of the poll to its
\* records or to the dead letters.
LEMMA ProcessWorksOff ==
    ASSUME PipelineTypeOK, ProcessValid \/ ProcessInvalid,
           NEW e, e \in ToSet(fetched) \/ Processed(e)
    PROVE  e \in ToSet(fetched') \/ Processed(e)'
<1>1. PICK h : h = Head(fetched)
  OBVIOUS
<1>2. /\ fetched # <<>> /\ fetched' = Tail(fetched) /\ kind' = kind
  BY DEF ProcessValid, ProcessInvalid, Facing, loopVars
<1>3. h \in Events /\ <<h>> \in Seq(Events) /\ ToSet(fetched) = {h} \cup ToSet(fetched')
  BY <1>1, <1>2, HeadKept
<1>4. ToSet(<<h>>) = {h}
  BY DEF ToSet
<1>5. CASE ProcessValid
  <2>1. kind[h] = "valid" /\ drained' = Append(drained, h) /\ dlq' = dlq
    BY <1>1, <1>5 DEF ProcessValid, Facing
  <2>2. drained' = Cat(drained, <<h>>) /\ drained \in Seq(Events)
    BY <1>3, <2>1, AppendIsConcat DEF Cat, PipelineTypeOK
  <2>3. ToSet(drained') = ToSet(drained) \cup {h}
    BY <1>3, <1>4, <2>2, EventsOfCat
  <2>4. QED
    BY <1>2, <1>3, <2>1, <2>3 DEF Processed, Valid
<1>6. CASE ProcessInvalid
  <2>1. kind[h] = "invalid" /\ dlq' = Append(dlq, h) /\ drained' = drained
    BY <1>1, <1>6 DEF ProcessInvalid, Facing
  <2>2. dlq' = Cat(dlq, <<h>>) /\ dlq \in Seq(Events)
    BY <1>3, <2>1, AppendIsConcat DEF Cat, PipelineTypeOK
  <2>3. ToSet(dlq') = ToSet(dlq) \cup {h}
    BY <1>3, <1>4, <2>2, EventsOfCat
  <2>4. QED
    BY <1>2, <1>3, <2>1, <2>3 DEF Processed, Valid
<1>7. QED
  BY <1>5, <1>6

LEMMA PubSubSteps == PipelineInv /\ PubSubOK /\ PubSub!Next => Drives /\ PubSubOK'
<1> SUFFICES ASSUME PipelineInv, PubSubOK, PubSub!Next
             PROVE  Drives /\ PubSubOK'
  OBVIOUS
<1> DEFINE Acked == {e \in Events : lease[e] = "acked"}
<1>1. PipelineTypeOK /\ PollOK /\ Conserved
  BY DEF PipelineInv
<1>2. /\ connected \in BOOLEAN /\ lease \in [Events -> {"ready", "leased", "acked"}]
      /\ ack_ids \subseteq Events
      /\ phase # "process" => ack_ids = {}
      /\ \A e \in Events : lease[e] = "acked" => Settled(e)
      /\ \A e \in ack_ids : e \in ToSet(fetched) \/ Processed(e)
      /\ InPoll => \A i \in pollFrom + 1 .. Len(taken) : lease[taken[i]] # "acked"
  BY DEF PubSubOK
<1>3. PubSub!Acked = Acked
  BY PubSubShares DEF PubSub!Acked
<1>4. ASSUME Quiet
      PROVE  Drives /\ \A e : Settled(e) => Settled(e)'
  BY <1>1, <1>4, QuietDrives, QuietKeeps, SettledStays
\* Steps outside a poll.
<1>5. ASSUME Drives, connected' \in BOOLEAN, UNCHANGED lease, ack_ids' = {},
             InPoll' => pollFrom' = Len(taken'),
             \A e \in Acked : Settled(e) => Settled(e)'
      PROVE  Drives /\ PubSubOK'
  <2>1. Drives => PipelineTypeOK'
    <3>1. PipelineInv'
      BY <1>5, PipelineSteps DEF Drives
    <3>2. QED
      BY <3>1 DEF PipelineInv
  <2>2. Len(taken') \in Nat
    BY <1>5, <2>1, LenProperties DEF PipelineTypeOK
  <2>3. \A e \in Events : lease'[e] = "acked" => Settled(e)'
    BY <1>2, <1>5
  <2>4. InPoll' => pollFrom' + 1 .. Len(taken') = {}
    BY <1>5, <2>2
  <2>5. QED
    BY <1>2, <1>5, <2>3, <2>4 DEF PubSubOK
<1>6. CASE PubSub!Start
  <2>1. StartLoop /\ connected' = TRUE /\ lease' = lease /\ ack_ids' = ack_ids
    BY <1>6, PubSubShares DEF PubSub!Start
  <2>2. phase # "process" /\ ~InPoll'
    BY <2>1 DEF StartLoop, InPoll
  <2>3. QED
    BY <1>2, <1>4, <1>5, <2>1, <2>2 DEF Quiet
<1>7. CASE PubSub!Stop
  <2>1. StopLoop /\ connected' = FALSE /\ lease' = lease /\ ack_ids' = ack_ids
    BY <1>7, PubSubShares DEF PubSub!Stop
  <2>2. phase # "process" /\ ~InPoll'
    BY <2>1 DEF StopLoop, InPoll
  <2>3. QED
    BY <1>2, <1>4, <1>5, <2>1, <2>2 DEF Quiet
<1>8. CASE PubSub!Crash
  <2>1. CrashLoop(Acked) /\ connected' = FALSE /\ ack_ids' = {} /\ lease' = lease
    BY <1>3, <1>8, PubSubShares DEF PubSub!Crash
  <2>2. Drives
    BY <2>1, ProcessDrives
  <2>3. \A e \in Acked : Settled(e) => Settled(e)'
    BY <1>1, <2>1, <2>2, CrashSettles, SettledStays
  <2>4. ~InPoll'
    BY <2>1 DEF CrashLoop, InPoll
  <2>5. QED
    BY <1>5, <2>1, <2>2, <2>3, <2>4
<1>9. CASE PubSub!LoopStep /\ UNCHANGED PubSub!pubsubVars
  <2>1. LoopStep /\ UNCHANGED <<connected, lease, ack_ids>>
    BY <1>9, PubSubShares DEF PubSub!pubsubVars
  <2>2. phase # "process" /\ (InPoll' => pollFrom' = Len(taken'))
    BY <2>1 DEF LoopStep, LoopTest, NoFlush, FlushNothing, Flush, OnBatchEnds, InPoll
  <2>3. QED
    BY <1>2, <1>4, <1>5, <2>1, <2>2 DEF Quiet
<1>10. CASE PubSub!PullRaises
  <2>1. /\ phase = "poll" /\ TransportRaises(Acked)
        /\ UNCHANGED <<connected, lease, ack_ids>>
    BY <1>3, <1>10, PubSubShares DEF PubSub!PullRaises, PubSub!pubsubVars
  <2>2. Drives
    BY <2>1, ProcessDrives
  <2>3. \A e \in Acked : Settled(e) => Settled(e)'
    BY <1>1, <2>1, <2>2, EmptyRaiseKeeps, SettledStays
  <2>4. ~InPoll'
    BY <2>1 DEF TransportRaises, Raise, InPoll
  <2>5. QED
    BY <1>2, <1>5, <2>1, <2>2, <2>3, <2>4
<1>11. CASE \/ PubSub!LeaseEnds
            \/ PubSub!WindowElapses /\ UNCHANGED PubSub!pubsubVars
  <2>1. /\ WindowElapses \/ UNCHANGED pipelineVars
        /\ UNCHANGED <<connected, ack_ids>>
        /\ lease' \in [Events -> {"ready", "leased", "acked"}]
        /\ \A e \in Events : lease'[e] = "acked" => lease[e] = "acked"
    <3>1. CASE PubSub!LeaseEnds
      <4>1. PICK e \in Events : /\ lease[e] = "leased" /\ lease' = [lease EXCEPT ![e] = "ready"]
                                /\ UNCHANGED pipelineVars /\ UNCHANGED <<connected, ack_ids>>
        BY <3>1, PubSubShares DEF PubSub!LeaseEnds
      <4>2. QED
        BY <1>2, <4>1
    <3>2. CASE PubSub!WindowElapses /\ UNCHANGED PubSub!pubsubVars
      BY <1>2, <3>2, PubSubShares DEF PubSub!pubsubVars
    <3>3. QED
      BY <1>11, <3>1, <3>2
  <2>2. UNCHANGED <<phase, kind, fetched, drained, dlq, taken, pollFrom>>
    BY <2>1 DEF WindowElapses, pipelineVars, pollVars, historyVars, loopVars
  <2>3. Drives /\ \A e : Settled(e) => Settled(e)'
    BY <1>4, <2>1 DEF Quiet
  <2>4. \A e : Processed(e)' = Processed(e)
    BY <2>2 DEF Processed, Valid
  <2>5. InPoll => \A i \in pollFrom + 1 .. Len(taken) : lease'[taken[i]] # "acked"
    <3>1. \A i \in pollFrom + 1 .. Len(taken) : taken[i] \in Events
      BY <1>1, ElementOfSeq, LenProperties DEF PipelineTypeOK
    <3>2. QED
      BY <1>2, <2>1, <3>1
  <2>6. \A e \in Events : lease'[e] = "acked" => Settled(e)'
    BY <1>2, <2>1, <2>3
  <2>7. \A e \in ack_ids' : e \in ToSet(fetched') \/ Processed(e)'
    BY <1>2, <2>1, <2>2, <2>4
  <2>8. QED
    BY <1>2, <2>1, <2>2, <2>3, <2>5, <2>6, <2>7 DEF PubSubOK, InPoll
<1>12. CASE PubSub!Pull
  <2>1. /\ phase = "poll" /\ connected' = connected
        /\ \E S \in SUBSET {e \in Events : lease[e] = "ready"} :
              /\ \E order \in SetToSeqs(S) : Fetch(order)
              /\ ack_ids' = S
              /\ lease' = [e \in Events |-> IF e \in S THEN "leased" ELSE lease[e]]
    BY <1>12, PubSubShares, PubSubOrders DEF PubSub!Pull
  <2>2. PICK S \in SUBSET {e \in Events : lease[e] = "ready"} :
              /\ \E order \in SetToSeqs(S) : Fetch(order)
              /\ ack_ids' = S
              /\ lease' = [e \in Events |-> IF e \in S THEN "leased" ELSE lease[e]]
    BY <2>1
  <2>3. PICK order \in SetToSeqs(S) : Fetch(order)
    BY <2>2
  <2>4. order \in Seq(Events) /\ ToSet(order) = S
    BY OrdersOfSet
  <2>5. Drives /\ \A e : Settled(e) => Settled(e)'
    BY <1>4, <2>3, <2>4 DEF Quiet
  <2>6. /\ phase' = "process" /\ fetched' = order /\ taken' = Cat(taken, order)
        /\ pollFrom' = pollFrom /\ pollFrom = Len(taken)
    BY <1>1, <2>1, <2>3 DEF Fetch, Cat, PollOK
  <2>7. \A e \in Events : lease'[e] = IF e \in S THEN "leased" ELSE lease[e]
    BY <2>2
  <2>8. lease' \in [Events -> {"ready", "leased", "acked"}]
    BY <1>2, <2>2
  <2>9. \A e \in Events : lease'[e] = "acked" => Settled(e)'
    BY <1>2, <2>5, <2>7
  <2>10. \A e \in ack_ids' : e \in ToSet(fetched')
    BY <2>2, <2>4, <2>6
  <2>11. ASSUME NEW i \in pollFrom' + 1 .. Len(taken')
         PROVE  lease'[taken'[i]] # "acked"
    <3>1. CatFacts(Events, taken, order)
      BY <1>1, <2>4, CatLaws DEF PipelineTypeOK
    <3>2. PICK j \in 1 .. Len(order) : i = Len(taken) + j
      <4>1. i - Len(taken) \in 1 .. Len(order) /\ i = Len(taken) + (i - Len(taken))
        BY <2>6, <3>1 DEF CatFacts
      <4>2. QED
        BY <4>1
    <3>3. taken'[i] = order[j] /\ order[j] \in S
      <4>1. Cat(taken, order)[i] = order[j]
        BY <3>1, <3>2 DEF CatFacts
      <4>2. order[j] \in ToSet(order)
        BY <2>4, LenProperties DEF ToSet
      <4>3. QED
        BY <2>4, <2>6, <4>1, <4>2
    <3>4. QED
      BY <2>7, <3>3
  <2>12. QED
    BY <1>2, <2>1, <2>2, <2>5, <2>6, <2>8, <2>9, <2>10, <2>11 DEF PubSubOK
\* The steps that end a poll by acknowledging S.
<1>13. ASSUME Drives, ~InPoll', connected' = connected, NEW S \in SUBSET ack_ids,
              ack_ids' = {},
              lease' = [e \in Events |-> IF e \in S THEN "acked" ELSE lease[e]],
              \A e \in Acked \cup S : Settled(e) => Settled(e)',
              \A e \in S : Settled(e)
       PROVE  Drives /\ PubSubOK'
  <2>1. \A e \in Events : lease'[e] = IF e \in S THEN "acked" ELSE lease[e]
    BY <1>13
  <2>2. lease' \in [Events -> {"ready", "leased", "acked"}]
    BY <1>2, <1>13
  <2>3. \A e \in Events : lease'[e] = "acked" => Settled(e)'
    BY <1>2, <1>13, <2>1
  <2>4. QED
    BY <1>2, <1>13, <2>2, <2>3 DEF PubSubOK
\* When nothing is left to process, what the poll holds is settled.
<1>14. ASSUME fetched = <<>>, NEW e \in ack_ids
       PROVE  Settled(e)
  <2>1. ToSet(<<>>) = {}
    BY DEF ToSet
  <2>2. Processed(e)
    BY <1>2, <1>14, <2>1
  <2>3. QED
    BY <2>2 DEF Processed, Settled, Held, InMemory
<1>15. CASE PubSub!Acknowledge
  <2>1. /\ PollReturns /\ connected' = connected
        /\ \E S \in SUBSET ack_ids :
              /\ lease' = [e \in Events |-> IF e \in S THEN "acked" ELSE lease[e]]
              /\ ack_ids' = {}
    BY <1>15, PubSubShares DEF PubSub!Acknowledge, PubSub!Acknowledged
  <2>2. PICK S \in SUBSET ack_ids :
              /\ lease' = [e \in Events |-> IF e \in S THEN "acked" ELSE lease[e]]
              /\ ack_ids' = {}
    BY <2>1
  <2>3. fetched = <<>> /\ ~InPoll'
    BY <2>1 DEF PollReturns, InPoll
  <2>4. QED
    BY <1>4, <1>13, <1>14, <2>1, <2>2, <2>3 DEF Quiet
<1>16. CASE PubSub!AcknowledgeRaises
  <2>1. /\ connected' = connected
        /\ \E S \in {{}, ack_ids} :
              /\ lease' = [e \in Events |-> IF e \in S THEN "acked" ELSE lease[e]]
              /\ ack_ids' = {}
              /\ TransportRaises(Acked \cup S)
    BY <1>3, <1>16, PubSubShares DEF PubSub!AcknowledgeRaises, PubSub!Acknowledged
  <2>2. PICK S \in SUBSET ack_ids :
              /\ lease' = [e \in Events |-> IF e \in S THEN "acked" ELSE lease[e]]
              /\ ack_ids' = {}
              /\ TransportRaises(Acked \cup S)
    BY <2>1
  <2>3. /\ InPoll /\ fetched = <<>> /\ ~InPoll' /\ Raise(Acked \cup S)
    BY <2>2 DEF TransportRaises, Raise, InPoll
  <2>4. Drives
    <3>1. Acked \cup S \in SUBSET Events
      BY <1>2
    <3>2. QED
      BY <2>2, <3>1, ProcessDrives
  <2>5. \A e \in Acked \cup S : Settled(e) => Settled(e)'
    BY <1>1, <2>3, <2>4, RaiseSettles, SettledStays
  <2>6. QED
    BY <1>13, <1>14, <2>1, <2>2, <2>3, <2>4, <2>5
<1>17. CASE PubSub!ProcessMessage
  <2>1. /\ Process(Acked) /\ UNCHANGED <<connected, lease>>
        /\ ack_ids' = IF phase' = "flush" THEN {} ELSE ack_ids
    BY <1>3, <1>17, PubSubShares DEF PubSub!ProcessMessage
  <2>2. Drives
    BY <2>1, ProcessDrives
  <2>3. \A e \in Acked : Settled(e) => Settled(e)'
    BY <1>1, <2>1, <2>2, ProcessSettles, SettledStays
  <2>4. CASE ProcessValid \/ ProcessInvalid
    <3>1. /\ phase = "process" /\ phase' = "process"
          /\ UNCHANGED <<taken, pollFrom>>
      BY <2>4 DEF ProcessValid, ProcessInvalid, Facing, historyVars
    <3>2. \A e \in ack_ids : e \in ToSet(fetched') \/ Processed(e)'
      BY <1>1, <1>2, <2>4, ProcessWorksOff
    <3>3. \A e \in Events : lease'[e] = "acked" => Settled(e)'
      BY <1>2, <2>1, <2>3
    <3>4. QED
      BY <1>2, <2>1, <2>2, <3>1, <3>2, <3>3 DEF PubSubOK, InPoll
  <2>5. CASE PoisonRaises(Acked) \/ DeadLetterRaises(Acked)
    <3>1. phase' = "flush" /\ ~InPoll'
      BY <2>5 DEF PoisonRaises, DeadLetterRaises, Raise, InPoll
    <3>2. QED
      BY <1>2, <1>5, <2>1, <2>2, <2>3, <3>1
  <2>6. QED
    BY <2>1, <2>4, <2>5 DEF Process
<1> HIDE DEF Acked
<1>18. CASE PubSub!Loop
  BY <1>9, <1>10, <1>12, <1>15, <1>16, <1>17, <1>18, Zenon DEF PubSub!Loop
<1>19. QED
  BY <1>6, <1>7, <1>8, <1>11, <1>18, Zenon DEF PubSub!Next

\* A poll that raises on a message holds nothing that is acknowledged.
LEMMA PubSubRetries ==
    PipelineInv /\ PubSubOK /\ PubSub!ProcessMessage => gone' = gone
<1> SUFFICES ASSUME PipelineInv, PubSubOK, PubSub!ProcessMessage
             PROVE  gone' = gone
  OBVIOUS
<1> DEFINE Acked == {e \in Events : lease[e] = "acked"}
<1>1. Process(Acked)
  <2>1. PubSub!Acked = Acked
    BY PubSubShares DEF PubSub!Acked
  <2>2. QED
    BY <2>1, PubSubShares DEF PubSub!ProcessMessage
<1>2. CASE ProcessValid \/ ProcessInvalid
  BY <1>2 DEF ProcessValid, ProcessInvalid, historyVars
<1>3. CASE PoisonRaises(Acked) \/ DeadLetterRaises(Acked)
  <2>1. Raise(Acked) /\ InPoll
    BY <1>3 DEF PoisonRaises, DeadLetterRaises, Facing, InPoll
  <2>2. gone' = gone \cup ({taken[i] : i \in pollFrom + 1 .. Len(taken)} \cap Acked)
    BY <2>1 DEF Raise
  <2>3. \A i \in pollFrom + 1 .. Len(taken) : taken[i] \notin Acked
    BY <2>1 DEF PubSubOK
  <2>4. QED
    BY <2>2, <2>3
<1>4. QED
  BY <1>1, <1>2, <1>3 DEF Process

-----------------------------------------------------------------------------
(* The pipeline over the ingestor it was given.                             *)

IngestionInv ==
    /\ PipelineInv
    /\ adapter \in {"kafka", "kinesis", "pubsub"}
    /\ adapter = "kafka" => KafkaOK
    /\ adapter = "kinesis" => KinesisOK
    /\ adapter = "pubsub" => PubSubOK

LEMMA IngestionStarts == Init => IngestionInv /\ PipelineInit
<1> SUFFICES ASSUME Init
             PROVE  IngestionInv /\ PipelineInit
  OBVIOUS
<1> USE PipelineAssumption
<1>1. /\ adapter \in {"kafka", "kinesis", "pubsub"} /\ PipelineInit
      /\ adapter = "kafka" => Kafka!Init
      /\ adapter = "kinesis" => Kinesis!Init
      /\ adapter = "pubsub" => PubSub!Init
  BY KafkaShares, KinesisShares, PubSubShares
  DEF Init, Kafka!Init, Kinesis!Init, PubSub!Init
<1>2. PipelineInv
  BY <1>1, PipelineStarts
<1>3. ASSUME adapter = "kafka"
      PROVE  KafkaOK
  <2>1. open = FALSE /\ position = 0 /\ committed = 0 /\ MaxEvents \in Nat
    BY <1>1, <1>3 DEF Kafka!Init
  <2>2. 1 .. committed = {} /\ 0 \in 0 .. MaxEvents /\ 0 \in 0 .. position
    BY <2>1
  <2>3. QED
    BY <2>1, <2>2 DEF KafkaOK
<1>4. ASSUME adapter = "kinesis"
      PROVE  KinesisOK
  <2>1. /\ connected = FALSE /\ shard_iterator = -1 /\ tip = 0 /\ closed = FALSE
        /\ from = 0 /\ MaxEvents \in Nat
    BY <1>1, <1>4 DEF Kinesis!Init, Kinesis!NoIterator
  <2>2. 0 \in 0 .. MaxEvents /\ 0 \in 0 .. tip
    BY <2>1
  <2>3. QED
    BY <2>1, <2>2 DEF KinesisOK, Reads
<1>5. ASSUME adapter = "pubsub"
      PROVE  PubSubOK
  <2>1. connected = FALSE /\ lease = [e \in Events |-> "ready"] /\ ack_ids = {}
    BY <1>1, <1>5, PubSubShares DEF PubSub!Init
  <2>2. ~InPoll
    BY <1>1 DEF PipelineInit, InPoll
  <2>3. QED
    BY <2>1, <2>2 DEF PubSubOK
<1>6. QED
  BY <1>1, <1>2, <1>3, <1>4, <1>5 DEF IngestionInv

LEMMA StutterKeeps ==
    ASSUME UNCHANGED vars
    PROVE  /\ UNCHANGED pipelineVars
           /\ KafkaOK => KafkaOK'
           /\ KinesisOK => KinesisOK'
           /\ PubSubOK => PubSubOK'
<1>1. UNCHANGED pipelineVars
  BY DEF vars
<1>2. UNCHANGED <<kind, phase, fetched, drained, buffer, dlq, taken, pollFrom, batched, gone>>
  BY <1>1 DEF pipelineVars, pollVars, accVars, historyVars, loopVars
<1>3. \A e : /\ Valid(e)' = Valid(e) /\ Held(e)' = Held(e)
            /\ Settled(e)' = Settled(e) /\ Processed(e)' = Processed(e)
  BY <1>2 DEF Valid, Held, InMemory, Settled, Processed
<1>4. KafkaOK => KafkaOK'
  BY <1>3 DEF KafkaOK, vars, kafkaVars
<1>5. KinesisOK => KinesisOK'
  BY <1>3 DEF KinesisOK, Reads, vars, kinesisVars
<1>6. PubSubOK => PubSubOK'
  BY <1>2, <1>3 DEF PubSubOK, InPoll, vars, pubsubVars
<1>7. QED
  BY <1>1, <1>4, <1>5, <1>6

LEMMA IngestionSteps ==
    IngestionInv /\ [Next]_vars => IngestionInv' /\ [PipelineNext]_pipelineVars
<1> SUFFICES ASSUME IngestionInv, [Next]_vars
             PROVE  IngestionInv' /\ Drives
  BY DEF Drives
<1>1. CASE adapter = "kafka" /\ Kafka!Next /\ KafkaVarsOnly
  <2>1. Drives /\ KafkaOK' /\ adapter' = "kafka"
    BY <1>1, KafkaSteps DEF IngestionInv, KafkaVarsOnly
  <2>2. QED
    BY <2>1, PipelineSteps DEF IngestionInv, Drives
<1>2. CASE adapter = "kinesis" /\ Kinesis!Next /\ KinesisVarsOnly
  <2>1. Drives /\ KinesisOK' /\ adapter' = "kinesis"
    BY <1>2, KinesisSteps DEF IngestionInv, KinesisVarsOnly
  <2>2. QED
    BY <2>1, PipelineSteps DEF IngestionInv, Drives
<1>3. CASE adapter = "pubsub" /\ PubSub!Next /\ PubSubVarsOnly
  <2>1. Drives /\ PubSubOK' /\ adapter' = "pubsub"
    BY <1>3, PubSubSteps DEF IngestionInv, PubSubVarsOnly
  <2>2. QED
    BY <2>1, PipelineSteps DEF IngestionInv, Drives
<1>4. CASE UNCHANGED vars
  <2>1. Drives /\ adapter' = adapter
    BY <1>4, StutterKeeps DEF Drives, vars
  <2>2. PipelineInv'
    BY <2>1, PipelineSteps DEF IngestionInv, Drives
  <2>3. QED
    BY <1>4, <2>1, <2>2, StutterKeeps DEF IngestionInv
<1>5. QED
  BY <1>1, <1>2, <1>3, <1>4 DEF Next

\* The inductive invariant of the pipeline and its ingestor: what is fetched
\* splits into what was emitted, buffered or lost before the current poll and
\* what the poll has in hand; the batches sum up to the counters; and what the
\* service takes for consumed is held.
THEOREM IngestionStaysConsistent == Spec => []IngestionInv
<1>1. Init => IngestionInv
  BY IngestionStarts
<1>2. IngestionInv /\ [Next]_vars => IngestionInv'
  BY IngestionSteps
<1>3. QED
  BY <1>1, <1>2, PTL DEF Spec

\* Whatever an ingestor and its service do, to the pipeline they are fetches,
\* returns and raises: the three of them implement one pipeline.
THEOREM IngestorsDriveThePipeline == Spec => PipelineInit /\ [][PipelineNext]_pipelineVars
<1>1. Init => PipelineInit
  BY IngestionStarts
<1>2. IngestionInv /\ [Next]_vars => [PipelineNext]_pipelineVars
  BY IngestionSteps
<1>3. QED
  BY <1>1, <1>2, IngestionStaysConsistent, PTL DEF Spec

\* Every variable of the pipeline and of its ingestor keeps its type; Kafka
\* commits nothing it has not delivered, a Kinesis iterator stays within the
\* shard, Pub/Sub's acknowledgements are only held while a pull is worked off.
THEOREM IngestionTypes == Spec => []TypeOK
<1>1. IngestionInv => TypeOK
  <2> SUFFICES ASSUME IngestionInv
               PROVE  TypeOK
    OBVIOUS
  <2>1. PipelineTypeOK /\ adapter \in {"kafka", "kinesis", "pubsub"}
    BY DEF IngestionInv, PipelineInv
  <2>2. CASE adapter = "kafka"
    <3>1. Kafka!TypeOK
      BY <2>1, <2>2, KafkaShares DEF IngestionInv, KafkaOK, Kafka!TypeOK
    <3>2. QED
      BY <2>2, <3>1 DEF TypeOK
  <2>3. CASE adapter = "kinesis"
    <3>1. Kinesis!TypeOK
      BY <2>1, <2>3, KinesisShares
      DEF IngestionInv, KinesisOK, Kinesis!TypeOK, Kinesis!NoIterator, Kinesis!Expired
    <3>2. QED
      BY <2>3, <3>1 DEF TypeOK
  <2>4. CASE adapter = "pubsub"
    <3>1. PubSub!TypeOK
      BY <2>1, <2>4, PubSubShares
      DEF IngestionInv, PubSubOK, PubSub!TypeOK, PubSub!LeaseStates
    <3>2. QED
      BY <2>4, <3>1 DEF TypeOK
  <2>5. QED
    BY <2>1, <2>2, <2>3, <2>4
<1>2. QED
  BY <1>1, IngestionStaysConsistent, PTL

\* Between the transport and on_batch no record is skipped, doubled or
\* reordered, except by a poll that raises.
THEOREM RecordsStayConserved == Spec => []RecordsAreConserved
<1>1. IngestionInv => RecordsAreConserved
  BY PipelineIsSafe DEF IngestionInv
<1>2. QED
  BY <1>1, IngestionStaysConsistent, PTL

\* The health counters count every record and every invalid event once.
THEOREM CountersAlwaysAgree == Spec => []CountersAgree
<1>1. IngestionInv => CountersAgree
  BY PipelineIsSafe DEF IngestionInv
<1>2. QED
  BY <1>1, IngestionStaysConsistent, PTL

\* Whatever is counted as invalid has been written to the dead-letter file.
THEOREM InvalidIsDeadLettered == Spec => []CountedIsDeadLettered
<1>1. IngestionInv => CountedIsDeadLettered
  BY PipelineIsSafe DEF IngestionInv
<1>2. QED
  BY <1>1, IngestionStaysConsistent, PTL

\* Through crashes, restarts, auto-commits, expired iterators, lost
\* acknowledgements and redeliveries, what the service takes for consumed is
\* in a batch, in memory or a dead letter, or was lost to a poll that raised
\* or to a crash.
THEOREM ConsumedStaysAccounted == Spec => []ConsumedIsAccounted
<1>1. IngestionInv => ConsumedIsAccounted
  <2> SUFFICES ASSUME IngestionInv
               PROVE  ConsumedIsAccounted
    OBVIOUS
  <2>1. adapter \in {"kafka", "kinesis", "pubsub"}
    BY DEF IngestionInv
  <2>2. CASE adapter = "kafka"
    <3>1. /\ position \in Nat /\ committed \in 0 .. position
          /\ \A e \in 1 .. (IF open THEN position ELSE committed) : Valid(e) => Held(e)
      BY <2>2, PipelineAssumption DEF IngestionInv, KafkaOK
    <3>2. \A e \in 1 .. committed : Valid(e) => Held(e)
      BY <3>1
    <3>3. Kafka!CommittedIsAccounted
      BY <3>2, KafkaShares DEF Kafka!CommittedIsAccounted, Held
    <3>4. QED
      BY <2>2, <3>3 DEF ConsumedIsAccounted
  <2>3. CASE adapter = "kinesis"
    <3>1. Reads => \A e \in from + 1 .. shard_iterator : Valid(e) => Held(e)
      BY <2>3 DEF IngestionInv, KinesisOK
    <3>2. Kinesis!PassedIsAccounted
      BY <3>1, KinesisShares
      DEF Kinesis!PassedIsAccounted, Kinesis!NoIterator, Kinesis!Expired, Held, Reads
    <3>3. QED
      BY <2>3, <3>2 DEF ConsumedIsAccounted
  <2>4. CASE adapter = "pubsub"
    <3>1. \A e \in Events : lease[e] = "acked" => Settled(e)
      BY <2>4 DEF IngestionInv, PubSubOK
    <3>2. \A s : PubSub!ToSet(s) = ToSet(s)
      BY DEF PubSub!ToSet, ToSet
    <3>3. PubSub!AckedIsAccounted
      BY <3>1, <3>2, PubSubShares
      DEF PubSub!AckedIsAccounted, PubSub!Acked, Settled, Held
    <3>4. QED
      BY <2>4, <3>3 DEF ConsumedIsAccounted
  <2>5. QED
    BY <2>1, <2>2, <2>3, <2>4
<1>2. QED
  BY <1>1, IngestionStaysConsistent, PTL

\* Because Pub/Sub messages are acknowledged last, a poll that raises on a
\* message loses nothing: everything it had drained will be delivered again.
THEOREM RaisedPollsAreRetried == Spec => RaisingPollIsRetried
<1>1. IngestionInv /\ [Next]_vars =>
         [adapter = "pubsub" /\ PubSub!ProcessMessage => gone' = gone]_vars
  BY PubSubRetries DEF IngestionInv
<1>2. QED
  BY <1>1, IngestionStaysConsistent, PTL DEF Spec, RaisingPollIsRetried

=============================================================================

---------------------------- MODULE EncoderProofs ----------------------------
(***************************************************************************)
(* Proofs about the training of the encoder and its use, for any number of *)
(* workers, runs and epochs, any sample and any batch.                     *)
(* LoaderInv: a window is at one place only, and within an epoch at some   *)
(* place.  EpochsOK: what a file of weights went through, which epoch may  *)
(* follow, and that only epochs not due to be saved are not on disk.       *)
(* FilePaired: a row group holds both views of every corpus row in it.     *)
(* EncodingInv: a row of the batch is the latest history of its entity,    *)
(* and what is computed of it is that row's.                               *)
(***************************************************************************)
EXTENDS MCEncoder, FoldTheorems

-----------------------------------------------------------------------------
(* Division.                                                                *)

\* Every number is a multiple and a remainder.
LEMMA EveryQuotient ==
    ASSUME NEW F \in Nat \ {0}
    PROVE  \A k \in Nat : \E q \in Nat, r \in 0 .. F - 1 : k = F * q + r
<1> DEFINE Divided(k) == \E q \in Nat, r \in 0 .. F - 1 : k = F * q + r
           S == {k \in Nat : Divided(k)}
<1>1. Divided(0)
  <2>1. 0 = F * 0 + 0
    OBVIOUS
  <2>2. QED
    BY <2>1
<1>2. ASSUME NEW k \in Nat, Divided(k)
      PROVE  Divided(k + 1)
  <2>1. PICK q \in Nat, r \in 0 .. F - 1 : k = F * q + r
    BY <1>2
  <2>2. CASE r + 1 < F
    <3>1. k + 1 = F * q + (r + 1) /\ r + 1 \in 0 .. F - 1
      BY <2>1, <2>2
    <3>2. QED
      BY <3>1
  <2>3. CASE r + 1 = F
    <3>1. k + 1 = F * (q + 1) + 0 /\ 0 \in 0 .. F - 1 /\ q + 1 \in Nat
      BY <2>1, <2>3
    <3>2. QED
      BY <3>1
  <2>4. QED
    BY <2>2, <2>3
<1> HIDE DEF Divided
<1>3. 0 \in S /\ \A k \in Nat : k \in S => k + 1 \in S
  BY <1>1, <1>2
<1> HIDE DEF S
<1>4. \A k \in Nat : k \in S
  BY <1>3, EveryNatural
<1>5. QED
  BY <1>4 DEF S, Divided

LEMMA Remainder ==
    ASSUME NEW F \in Nat \ {0}, NEW q \in Nat, NEW r \in 0 .. F - 1
    PROVE  (F * q + r) % F = r /\ (F * q + r) \div F = q
OBVIOUS

LEMMA Multiple == \A F \in Nat \ {0}, q \in Nat : (F * q) % F = 0
OBVIOUS

LEMMA SameMultiple == \A F \in Nat \ {0}, q \in Nat, p \in Nat : F * q = F * p => q = p
OBVIOUS

LEMMA LargerMultiple ==
    \A F \in Nat \ {0}, q \in Nat, p \in Nat :
       /\ q <= p => F * q <= F * p
       /\ q < p => F * q + F <= F * p
OBVIOUS

\* F consecutive numbers hold a multiple of F.
LEMMA MultipleAmong ==
    ASSUME NEW F \in Nat \ {0}, NEW k \in Nat
    PROVE  \E m \in k + 1 .. k + F : m % F = 0
<1>1. PICK q \in Nat, r \in 0 .. F - 1 : k = F * q + r
  BY EveryQuotient
<1>2. F * (q + 1) = F * q + F /\ q + 1 \in Nat
  OBVIOUS
<1>3. F * (q + 1) \in k + 1 .. k + F
  BY <1>1, <1>2
<1>4. (F * (q + 1)) % F = 0
  BY <1>2, Multiple
<1> DEFINE m == F * (q + 1)
<1> HIDE DEF m
<1>5. m \in k + 1 .. k + F /\ m % F = 0
  BY <1>3, <1>4 DEF m
<1>6. QED
  BY <1>5

-----------------------------------------------------------------------------
(* Lists without repetition, and beginnings of lists.                       *)

Once(s) == \A i, j \in 1 .. Len(s) : s[i] = s[j] => i = j

LEMMA OnceCounts ==
    ASSUME NEW E, NEW s \in Seq(E), Once(s)
    PROVE  Cardinality(ToSet(s)) = Len(s)
<1>1. Len(s) \in Nat /\ s \in [1 .. Len(s) -> E]
  BY LenProperties
<1>2. s \in Bijection(1 .. Len(s), ToSet(s))
  BY <1>1 DEF Once, ToSet, Bijection, Injection, Surjection, IsInjective
<1>3. ExistsBijection(1 .. Len(s), ToSet(s))
  BY <1>2 DEF ExistsBijection
<1>4. QED
  BY <1>1, <1>3, FS_CountingElements

LEMMA AppendTo ==
    ASSUME NEW E, NEW s \in Seq(E), NEW x \in E
    PROVE  /\ Append(s, x) \in Seq(E) /\ Len(Append(s, x)) = Len(s) + 1
           /\ ToSet(Append(s, x)) = ToSet(s) \cup {x}
           /\ Once(s) /\ x \notin ToSet(s) => Once(Append(s, x))
<1> DEFINE t == Append(s, x)
<1>1. /\ t \in Seq(E) /\ Len(t) = Len(s) + 1 /\ Len(s) \in Nat
      /\ t[Len(s) + 1] = x
      /\ \A i \in 1 .. Len(s) : t[i] = s[i]
  BY AppendProperties, LenProperties
<1>2. DOMAIN t = 1 .. Len(s) + 1 /\ DOMAIN s = 1 .. Len(s)
  BY <1>1, LenProperties
<1> HIDE DEF t
<1>3. \A y : y \in ToSet(t) <=> \E i \in 1 .. Len(s) + 1 : t[i] = y
  BY <1>2 DEF ToSet
<1>4. \A y : y \in ToSet(s) <=> \E i \in 1 .. Len(s) : s[i] = y
  BY <1>2 DEF ToSet
<1>5. \A i \in 1 .. Len(s) + 1 : i \in 1 .. Len(s) \/ i = Len(s) + 1
  BY <1>1
<1>6. \A i \in 1 .. Len(s) : i \in 1 .. Len(s) + 1
  BY <1>1
<1>7. Len(s) + 1 \in 1 .. Len(s) + 1
  BY <1>1
<1>8. ToSet(t) = ToSet(s) \cup {x}
  BY <1>1, <1>3, <1>4, <1>5, <1>6, <1>7
<1>9. Once(s) /\ x \notin ToSet(s) => Once(t)
  BY <1>1, <1>4, <1>5 DEF Once
<1>10. QED
  BY <1>1, <1>8, <1>9 DEF t

LEMMA OnceCat ==
    ASSUME NEW E, NEW s \in Seq(E), NEW t \in Seq(E), Once(s), Once(t),
           ToSet(s) \cap ToSet(t) = {}
    PROVE  Once(Cat(s, t))
<1> DEFINE n == Len(s)
           m == Len(t)
           u == Cat(s, t)
<1>1. /\ Len(u) = n + m /\ n \in Nat /\ m \in Nat
      /\ \A i \in 1 .. n : u[i] = s[i]
      /\ \A i \in 1 .. m : u[n + i] = t[i]
  <2>1. CatFacts(E, s, t)
    BY CatLaws, Zenon
  <2>2. QED
    BY <2>1 DEF CatFacts
<1>2. DOMAIN s = 1 .. n /\ DOMAIN t = 1 .. m
  BY LenProperties
<1>3. \A i \in 1 .. n, j \in 1 .. m : s[i] # t[j]
  BY <1>2 DEF ToSet
<1>4. /\ \A i, j \in 1 .. n : s[i] = s[j] => i = j
      /\ \A i, j \in 1 .. m : t[i] = t[j] => i = j
  BY DEF Once
<1> HIDE DEF n, m, u
<1>5. ASSUME NEW i \in 1 .. n + m, i > n
      PROVE  i - n \in 1 .. m /\ u[i] = t[i - n]
  <2>1. i - n \in 1 .. m /\ n + (i - n) = i
    BY <1>1, <1>5
  <2>2. u[n + (i - n)] = t[i - n]
    BY <1>1, <2>1
  <2>3. QED
    BY <2>1, <2>2
<1>6. ASSUME NEW i \in 1 .. n + m, NEW j \in 1 .. n + m, u[i] = u[j]
      PROVE  i = j
  <2>1. CASE i <= n /\ j <= n
    BY <1>1, <1>4, <1>6, <2>1
  <2>2. CASE i <= n /\ j > n
    <3>1. i \in 1 .. n /\ u[i] = s[i]
      BY <1>1, <2>2
    <3>2. j - n \in 1 .. m /\ u[j] = t[j - n]
      BY <1>5, <2>2
    <3>3. QED
      BY <1>3, <1>6, <3>1, <3>2
  <2>3. CASE i > n /\ j <= n
    <3>1. j \in 1 .. n /\ u[j] = s[j]
      BY <1>1, <2>3
    <3>2. i - n \in 1 .. m /\ u[i] = t[i - n]
      BY <1>5, <2>3
    <3>3. QED
      BY <1>3, <1>6, <3>1, <3>2
  <2>4. CASE i > n /\ j > n
    <3>1. i - n \in 1 .. m /\ u[i] = t[i - n]
      BY <1>5, <2>4
    <3>2. j - n \in 1 .. m /\ u[j] = t[j - n]
      BY <1>5, <2>4
    <3>3. i - n = j - n
      BY <1>4, <1>6, <3>1, <3>2
    <3>4. QED
      BY <1>1, <3>3
  <2>5. QED
    BY <1>1, <2>1, <2>2, <2>3, <2>4
<1>7. QED
  BY <1>1, <1>6 DEF Once, u

LEMMA OnceTail ==
    ASSUME NEW E, NEW s \in Seq(E), s # <<>>
    PROVE  /\ Head(s) \in E /\ Tail(s) \in Seq(E)
           /\ ToSet(s) = ToSet(Tail(s)) \cup {Head(s)}
           /\ Once(s) => Once(Tail(s)) /\ Head(s) \notin ToSet(Tail(s))
<1> DEFINE t == Tail(s)
           n == Len(s)
<1>1. /\ Head(s) \in E /\ t \in Seq(E) /\ Len(t) = n - 1
      /\ n \in Nat \ {0}
      /\ \A i \in 1 .. Len(t) : t[i] = s[i + 1]
      /\ Head(s) = s[1]
  BY HeadTailProperties, EmptySeq
<1>2. DOMAIN t = 1 .. n - 1 /\ DOMAIN s = 1 .. n
  BY <1>1, LenProperties
<1> HIDE DEF t, n
<1>3. \A y : y \in ToSet(t) <=> \E i \in 1 .. n - 1 : t[i] = y
  BY <1>2 DEF ToSet
<1>4. \A y : y \in ToSet(s) <=> \E i \in 1 .. n : s[i] = y
  BY <1>2 DEF ToSet
<1>5. \A i \in 1 .. n - 1 : i + 1 \in 1 .. n /\ t[i] = s[i + 1]
  BY <1>1
<1>6. \A i \in 1 .. n : i # 1 => i - 1 \in 1 .. n - 1 /\ t[i - 1] = s[i]
  <2>1. ASSUME NEW i \in 1 .. n, i # 1
        PROVE  i - 1 \in 1 .. n - 1 /\ t[i - 1] = s[i]
    <3>1. i - 1 \in 1 .. n - 1 /\ (i - 1) + 1 = i
      BY <1>1, <2>1
    <3>2. t[i - 1] = s[(i - 1) + 1]
      BY <1>5, <3>1
    <3>3. QED
      BY <3>1, <3>2
  <2>2. QED
    BY <2>1
<1>7. 1 \in 1 .. n
  BY <1>1
<1>8. \A y : y \in ToSet(s) <=> y \in ToSet(t) \/ y = s[1]
  BY <1>3, <1>4, <1>5, <1>6, <1>7
<1>9. Once(s) => Once(t)
  BY <1>1, <1>5 DEF Once, n
<1>10. Once(s) => s[1] \notin ToSet(t)
  BY <1>1, <1>3, <1>5, <1>7 DEF Once, n
<1>11. QED
  BY <1>1, <1>8, <1>9, <1>10 DEF t

LEMMA PrefixOf ==
    ASSUME NEW E, NEW s \in Seq(E), NEW t \in Seq(E)
    PROVE  IsPrefix(s, t) <=> Len(s) <= Len(t) /\ \A i \in 1 .. Len(s) : s[i] = t[i]
<1>1. /\ Len(s) \in Nat /\ Len(t) \in Nat
      /\ \A i \in 1 .. Len(s) : s[i] \in E
      /\ \A i \in 1 .. Len(t) : t[i] \in E
  BY LenProperties, ElementOfSeq
<1>2. SUFFICES ASSUME Len(s) <= Len(t)
               PROVE  SubSeq(s, 1, Len(s)) = SubSeq(t, 1, Len(s))
                         <=> \A i \in 1 .. Len(s) : s[i] = t[i]
  BY DEF IsPrefix
<1> DEFINE n == Len(s)
           a == SubSeq(s, 1, n)
           b == SubSeq(t, 1, n)
<1>3. n \in Nat /\ n - 1 + 1 = n /\ 0 <= n /\ (1 <= n \/ n = 0)
  BY <1>1
<1>4. a \in Seq(E) /\ Len(a) = n /\ \A i \in 1 .. n : a[i] = s[i]
  BY <1>1, <1>3, SubSeqProperties
<1>5. \A i \in 1 .. n : t[i] \in E
  BY <1>1, <1>2
<1>6. b \in Seq(E) /\ Len(b) = n /\ \A i \in 1 .. n : b[i] = t[i]
  BY <1>1, <1>3, <1>5, SubSeqProperties
<1> HIDE DEF a, b, n
<1>7. (\A i \in 1 .. n : a[i] = b[i]) => a = b
  BY <1>4, <1>6, SeqEqual
<1>8. QED
  BY <1>4, <1>6, <1>7 DEF a, b, n

-----------------------------------------------------------------------------
(* The DataLoader workers.                                                  *)

FileOK == \E S : file \in Seq(S)

Owner(g) == (g - 1) % NumWorkers

LEMMA FileIsList ==
    ASSUME FileOK
    PROVE  Len(file) \in Nat /\ DOMAIN file = 1 .. Len(file)
<1>1. PICK S : file \in Seq(S)
  BY DEF FileOK
<1>2. QED
  BY <1>1, LenProperties

LEMMA Numbers ==
    /\ NumWorkers \in Nat \ {0} /\ BatchSize \in Nat \ {0} /\ CheckpointFreq \in Nat \ {0}
    /\ MaxEpochs \in Nat \ {0} /\ MaxRuns \in Nat \ {0}
BY TrainingAssumption DEF TrainingAssumption

LEMMA Sizes ==
    /\ SeqLen \in Nat \ {0} /\ ForwardSize \in Nat \ {0}
    /\ NList \in Nat \ {0} /\ MinTrainPoints \in Nat \ {0}
BY FeatureAssumption, EncodingAssumption DEF FeatureAssumption, EncodingAssumption

\* Who has been given a row group.
LEMMA ShardSplits ==
    ASSUME FileOK, NEW w \in Workers
    PROVE  /\ Shard(w) \in Seq(1 .. Len(file)) /\ Once(Shard(w))
           /\ \A g \in 1 .. Len(file) : g \in ToSet(Shard(w)) <=> Owner(g) = w
<1> DEFINE N == NumWorkers
           n == Len(file)
           x == n - w + N - 1
<1>1. /\ N \in Nat \ {0} /\ n \in Nat /\ w \in 0 .. N - 1 /\ w \in Nat
      /\ x \in Nat /\ n = x + w + 1 - N
  <2>1. N \in Nat \ {0} /\ n \in Nat
    BY Numbers, FileIsList
  <2>2. w \in 0 .. N - 1
    BY DEF Workers
  <2> HIDE DEF N, n
  <2>3. QED
    BY <2>1, <2>2
<1>2. PICK q \in Nat, r \in 0 .. N - 1 : x = N * q + r
  BY <1>1, EveryQuotient
<1>3. x \div N = q
  BY <1>1, <1>2, Remainder
<1>4. Shard(w) = [i \in 1 .. q |-> w + 1 + (i - 1) * N]
  BY <1>3 DEF Shard
<1>5. ASSUME NEW i \in 1 .. q
      PROVE  /\ i - 1 \in Nat /\ Shard(w)[i] = N * (i - 1) + w + 1
             /\ Shard(w)[i] \in 1 .. n /\ Owner(Shard(w)[i]) = w
  <2>1. i - 1 \in Nat /\ N * (i - 1) = (i - 1) * N /\ N * (i - 1) \in Nat
    BY <1>1, <1>2
  <2>2. N * (i - 1) + N <= N * q
    BY <1>1, <1>2, <2>1, LargerMultiple
  <2> DEFINE a == N * (i - 1)
  <2>3. (a + w) % N = w
    BY <1>1, <2>1, Remainder
  <2>4. Shard(w)[i] = a + w + 1
    BY <1>1, <1>4, <2>1
  <2> DEFINE b == N * q
  <2>5. b \in Nat /\ x = b + r /\ a + N <= b
    BY <1>1, <1>2, <2>2
  <2> HIDE DEF a, b
  <2>6. a + w + 1 \in 1 .. n /\ (a + w + 1) - 1 = a + w
    BY <1>1, <2>1, <2>5 DEF a
  <2>7. QED
    BY <2>1, <2>3, <2>4, <2>6 DEF Owner, a
<1>6. Shard(w) \in Seq(1 .. n) /\ Len(Shard(w)) = q /\ DOMAIN Shard(w) = 1 .. q
  BY <1>2, <1>4, <1>5
<1>7. Once(Shard(w))
  <2>1. ASSUME NEW i \in 1 .. q, NEW j \in 1 .. q, Shard(w)[i] = Shard(w)[j]
        PROVE  i = j
    <3>1. i - 1 \in Nat /\ j - 1 \in Nat
      BY <1>5
    <3>2. N * (i - 1) + w + 1 = N * (j - 1) + w + 1
      BY <1>5, <2>1
    <3>3. N * (i - 1) = N * (j - 1)
      BY <1>1, <3>1, <3>2
    <3>4. i - 1 = j - 1
      BY <1>1, <3>1, <3>3, SameMultiple
    <3>5. QED
      BY <3>4
  <2>2. QED
    BY <1>6, <2>1 DEF Once
<1>8. ASSUME NEW g \in 1 .. n, Owner(g) = w
      PROVE  \E i \in 1 .. q : Shard(w)[i] = g
  <2> DEFINE h == g - 1
  <2>1. h \in Nat /\ h % N = w
    BY <1>1, <1>8 DEF Owner
  <2> HIDE DEF h
  <2>2. PICK p \in Nat, s \in 0 .. N - 1 : h = N * p + s
    BY <1>1, <2>1, EveryQuotient
  <2>3. s = w
    <3>1. (N * p + s) % N = s
      BY <1>1, Remainder
    <3>2. QED
      BY <2>1, <2>2, <3>1
  <2> USE DEF h
  <2>4. p + 1 <= q
    <3>1. SUFFICES ASSUME q < p + 1
                   PROVE  FALSE
      BY <1>2
    <3>2. N * q + N <= N * (p + 1) /\ N * (p + 1) = N * p + N
      BY <1>1, <1>2, <2>2, <3>1, LargerMultiple
    <3> DEFINE a == N * p
               b == N * q
    <3>3. a \in Nat /\ b \in Nat /\ b + N <= a + N /\ g - 1 = a + w /\ x = b + r
      BY <1>1, <1>2, <2>2, <2>3, <3>2
    <3> HIDE DEF a, b
    <3>4. QED
      BY <1>1, <3>3
  <2>5. p + 1 \in 1 .. q /\ (p + 1) - 1 = p
    BY <2>2, <2>4
  <2>6. Shard(w)[p + 1] = N * p + w + 1
    BY <1>5, <2>5
  <2>7. Shard(w)[p + 1] = g
    BY <1>1, <2>2, <2>3, <2>6
  <2>8. QED
    BY <2>5, <2>7
<1>9. \A g : g \in ToSet(Shard(w)) <=> \E i \in 1 .. q : Shard(w)[i] = g
  BY <1>6 DEF ToSet
<1>10. QED
  BY <1>5, <1>6, <1>7, <1>8, <1>9

LEMMA OwnersWork ==
    ASSUME FileOK, NEW g \in 1 .. Len(file)
    PROVE  Owner(g) \in Workers
<1>1. g - 1 \in Nat /\ NumWorkers \in Nat \ {0}
  BY FileIsList, Numbers
<1>2. QED
  BY <1>1 DEF Owner, Workers

LEMMA GroupOfWindow ==
    ASSUME NEW g
    PROVE  \A x \in WindowsOf(g) : x.group = g
<1> DEFINE of(view) == {r.entity : r \in {s \in ToSet(file[g]) : s.view = view}}
           common == of("a") \cap of("b")
           rows(e) == Min({Cardinality(PositionsIn(file[g], v, e)) : v \in {"a", "b"}})
           starts(e) == {k \in 0 .. rows(e) - SeqLen : k % Stride = 0}
           all == UNION {{[group |-> g, entity |-> e, start |-> k] : k \in starts(e)} : e \in common}
<1>1. WindowsOf(g) = all
  BY DEF WindowsOf
<1> HIDE DEF of, common, rows, starts
<1>2. \A x \in all : x.group = g
  OBVIOUS
<1>3. QED
  BY <1>1, <1>2

LEMMA WindowsBelong ==
    /\ \A g : \A x \in WindowsOf(g) : x.group = g
    /\ \A g \in DOMAIN file : WindowsOf(g) \subseteq AllWindows
    /\ \A x \in AllWindows : x.group \in DOMAIN file /\ x \in WindowsOf(x.group)
BY GroupOfWindow DEF AllWindows

Trained == ToSet(FlattenSeq(batches))

LoaderTypes ==
    /\ groups \in [Workers -> Seq(DOMAIN file)]
    /\ windows \in [Workers -> SUBSET AllWindows]
    /\ partial \in [Workers -> Seq(AllWindows)]
    /\ batches \in Seq(Seq(AllWindows))

\* Nothing is given out or yielded twice.
NothingTwice ==
    /\ Once(FlattenSeq(batches))
    /\ \A w \in Workers :
          /\ Once(groups[w]) /\ Once(partial[w]) /\ Len(partial[w]) < BatchSize
          /\ \A g \in ToSet(groups[w]) : Owner(g) = w
          /\ \A x \in windows[w] \cup ToSet(partial[w]) : Owner(x.group) = w

\* A window is at one place: trained on, in an unfinished batch, still to be
\* yielded, or in a row group still to be read.
OnePlace ==
    \A w \in Workers :
       /\ \A x \in windows[w] : x.group \notin ToSet(groups[w])
       /\ \A x \in ToSet(partial[w]) : x \notin windows[w] /\ x.group \notin ToSet(groups[w])
       /\ \A x \in Trained :
             x \notin windows[w] /\ x \notin ToSet(partial[w]) /\ x.group \notin ToSet(groups[w])

\* ... and, within an epoch, at some place.
SomePlace ==
    job = "epoch" =>
       \A g \in DOMAIN file : \A x \in WindowsOf(g) :
          \/ g \in ToSet(groups[Owner(g)])
          \/ x \in windows[Owner(g)] \cup ToSet(partial[Owner(g)]) \cup Trained

\* Before the file is closed there is no loader.
NoLoaderYet ==
    job = "augment" =>
       /\ groups = [w \in Workers |-> <<>>] /\ windows = [w \in Workers |-> {}]
       /\ partial = [w \in Workers |-> <<>>] /\ batches = <<>>

LoaderInv ==
    FileOK /\ LoaderTypes /\ NothingTwice /\ OnePlace /\ SomePlace /\ NoLoaderYet

LEMMA NothingOnce ==
    Once(<<>>) /\ ToSet(<<>>) = {} /\ \A E : <<>> \in Seq(E)
<1>1. Once(<<>>)
  BY DEF Once
<1>2. ToSet(<<>>) = {}
  BY DEF ToSet
<1>3. QED
  BY <1>1, <1>2

\* An empty loader.
LoaderEmpty ==
    /\ job # "epoch"
    /\ groups = [w \in Workers |-> <<>>] /\ windows = [w \in Workers |-> {}]
    /\ partial = [w \in Workers |-> <<>>] /\ batches = <<>>

LEMMA EmptyLoader == FileOK /\ LoaderEmpty => LoaderInv
<1> SUFFICES ASSUME FileOK, LoaderEmpty
             PROVE  LoaderInv
  OBVIOUS
<1> USE DEF LoaderEmpty
<1>1. FlattenSeq(<<>>) = <<>>
  BY DEF FlattenSeq
<1>2. Once(FlattenSeq(batches)) /\ Trained = {} /\ batches \in Seq(Seq(AllWindows))
  BY <1>1, NothingOnce DEF Trained
<1>3. LoaderTypes
  BY <1>2, NothingOnce DEF LoaderTypes
<1> DEFINE nil == <<>>
<1>4. nil = <<>> /\ Once(nil) /\ ToSet(nil) = {} /\ Len(nil) = 0
  BY NothingOnce
<1>5. \A w \in Workers : groups[w] = nil /\ windows[w] = {} /\ partial[w] = nil
  BY <1>4
<1> HIDE DEF nil
<1>6. NothingTwice
  BY <1>2, <1>4, <1>5, Numbers DEF NothingTwice
<1>7. OnePlace
  BY <1>2, <1>4, <1>5 DEF OnePlace
<1>8. QED
  BY <1>3, <1>6, <1>7 DEF LoaderInv, SomePlace, NoLoaderYet

\* A new loader.
LoaderFresh ==
    /\ job # "augment"
    /\ groups = [w \in Workers |-> Shard(w)] /\ windows = [w \in Workers |-> {}]
    /\ partial = [w \in Workers |-> <<>>] /\ batches = <<>>

LEMMA FreshLoader == FileOK /\ LoaderFresh => LoaderInv
<1> SUFFICES ASSUME FileOK, LoaderFresh
             PROVE  LoaderInv
  OBVIOUS
<1> USE DEF LoaderFresh
<1>1. FlattenSeq(<<>>) = <<>>
  BY DEF FlattenSeq
<1>2. Once(FlattenSeq(batches)) /\ Trained = {} /\ batches \in Seq(Seq(AllWindows))
  BY <1>1, NothingOnce DEF Trained
<1> DEFINE nil == <<>>
<1>3. nil = <<>> /\ Once(nil) /\ ToSet(nil) = {} /\ Len(nil) = 0 /\ nil \in Seq(AllWindows)
  BY NothingOnce
<1>4. DOMAIN file = 1 .. Len(file)
  BY FileIsList
<1>5. \A w \in Workers :
         /\ groups[w] = Shard(w) /\ windows[w] = {} /\ partial[w] = nil
         /\ Shard(w) \in Seq(DOMAIN file) /\ Once(Shard(w))
         /\ \A g \in DOMAIN file : g \in ToSet(Shard(w)) <=> Owner(g) = w
  BY <1>3, <1>4, ShardSplits
<1>6. \A w \in Workers : ToSet(groups[w]) \subseteq DOMAIN file
  <2>1. ASSUME NEW w \in Workers
        PROVE  ToSet(groups[w]) \subseteq DOMAIN file
    <3>1. groups[w] \in Seq(DOMAIN file)
      BY <1>5
    <3>2. QED
      BY <3>1, LenProperties, ElementOfSeq DEF ToSet
  <2>2. QED
    BY <2>1
<1> HIDE DEF nil
<1>7. LoaderTypes
  <2>1. groups \in [Workers -> Seq(DOMAIN file)]
    BY <1>5
  <2>2. partial \in [Workers -> Seq(AllWindows)]
    BY <1>3 DEF nil
  <2>3. QED
    BY <1>2, <2>1, <2>2 DEF LoaderTypes
<1>8. NothingTwice
  BY <1>2, <1>3, <1>5, <1>6, Numbers DEF NothingTwice
<1>9. OnePlace
  BY <1>2, <1>3, <1>5 DEF OnePlace
<1>10. SomePlace
  BY <1>4, <1>5, OwnersWork DEF SomePlace
<1>11. QED
  BY <1>7, <1>8, <1>9, <1>10 DEF LoaderInv, NoLoaderYet


-----------------------------------------------------------------------------
(* The steps of the loader.                                                 *)

\* The windows of a row group with these rows.
WindowsIn(g, group) ==
    LET of(view) == {r.entity : r \in {s \in ToSet(group) : s.view = view}}
        rows(e) == Min({Cardinality(PositionsIn(group, v, e)) : v \in {"a", "b"}})
        starts(e) == {k \in 0 .. rows(e) - SeqLen : k % Stride = 0}
    IN  UNION {{[group |-> g, entity |-> e, start |-> k] : k \in starts(e)} :
               e \in of("a") \cap of("b")}

LEMMA WindowsAreOfRows == \A g : WindowsOf(g) = WindowsIn(g, file[g])
BY DEF WindowsOf, WindowsIn

\* Without a change of the file its windows stay what they are.
LEMMA FileStays ==
    ASSUME UNCHANGED file, FileOK
    PROVE  FileOK' /\ AllWindows' = AllWindows /\ \A g : WindowsOf(g)' = WindowsOf(g)
<1>1. (\A g : WindowsOf(g) = WindowsIn(g, file[g]))'
  BY WindowsAreOfRows, PTL
<1>2. \A g : WindowsOf(g)' = WindowsOf(g)
  BY <1>1, WindowsAreOfRows
<1>3. QED
  BY <1>2 DEF FileOK, AllWindows

\* The loader stays as it is while the job goes on to what is no epoch.
LEMMA LoaderStays ==
    ASSUME LoaderInv, UNCHANGED <<file, loaderVars>>, job' # "augment",
           job' = job \/ job' # "epoch"
    PROVE  LoaderInv'
<1>1. FileOK' /\ AllWindows' = AllWindows /\ \A g : WindowsOf(g)' = WindowsOf(g)
  BY FileStays DEF LoaderInv
<1>2. UNCHANGED <<groups, windows, partial, batches, file>>
  BY DEF loaderVars
<1>3. LoaderTypes'
  BY <1>1, <1>2 DEF LoaderInv, LoaderTypes
<1>4. NothingTwice'
  BY <1>2 DEF LoaderInv, NothingTwice
<1>5. OnePlace'
  BY <1>2 DEF LoaderInv, OnePlace, Trained
<1>6. SomePlace'
  BY <1>1, <1>2 DEF LoaderInv, SomePlace, Trained
<1>7. QED
  BY <1>1, <1>3, <1>4, <1>5, <1>6 DEF LoaderInv, NoLoaderYet

LEMMA WritingChunk ==
    ASSUME LoaderInv, WriteChunk
    PROVE  LoaderInv'
<1>1. FileOK'
  <2>1. PICK S : file \in Seq(S)
    BY DEF LoaderInv, FileOK
  <2>2. PICK x : file' = Append(file, x)
    BY DEF WriteChunk
  <2>3. file \in Seq(S \cup {x}) /\ x \in S \cup {x}
    BY <2>1, SeqDef
  <2>4. file' \in Seq(S \cup {x})
    BY <2>2, <2>3, AppendProperties
  <2>5. QED
    BY <2>4 DEF FileOK
<1>2. LoaderEmpty'
  BY DEF WriteChunk, LoaderInv, NoLoaderYet, LoaderEmpty, loaderVars
<1>3. QED
  BY <1>1, <1>2, EmptyLoader, PTL

\* A new epoch starts with a new loader.
LEMMA Beginning ==
    ASSUME LoaderInv, NEW n, BeginEpoch(n), UNCHANGED file
    PROVE  LoaderInv'
<1>1. FileOK'
  BY FileStays DEF LoaderInv
<1>2. LoaderFresh'
  BY DEF BeginEpoch, LoaderFresh, Shard
<1>3. QED
  BY <1>1, <1>2, FreshLoader, PTL

\* A worker that has yielded all windows of a row group reads the next one.
LEMMA Reading ==
    ASSUME LoaderInv, NEW w \in Workers, ReadRowGroup(w)
    PROVE  LoaderInv'
<1> DEFINE D == DOMAIN file
           g == Head(groups[w])
           rest == Tail(groups[w])
<1>1. /\ UNCHANGED <<file, job, partial, batches>> /\ job = "epoch"
      /\ windows[w] = {} /\ groups[w] # <<>>
      /\ windows' = [windows EXCEPT ![w] = WindowsOf(g)]
      /\ groups' = [groups EXCEPT ![w] = rest]
  BY DEF ReadRowGroup, fileVars
<1>2. FileOK' /\ AllWindows' = AllWindows /\ \A h : WindowsOf(h)' = WindowsOf(h)
  BY <1>1, FileStays DEF LoaderInv
<1>3. groups[w] \in Seq(D) /\ Once(groups[w])
  BY DEF LoaderInv, LoaderTypes, NothingTwice
<1>4. /\ g \in D /\ rest \in Seq(D) /\ ToSet(groups[w]) = ToSet(rest) \cup {g}
      /\ Once(rest) /\ g \notin ToSet(rest)
  BY <1>1, <1>3, OnceTail
<1>5. /\ groups \in [Workers -> Seq(D)] /\ windows \in [Workers -> SUBSET AllWindows]
      /\ WindowsOf(g) \subseteq AllWindows
      /\ \A h : \A x \in WindowsOf(h) : x.group = h
  BY <1>4, WindowsBelong DEF LoaderInv, LoaderTypes
<1>6. /\ windows'[w] = WindowsOf(g) /\ groups'[w] = rest
      /\ \A v \in Workers : v # w => windows'[v] = windows[v] /\ groups'[v] = groups[v]
  BY <1>1, <1>5
<1>7. Trained' = Trained
  BY <1>1 DEF Trained
<1>8. LoaderTypes'
  BY <1>1, <1>2, <1>4, <1>5 DEF LoaderInv, LoaderTypes
<1> HIDE DEF D, g, rest
<1>9. Owner(g) = w
  BY <1>4 DEF LoaderInv, NothingTwice
<1>10. NothingTwice'
  <2>1. ASSUME NEW v \in Workers
        PROVE  /\ Once(groups'[v]) /\ Once(partial[v]) /\ Len(partial[v]) < BatchSize
               /\ \A h \in ToSet(groups'[v]) : Owner(h) = v
               /\ \A x \in windows'[v] \cup ToSet(partial[v]) : Owner(x.group) = v
    <3>1. CASE v = w
      BY <1>4, <1>5, <1>6, <1>9, <3>1 DEF LoaderInv, NothingTwice
    <3>2. CASE v # w
      BY <1>6, <3>2 DEF LoaderInv, NothingTwice
    <3>3. QED
      BY <3>1, <3>2
  <2>2. QED
    BY <1>1, <2>1 DEF LoaderInv, NothingTwice
<1>11. OnePlace'
  <2>1. ASSUME NEW v \in Workers
        PROVE  /\ \A x \in windows'[v] : x.group \notin ToSet(groups'[v])
               /\ \A x \in ToSet(partial[v]) :
                     x \notin windows'[v] /\ x.group \notin ToSet(groups'[v])
               /\ \A x \in Trained : /\ x \notin windows'[v] /\ x \notin ToSet(partial[v])
                                     /\ x.group \notin ToSet(groups'[v])
    <3>1. CASE v = w
      BY <1>4, <1>5, <1>6, <3>1 DEF LoaderInv, OnePlace
    <3>2. CASE v # w
      BY <1>6, <3>2 DEF LoaderInv, OnePlace
    <3>3. QED
      BY <3>1, <3>2
  <2>2. QED
    BY <1>1, <1>7, <2>1 DEF OnePlace
<1>12. SomePlace'
  <2>1. ASSUME NEW h \in DOMAIN file, NEW x \in WindowsOf(h)
        PROVE  \/ h \in ToSet(groups'[Owner(h)])
               \/ x \in windows'[Owner(h)] \cup ToSet(partial[Owner(h)]) \cup Trained
    <3> DEFINE o == Owner(h)
    <3>1. o \in Workers
      BY FileIsList, OwnersWork DEF LoaderInv
    <3>2. h \in ToSet(groups[o]) \/ x \in windows[o] \cup ToSet(partial[o]) \cup Trained
      BY <1>1 DEF LoaderInv, SomePlace
    <3> HIDE DEF o
    <3>3. CASE o # w
      BY <1>6, <3>1, <3>2, <3>3 DEF o
    <3>4. CASE o = w /\ h = g
      BY <1>6, <3>4 DEF o
    <3>5. CASE o = w /\ h # g
      BY <1>1, <1>4, <1>6, <3>2, <3>5 DEF o
    <3>6. QED
      BY <3>3, <3>4, <3>5
  <2>2. QED
    BY <1>1, <1>2, <1>7, <2>1 DEF SomePlace
<1>13. QED
  BY <1>1, <1>2, <1>8, <1>10, <1>11, <1>12 DEF LoaderInv, NoLoaderYet

\* A window yielded joins the worker's batch, or completes it.
LEMMA Yielding ==
    ASSUME LoaderInv, NEW w \in Workers, TakeWindow(w)
    PROVE  LoaderInv'
<1>1. PICK x \in windows[w] :
         /\ windows' = [windows EXCEPT ![w] = @ \ {x}]
         /\ LET batch == Append(partial[w], x)
            IN  IF Len(batch) < BatchSize
                THEN /\ partial' = [partial EXCEPT ![w] = batch]
                     /\ batches' = batches
                ELSE /\ partial' = [partial EXCEPT ![w] = <<>>]
                     /\ batches' = Append(batches, batch)
  BY DEF TakeWindow
<1>2. UNCHANGED <<file, job, groups>> /\ job = "epoch"
  BY DEF TakeWindow, fileVars
<1>3. FileOK' /\ AllWindows' = AllWindows /\ \A h : WindowsOf(h)' = WindowsOf(h)
  BY <1>2, FileStays DEF LoaderInv
<1> DEFINE W == AllWindows
           batch == Append(partial[w], x)
           flat == FlattenSeq(batches)
<1>4. /\ groups \in [Workers -> Seq(DOMAIN file)]
      /\ windows \in [Workers -> SUBSET W]
      /\ partial \in [Workers -> Seq(W)]
      /\ batches \in Seq(Seq(W))
      /\ x \in W /\ partial[w] \in Seq(W)
  BY DEF LoaderInv, LoaderTypes
<1>5. /\ Owner(x.group) = w /\ x.group \notin ToSet(groups[w])
      /\ x \notin ToSet(partial[w]) /\ x \notin Trained
      /\ Once(flat) /\ Once(partial[w]) /\ Trained = ToSet(flat)
      /\ \A y \in ToSet(partial[w]) : y \notin Trained
      /\ \A y \in ToSet(partial[w]) : Owner(y.group) = w /\ y.group \notin ToSet(groups[w])
  BY DEF LoaderInv, NothingTwice, OnePlace, Trained
<1>6. /\ batch \in Seq(W) /\ ToSet(batch) = ToSet(partial[w]) \cup {x} /\ Once(batch)
  BY <1>4, <1>5, AppendTo
<1> HIDE DEF batch, W, flat
<1>7. /\ windows'[w] = windows[w] \ {x}
      /\ windows' \in [Workers -> SUBSET W]
      /\ \A v \in Workers : v # w => windows'[v] = windows[v]
  BY <1>1, <1>4
\* A window of another worker's is not this one.
<1>8. \A v \in Workers : v # w => /\ x \notin windows[v] /\ x \notin ToSet(partial[v])
                                  /\ x.group \notin ToSet(groups[v])
  BY <1>5 DEF LoaderInv, NothingTwice
<1>9. CASE Len(batch) < BatchSize
  <2>1. /\ partial' = [partial EXCEPT ![w] = batch] /\ batches' = batches
    BY <1>1, <1>9 DEF batch
  <2>2. /\ partial'[w] = batch /\ partial' \in [Workers -> Seq(W)]
        /\ \A v \in Workers : v # w => partial'[v] = partial[v]
        /\ Trained' = Trained
    BY <1>4, <1>6, <2>1 DEF Trained
  <2>3. LoaderTypes'
    BY <1>2, <1>3, <1>4, <1>7, <2>1, <2>2 DEF LoaderTypes, W
  <2>4. NothingTwice'
    <3>1. ASSUME NEW v \in Workers
          PROVE  /\ Once(groups[v]) /\ Once(partial'[v]) /\ Len(partial'[v]) < BatchSize
                 /\ \A h \in ToSet(groups[v]) : Owner(h) = v
                 /\ \A y \in windows'[v] \cup ToSet(partial'[v]) : Owner(y.group) = v
      <4>1. CASE v = w
        BY <1>5, <1>6, <1>7, <1>9, <2>2, <4>1 DEF LoaderInv, NothingTwice
      <4>2. CASE v # w
        BY <1>7, <2>2, <4>2 DEF LoaderInv, NothingTwice
      <4>3. QED
        BY <4>1, <4>2
    <3>2. QED
      BY <1>2, <1>5, <2>1, <3>1 DEF NothingTwice, flat
  <2>5. OnePlace'
    <3>1. ASSUME NEW v \in Workers
          PROVE  /\ \A y \in windows'[v] : y.group \notin ToSet(groups[v])
                 /\ \A y \in ToSet(partial'[v]) :
                       y \notin windows'[v] /\ y.group \notin ToSet(groups[v])
                 /\ \A y \in Trained : /\ y \notin windows'[v] /\ y \notin ToSet(partial'[v])
                                       /\ y.group \notin ToSet(groups[v])
      <4>1. CASE v = w
        BY <1>5, <1>6, <1>7, <2>2, <4>1 DEF LoaderInv, OnePlace
      <4>2. CASE v # w
        BY <1>7, <2>2, <4>2 DEF LoaderInv, OnePlace
      <4>3. QED
        BY <4>1, <4>2
    <3>2. QED
      BY <1>2, <2>2, <3>1 DEF OnePlace
  <2>6. SomePlace'
    <3>1. ASSUME NEW h \in DOMAIN file, NEW y \in WindowsOf(h)
          PROVE  \/ h \in ToSet(groups[Owner(h)])
                 \/ y \in windows'[Owner(h)] \cup ToSet(partial'[Owner(h)]) \cup Trained
      <4> DEFINE o == Owner(h)
      <4>1. o \in Workers
        BY FileIsList, OwnersWork DEF LoaderInv
      <4>2. h \in ToSet(groups[o]) \/ y \in windows[o] \cup ToSet(partial[o]) \cup Trained
        BY <1>2 DEF LoaderInv, SomePlace
      <4> HIDE DEF o
      <4>3. CASE o # w
        BY <1>7, <2>2, <4>1, <4>2, <4>3 DEF o
      <4>4. CASE o = w
        BY <1>6, <1>7, <2>2, <4>2, <4>4 DEF o
      <4>5. QED
        BY <4>3, <4>4
    <3>2. QED
      BY <1>2, <1>3, <2>2, <3>1 DEF SomePlace
  <2>7. QED
    BY <1>2, <1>3, <2>3, <2>4, <2>5, <2>6 DEF LoaderInv, NoLoaderYet
<1>10. CASE ~(Len(batch) < BatchSize)
  <2> DEFINE nil == <<>>
             one == <<batch>>
  <2>1. partial' = [partial EXCEPT ![w] = nil] /\ batches' = Append(batches, batch)
    BY <1>1, <1>10 DEF batch
  <2>2. Once(nil) /\ ToSet(nil) = {} /\ nil \in Seq(W) /\ Len(nil) = 0
    BY NothingOnce
  <2> HIDE DEF nil
  <2>3. /\ partial'[w] = nil /\ partial' \in [Workers -> Seq(W)]
        /\ \A v \in Workers : v # w => partial'[v] = partial[v]
    BY <1>4, <2>1, <2>2
  <2>4. batches' \in Seq(Seq(W))
    BY <1>4, <1>6, <2>1, AppendProperties
  <2>5. flat \in Seq(W) /\ FlattenSeq(batches') = Cat(flat, batch)
    <3> DEFINE F == Seq(W)
    <3>1. batches \in Seq(F) /\ batch \in F
      BY <1>4, <1>6
    <3>2. one \in Seq(F) /\ Append(batches, batch) = Cat(batches, one)
      <4> HIDE DEF F
      <4>1. one \in Seq(F)
        BY <3>1
      <4>2. QED
        BY <3>1, <4>1, AppendIsConcat DEF Cat
    <3> HIDE DEF one
    <3>3. flat \in Seq(W) /\ FlattenSeq(Cat(batches, one)) = Cat(FlattenSeq(batches), FlattenSeq(one))
      BY <3>1, <3>2, FlattenConcat DEF flat
    <3>4. FlattenSeq(one) = batch
      BY <1>6, FlattenFew DEF one
    <3>5. QED
      BY <2>1, <3>2, <3>3, <3>4 DEF flat
  <2>6. Once(FlattenSeq(batches'))
    BY <1>5, <1>6, <2>5, OnceCat
  <2>7. Trained' = Trained \cup ToSet(partial[w]) \cup {x}
    BY <1>5, <1>6, <2>5, ToSetCat DEF Trained
  <2>8. LoaderTypes'
    BY <1>2, <1>3, <1>4, <1>7, <2>3, <2>4 DEF LoaderTypes, W
  <2>9. NothingTwice'
    <3>1. ASSUME NEW v \in Workers
          PROVE  /\ Once(groups[v]) /\ Once(partial'[v]) /\ Len(partial'[v]) < BatchSize
                 /\ \A h \in ToSet(groups[v]) : Owner(h) = v
                 /\ \A y \in windows'[v] \cup ToSet(partial'[v]) : Owner(y.group) = v
      <4>1. CASE v = w
        BY <1>7, <2>2, <2>3, <4>1, Numbers DEF LoaderInv, NothingTwice
      <4>2. CASE v # w
        BY <1>7, <2>3, <4>2 DEF LoaderInv, NothingTwice
      <4>3. QED
        BY <4>1, <4>2
    <3>2. QED
      BY <1>2, <2>6, <3>1 DEF NothingTwice
  <2>10. OnePlace'
    <3>1. ASSUME NEW v \in Workers
          PROVE  /\ \A y \in windows'[v] : y.group \notin ToSet(groups[v])
                 /\ \A y \in ToSet(partial'[v]) :
                       y \notin windows'[v] /\ y.group \notin ToSet(groups[v])
                 /\ \A y \in Trained' : /\ y \notin windows'[v] /\ y \notin ToSet(partial'[v])
                                        /\ y.group \notin ToSet(groups[v])
      <4>1. CASE v = w
        BY <1>5, <1>7, <2>2, <2>3, <2>7, <4>1 DEF LoaderInv, OnePlace
      <4>2. CASE v # w
        <5>1. \A y \in ToSet(partial[w]) : /\ y \notin windows[v] /\ y \notin ToSet(partial[v])
                                           /\ y.group \notin ToSet(groups[v])
          BY <1>5, <4>2 DEF LoaderInv, NothingTwice
        <5>2. QED
          BY <1>7, <1>8, <2>3, <2>7, <4>2, <5>1 DEF LoaderInv, OnePlace
      <4>3. QED
        BY <4>1, <4>2
    <3>2. QED
      BY <1>2, <3>1 DEF OnePlace
  <2>11. SomePlace'
    <3>1. ASSUME NEW h \in DOMAIN file, NEW y \in WindowsOf(h)
          PROVE  \/ h \in ToSet(groups[Owner(h)])
                 \/ y \in windows'[Owner(h)] \cup ToSet(partial'[Owner(h)]) \cup Trained'
      <4> DEFINE o == Owner(h)
      <4>1. o \in Workers
        BY FileIsList, OwnersWork DEF LoaderInv
      <4>2. h \in ToSet(groups[o]) \/ y \in windows[o] \cup ToSet(partial[o]) \cup Trained
        BY <1>2 DEF LoaderInv, SomePlace
      <4> HIDE DEF o
      <4>3. CASE o # w
        BY <1>7, <2>3, <2>7, <4>1, <4>2, <4>3 DEF o
      <4>4. CASE o = w
        BY <1>7, <2>7, <4>2, <4>4 DEF o
      <4>5. QED
        BY <4>3, <4>4
    <3>2. QED
      BY <1>2, <1>3, <3>1 DEF SomePlace
  <2>12. QED
    BY <1>2, <1>3, <2>8, <2>9, <2>10, <2>11 DEF LoaderInv, NoLoaderYet
<1>11. QED
  BY <1>9, <1>10

-----------------------------------------------------------------------------
(* Epochs and checkpoints.                                                  *)

Stages == Seq(Nat \X Nat)

Jobs == {"augment", "down", "epoch", "checkpoint", "final", "saving"}

TrainingTypes ==
    /\ job \in Jobs /\ runs \in Nat /\ epoch \in Nat
    /\ args \in [epochs: 0 .. MaxEpochs, cap: {0, 1}]
    /\ disk \in [1 .. MaxEpochs -> Stages] /\ final \in Stages /\ weights \in Stages

\* No epoch twice and none left out, by runs that have begun.
Sound(ws, r) == Continues(ws) /\ \A i \in 1 .. Len(ws) : ws[i][1] <= r

\* The last epoch these weights went through is epoch n.
Reached(ws, n) == Len(ws) > 0 /\ ws[Len(ws)][2] = n

\* Run r may train these weights through epoch n.
Fits(ws, r, n) ==
    \/ n = 1 /\ (Len(ws) > 0 => ws[Len(ws)][1] < r)
    \/ Reached(ws, n - 1)

\* What a file, and epoch_int, say of the weights.  The final weights are
\* those of the last checkpoint.
EpochsCounted ==
    /\ \A k \in 1 .. MaxEpochs : Readable(disk[k]) => Sound(disk[k], runs) /\ Reached(disk[k], k)
    /\ Readable(final) => Sound(final, runs)
    /\ Sound(weights, runs)
    /\ job = "epoch" => Fits(weights, runs, epoch)
    /\ job = "checkpoint" => Reached(weights, epoch)
    /\ job \in {"epoch", "checkpoint"} => epoch \in 1 .. args.epochs
    /\ job \in {"final", "saving"} =>
          epoch - 1 \in 1 .. MaxEpochs /\ disk[epoch - 1] = weights /\ Readable(weights)

\* A file with the stage of n epochs of these weights.
Holds(saved, ws, n) == Readable(saved) /\ Len(saved) = n /\ IsPrefix(saved, ws)

\* That stage is on disk, as checkpoint k or as the final weights, or is that
\* of new weights.
Found(d, f, ws, n, k) ==
    n = 0 \/ Holds(f, ws, n) \/ (k \in 1 .. MaxEpochs /\ Holds(d[k], ws, n))

\* Of n epochs the last u are not on disk: numbered next - u to next - 1, none
\* of them was due to be saved.
Kept(d, f, ws, n, next) ==
    \E u \in 0 .. n :
       /\ Found(d, f, ws, n - u, next - 1 - u)
       /\ u > 0 => u < next
       /\ \A m \in next - u .. next - 1 : m % CheckpointFreq # 0

\* While a checkpoint is written, its epoch is not on disk yet.
Saved ==
    \/ Kept(disk, final, weights, Len(weights), epoch)
    \/ /\ job \in {"checkpoint", "down"} /\ Len(weights) > 0
       /\ Kept(disk, final, weights, Len(weights) - 1, epoch)

EpochsOK == TrainingTypes /\ EpochsCounted /\ Saved

TrainingInv == LoaderInv /\ EpochsOK

LEMMA SpecialFiles ==
    /\ Absent \in Stages /\ Torn \in Stages /\ Len(Absent) = 0 /\ Absent # Torn
    /\ ~Readable(Absent) /\ ~Readable(Torn) /\ ~Continues(Torn)
    /\ \A r : Sound(Absent, r)
<1>1. <<0, 0>> \in Nat \X Nat
  OBVIOUS
<1>2. Absent \in Stages /\ Torn \in Stages /\ Len(Absent) = 0 /\ Len(Torn) = 1
  BY <1>1 DEF Absent, Torn, Stages
<1>3. Torn[1][2] = 0 /\ 1 \in DOMAIN Torn /\ DOMAIN Absent = {}
  BY DEF Torn, Absent
<1>4. ~Continues(Torn)
  <2>1. ~(Torn[1][2] = 1)
    BY <1>3
  <2>2. QED
    BY <1>3, <2>1 DEF Continues
<1>5. \A r : Sound(Absent, r)
  BY <1>2, <1>3 DEF Sound, Continues
<1>6. QED
  BY <1>2, <1>4, <1>5 DEF Readable

\* Weights that went through an epoch can be told from a file that is not
\* there or not complete.
LEMMA TrainedIsReadable ==
    ASSUME NEW ws, NEW r, Sound(ws, r), Len(ws) > 0
    PROVE  Readable(ws)
<1>1. ws # Absent
  BY SpecialFiles
<1>2. ws # Torn
  BY SpecialFiles, Zenon DEF Sound
<1>3. QED
  BY <1>1, <1>2 DEF Readable

\* The length and the elements of weights.
LEMMA StageIs ==
    ASSUME NEW ws \in Stages
    PROVE  /\ ws \in Seq(Nat \X Nat) /\ Len(ws) \in Nat /\ DOMAIN ws = 1 .. Len(ws)
           /\ \A i \in 1 .. Len(ws) : ws[i][1] \in Nat /\ ws[i][2] \in Nat
<1>1. ws \in Seq(Nat \X Nat)
  BY DEF Stages
<1>2. Len(ws) \in Nat /\ DOMAIN ws = 1 .. Len(ws) /\ \A i \in 1 .. Len(ws) : ws[i] \in Nat \X Nat
  BY <1>1, LenProperties, ElementOfSeq
<1>3. QED
  BY <1>1, <1>2

\* Runs begin, none ends what was sound.
LEMMA StillSound ==
    ASSUME NEW ws \in Stages, NEW r \in Nat, Sound(ws, r)
    PROVE  Sound(ws, r + 1)
<1>1. \A i \in 1 .. Len(ws) : ws[i][1] \in Nat /\ ws[i][1] <= r
  BY StageIs DEF Sound
<1>2. QED
  BY <1>1 DEF Sound

\* One epoch more.
LEMMA OneEpochMore ==
    ASSUME NEW ws \in Stages, NEW r \in Nat, NEW n \in Nat \ {0}, Sound(ws, r), Fits(ws, r, n)
    PROVE  /\ Append(ws, <<r, n>>) \in Stages /\ Len(Append(ws, <<r, n>>)) = Len(ws) + 1
           /\ Sound(Append(ws, <<r, n>>), r) /\ Reached(Append(ws, <<r, n>>), n)
           /\ \A old \in Stages : IsPrefix(old, ws) => IsPrefix(old, Append(ws, <<r, n>>))
<1> DEFINE x == <<r, n>>
           E == Nat \X Nat
           more == Append(ws, x)
           l == Len(ws)
<1>1. x \in E /\ x[1] = r /\ x[2] = n
  OBVIOUS
<1>2. ws \in Seq(E) /\ l \in Nat /\ \A i \in 1 .. l : ws[i][1] \in Nat /\ ws[i][2] \in Nat
  BY StageIs
<1>3. \A i \in 1 .. l : ws[i][1] <= r
  BY DEF Sound
<1>4. \A i \in 1 .. l :
         \/ ws[i][2] = 1 /\ (i > 1 => ws[i - 1][1] < ws[i][1])
         \/ i > 1 /\ ws[i][2] = ws[i - 1][2] + 1 /\ ws[i - 1][1] <= ws[i][1]
  BY StageIs DEF Sound, Continues
<1>5. \/ n = 1 /\ (l > 0 => ws[l][1] < r)
      \/ l > 0 /\ ws[l][2] = n - 1
  BY DEF Fits, Reached
<1> HIDE DEF x, E
<1>6. /\ more \in Seq(E) /\ Len(more) = l + 1 /\ more[l + 1] = x
      /\ \A i \in 1 .. l : more[i] = ws[i]
  BY <1>1, <1>2, AppendProperties
<1>7. DOMAIN more = 1 .. l + 1
  BY <1>6, LenProperties
<1> HIDE DEF more, l
<1>8. \A i \in 1 .. l + 1 : i \in 1 .. l \/ i = l + 1
  BY <1>2
<1>9. ASSUME NEW i \in 1 .. l + 1
      PROVE  \/ more[i][2] = 1 /\ (i > 1 => more[i - 1][1] < more[i][1])
             \/ i > 1 /\ more[i][2] = more[i - 1][2] + 1 /\ more[i - 1][1] <= more[i][1]
  <2>1. CASE i \in 1 .. l
    <3>1. more[i] = ws[i] /\ (i > 1 => more[i - 1] = ws[i - 1])
      BY <1>2, <1>6, <2>1
    <3>2. QED
      BY <1>4, <2>1, <3>1
  <2>2. CASE i = l + 1
    <3>1. more[i][1] = r /\ more[i][2] = n
      BY <1>1, <1>6, <2>2
    <3>2. l > 0 => i > 1 /\ l \in 1 .. l /\ i - 1 = l /\ more[i - 1] = ws[l]
      BY <1>2, <1>6, <2>2
    <3>3. l = 0 => ~(i > 1)
      BY <2>2
    <3>4. l = 0 \/ l > 0
      BY <1>2
    <3>5. CASE n = 1 /\ (l > 0 => ws[l][1] < r)
      BY <3>1, <3>2, <3>3, <3>4, <3>5
    <3>6. CASE l > 0 /\ ws[l][2] = n - 1
      BY <1>2, <1>3, <3>1, <3>2, <3>6
    <3>7. QED
      BY <1>5, <3>5, <3>6
  <2>3. QED
    BY <1>8, <2>1, <2>2
<1>10. Continues(more)
  BY <1>7, <1>9 DEF Continues
<1>11. \A i \in 1 .. l + 1 : more[i][1] <= r
  BY <1>1, <1>3, <1>6, <1>8
<1>12. Sound(more, r)
  BY <1>6, <1>10, <1>11 DEF Sound
<1>13. Reached(more, n)
  BY <1>1, <1>2, <1>6 DEF Reached
<1>14. ASSUME NEW old \in Seq(E), IsPrefix(old, ws)
       PROVE  IsPrefix(old, more)
  <2>1. Len(old) \in Nat /\ Len(old) <= l /\ \A i \in 1 .. Len(old) : old[i] = ws[i]
    BY <1>2, <1>14, PrefixOf, LenProperties DEF l
  <2>2. \A i \in 1 .. Len(old) : i \in 1 .. l
    BY <1>2, <2>1
  <2>3. \A i \in 1 .. Len(old) : old[i] = more[i]
    BY <1>6, <2>1, <2>2
  <2>4. Len(old) <= Len(more)
    BY <1>2, <1>6, <2>1
  <2>5. QED
    BY <1>6, <2>3, <2>4, PrefixOf
<1>15. QED
  BY <1>6, <1>12, <1>13, <1>14 DEF more, x, E, l, Stages

\* Nothing to save, or this very stage saved.
LEMMA KeptJustNow ==
    ASSUME NEW d, NEW f, NEW ws \in Stages, NEW next \in Nat,
           \/ Len(ws) = 0
           \/ Readable(ws) /\ (f = ws \/ (next - 1 \in 1 .. MaxEpochs /\ d[next - 1] = ws))
    PROVE  Kept(d, f, ws, Len(ws), next)
<1> DEFINE n == Len(ws)
<1>1. ws \in Seq(Nat \X Nat) /\ n \in Nat
  BY StageIs
<1>2. IsPrefix(ws, ws)
  BY <1>1, PrefixOf
<1>3. Found(d, f, ws, n, next - 1)
  BY <1>2 DEF Found, Holds
<1> HIDE DEF n
<1>4. Found(d, f, ws, n - 0, next - 1 - 0)
  BY <1>1, <1>3
<1>5. \A m \in next - 0 .. next - 1 : m % CheckpointFreq # 0
  OBVIOUS
<1>6. 0 \in 0 .. n
  BY <1>1
<1>7. Kept(d, f, ws, n, next)
  BY <1>4, <1>5, <1>6 DEF Kept
<1>8. QED
  BY <1>7 DEF n

\* What was saved before an epoch is saved after it.
LEMMA KeptLonger ==
    ASSUME NEW f \in Stages, NEW d \in [1 .. MaxEpochs -> Stages], NEW e,
           NEW ws, NEW more, \A old \in Stages : IsPrefix(old, ws) => IsPrefix(old, more),
           NEW n \in Nat, NEW next \in Nat \ {0}, Kept(d, f, ws, n, next),
           \A k \in 1 .. MaxEpochs : k < next => e[k] = d[k]
    PROVE  /\ Kept(e, f, more, n, next)
           /\ next % CheckpointFreq # 0 => Kept(e, f, more, n + 1, next + 1)
<1>1. PICK u \in 0 .. n :
         /\ Found(d, f, ws, n - u, next - 1 - u)
         /\ u > 0 => u < next
         /\ \A m \in next - u .. next - 1 : m % CheckpointFreq # 0
  BY DEF Kept
<1> DEFINE k == next - 1 - u
<1>2. k < next
  OBVIOUS
<1> HIDE DEF k
<1>3. Found(e, f, more, n - u, k)
  <2>1. Found(d, f, ws, n - u, k)
    BY <1>1 DEF k
  <2>2. QED
    BY <1>2, <2>1, Zenon DEF Found, Holds
<1>4. Kept(e, f, more, n, next)
  BY <1>1, <1>3 DEF Kept, k
<1>5. ASSUME next % CheckpointFreq # 0
      PROVE  Kept(e, f, more, n + 1, next + 1)
  <2> DEFINE v == u + 1
             after == next + 1
  <2>1. v \in 0 .. n + 1 /\ n + 1 - v = n - u /\ after - 1 - v = k /\ v < after
    BY <1>1 DEF k
  <2>2. \A m \in after - v .. after - 1 : m \in next - u .. next - 1 \/ m = next
    OBVIOUS
  <2>3. \A m \in after - v .. after - 1 : m % CheckpointFreq # 0
    BY <1>1, <1>5, <2>2, Zenon
  <2> HIDE DEF v
  <2>4. Found(e, f, more, n + 1 - v, after - 1 - v)
    BY <1>3, <2>1
  <2> HIDE DEF after
  <2>5. Kept(e, f, more, n + 1, after)
    BY <2>1, <2>3, <2>4 DEF Kept
  <2>6. QED
    BY <2>5 DEF after
<1>6. QED
  BY <1>4, <1>5

\* Fewer than CheckpointFreq epochs are not on disk: among as many there is
\* one that was due.
LEMMA FewAreLost ==
    ASSUME NEW d, NEW f, NEW ws, NEW n \in Nat, NEW next \in Nat, Kept(d, f, ws, n, next)
    PROVE  \E u \in 0 .. n : u < CheckpointFreq /\ Found(d, f, ws, n - u, next - 1 - u)
<1>1. PICK u \in 0 .. n :
         /\ Found(d, f, ws, n - u, next - 1 - u)
         /\ u > 0 => u < next
         /\ \A m \in next - u .. next - 1 : m % CheckpointFreq # 0
  BY DEF Kept
<1>2. CheckpointFreq \in Nat \ {0}
  BY Numbers
<1>3. ASSUME ~(u < CheckpointFreq)
      PROVE  FALSE
  <2> DEFINE k == next - u - 1
  <2>1. u >= CheckpointFreq /\ u > 0 /\ k \in Nat
    BY <1>1, <1>2, <1>3
  <2>2. next - u = k + 1 /\ k + CheckpointFreq <= next - 1
    BY <1>2, <2>1
  <2> HIDE DEF k
  <2>3. PICK m \in k + 1 .. k + CheckpointFreq : m % CheckpointFreq = 0
    BY <1>2, <2>1, MultipleAmong
  <2>4. m \in next - u .. next - 1
    BY <1>2, <2>1, <2>2
  <2>5. QED
    BY <1>1, <2>3, <2>4, Zenon
<1>4. QED
  BY <1>1, <1>3

\* Steps of the loader, of the augmentation, and ends of a run.
LEMMA TrainingStays ==
    ASSUME EpochsOK, UNCHANGED <<args, epoch, weights, disk, final, runs>>,
           job' = job \/ job' = "down"
    PROVE  EpochsOK'
<1>1. TrainingTypes'
  BY DEF EpochsOK, TrainingTypes, Jobs
<1>2. EpochsCounted'
  BY DEF EpochsOK, EpochsCounted
<1>3. Saved'
  BY DEF EpochsOK, Saved
<1>4. QED
  BY <1>1, <1>2, <1>3 DEF EpochsOK

\* A run begins with new weights, the final ones or those of checkpoint n.
LEMMA Launching ==
    ASSUME EpochsOK, Launch, NEW n \in Nat, BeginEpoch(n + 1), UNCHANGED <<disk, final>>,
           weights' \in Stages, Sound(weights', runs),
           \/ n = 0 /\ (Len(weights') = 0 \/ (Readable(weights') /\ final = weights'))
           \/ /\ n \in 1 .. MaxEpochs /\ disk[n] = weights'
              /\ Readable(weights') /\ Reached(weights', n)
    PROVE  EpochsOK'
<1>1. args' \in [epochs: 1 .. MaxEpochs, cap: {0, 1}] /\ runs' = runs + 1 /\ runs \in Nat
  BY DEF Launch, EpochsOK, TrainingTypes
<1>2. epoch' = n + 1 /\ job' = IF n + 1 > args'.epochs THEN "final" ELSE "epoch"
  BY DEF BeginEpoch
<1>3. args'.epochs \in 1 .. MaxEpochs
  BY <1>1
<1>4. TrainingTypes'
  BY <1>1, <1>2, Numbers DEF EpochsOK, TrainingTypes, Jobs
<1>5. EpochsCounted'
  <2>1. \A k \in 1 .. MaxEpochs :
           Readable(disk'[k]) => Sound(disk'[k], runs') /\ Reached(disk'[k], k)
    <3> SUFFICES ASSUME NEW k \in 1 .. MaxEpochs, Readable(disk[k])
                 PROVE  Sound(disk[k], runs + 1) /\ Reached(disk[k], k)
      BY <1>1
    <3>1. disk[k] \in Stages /\ Sound(disk[k], runs) /\ Reached(disk[k], k)
      BY DEF EpochsOK, TrainingTypes, EpochsCounted
    <3>2. QED
      BY <1>1, <3>1, StillSound
  <2>2. Readable(final') => Sound(final', runs')
    BY <1>1, StillSound DEF EpochsOK, TrainingTypes, EpochsCounted
  <2>3. Sound(weights', runs')
    BY <1>1, StillSound
  <2>4. job' = "epoch" => Fits(weights', runs', epoch')
    <3>1. CASE n = 0
      <4>1. Len(weights') > 0 => weights'[Len(weights')][1] < runs + 1
        <5> DEFINE l == Len(weights')
        <5>1. l \in Nat /\ \A i \in 1 .. l : weights'[i][1] \in Nat /\ weights'[i][1] <= runs
          BY StageIs DEF Sound
        <5> HIDE DEF l
        <5>2. l > 0 => weights'[l][1] < runs + 1
          BY <1>1, <5>1
        <5>3. QED
          BY <5>2 DEF l
      <4>2. QED
        BY <1>1, <1>2, <3>1, <4>1 DEF Fits
    <3>2. CASE Reached(weights', n)
      <4>1. n + 1 - 1 = n
        OBVIOUS
      <4>2. QED
        BY <1>2, <3>2, <4>1 DEF Fits
    <3>3. QED
      BY <3>1, <3>2
  <2>5. job' \in {"final", "saving"} =>
           /\ epoch' - 1 \in 1 .. MaxEpochs /\ disk'[epoch' - 1] = weights'
           /\ Readable(weights')
    BY <1>2, <1>3, Numbers
  <2>6. job' \in {"epoch", "checkpoint"} => epoch' \in 1 .. args'.epochs
    BY <1>2, <1>3, Numbers
  <2>7. job' # "checkpoint"
    BY <1>2
  <2>8. QED
    BY <2>1, <2>2, <2>3, <2>4, <2>5, <2>6, <2>7 DEF EpochsCounted
<1>6. Saved'
  <2>1. n + 1 \in Nat /\ n + 1 - 1 = n
    OBVIOUS
  <2>2. Kept(disk, final, weights', Len(weights'), n + 1)
    BY <2>1, KeptJustNow
  <2>3. QED
    BY <1>2, <2>2 DEF Saved
<1>7. QED
  BY <1>4, <1>5, <1>6 DEF EpochsOK

LEMMA StartingFresh ==
    ASSUME EpochsOK, Fresh
    PROVE  EpochsOK'
<1>1. weights' = Absent
  BY DEF Fresh, Absent
<1>2. weights' \in Stages /\ Len(weights') = 0 /\ Sound(weights', runs)
  BY <1>1, SpecialFiles
<1>3. BeginEpoch(0 + 1) /\ Launch /\ UNCHANGED <<disk, final>>
  BY DEF Fresh, savedVars
<1>4. QED
  BY <1>2, <1>3, Launching

LEMMA Resuming ==
    ASSUME EpochsOK, Resume
    PROVE  EpochsOK'
<1>1. PICK k \in 1 .. MaxEpochs : Readable(disk[k]) /\ weights' = disk[k] /\ BeginEpoch(k + 1)
  BY DEF Resume, NextEpoch
<1>2. Launch /\ UNCHANGED <<disk, final>>
  BY DEF Resume, savedVars
<1>3. /\ weights' \in Stages /\ Sound(weights', runs) /\ Reached(weights', k) /\ k \in Nat
      /\ Readable(weights') /\ disk[k] = weights'
  BY <1>1, Numbers DEF EpochsOK, TrainingTypes, EpochsCounted
<1>4. QED
  BY <1>1, <1>2, <1>3, Launching

LEMMA ResumingFinal ==
    ASSUME EpochsOK, ResumeFinal
    PROVE  EpochsOK'
<1>1. /\ Readable(final) /\ weights' = final /\ BeginEpoch(0 + 1)
      /\ Launch /\ UNCHANGED <<disk, final>>
  BY DEF ResumeFinal, NextEpoch, savedVars
<1>2. weights' \in Stages /\ Sound(weights', runs) /\ Readable(weights') /\ final = weights'
  BY <1>1 DEF EpochsOK, TrainingTypes, EpochsCounted
<1>3. QED
  BY <1>1, <1>2, Launching

LEMMA EpochTrained ==
    ASSUME EpochsOK, job = "epoch", weights' = Append(weights, <<runs, epoch>>)
    PROVE  /\ weights' \in Stages /\ Len(weights) \in Nat /\ Len(weights') = Len(weights) + 1
           /\ Sound(weights', runs) /\ Reached(weights', epoch)
           /\ epoch \in 1 .. MaxEpochs /\ epoch \in 1 .. args.epochs
           /\ \A old \in Stages : IsPrefix(old, weights) => IsPrefix(old, weights')
<1>1. /\ weights \in Stages /\ runs \in Nat /\ Sound(weights, runs) /\ Fits(weights, runs, epoch)
      /\ epoch \in 1 .. args.epochs /\ args.epochs \in 0 .. MaxEpochs
  BY DEF EpochsOK, TrainingTypes, EpochsCounted
<1>2. epoch \in Nat \ {0} /\ epoch \in 1 .. MaxEpochs
  BY <1>1, Numbers
<1>3. Len(weights) \in Nat
  BY <1>1, StageIs
<1>4. /\ Append(weights, <<runs, epoch>>) \in Stages
      /\ Len(Append(weights, <<runs, epoch>>)) = Len(weights) + 1
      /\ Sound(Append(weights, <<runs, epoch>>), runs)
      /\ Reached(Append(weights, <<runs, epoch>>), epoch)
      /\ \A old \in Stages :
            IsPrefix(old, weights) => IsPrefix(old, Append(weights, <<runs, epoch>>))
  BY <1>1, <1>2, OneEpochMore
<1>5. QED
  BY <1>1, <1>2, <1>3, <1>4, Zenon

\* What was saved before an epoch is saved after it.
LEMMA StillKept ==
    ASSUME EpochsOK, job = "epoch", weights' = Append(weights, <<runs, epoch>>), final' = final,
           \A k \in 1 .. MaxEpochs : k # epoch => disk'[k] = disk[k]
    PROVE  /\ Kept(disk', final', weights', Len(weights') - 1, epoch)
           /\ epoch % CheckpointFreq # 0 => Kept(disk', final', weights', Len(weights'), epoch + 1)
<1> DEFINE n == Len(weights)
<1>1. /\ n \in Nat /\ Len(weights') = n + 1 /\ epoch \in Nat \ {0}
      /\ \A old \in Stages : IsPrefix(old, weights) => IsPrefix(old, weights')
  BY EpochTrained
<1>2. Kept(disk, final, weights, n, epoch)
  BY DEF EpochsOK, Saved
<1>3. disk \in [1 .. MaxEpochs -> Stages] /\ final \in Stages
  BY DEF EpochsOK, TrainingTypes
<1>4. \A k \in 1 .. MaxEpochs : k < epoch => disk'[k] = disk[k]
  BY <1>1
<1>5. n + 1 - 1 = n
  BY <1>1
<1> HIDE DEF n
<1>6. /\ Kept(disk', final, weights', n, epoch)
      /\ epoch % CheckpointFreq # 0 => Kept(disk', final, weights', n + 1, epoch + 1)
  BY <1>1, <1>2, <1>3, <1>4, KeptLonger
<1>7. QED
  BY <1>1, <1>5, <1>6

LEMMA StartingToSave ==
    ASSUME EpochsOK, EpochWithCheckpoint
    PROVE  EpochsOK'
<1>1. /\ job = "epoch" /\ weights' = Append(weights, <<runs, epoch>>)
      /\ disk' = [disk EXCEPT ![epoch] = Torn] /\ job' = "checkpoint"
      /\ UNCHANGED <<args, epoch, final, runs>>
  BY DEF EpochWithCheckpoint, EpochOver
<1>2. /\ weights' \in Stages /\ Len(weights) \in Nat /\ Len(weights') = Len(weights) + 1
      /\ Sound(weights', runs) /\ Reached(weights', epoch)
      /\ epoch \in 1 .. MaxEpochs /\ epoch \in 1 .. args.epochs
  BY <1>1, EpochTrained
<1>3. disk \in [1 .. MaxEpochs -> Stages] /\ Torn \in Stages /\ ~Readable(Torn)
  BY SpecialFiles DEF EpochsOK, TrainingTypes
<1>4. /\ disk' \in [1 .. MaxEpochs -> Stages]
      /\ \A k \in 1 .. MaxEpochs : disk'[k] = IF k = epoch THEN Torn ELSE disk[k]
  BY <1>1, <1>3
<1>5. TrainingTypes'
  BY <1>1, <1>2, <1>4 DEF EpochsOK, TrainingTypes, Jobs
<1>6. EpochsCounted'
  <2>1. \A k \in 1 .. MaxEpochs :
           Readable(disk'[k]) => Sound(disk'[k], runs') /\ Reached(disk'[k], k)
    BY <1>1, <1>3, <1>4 DEF EpochsOK, EpochsCounted
  <2>2. QED
    BY <1>1, <1>2, <2>1 DEF EpochsOK, EpochsCounted
<1>7. Kept(disk', final', weights', Len(weights') - 1, epoch)
  BY <1>1, <1>4, StillKept
<1>8. Saved'
  BY <1>1, <1>2, <1>7 DEF Saved
<1>9. QED
  BY <1>5, <1>6, <1>8 DEF EpochsOK

LEMMA GoingOn ==
    ASSUME EpochsOK, EpochWithoutCheckpoint
    PROVE  EpochsOK'
<1>1. /\ job = "epoch" /\ weights' = Append(weights, <<runs, epoch>>)
      /\ epoch % CheckpointFreq # 0 /\ epoch # args.epochs
      /\ UNCHANGED <<args, disk, final, runs>>
      /\ epoch' = epoch + 1 /\ job' = IF epoch + 1 > args.epochs THEN "final" ELSE "epoch"
  BY DEF EpochWithoutCheckpoint, EpochOver, CheckpointDue, BeginEpoch, savedVars
<1>2. /\ weights' \in Stages /\ Sound(weights', runs) /\ Reached(weights', epoch)
      /\ epoch \in 1 .. MaxEpochs /\ epoch \in 1 .. args.epochs
  BY <1>1, EpochTrained
<1>3. args.epochs \in Nat
  BY Numbers DEF EpochsOK, TrainingTypes
<1>4. job' = "epoch" /\ epoch' \in 1 .. args.epochs /\ epoch' - 1 = epoch
  BY <1>1, <1>2, <1>3
<1>5. TrainingTypes'
  BY <1>1, <1>2, <1>4, Numbers DEF EpochsOK, TrainingTypes, Jobs
<1>6. Fits(weights', runs, epoch')
  BY <1>2, <1>4 DEF Fits
<1>7. EpochsCounted'
  BY <1>1, <1>2, <1>4, <1>6 DEF EpochsOK, EpochsCounted
<1>8. Kept(disk', final', weights', Len(weights'), epoch + 1)
  BY <1>1, StillKept
<1>9. Saved'
  BY <1>1, <1>8 DEF Saved
<1>10. QED
  BY <1>5, <1>7, <1>9 DEF EpochsOK

LEMMA Saving ==
    ASSUME EpochsOK, WriteCheckpoint
    PROVE  EpochsOK'
<1>1. /\ job = "checkpoint" /\ disk' = [disk EXCEPT ![epoch] = weights]
      /\ UNCHANGED <<args, weights, final, runs>>
      /\ epoch' = epoch + 1 /\ job' = IF epoch + 1 > args.epochs THEN "final" ELSE "epoch"
  BY DEF WriteCheckpoint, BeginEpoch
<1>2. /\ weights \in Stages /\ Sound(weights, runs) /\ Reached(weights, epoch)
      /\ epoch \in 1 .. args.epochs /\ args.epochs \in 0 .. MaxEpochs
  BY <1>1 DEF EpochsOK, TrainingTypes, EpochsCounted
<1>3. /\ epoch \in 1 .. MaxEpochs /\ epoch + 1 \in Nat /\ epoch + 1 - 1 = epoch
      /\ args.epochs \in Nat
  BY <1>2, Numbers
<1>4. Readable(weights)
  BY <1>2, TrainedIsReadable DEF Reached
<1>5. /\ disk' \in [1 .. MaxEpochs -> Stages]
      /\ \A k \in 1 .. MaxEpochs : disk'[k] = IF k = epoch THEN weights ELSE disk[k]
  BY <1>1, <1>2 DEF EpochsOK, TrainingTypes
<1>6. disk'[epoch] = weights
  BY <1>3, <1>5
<1>7. TrainingTypes'
  BY <1>1, <1>3, <1>5 DEF EpochsOK, TrainingTypes, Jobs
<1>8. EpochsCounted'
  <2>1. \A k \in 1 .. MaxEpochs :
           Readable(disk'[k]) => Sound(disk'[k], runs') /\ Reached(disk'[k], k)
    BY <1>1, <1>2, <1>5 DEF EpochsOK, EpochsCounted
  <2>2. job' = "epoch" => Fits(weights', runs', epoch')
    BY <1>1, <1>2, <1>3 DEF Fits
  <2>3. job' # "checkpoint" /\ (job' = "epoch" => epoch' \in 1 .. args'.epochs)
    BY <1>1, <1>2, <1>3
  <2>4. epoch' - 1 \in 1 .. MaxEpochs /\ disk'[epoch' - 1] = weights' /\ Readable(weights')
    BY <1>1, <1>3, <1>4, <1>6
  <2>5. job' # "saving"
    BY <1>1
  <2>6. QED
    BY <1>1, <2>1, <2>2, <2>3, <2>4, <2>5 DEF EpochsOK, EpochsCounted
<1>9. Kept(disk', final', weights, Len(weights), epoch + 1)
  BY <1>2, <1>3, <1>4, <1>6, KeptJustNow
<1>10. Saved'
  BY <1>1, <1>9 DEF Saved
<1>11. QED
  BY <1>7, <1>8, <1>10 DEF EpochsOK

\* The final file is cut to nothing and written: the last checkpoint holds
\* the same weights all the while.
LEMMA SavingFinal ==
    ASSUME EpochsOK, SaveFinal \/ WriteFinal
    PROVE  EpochsOK'
<1>1. /\ UNCHANGED <<args, epoch, weights, disk, runs>>
      /\ \/ job = "final" /\ final' = Torn /\ job' = "saving"
         \/ job = "saving" /\ final' = weights /\ job' = "down"
  BY DEF SaveFinal, WriteFinal
<1>2. /\ epoch - 1 \in 1 .. MaxEpochs /\ disk[epoch - 1] = weights /\ Readable(weights)
      /\ weights \in Stages /\ epoch \in Nat /\ Sound(weights, runs)
  BY <1>1 DEF EpochsOK, TrainingTypes, EpochsCounted
<1>3. TrainingTypes'
  BY <1>1, <1>2, SpecialFiles DEF EpochsOK, TrainingTypes, Jobs
<1>4. EpochsCounted'
  BY <1>1, <1>2, SpecialFiles DEF EpochsOK, EpochsCounted
<1>5. Kept(disk, final', weights, Len(weights), epoch)
  BY <1>2, KeptJustNow
<1>6. Saved'
  BY <1>1, <1>5 DEF Saved
<1>7. QED
  BY <1>3, <1>4, <1>6 DEF EpochsOK

LEMMA TrainingStarts == TrainInit => TrainingInv
<1> SUFFICES ASSUME TrainInit
             PROVE  TrainingInv
  OBVIOUS
<1>1. file \in Seq({}) /\ FileOK
  BY NothingOnce DEF TrainInit, FileOK
<1>2. LoaderInv
  BY <1>1, EmptyLoader DEF TrainInit, LoaderEmpty
<1>3. weights = Absent /\ weights \in Stages /\ Len(weights) = 0 /\ Sound(weights, runs)
  BY SpecialFiles DEF TrainInit, Absent
<1>4. TrainingTypes
  BY <1>3, SpecialFiles, Numbers DEF TrainInit, TrainingTypes, Jobs
<1>5. EpochsCounted
  BY <1>3, SpecialFiles DEF TrainInit, EpochsCounted
<1>6. Saved
  <2>1. Kept(disk, final, weights, Len(weights), epoch)
    BY <1>3, <1>4, KeptJustNow DEF TrainingTypes
  <2>2. QED
    BY <2>1 DEF Saved
<1>7. QED
  BY <1>2, <1>4, <1>5, <1>6 DEF TrainingInv, EpochsOK

LEMMA TrainingStep == TrainingInv /\ [TrainNext]_trainVars => TrainingInv'
<1> SUFFICES ASSUME TrainingInv, [TrainNext]_trainVars
             PROVE  TrainingInv'
  OBVIOUS
<1> USE DEF TrainingInv
<1>1. CASE WriteChunk
  <2>1. EpochsOK'
    BY <1>1, TrainingStays DEF WriteChunk, savedVars
  <2>2. QED
    BY <1>1, <2>1, WritingChunk
<1>2. CASE CloseFile \/ EmptyEpoch \/ Crash
  <2>1. /\ UNCHANGED <<file, loaderVars>> /\ job' = "down"
        /\ UNCHANGED <<args, epoch, weights, disk, final, runs>>
    BY <1>2 DEF CloseFile, EmptyEpoch, Crash, fileVars, savedVars
  <2>2. QED
    BY <2>1, LoaderStays, TrainingStays
<1>3. CASE Fresh
  <2>1. LoaderInv'
    BY <1>3, Beginning DEF Fresh, fileVars
  <2>2. QED
    BY <1>3, <2>1, StartingFresh
<1>4. CASE Resume
  <2>1. LoaderInv'
    <3>1. PICK k \in 1 .. MaxEpochs : BeginEpoch(NextEpoch(k))
      BY <1>4 DEF Resume
    <3>2. UNCHANGED file
      BY <1>4 DEF Resume, fileVars
    <3>3. QED
      BY <3>1, <3>2, Beginning
  <2>2. QED
    BY <1>4, <2>1, Resuming
<1>5. CASE ResumeFinal
  <2>1. LoaderInv'
    <3>1. BeginEpoch(NextEpoch(0)) /\ UNCHANGED file
      BY <1>5 DEF ResumeFinal, fileVars
    <3>2. QED
      BY <3>1, Beginning
  <2>2. QED
    BY <1>5, <2>1, ResumingFinal
<1>6. CASE SaveFinal \/ WriteFinal
  <2>1. UNCHANGED <<file, loaderVars>> /\ job' \in {"saving", "down"}
    BY <1>6 DEF SaveFinal, WriteFinal, fileVars
  <2>2. LoaderInv'
    BY <2>1, LoaderStays
  <2>3. QED
    BY <1>6, <2>2, SavingFinal
<1>7. CASE \E w \in Workers : ReadRowGroup(w) \/ TakeWindow(w)
  <2>1. LoaderInv'
    BY <1>7, Reading, Yielding
  <2>2. UNCHANGED <<job, args, epoch, weights, disk, final, runs>>
    BY <1>7 DEF ReadRowGroup, TakeWindow, savedVars
  <2>3. QED
    BY <2>1, <2>2, TrainingStays
<1>8. CASE EpochWithCheckpoint
  <2>1. UNCHANGED <<file, loaderVars>> /\ job' = "checkpoint"
    BY <1>8 DEF EpochWithCheckpoint, fileVars
  <2>2. LoaderInv'
    BY <2>1, LoaderStays
  <2>3. QED
    BY <1>8, <2>2, StartingToSave
<1>9. CASE EpochWithoutCheckpoint
  <2>1. LoaderInv'
    BY <1>9, Beginning DEF EpochWithoutCheckpoint, fileVars
  <2>2. QED
    BY <1>9, <2>1, GoingOn
<1>10. CASE WriteCheckpoint
  <2>1. LoaderInv'
    BY <1>10, Beginning DEF WriteCheckpoint, fileVars
  <2>2. QED
    BY <1>10, <2>1, Saving
<1>11. CASE UNCHANGED trainVars
  <2>1. UNCHANGED <<file, job, groups, windows, partial, batches>>
    BY <1>11 DEF trainVars, fileVars, loaderVars
  <2>2. UNCHANGED <<args, epoch, weights, disk, final, runs>>
    BY <1>11 DEF trainVars, savedVars
  <2>3. EpochsOK'
    BY <2>1, <2>2, TrainingStays
  <2>4. CASE job = "augment"
    <3>1. FileOK' /\ LoaderEmpty'
      BY <2>1, <2>4 DEF LoaderInv, FileOK, NoLoaderYet, LoaderEmpty
    <3>2. LoaderInv'
      BY <3>1, EmptyLoader, PTL
    <3>3. QED
      BY <2>3, <3>2
  <2>5. CASE job # "augment"
    <3>1. LoaderInv'
      BY <2>1, <2>5, LoaderStays DEF loaderVars
    <3>2. QED
      BY <2>3, <3>1
  <2>6. QED
    BY <2>4, <2>5
<1>12. QED
  BY <1>1, <1>2, <1>3, <1>4, <1>7, <1>8, <1>9, <1>10, <1>11, <1>5, <1>6 DEF TrainNext

-----------------------------------------------------------------------------
(* Pairs.                                                                   *)

\* A row group in which every row has its partner in the other view.
Paired(group) ==
    /\ \E S : group \in Seq(S)
    /\ \A i \in DOMAIN group : group[i].pair \in Int /\ group[i].view \in {"a", "b"}
    /\ \A i, j \in DOMAIN group :
          group[i].view = group[j].view /\ group[i].pair = group[j].pair => i = j
    /\ \A i \in DOMAIN group : \E j \in DOMAIN group :
          /\ group[j].view # group[i].view
          /\ group[j].pair = group[i].pair /\ group[j].entity = group[i].entity

FilePaired ==
    /\ \E S : corpus \in Seq(S)
    /\ offset \in Nat
    /\ \A g \in DOMAIN file : Paired(file[g])

\* Of two neighbours, one odd and one even, half of them is the same.
LEMMA Halves ==
    ASSUME NEW n \in Nat, NEW k \in 1 .. 2 * n
    PROVE  /\ (k + 1) \div 2 \in 1 .. n
           /\ k % 2 = 1 => /\ k + 1 \in 1 .. 2 * n /\ (k + 1) % 2 = 0
                           /\ (k + 1 + 1) \div 2 = (k + 1) \div 2
                           /\ k = 2 * ((k + 1) \div 2) - 1
           /\ k % 2 # 1 => /\ k - 1 \in 1 .. 2 * n /\ (k - 1) % 2 = 1
                           /\ (k - 1 + 1) \div 2 = (k + 1) \div 2
                           /\ k = 2 * ((k + 1) \div 2)
OBVIOUS

\* What generate_pairs writes is paired.
LEMMA AugmentationPairs ==
    ASSUME NEW S, NEW rows \in Seq(S), NEW first \in Nat, NEW jitter
    PROVE  Paired(AugmentBatch(rows, first, jitter))
<1> DEFINE n == Len(rows)
           group == AugmentBatch(rows, first, jitter)
           of(k) == (k + 1) \div 2
<1>1. n \in Nat
  BY LenProperties
<1>2. /\ DOMAIN group = 1 .. 2 * n
      /\ \A k \in 1 .. 2 * n :
            /\ group[k].pair = first + of(k) - 1
            /\ group[k].view = IF k % 2 = 1 THEN "a" ELSE "b"
            /\ group[k].entity = rows[of(k)].entity
  BY DEF AugmentBatch, Augment
<1>3. \E T : group \in Seq(T)
  <2> DEFINE T == {group[k] : k \in 1 .. 2 * n}
  <2>1. group \in [1 .. 2 * n -> T]
    BY DEF AugmentBatch
  <2>2. 2 * n \in Nat
    BY <1>1
  <2> HIDE DEF T, group
  <2>3. group \in Seq(T)
    BY <2>1, <2>2, ListOf
  <2>4. QED
    BY <2>3
<1> HIDE DEF group
<1>4. \A k \in 1 .. 2 * n :
         /\ of(k) \in 1 .. n
         /\ k % 2 = 1 => k + 1 \in 1 .. 2 * n /\ (k + 1) % 2 = 0 /\ of(k + 1) = of(k) /\ k = 2 * of(k) - 1
         /\ k % 2 # 1 => k - 1 \in 1 .. 2 * n /\ (k - 1) % 2 = 1 /\ of(k - 1) = of(k) /\ k = 2 * of(k)
  BY <1>1, Halves
<1> HIDE DEF of, n
<1>5. \A k \in 1 .. 2 * n : group[k].pair \in Int /\ group[k].view \in {"a", "b"}
  <2>1. ASSUME NEW k \in 1 .. 2 * n
        PROVE  group[k].pair \in Int /\ group[k].view \in {"a", "b"}
    <3>1. of(k) \in Int
      BY <1>1, <1>4
    <3>2. group[k].pair = first + of(k) - 1
      BY <1>2
    <3>3. group[k].view \in {"a", "b"}
      BY <1>2
    <3>4. QED
      BY <3>1, <3>2, <3>3
  <2>2. QED
    BY <2>1
<1>6. \A k, l \in 1 .. 2 * n :
         group[k].view = group[l].view /\ group[k].pair = group[l].pair => k = l
  <2>1. ASSUME NEW k \in 1 .. 2 * n, NEW l \in 1 .. 2 * n,
               group[k].view = group[l].view, group[k].pair = group[l].pair
        PROVE  k = l
    <3>1. of(k) \in Int /\ of(l) \in Int
      BY <1>1, <1>4
    <3>2. of(k) = of(l)
      BY <1>2, <2>1, <3>1
    <3>3. k % 2 = 1 <=> l % 2 = 1
      BY <1>2, <2>1
    <3>4. QED
      BY <1>4, <3>2, <3>3
  <2>2. QED
    BY <2>1
<1>7. \A k \in 1 .. 2 * n : \E l \in 1 .. 2 * n :
         /\ group[l].view # group[k].view
         /\ group[l].pair = group[k].pair /\ group[l].entity = group[k].entity
  <2>1. ASSUME NEW k \in 1 .. 2 * n, NEW l \in 1 .. 2 * n, of(k) = of(l), (k % 2 = 1) # (l % 2 = 1)
        PROVE  /\ group[l].view # group[k].view
               /\ group[l].pair = group[k].pair /\ group[l].entity = group[k].entity
    <3>1. group[l].pair = group[k].pair /\ group[l].entity = group[k].entity
      BY <1>2, <2>1
    <3>2. group[l].view # group[k].view
      BY <1>2, <2>1
    <3>3. QED
      BY <3>1, <3>2
  <2>2. \A k \in 1 .. 2 * n : \E l \in 1 .. 2 * n :
           of(k) = of(l) /\ (k % 2 = 1) # (l % 2 = 1)
    <3>1. ASSUME NEW k \in 1 .. 2 * n
          PROVE  \E l \in 1 .. 2 * n : of(k) = of(l) /\ (k % 2 = 1) # (l % 2 = 1)
      <4>1. CASE k % 2 = 1
        <5>1. k + 1 \in 1 .. 2 * n /\ of(k + 1) = of(k) /\ (k + 1) % 2 # 1
          BY <1>4, <4>1
        <5>2. QED
          BY <4>1, <5>1
      <4>2. CASE k % 2 # 1
        <5>1. k - 1 \in 1 .. 2 * n /\ of(k - 1) = of(k) /\ (k - 1) % 2 = 1
          BY <1>4, <4>2
        <5>2. QED
          BY <4>2, <5>1
      <4>3. QED
        BY <4>1, <4>2
    <3>2. QED
      BY <3>1
  <2>3. QED
    BY <2>1, <2>2
<1>8. QED
  BY <1>2, <1>3, <1>5, <1>6, <1>7 DEF Paired, group

\* Two increasing lists of the same numbers are the same list.
Increasing(f, n) ==
    f \in [1 .. n -> Int] /\ \A k, l \in 1 .. n : k < l => f[k] < f[l]

LEMMA IncreasingCounts ==
    ASSUME NEW n \in Nat, NEW f, Increasing(f, n)
    PROVE  Cardinality({f[k] : k \in 1 .. n}) = n
<1> DEFINE Q == {f[k] : k \in 1 .. n}
<1>1. \A k, l \in 1 .. n : f[k] = f[l] => k = l
  <2>1. ASSUME NEW k \in 1 .. n, NEW l \in 1 .. n, k # l
        PROVE  f[k] # f[l]
    <3>1. k < l \/ l < k
      BY <2>1
    <3>2. f[k] < f[l] \/ f[l] < f[k]
      BY <3>1 DEF Increasing
    <3>3. f[k] \in Int /\ f[l] \in Int
      BY DEF Increasing
    <3>4. QED
      BY <3>2, <3>3
  <2>2. QED
    BY <2>1
<1>2. f \in Bijection(1 .. n, Q)
  BY <1>1 DEF Increasing, Bijection, Injection, Surjection, IsInjective
<1>3. ExistsBijection(1 .. n, Q)
  BY <1>2 DEF ExistsBijection
<1>4. QED
  BY <1>3, FS_CountingElements

LEMMA IncreasingListsAgree ==
    ASSUME NEW n \in Nat, NEW m \in Nat, NEW f, NEW g, Increasing(f, n), Increasing(g, m),
           {f[k] : k \in 1 .. n} = {g[k] : k \in 1 .. m}
    PROVE  n = m /\ f = g
<1> DEFINE T == {k \in 1 .. n : f[k] # g[k]}
<1>1. n = m
  <2>1. Cardinality({f[k] : k \in 1 .. n}) = n
    BY IncreasingCounts
  <2>2. Cardinality({g[k] : k \in 1 .. m}) = m
    BY IncreasingCounts
  <2>3. QED
    BY <2>1, <2>2
<1>2. f \in [1 .. n -> Int] /\ g \in [1 .. n -> Int]
  BY <1>1 DEF Increasing
<1>3. \A k, l \in 1 .. n : k < l => f[k] < f[l] /\ g[k] < g[l]
  BY <1>1 DEF Increasing
<1>4. (\A k \in 1 .. n : f[k] = g[k]) => f = g
  BY <1>2
<1>5. SUFFICES ASSUME T # {}
               PROVE  FALSE
  BY <1>1, <1>4
<1>6. T \in SUBSET Nat
  OBVIOUS
<1> HIDE DEF T
<1>7. PICK k \in T : \A l \in T : k <= l
  BY <1>5, <1>6, SmallestElement
<1>8. k \in 1 .. n /\ f[k] # g[k] /\ f[k] \in Int /\ g[k] \in Int
  BY <1>2, <1>7 DEF T
<1>9. \A l \in 1 .. n : l < k => f[l] = g[l]
  <2>1. ASSUME NEW l \in 1 .. n, l < k
        PROVE  l \notin T
    BY <1>6, <1>7, <2>1
  <2>2. QED
    BY <2>1 DEF T
<1>10. PICK l \in 1 .. n : g[l] = f[k]
  BY <1>1, <1>8
<1>11. PICK j \in 1 .. n : f[j] = g[k]
  BY <1>1, <1>8
<1>12. ~(l < k)
  <2>1. SUFFICES ASSUME l < k
                 PROVE  FALSE
    OBVIOUS
  <2>2. f[l] = f[k]
    BY <1>9, <1>10, <2>1
  <2>3. f[l] < f[k]
    BY <1>3, <1>8, <2>1
  <2>4. QED
    BY <1>8, <2>2, <2>3
<1>13. ~(j < k)
  <2>1. SUFFICES ASSUME j < k
                 PROVE  FALSE
    OBVIOUS
  <2>2. g[j] = g[k]
    BY <1>9, <1>11, <2>1
  <2>3. g[j] < g[k]
    BY <1>3, <1>8, <2>1
  <2>4. QED
    BY <1>8, <2>2, <2>3
<1>14. k < l /\ k < j
  <2>1. l # k /\ j # k
    BY <1>8, <1>10, <1>11
  <2>2. QED
    BY <1>8, <1>12, <1>13, <2>1
<1>15. g[k] < f[k] /\ f[k] < g[k]
  BY <1>3, <1>8, <1>10, <1>11, <1>14
<1>16. QED
  BY <1>8, <1>15

\* The rows of an entity in one view, in the order of their pairs.
SortedByPair(group, view, e) ==
    LET P == PositionsIn(group, view, e)
        n == Cardinality(P)
        rows == ViewRows(group, view, e)
    IN  /\ n \in Nat /\ rows \in Seq({group[i] : i \in P}) /\ Len(rows) = n
        /\ Increasing([k \in 1 .. n |-> rows[k].pair], n)
        /\ {rows[k].pair : k \in 1 .. n} = {group[i].pair : i \in P}

LEMMA ViewIsSorted ==
    ASSUME NEW group, Paired(group), NEW view \in {"a", "b"}, NEW e
    PROVE  SortedByPair(group, view, e)
<1> DEFINE P == PositionsIn(group, view, e)
           n == Cardinality(P)
           rows == ViewRows(group, view, e)
           before == [i \in P |-> {j \in P \ {i} :
                         IF j < i THEN ~RowBefore(group[i], group[j])
                                  ELSE RowBefore(group[j], group[i])}]
           order == InOrder(before)
<1>1. /\ P \in SUBSET (DOMAIN group) /\ P \in SUBSET Int /\ IsFiniteSet(P) /\ n \in Nat
      /\ \A i \in P : group[i].view = view /\ group[i].pair \in Int
  <2>1. PICK S : group \in Seq(S)
    BY DEF Paired
  <2>2. Len(group) \in Nat /\ DOMAIN group = 1 .. Len(group)
    BY <2>1, LenProperties
  <2>3. P \in SUBSET (DOMAIN group) /\ \A i \in P : group[i].view = view
    BY DEF PositionsIn
  <2>4. IsFiniteSet(1 .. Len(group))
    BY <2>2, FS_Interval
  <2>5. IsFiniteSet(P)
    BY <2>2, <2>3, <2>4, FS_Subset
  <2>6. n \in Nat
    BY <2>5, FS_CardinalityType
  <2>7. \A i \in DOMAIN group : group[i].pair \in Int
    BY DEF Paired
  <2>8. QED
    BY <2>2, <2>3, <2>5, <2>6, <2>7
<1>2. \A i, j \in P : i # j => group[i].pair # group[j].pair
  BY <1>1 DEF Paired
<1>3. rows = [k \in DOMAIN order |-> group[order[k]]]
  BY DEF ViewRows, StableSort
<1>4. /\ before \in [P -> SUBSET P]
      /\ \A i, j \in P : j \in before[i] <=>
            i # j /\ (IF j < i THEN ~RowBefore(group[i], group[j]) ELSE RowBefore(group[j], group[i]))
  OBVIOUS
<1> HIDE DEF P, before
<1>5. \A i, j \in P : i # j => (RowBefore(group[i], group[j]) <=> group[i].pair < group[j].pair)
  BY <1>1, <1>2 DEF RowBefore
<1>6. \A i, j \in P : j \in before[i] <=> group[j].pair < group[i].pair
  <2>1. ASSUME NEW i \in P, NEW j \in P
        PROVE  j \in before[i] <=> group[j].pair < group[i].pair
    <3>1. group[i].pair \in Int /\ group[j].pair \in Int
      BY <1>1
    <3>2. CASE i = j
      BY <1>4, <3>1, <3>2
    <3>3. CASE i # j
      <4>1. group[i].pair # group[j].pair
        BY <1>2, <3>3
      <4>2. /\ RowBefore(group[i], group[j]) <=> group[i].pair < group[j].pair
            /\ RowBefore(group[j], group[i]) <=> group[j].pair < group[i].pair
        BY <1>5, <3>3
      <4>3. ~RowBefore(group[i], group[j]) <=> RowBefore(group[j], group[i])
        BY <3>1, <4>1, <4>2
      <4>4. QED
        BY <1>4, <3>3, <4>2, <4>3
    <3>4. QED
      BY <3>2, <3>3
  <2>2. QED
    BY <2>1
<1>7. StrictlyOrders(before, P)
  <2>1. \A i \in P : i \notin before[i]
    BY <1>4
  <2>2. \A i, j \in P : j \in before[i] => before[j] \subseteq before[i]
    <3>1. ASSUME NEW i \in P, NEW j \in P, j \in before[i], NEW k \in before[j]
          PROVE  k \in before[i]
      <4>1. k \in P
        BY <1>4
      <4>2. group[k].pair < group[j].pair /\ group[j].pair < group[i].pair
        BY <1>6, <3>1, <4>1
      <4>3. group[k].pair < group[i].pair
        BY <1>1, <4>1, <4>2
      <4>4. QED
        BY <1>6, <4>1, <4>3
    <3>2. QED
      BY <3>1
  <2>3. \A i, j \in P : i # j => i \in before[j] \/ j \in before[i]
    <3>1. ASSUME NEW i \in P, NEW j \in P, i # j
          PROVE  group[i].pair < group[j].pair \/ group[j].pair < group[i].pair
      <4>1. group[i].pair # group[j].pair /\ group[i].pair \in Int /\ group[j].pair \in Int
        BY <1>1, <1>2, <3>1
      <4>2. QED
        BY <4>1
    <3>2. QED
      BY <1>6, <3>1
  <2>4. QED
    BY <1>4, <2>1, <2>2, <2>3 DEF StrictlyOrders
<1>8. Enumerates(order, before, P)
  BY <1>1, <1>7, InOrderEnumerates
<1> HIDE DEF order
<1>9. /\ order \in [1 .. n -> P]
      /\ \A i \in P : \E k \in 1 .. n : order[k] = i
      /\ \A k, l \in 1 .. n : k < l => order[k] \in before[order[l]]
  BY <1>8 DEF Enumerates
<1> HIDE DEF n, rows
<1>10. rows = [k \in 1 .. n |-> group[order[k]]]
  BY <1>3, <1>9
<1> DEFINE R == {group[i] : i \in P}
<1>11. rows \in [1 .. n -> R]
  BY <1>9, <1>10
<1>12. rows \in Seq(R) /\ Len(rows) = n
  BY <1>1, <1>11, ListOf
<1>13. \A k \in 1 .. n : rows[k].pair = group[order[k]].pair /\ rows[k].pair \in Int
  BY <1>1, <1>9, <1>10
<1> DEFINE pairs == [k \in 1 .. n |-> rows[k].pair]
<1>14. Increasing(pairs, n)
  <2>1. pairs \in [1 .. n -> Int]
    BY <1>13
  <2>2. ASSUME NEW k \in 1 .. n, NEW l \in 1 .. n, k < l
        PROVE  rows[k].pair < rows[l].pair
    <3>1. order[k] \in P /\ order[l] \in P /\ order[k] \in before[order[l]]
      BY <1>9, <2>2
    <3>2. group[order[k]].pair < group[order[l]].pair
      BY <1>6, <3>1
    <3>3. QED
      BY <1>13, <3>2
  <2>3. QED
    BY <2>1, <2>2 DEF Increasing
<1>15. {rows[k].pair : k \in 1 .. n} = {group[i].pair : i \in P}
  <2>1. \A k \in 1 .. n : order[k] \in P
    BY <1>9
  <2>2. QED
    BY <1>9, <1>13, <2>1
<1>16. QED
  BY <1>1, <1>12, <1>14, <1>15 DEF n, rows, P, SortedByPair

\* The two views of an entity hold the same pairs in the same order.
LEMMA ViewsAgree ==
    ASSUME NEW group, Paired(group), NEW e
    PROVE  LET n == Cardinality(PositionsIn(group, "a", e))
           IN  /\ n \in Nat /\ Cardinality(PositionsIn(group, "b", e)) = n
               /\ \E S : \A v \in {"a", "b"} : ViewRows(group, v, e) \in Seq(S) /\ Len(ViewRows(group, v, e)) = n
               /\ \A k \in 1 .. n : ViewRows(group, "a", e)[k].pair = ViewRows(group, "b", e)[k].pair
<1> DEFINE P(v) == PositionsIn(group, v, e)
           n(v) == Cardinality(P(v))
           rows(v) == ViewRows(group, v, e)
           pairs(v) == [k \in 1 .. n(v) |-> rows(v)[k].pair]
<1>1. \A v \in {"a", "b"} :
         /\ n(v) \in Nat /\ rows(v) \in Seq({group[i] : i \in P(v)}) /\ Len(rows(v)) = n(v)
         /\ Increasing(pairs(v), n(v))
         /\ {rows(v)[k].pair : k \in 1 .. n(v)} = {group[i].pair : i \in P(v)}
  <2>1. \A v \in {"a", "b"} : SortedByPair(group, v, e)
    BY ViewIsSorted
  <2>2. QED
    BY <2>1 DEF SortedByPair
<1>2. {group[i].pair : i \in P("a")} = {group[i].pair : i \in P("b")}
  <2>1. ASSUME NEW v \in {"a", "b"}, NEW w \in {"a", "b"}, v # w, NEW i \in P(v)
        PROVE  \E j \in P(w) : group[j].pair = group[i].pair
    <3>1. i \in DOMAIN group /\ group[i].view = v /\ group[i].entity = e
      BY DEF PositionsIn
    <3>2. PICK j \in DOMAIN group :
             /\ group[j].view # group[i].view
             /\ group[j].pair = group[i].pair /\ group[j].entity = group[i].entity
      BY <3>1 DEF Paired
    <3>3. group[j].view \in {"a", "b"}
      BY <3>2 DEF Paired
    <3>4. j \in P(w)
      BY <2>1, <3>1, <3>2, <3>3 DEF PositionsIn
    <3>5. QED
      BY <3>2, <3>4
  <2> HIDE DEF P
  <2>2. \A i \in P("a") : \E j \in P("b") : group[j].pair = group[i].pair
    BY <2>1
  <2>3. \A i \in P("b") : \E j \in P("a") : group[j].pair = group[i].pair
    BY <2>1
  <2>4. QED
    BY <2>2, <2>3
<1> HIDE DEF P, n, rows
<1>3. \A v \in {"a", "b"} : {pairs(v)[k] : k \in 1 .. n(v)} = {group[i].pair : i \in P(v)}
  <2>1. ASSUME NEW v \in {"a", "b"}
        PROVE  {pairs(v)[k] : k \in 1 .. n(v)} = {rows(v)[k].pair : k \in 1 .. n(v)}
    OBVIOUS
  <2> HIDE DEF pairs
  <2>2. QED
    BY <1>1, <2>1
<1>4. /\ n("a") \in Nat /\ n("b") \in Nat
      /\ Increasing(pairs("a"), n("a")) /\ Increasing(pairs("b"), n("b"))
      /\ {pairs("a")[k] : k \in 1 .. n("a")} = {pairs("b")[k] : k \in 1 .. n("b")}
  BY <1>1, <1>2, <1>3
<1> HIDE DEF pairs
<1>5. n("a") = n("b") /\ pairs("a") = pairs("b")
  BY <1>4, IncreasingListsAgree
<1>6. \A k \in 1 .. n("a") : rows("a")[k].pair = rows("b")[k].pair
  BY <1>5 DEF pairs
<1> DEFINE S == {group[i] : i \in P("a")} \cup {group[i] : i \in P("b")}
<1>7. \A v \in {"a", "b"} : rows(v) \in Seq(S) /\ Len(rows(v)) = n("a")
  <2>1. \A v \in {"a", "b"} : rows(v) \in [1 .. n(v) -> {group[i] : i \in P(v)}]
    BY <1>1, LenProperties
  <2>2. rows("a") \in [1 .. n("a") -> S] /\ rows("b") \in [1 .. n("a") -> S]
    BY <1>5, <2>1
  <2> HIDE DEF S
  <2>3. QED
    BY <1>4, <2>2, ListOf
<1>8. QED
  BY <1>4, <1>5, <1>6, <1>7 DEF n, rows, P

\* The rows of a window are as many in either view, of the same pairs.
LEMMA WindowsAgree ==
    ASSUME NEW g \in DOMAIN file, Paired(file[g]), NEW x \in WindowsOf(g)
    PROVE  SourceOf([window |-> x, view |-> "a"]) = SourceOf([window |-> x, view |-> "b"])
<1> DEFINE group == file[g]
           e == x.entity
           P(v) == PositionsIn(group, v, e)
           rows(v) == ViewRows(group, v, e)
           n == Cardinality(P("a"))
           a == x.start + 1
           b == x.start + SeqLen
           cut(v) == WindowRows(x, v)
<1>1. x.group = g /\ x.start \in Int /\ 0 <= x.start /\ x.start <= Min({Cardinality(P("a")), Cardinality(P("b"))}) - SeqLen
  <2> DEFINE of(view) == {r.entity : r \in {s \in ToSet(group) : s.view = view}}
             least(d) == Min({Cardinality(PositionsIn(group, v, d)) : v \in {"a", "b"}})
             starts(d) == {k \in 0 .. least(d) - SeqLen : k % Stride = 0}
  <2>1. WindowsOf(g) = UNION {{[group |-> g, entity |-> d, start |-> k] : k \in starts(d)} :
                                  d \in of("a") \cap of("b")}
    BY DEF WindowsOf
  <2> HIDE DEF of, starts
  <2>2. x.group = g /\ x.start \in starts(x.entity)
    BY <2>1
  <2>3. x.start \in 0 .. least(e) - SeqLen
    BY <2>2 DEF starts
  <2>4. {Cardinality(PositionsIn(group, v, e)) : v \in {"a", "b"}} = {Cardinality(P("a")), Cardinality(P("b"))}
    OBVIOUS
  <2> HIDE DEF P, group
  <2>5. x.start \in Int /\ 0 <= x.start /\ x.start <= least(e) - SeqLen
    BY <2>3
  <2>6. QED
    BY <2>2, <2>4, <2>5
<1> HIDE DEF group, e
<1>2. /\ n \in Nat /\ Cardinality(P("b")) = n
      /\ \E S : \A v \in {"a", "b"} : rows(v) \in Seq(S) /\ Len(rows(v)) = n
      /\ \A k \in 1 .. n : rows("a")[k].pair = rows("b")[k].pair
  BY ViewsAgree DEF group
<1>3. PICK S : \A v \in {"a", "b"} : rows(v) \in Seq(S) /\ Len(rows(v)) = n
  BY <1>2
<1>4. \A v \in {"a", "b"} : \A k \in 1 .. n : rows(v)[k] \in S
  BY <1>2, <1>3, ElementOfSeq
<1> HIDE DEF P, rows
<1>5. Min({n, n}) = n
  BY <1>2, MinOfTwo
<1>6. a \in Int /\ b \in Int /\ a <= b /\ b - a + 1 = SeqLen /\ 1 <= a /\ b <= n /\ SeqLen \in Nat
  <2>1. Min({Cardinality(P("a")), Cardinality(P("b"))}) = n
    BY <1>2, <1>5
  <2>2. SeqLen \in Nat \ {0}
    BY Sizes
  <2> DEFINE start == x.start
  <2>3. start \in Int /\ 0 <= start /\ start <= n - SeqLen /\ n \in Nat
    BY <1>1, <1>2, <2>1
  <2> HIDE DEF start, n
  <2>4. /\ start + 1 \in Int /\ start + SeqLen \in Int /\ start + 1 <= start + SeqLen
        /\ (start + SeqLen) - (start + 1) + 1 = SeqLen /\ 1 <= start + 1 /\ start + SeqLen <= n
    BY <2>2, <2>3
  <2>5. QED
    BY <2>2, <2>4 DEF start
<1>7. \A v \in {"a", "b"} : cut(v) = SubSeq(rows(v), a, b)
  BY <1>1 DEF WindowRows, rows, group, e
<1> HIDE DEF a, b, cut, n
<1>8. \A v \in {"a", "b"} :
         /\ cut(v) \in Seq(S) /\ Len(cut(v)) = SeqLen
         /\ \A k \in 1 .. SeqLen : cut(v)[k] = rows(v)[a + k - 1]
  <2>1. ASSUME NEW v \in {"a", "b"}
        PROVE  /\ cut(v) \in Seq(S) /\ Len(cut(v)) = SeqLen
               /\ \A k \in 1 .. SeqLen : cut(v)[k] = rows(v)[a + k - 1]
    <3>1. \A k \in a .. b : k \in 1 .. n
      BY <1>2, <1>6
    <3>2. \A k \in a .. b : rows(v)[k] \in S
      BY <1>4, <3>1
    <3> DEFINE c == SubSeq(rows(v), a, b)
    <3>3. /\ c \in Seq(S) /\ Len(c) = (IF a <= b THEN b - a + 1 ELSE 0)
          /\ \A k \in 1 .. b - a + 1 : c[k] = rows(v)[a + k - 1]
      BY <1>6, <3>2, SubSeqProperties
    <3>4. c = cut(v)
      BY <1>7
    <3> HIDE DEF c
    <3>5. QED
      BY <1>6, <3>3, <3>4
  <2>2. QED
    BY <2>1
<1>9. \A k \in 1 .. SeqLen : cut("a")[k].pair = cut("b")[k].pair
  <2>1. ASSUME NEW k \in 1 .. SeqLen
        PROVE  cut("a")[k].pair = cut("b")[k].pair
    <3>1. a + k - 1 \in 1 .. n
      BY <1>2, <1>6
    <3>2. cut("a")[k] = rows("a")[a + k - 1] /\ cut("b")[k] = rows("b")[a + k - 1]
      BY <1>8
    <3>3. rows("a")[a + k - 1].pair = rows("b")[a + k - 1].pair
      BY <1>2, <3>1
    <3>4. QED
      BY <3>2, <3>3
  <2>2. QED
    BY <2>1
<1>10. DOMAIN cut("a") = 1 .. SeqLen /\ DOMAIN cut("b") = 1 .. SeqLen
  BY <1>8, LenProperties
<1>11. SourceOf([window |-> x, view |-> "a"]) = [k \in 1 .. SeqLen |-> cut("a")[k].pair]
  BY <1>10 DEF SourceOf, cut
<1>12. SourceOf([window |-> x, view |-> "b"]) = [k \in 1 .. SeqLen |-> cut("b")[k].pair]
  BY <1>10 DEF SourceOf, cut
<1>13. QED
  BY <1>9, <1>11, <1>12

\* The positive of a row of the loss is the other view of the same window.
LEMMA PositiveOf ==
    ASSUME NEW B \in Nat, NEW i \in 0 .. 2 * B - 1
    PROVE  /\ PositiveIndex(i, B) \in 0 .. 2 * B - 1
           /\ PositiveIndex(i, B) % B = i % B
           /\ i % B \in 0 .. B - 1
           /\ PositiveIndex(i, B) < B <=> ~(i < B)
<1>1. B \in Nat \ {0} /\ 2 * B \in Nat \ {0} /\ B * 1 = B /\ B * 0 = 0
      /\ (2 * B) * 1 = B + B /\ (2 * B) * 0 = 0
  OBVIOUS
<1>2. CASE i < B
  <2>1. i \in 0 .. B - 1 /\ i + B \in 0 .. 2 * B - 1 /\ i + B = B * 1 + i /\ i = B * 0 + i
    BY <1>1, <1>2
  <2>2. (i + B) % B = i /\ i % B = i
    BY <1>1, <2>1, Remainder
  <2>3. i + B = (2 * B) * 0 + (i + B)
    BY <1>1, <2>1
  <2>4. (i + B) % (2 * B) = i + B
    BY <1>1, <2>1, <2>3, Remainder
  <2>5. PositiveIndex(i, B) = i + B
    BY <2>4 DEF PositiveIndex
  <2>6. QED
    BY <1>1, <1>2, <2>1, <2>2, <2>5
<1>3. CASE ~(i < B)
  <2> DEFINE j == i - B
  <2>1. /\ j \in 0 .. B - 1 /\ j \in 0 .. 2 * B - 1 /\ i = B * 1 + j /\ j = B * 0 + j
        /\ i + B = (2 * B) * 1 + j
    BY <1>1, <1>3
  <2> HIDE DEF j
  <2>2. i % B = j /\ j % B = j
    BY <1>1, <2>1, Remainder
  <2>3. (i + B) % (2 * B) = j
    BY <1>1, <2>1, Remainder
  <2>4. PositiveIndex(i, B) = j
    BY <2>3 DEF PositiveIndex
  <2>5. QED
    BY <1>1, <1>3, <2>1, <2>2, <2>4
<1>4. QED
  BY <1>2, <1>3

LEMMA PairsMatch ==
    ASSUME FilePaired, LoaderTypes
    PROVE  PositivesMatch
<1> SUFFICES ASSUME NEW n \in DOMAIN batches, NEW i \in DOMAIN LossRows(batches[n])
             PROVE  /\ LossRows(batches[n])[PositiveIndex(i, Len(batches[n]))].view # LossRows(batches[n])[i].view
                    /\ SourceOf(LossRows(batches[n])[PositiveIndex(i, Len(batches[n]))]) = SourceOf(LossRows(batches[n])[i])
  BY DEF PositivesMatch
<1> DEFINE batch == batches[n]
           B == Len(batch)
           rows == LossRows(batch)
           p == PositiveIndex(i, B)
           view(k) == IF k < B THEN "a" ELSE "b"
<1>1. batch \in Seq(AllWindows) /\ B \in Nat
  <2>1. batches \in Seq(Seq(AllWindows))
    BY DEF LoaderTypes
  <2>2. batch \in Seq(AllWindows)
    BY <2>1, LenProperties, ElementOfSeq
  <2>3. QED
    BY <2>2, LenProperties
<1> HIDE DEF batch
<1>2. /\ DOMAIN rows = 0 .. 2 * B - 1
      /\ \A k \in 0 .. 2 * B - 1 : rows[k] = [window |-> batch[(k % B) + 1], view |-> view(k)]
  BY DEF LossRows
<1> HIDE DEF B, rows
<1>3. i \in 0 .. 2 * B - 1
  BY <1>2 DEF rows, batch
<1>4. p \in 0 .. 2 * B - 1 /\ p % B = i % B /\ i % B \in 0 .. B - 1 /\ (p < B <=> ~(i < B))
  BY <1>1, <1>3, PositiveOf
<1> HIDE DEF p
<1> DEFINE x == batch[(i % B) + 1]
<1>5. x \in AllWindows
  <2>1. (i % B) + 1 \in 1 .. Len(batch)
    BY <1>1, <1>4 DEF B
  <2>2. QED
    BY <1>1, <2>1, ElementOfSeq
<1>6. rows[i] = [window |-> x, view |-> view(i)] /\ rows[p] = [window |-> x, view |-> view(p)]
  BY <1>2, <1>3, <1>4
<1> HIDE DEF x
<1>7. x.group \in DOMAIN file /\ x \in WindowsOf(x.group)
  BY <1>5, WindowsBelong
<1>8. SourceOf([window |-> x, view |-> "a"]) = SourceOf([window |-> x, view |-> "b"])
  BY <1>7, WindowsAgree DEF FilePaired
<1>9. \/ view(i) = "a" /\ view(p) = "b"
      \/ view(i) = "b" /\ view(p) = "a"
  BY <1>4
<1>10. rows[p].view # rows[i].view /\ SourceOf(rows[p]) = SourceOf(rows[i])
  BY <1>6, <1>8, <1>9
<1>11. QED
  BY <1>10 DEF rows, p, B, batch

-----------------------------------------------------------------------------
(* The corpus and the file.                                                 *)

LEMMA CorpusIsList ==
    ASSUME NEW docs \in Samples, NEW seeds \in PullMetricSeeds(docs)
    PROVE  \E S : BuildCorpus(seeds) \in Seq(S)
<1> DEFINE usable == {i \in DOMAIN docs : docs[i].readings >= 3}
           m == RowsPerSeed
<1>1. PICK positions \in SUBSET (DOMAIN docs) : seeds = Filter(docs, positions)
  <2>1. PICK chosen : seeds = Filter(docs, {i \in usable : docs[i].entity \in chosen})
    BY DEF PullMetricSeeds
  <2>2. {i \in usable : docs[i].entity \in chosen} \in SUBSET (DOMAIN docs)
    OBVIOUS
  <2>3. QED
    BY <2>1, <2>2
<1>2. docs \in Seq(ToSet(docs)) /\ m \in Nat
  BY TrainingAssumption DEF TrainingAssumption
<1> DEFINE n == Cardinality(positions)
<1>3. positions \in SUBSET Int /\ IsFiniteSet(positions) /\ n \in Nat
  <2>1. Len(docs) \in Nat /\ DOMAIN docs = 1 .. Len(docs)
    BY <1>2, LenProperties
  <2>2. IsFiniteSet(1 .. Len(docs))
    BY <2>1, FS_Interval
  <2>3. IsFiniteSet(positions)
    BY <1>1, <2>1, <2>2, FS_Subset
  <2>4. QED
    BY <1>1, <2>1, <2>3, FS_CardinalityType
<1>4. PICK order : seeds = [k \in 1 .. n |-> docs[order[k]]]
  <2>1. FiltersOut(seeds, docs, positions)
    BY <1>1, <1>3, FilterPicks
  <2>2. QED
    BY <2>1, Zenon DEF FiltersOut
<1>5. DOMAIN seeds = 1 .. n
  BY <1>4
<1> HIDE DEF n, m
<1> DEFINE E == UNION {{ExpandSeed(seeds[i])[j] : j \in 1 .. m} : i \in 1 .. n}
           expanded == [i \in 1 .. n |-> ExpandSeed(seeds[i])]
<1>6. \A i \in 1 .. n : ExpandSeed(seeds[i]) \in Seq(E)
  <2>1. ASSUME NEW i \in 1 .. n
        PROVE  ExpandSeed(seeds[i]) \in Seq(E)
    <3> DEFINE rows == ExpandSeed(seeds[i])
    <3>1. \A j \in 1 .. m : rows[j] \in E
      OBVIOUS
    <3>2. CASE seeds[i].expands
      <4>1. rows = [j \in 1 .. m |-> rows[j]]
        BY <3>2 DEF ExpandSeed, m
      <4> HIDE DEF rows, E
      <4>2. rows \in [1 .. m -> E]
        BY <3>1, <4>1
      <4>3. rows \in Seq(E)
        BY <1>2, <4>2, ListOf
      <4>4. QED
        BY <4>3 DEF rows
    <3>3. CASE ~seeds[i].expands
      <4>1. ExpandSeed(seeds[i]) = <<>>
        BY <3>3 DEF ExpandSeed
      <4> HIDE DEF E
      <4>2. QED
        BY <4>1
    <3>4. QED
      BY <3>2, <3>3
  <2>2. QED
    BY <2>1
<1> HIDE DEF E
<1>7. expanded \in [1 .. n -> Seq(E)]
  BY <1>6
<1>8. BuildCorpus(seeds) = FlattenSeq(expanded)
  BY <1>5 DEF BuildCorpus
<1> HIDE DEF expanded
<1>9. expanded \in Seq(Seq(E)) /\ <<>> \in Seq(Seq(E))
  BY <1>3, <1>7, ListOf, NothingOnce
<1>10. FlattenSeq(expanded) \in Seq(E)
  BY <1>9, FlattenConcat
<1>11. QED
  BY <1>8, <1>10

\* A chunk ends within the corpus.
LEMMA ChunkEnds ==
    ASSUME offset \in Nat, Len(corpus) \in Nat
    PROVE  ChunkEnd \in Nat /\ ChunkEnd <= Len(corpus)
<1> DEFINE a == offset + ChunkSize
           b == (offset \div CorpusRowGroup + 1) * CorpusRowGroup
           c == Len(corpus)
           ends == {a, b, c}
<1>1. ChunkSize \in Nat \ {0} /\ CorpusRowGroup \in Nat \ {0}
  BY TrainingAssumption DEF TrainingAssumption
<1>2. a \in Nat /\ c \in Nat
  BY <1>1
<1>3. b \in Nat
  <2> DEFINE q == offset \div CorpusRowGroup
  <2>1. q \in Nat
    BY <1>1
  <2> HIDE DEF q
  <2>2. (q + 1) * CorpusRowGroup \in Nat
    BY <1>1, <2>1
  <2>3. QED
    BY <2>2 DEF q
<1> HIDE DEF a, b
<1>4. IsFiniteSet(ends)
  <2>1. IsFiniteSet({a} \cup {b}) /\ {a} \cup {b} = {a, b}
    BY FS_Singleton, FS_AddElement
  <2>2. IsFiniteSet({a, b} \cup {c}) /\ {a, b} \cup {c} = ends
    BY <2>1, FS_AddElement
  <2>3. QED
    BY <2>2
<1>5. ends \in SUBSET Int /\ ends # {} /\ c \in ends /\ \A k \in ends : k \in Nat
  BY <1>2, <1>3
<1> HIDE DEF ends
<1>6. Min(ends) \in ends /\ \A k \in ends : Min(ends) <= k
  BY <1>4, <1>5, FiniteExtremes
<1>7. ChunkEnd = Min(ends)
  BY DEF ChunkEnd, ends, a, b
<1>8. QED
  BY <1>5, <1>6, <1>7

LEMMA PairsFromTheStart == TrainInit => FilePaired
<1> SUFFICES ASSUME TrainInit
             PROVE  FilePaired
  OBVIOUS
<1>1. \E S : corpus \in Seq(S)
  <2>1. PICK docs \in Samples : corpus \in {BuildCorpus(seeds) : seeds \in PullMetricSeeds(docs)}
    BY DEF TrainInit
  <2>2. PICK seeds \in PullMetricSeeds(docs) : corpus = BuildCorpus(seeds)
    BY <2>1
  <2>3. QED
    BY <2>2, CorpusIsList
<1>2. DOMAIN file = {} /\ offset \in Nat
  BY DEF TrainInit
<1>3. QED
  BY <1>1, <1>2 DEF FilePaired

LEMMA PairsStay ==
    ASSUME FilePaired, FileOK, [TrainNext]_trainVars
    PROVE  FilePaired'
<1>1. CASE WriteChunk
  <2>1. PICK S : corpus \in Seq(S)
    BY DEF FilePaired
  <2>2. Len(corpus) \in Nat /\ DOMAIN corpus = 1 .. Len(corpus) /\ offset \in Nat
    BY <2>1, LenProperties DEF FilePaired
  <2>3. ChunkEnd \in Nat /\ ChunkEnd <= Len(corpus)
    BY <2>2, ChunkEnds
  <2> DEFINE end == ChunkEnd
             chunk == SubSeq(corpus, offset + 1, end)
  <2>4. PICK jitter : file' = Append(file, AugmentBatch(chunk, offset, jitter))
    BY <1>1 DEF WriteChunk
  <2>5. offset' = end /\ corpus' = corpus
    BY <1>1 DEF WriteChunk
  <2> HIDE DEF end
  <2>6. end \in Nat /\ end <= Len(corpus)
    BY <2>3 DEF end
  <2>7. \A k \in offset + 1 .. end : corpus[k] \in S
    <3>1. \A k \in offset + 1 .. end : k \in 1 .. Len(corpus)
      BY <2>2, <2>6
    <3>2. QED
      BY <2>1, <3>1, ElementOfSeq
  <2>8. chunk \in Seq(S)
    BY <2>2, <2>6, <2>7, SubSeqProperties
  <2> HIDE DEF chunk
  <2> DEFINE x == AugmentBatch(chunk, offset, jitter)
  <2>9. Paired(x)
    BY <2>2, <2>8, AugmentationPairs
  <2> HIDE DEF x
  <2>10. file' = Append(file, x)
    BY <2>4 DEF x
  <2>11. PICK T : file \in Seq(T)
    BY DEF FileOK
  <2>12. file \in Seq(T \cup {x}) /\ x \in T \cup {x}
    BY <2>11, SeqDef
  <2>13. DOMAIN file' = DOMAIN file \cup {Len(file) + 1} /\ file'[Len(file) + 1] = x
         /\ \A g \in DOMAIN file : file'[g] = file[g]
    <3>1. /\ file' \in Seq(T \cup {x}) /\ Len(file') = Len(file) + 1 /\ Len(file) \in Nat
          /\ file'[Len(file) + 1] = x /\ \A g \in 1 .. Len(file) : file'[g] = file[g]
      BY <2>10, <2>12, AppendProperties, LenProperties
    <3>2. DOMAIN file' = 1 .. Len(file) + 1 /\ DOMAIN file = 1 .. Len(file)
      BY <2>12, <3>1, LenProperties
    <3>3. 1 .. Len(file) + 1 = (1 .. Len(file)) \cup {Len(file) + 1}
      BY <3>1
    <3>4. QED
      BY <3>1, <3>2, <3>3
  <2>14. \A g \in DOMAIN file' : Paired(file'[g])
    BY <2>9, <2>13 DEF FilePaired
  <2>15. QED
    BY <2>1, <2>5, <2>6, <2>14 DEF FilePaired
<1>2. CASE UNCHANGED fileVars
  <2>1. UNCHANGED <<corpus, offset, file>>
    BY <1>2 DEF fileVars
  <2>2. QED
    BY <2>1 DEF FilePaired
<1>3. QED
  <2>1. CASE TrainNext /\ ~WriteChunk
    <3>1. UNCHANGED fileVars
      BY <2>1 DEF TrainNext, CloseFile, Fresh, Resume, ResumeFinal, ReadRowGroup, TakeWindow, EmptyEpoch,
                  EpochWithCheckpoint, EpochWithoutCheckpoint, WriteCheckpoint, SaveFinal, WriteFinal,
                  Crash
    <3>2. QED
      BY <1>2, <3>1
  <2>2. CASE UNCHANGED trainVars
    <3>1. UNCHANGED fileVars
      BY <2>2 DEF trainVars
    <3>2. QED
      BY <1>2, <3>1
  <2>3. QED
    BY <1>1, <2>1, <2>2

-----------------------------------------------------------------------------
(* Encoding.                                                                *)

\* Every name has a row in the embedding tables.
LEMMA NamesHaveRows ==
    /\ TableSize \in Nat /\ 0 < TableSize
    /\ \A m : VocabIndex(m) \in Nat /\ VocabIndex(m) < TableSize
<1> DEFINE before == [m \in Vocabulary |-> {n \in Vocabulary : n < m}]
           size == Cardinality(Vocabulary)
<1>1. Vocabulary \in SUBSET Int /\ IsFiniteSet(Vocabulary)
  BY FeatureAssumption DEF FeatureAssumption
<1>2. Enumerates(Labels, before, Vocabulary) /\ size \in Nat
  <2>1. StrictlyOrders(before, Vocabulary)
    BY <1>1, NumbersAreOrdered
  <2>2. QED
    BY <1>1, <2>1, InOrderEnumerates DEF Labels
<1> HIDE DEF before
<1>3. /\ DOMAIN Labels = 1 .. size
      /\ \A m \in Vocabulary : \E i \in 1 .. size : Labels[i] = m
      /\ \A i \in 1 .. size : Labels[i] \in Vocabulary
  BY <1>2 DEF Enumerates
<1>4. Len(Labels) = size
  <2>1. Labels = [i \in 1 .. size |-> Labels[i]]
    BY <1>2, <1>3 DEF Labels, InOrder
  <2>2. Labels \in [1 .. size -> Vocabulary]
    BY <1>3, <2>1
  <2>3. Labels \in Seq(Vocabulary)
    BY <1>2, <2>2, SeqDef
  <2>4. QED
    BY <1>2, <1>3, <2>3, LenProperties
<1>5. ASSUME NEW m
      PROVE  VocabIndex(m) \in Nat /\ VocabIndex(m) < TableSize
  <2>1. CASE m \in Vocabulary
    <3>1. VocabIndex(m) \in 1 .. size
      BY <1>3, <2>1 DEF VocabIndex
    <3>2. QED
      BY <1>2, <1>4, <3>1 DEF TableSize
  <2>2. CASE m \notin Vocabulary
    BY <1>2, <1>4, <2>2 DEF VocabIndex, Unknown, TableSize
  <2>3. QED
    BY <2>1, <2>2
<1>6. QED
  BY <1>2, <1>4, <1>5 DEF TableSize

\* The batch.
LEMMA BatchIsList ==
    ASSUME records \in Batches
    PROVE  /\ Len(records) \in Nat \ {0} /\ DOMAIN records = 1 .. Len(records)
           /\ \A i \in DOMAIN records : records[i].time \in Nat /\ records[i].metric \in Nat
           /\ Entities = {records[i].entity : i \in DOMAIN records}
           /\ IsFiniteSet(DOMAIN records)
<1>1. /\ records \in Seq(ToSet(records)) \ {<<>>}
      /\ \A r \in ToSet(records) : r.time \in Nat /\ r.metric \in Nat
  BY EncodingAssumption DEF EncodingAssumption
<1>2. /\ Len(records) \in Nat \ {0} /\ DOMAIN records = 1 .. Len(records)
  BY <1>1, LenProperties, EmptySeq
<1>3. IsFiniteSet(1 .. Len(records))
  BY <1>2, FS_Interval
<1>4. \A i \in DOMAIN records : records[i] \in ToSet(records)
  BY DEF ToSet
<1>5. Entities = {records[i].entity : i \in DOMAIN records}
  BY DEF Entities, ToSet
<1>6. QED
  BY <1>1, <1>2, <1>3, <1>4, <1>5

LEMMA OwnRecords ==
    ASSUME records \in Batches, NEW e \in Entities
    PROVE  /\ RecordsOf(e) \in SUBSET (DOMAIN records) /\ RecordsOf(e) \in SUBSET Int
           /\ IsFiniteSet(RecordsOf(e)) /\ RecordsOf(e) # {}
           /\ Cardinality(RecordsOf(e)) \in Nat \ {0}
<1>1. RecordsOf(e) \in SUBSET (DOMAIN records) /\ RecordsOf(e) \in SUBSET Int
  BY BatchIsList DEF RecordsOf
<1>2. RecordsOf(e) # {}
  BY BatchIsList DEF RecordsOf
<1>3. IsFiniteSet(RecordsOf(e))
  BY <1>1, BatchIsList, FS_Subset
<1>4. Cardinality(RecordsOf(e)) \in Nat \ {0}
  BY <1>2, <1>3, FS_CardinalityType, FS_EmptySet
<1>5. QED
  BY <1>1, <1>2, <1>3, <1>4

\* Every entity gets one row.
LEMMA EntitiesInOrder ==
    ASSUME records \in Batches
    PROVE  /\ Cardinality(Entities) \in Nat \ {0}
           /\ EntityOrder \in [1 .. Cardinality(Entities) -> Entities]
           /\ \A e \in Entities : \E i \in DOMAIN EntityOrder : EntityOrder[i] = e
           /\ \A i, j \in DOMAIN EntityOrder : EntityOrder[i] = EntityOrder[j] => i = j
<1> DEFINE first(e) == Min({i \in DOMAIN records : records[i].entity = e})
           before == [e \in Entities |-> {d \in Entities : first(d) < first(e)}]
<1>1. \A e \in Entities : first(e) \in Int /\ first(e) \in DOMAIN records /\ records[first(e)].entity = e
  <2>1. ASSUME NEW e \in Entities
        PROVE  first(e) \in RecordsOf(e)
    <3>1. Min(RecordsOf(e)) \in RecordsOf(e)
      BY OwnRecords, FiniteExtremes
    <3>2. QED
      BY <3>1 DEF RecordsOf
  <2>2. QED
    BY <2>1, OwnRecords DEF RecordsOf
<1> HIDE DEF first
<1>2. IsFiniteSet(Entities) /\ Entities # {}
  <2> DEFINE f == [i \in DOMAIN records |-> records[i].entity]
  <2>1. f \in Surjection(DOMAIN records, Entities)
    BY BatchIsList DEF Surjection
  <2>2. IsFiniteSet(Entities)
    BY <2>1, BatchIsList, FS_Surjection
  <2>3. 1 \in DOMAIN records
    BY BatchIsList
  <2>4. QED
    BY <2>2, <2>3, BatchIsList
<1>3. StrictlyOrders(before, Entities)
  <2>1. /\ before \in [Entities -> SUBSET Entities]
        /\ \A d, e \in Entities : d \in before[e] <=> first(d) < first(e)
    OBVIOUS
  <2> HIDE DEF before
  <2>2. \A e \in Entities : e \notin before[e]
    BY <1>1, <2>1
  <2>3. \A d, e \in Entities : d \in before[e] => before[d] \subseteq before[e]
    <3>1. ASSUME NEW d \in Entities, NEW e \in Entities, d \in before[e], NEW c \in before[d]
          PROVE  c \in before[e]
      <4>1. c \in Entities
        BY <2>1
      <4>2. first(c) < first(d) /\ first(d) < first(e)
        BY <2>1, <3>1, <4>1
      <4>3. first(c) < first(e)
        BY <1>1, <4>1, <4>2
      <4>4. QED
        BY <2>1, <4>1, <4>3
    <3>2. QED
      BY <3>1
  <2>4. \A d, e \in Entities : d # e => d \in before[e] \/ e \in before[d]
    <3>1. ASSUME NEW d \in Entities, NEW e \in Entities, d # e
          PROVE  first(d) < first(e) \/ first(e) < first(d)
      <4>1. first(d) # first(e)
        BY <1>1, <3>1
      <4>2. first(d) \in Int /\ first(e) \in Int
        BY <1>1
      <4>3. QED
        BY <4>1, <4>2
    <3>2. QED
      BY <2>1, <3>1
  <2>5. QED
    BY <2>1, <2>2, <2>3, <2>4 DEF StrictlyOrders
<1>4. EntityOrder = InOrder(before)
  BY DEF EntityOrder, first
<1> HIDE DEF before
<1>5. Enumerates(EntityOrder, before, Entities) /\ Cardinality(Entities) \in Nat
  BY <1>2, <1>3, <1>4, InOrderEnumerates
<1>6. Cardinality(Entities) # 0
  BY <1>2, FS_EmptySet
<1>7. QED
  BY <1>5, <1>6 DEF Enumerates

\* The records of an entity, sorted.
SortsOut(order, P) ==
    /\ DOMAIN order = 1 .. Cardinality(P)
    /\ \A k \in 1 .. Cardinality(P) : order[k] \in P
    /\ \A i \in P : \E k \in 1 .. Cardinality(P) : order[k] = i
    /\ \A k, l \in 1 .. Cardinality(P) : order[k] = order[l] => k = l
    /\ \A k, l \in 1 .. Cardinality(P) :
          k < l => ~RecordBefore(records[order[l]], records[order[k]])

LEMMA RecordsSorted ==
    ASSUME records \in Batches, NEW P \in SUBSET (DOMAIN records), IsFiniteSet(P)
    PROVE  \E order :
              /\ SortsOut(order, P)
              /\ StableSort(records, P, RecordBefore) = [k \in 1 .. Cardinality(P) |-> records[order[k]]]
<1> DEFINE Behind(i, j) == IF j < i THEN ~RecordBefore(records[i], records[j])
                                    ELSE RecordBefore(records[j], records[i])
           before == [i \in P |-> {j \in P \ {i} :
                         IF j < i THEN ~RecordBefore(records[i], records[j])
                                  ELSE RecordBefore(records[j], records[i])}]
           order == InOrder(before)
<1>1. \A i \in P : i \in Int /\ records[i].time \in Int /\ records[i].metric \in Int
  BY BatchIsList
<1>2. \A i, j \in P : j \in before[i] <=> i # j /\ Behind(i, j)
  OBVIOUS
<1>3. before \in [P -> SUBSET P]
  OBVIOUS
<1>4. StableSort(records, P, RecordBefore) = [k \in DOMAIN order |-> records[order[k]]]
  BY DEF StableSort
<1> HIDE DEF before
<1>5. \A i, j \in P : i # j => Behind(i, j) \/ Behind(j, i)
  BY <1>1 DEF RecordBefore
<1>6. \A i, j \in P : j # i /\ Behind(i, j) => ~RecordBefore(records[i], records[j])
  BY <1>1 DEF RecordBefore
<1>7. ASSUME NEW i \in P, NEW j \in P, NEW k \in P, i # j, j # k, Behind(i, j), Behind(j, k)
      PROVE  i # k /\ Behind(i, k)
  BY <1>1, <1>7 DEF RecordBefore
<1> HIDE DEF Behind
<1>8. StrictlyOrders(before, P)
  <2>1. \A i, j \in P : j \in before[i] => before[j] \subseteq before[i]
    <3>1. ASSUME NEW i \in P, NEW j \in P, j \in before[i], NEW k \in before[j]
          PROVE  k \in before[i]
      <4>1. k \in P
        BY <1>3
      <4>2. QED
        BY <1>2, <1>7, <3>1, <4>1
    <3>2. QED
      BY <3>1
  <2>2. QED
    BY <1>2, <1>3, <1>5, <2>1 DEF StrictlyOrders
<1>9. Enumerates(order, before, P)
  BY <1>8, InOrderEnumerates
<1> HIDE DEF order
<1>10. SortsOut(order, P)
  BY <1>2, <1>6, <1>9 DEF Enumerates, SortsOut
<1>11. StableSort(records, P, RecordBefore) = [k \in 1 .. Cardinality(P) |-> records[order[k]]]
  <2>1. DOMAIN order = 1 .. Cardinality(P)
    BY <1>10 DEF SortsOut
  <2>2. QED
    BY <1>4, <2>1, Zenon
<1>12. QED
  BY <1>10, <1>11, Zenon

Codes == {EncodeRecord(records[i]) : i \in DOMAIN records} \cup {Padding}

\* read is what the network should read of e.
IsHistory(read, e) == read \in Seq(Codes) /\ 0 < Len(read) /\ AreNewestOf(read, e)

\* The records encoded for an entity are its own latest, oldest first.
LEMMA HistoryIsEncoded ==
    ASSUME records \in Batches, NEW e \in Entities
    PROVE  IsHistory(EncodeEntityRecords(records, RecordsOf(e)), e)
<1> DEFINE P == RecordsOf(e)
           m == Cardinality(P)
           n == Min({SeqLen, m})
           sorted == StableSort(records, P, RecordBefore)
           window == Newest(sorted)
           read == EncodeEntityRecords(records, P)
<1>1. /\ P \in SUBSET (DOMAIN records) /\ IsFiniteSet(P) /\ m \in Nat \ {0}
      /\ P = {i \in DOMAIN records : records[i].entity = e}
  BY OwnRecords DEF RecordsOf
<1>2. PICK order :
         SortsOut(order, P) /\ sorted = [k \in 1 .. m |-> records[order[k]]]
  BY <1>1, RecordsSorted
<1> DEFINE S == {records[i] : i \in DOMAIN records}
<1>3. n \in 1 .. m /\ n \in Nat
  <2>1. SeqLen \in Nat \ {0} /\ m \in Nat \ {0}
    BY <1>1, Sizes
  <2> HIDE DEF m
  <2>2. QED
    BY <2>1, MinOfTwo
<1>4. read = [i \in DOMAIN window |-> EncodeRecord(window[i])]
  BY DEF EncodeEntityRecords
<1>5. window = SubSeq(sorted, Len(sorted) - Min({SeqLen, Len(sorted)}) + 1, Len(sorted))
  BY DEF Newest
<1> HIDE DEF sorted, P
<1>6. /\ \A k \in 1 .. m : order[k] \in P
      /\ \A i \in P : \E k \in 1 .. m : order[k] = i
      /\ \A k, l \in 1 .. m : order[k] = order[l] => k = l
      /\ \A k, l \in 1 .. m : k < l => ~RecordBefore(records[order[l]], records[order[k]])
  BY <1>2 DEF SortsOut
<1>7. sorted \in Seq(S) /\ Len(sorted) = m /\ \A k \in 1 .. m : sorted[k] = records[order[k]]
  <2>1. \A k \in 1 .. m : records[order[k]] \in S
    BY <1>1, <1>6
  <2>2. sorted \in [1 .. m -> S]
    BY <1>2, <2>1
  <2>3. sorted \in Seq(S) /\ Len(sorted) = m
    BY <1>1, <2>2, ListOf
  <2>4. QED
    BY <1>2, <2>3
<1> HIDE DEF n, m, window, read, S
<1>8. window = SubSeq(sorted, m - n + 1, m)
  BY <1>5, <1>7 DEF n
<1>9. /\ window \in Seq(S) /\ Len(window) = n
      /\ \A i \in 1 .. n : window[i] = records[order[m - n + i]]
  <2>1. /\ m - n + 1 \in Int /\ m \in Int /\ m - n + 1 <= m + 1
        /\ \A i \in m - n + 1 .. m : i \in 1 .. m
        /\ m - (m - n + 1) + 1 = n
        /\ \A i \in 1 .. n : (m - n + 1) + i - 1 = m - n + i /\ m - n + i \in 1 .. m
    BY <1>1, <1>3
  <2>2. \A i \in m - n + 1 .. m : sorted[i] \in S
    BY <1>7, <2>1, ElementOfSeq
  <2>3. /\ window \in Seq(S)
        /\ Len(window) = IF m - n + 1 <= m THEN m - (m - n + 1) + 1 ELSE 0
        /\ \A i \in 1 .. m - (m - n + 1) + 1 : window[i] = sorted[(m - n + 1) + i - 1]
    BY <1>7, <1>8, <2>1, <2>2, SubSeqProperties
  <2>4. m - n + 1 <= m
    BY <1>1, <1>3
  <2>5. QED
    BY <1>7, <2>1, <2>3, <2>4
<1>10. read = [i \in 1 .. n |-> EncodeRecord(records[order[m - n + i]])]
  <2>1. DOMAIN window = 1 .. n
    BY <1>9, LenProperties
  <2>2. QED
    BY <1>4, <1>9, <2>1
<1> DEFINE pick == [i \in 1 .. n |-> order[m - n + i]]
<1>11. \A i \in 1 .. n : m - n + i \in 1 .. m /\ pick[i] = order[m - n + i]
  BY <1>1, <1>3
<1>12. DOMAIN pick = 1 .. n /\ pick \in [1 .. n -> P]
  BY <1>6, <1>11
<1>13. read = [i \in 1 .. n |-> EncodeRecord(records[pick[i]])]
  BY <1>10
<1> HIDE DEF pick
<1>14. read \in Seq(Codes) /\ 0 < Len(read)
  <2>1. \A i \in 1 .. n : EncodeRecord(records[pick[i]]) \in Codes
    BY <1>1, <1>12 DEF Codes
  <2>2. read \in [1 .. n -> Codes]
    BY <1>13, <2>1
  <2>3. QED
    BY <1>3, <2>2, SeqDef, LenProperties
<1>15. AreNewestOf(read, e)
  <2>1. Cardinality({pick[i] : i \in 1 .. n}) = n
    <3> DEFINE T == {pick[i] : i \in 1 .. n}
    <3>1. \A i, j \in 1 .. n : pick[i] = pick[j] => i = j
      <4>1. ASSUME NEW i \in 1 .. n, NEW j \in 1 .. n, pick[i] = pick[j]
            PROVE  i = j
        <5>1. m - n + i = m - n + j
          BY <1>6, <1>11, <4>1
        <5>2. QED
          BY <1>1, <1>3, <5>1
      <4>2. QED
        BY <4>1
    <3>2. pick \in Bijection(1 .. n, T)
      BY <1>12, <3>1 DEF Bijection, Injection, Surjection, IsInjective
    <3>3. ExistsBijection(1 .. n, T)
      BY <3>2 DEF ExistsBijection
    <3> HIDE DEF T
    <3>4. Cardinality(T) = n
      BY <1>3, <3>3, FS_CountingElements
    <3>5. QED
      BY <3>4 DEF T
  <2>2. \A i, j \in 1 .. n : i < j => ~RecordBefore(records[pick[j]], records[pick[i]])
    <3>1. ASSUME NEW i \in 1 .. n, NEW j \in 1 .. n, i < j
          PROVE  ~RecordBefore(records[pick[j]], records[pick[i]])
      <4>1. m - n + i < m - n + j
        BY <1>1, <1>3, <3>1
      <4>2. QED
        BY <1>6, <1>11, <4>1
    <3>2. QED
      BY <3>1
  <2>3. \A i \in P \ {pick[j] : j \in 1 .. n} : ~RecordBefore(records[pick[1]], records[i])
    <3>1. ASSUME NEW i \in P, i \notin {pick[j] : j \in 1 .. n}
          PROVE  ~RecordBefore(records[pick[1]], records[i])
      <4>1. PICK k \in 1 .. m : order[k] = i
        BY <1>6
      <4>2. k < m - n + 1
        <5>1. SUFFICES ASSUME ~(k < m - n + 1)
                       PROVE  FALSE
          OBVIOUS
        <5>2. k - (m - n) \in 1 .. n /\ m - n + (k - (m - n)) = k
          BY <1>1, <1>3, <5>1
        <5>3. pick[k - (m - n)] = i
          BY <1>11, <4>1, <5>2
        <5>4. QED
          BY <3>1, <5>2, <5>3
      <4>3. 1 \in 1 .. n
        BY <1>3
      <4>4. QED
        BY <1>6, <1>11, <4>1, <4>2, <4>3
    <3>2. QED
      BY <3>1
  <2>4. /\ P = {i \in DOMAIN records : records[i].entity = e}
        /\ n = Min({SeqLen, Cardinality(P)})
    BY <1>1 DEF n, m
  <2>5. QED
    BY <1>12, <1>13, <2>1, <2>2, <2>3, <2>4 DEF AreNewestOf
<1>16. QED
  BY <1>14, <1>15 DEF IsHistory, read, P

\* The collated batch.
Collated ==
    LET encoded == [i \in DOMAIN entity_ids |->
                       EncodeEntityRecords(records, RecordsOf(entity_ids[i]))]
        longest == Max({Len(encoded[i]) : i \in DOMAIN encoded})
    IN  /\ entity_ids = EntityOrder
        /\ lengths = [i \in DOMAIN encoded |-> Len(encoded[i])]
        /\ padded = [i \in DOMAIN encoded |-> PadTo(longest, encoded[i])]

\* A row and its length give the history of e and padding behind it.
RowOf(row, length, e) ==
    /\ row \in Seq(Codes)
    /\ \E read : /\ IsHistory(read, e) /\ length = Len(read)
                 /\ Len(read) <= Len(row)
                 /\ \A t \in 1 .. Len(read) : row[t] = read[t]

LEMMA PaddedRow ==
    ASSUME NEW e, NEW read, IsHistory(read, e), NEW n \in Nat, Len(read) <= n
    PROVE  RowOf(PadTo(n, read), Len(read), e)
<1> DEFINE m == Len(read)
           pad == [i \in 1 .. n - Len(read) |-> Padding]
           row == PadTo(n, read)
<1>1. read \in Seq(Codes) /\ m \in Nat /\ Padding \in Codes
  BY LenProperties DEF IsHistory, Codes
<1>2. n - m \in Nat
  BY <1>1
<1>3. pad \in [1 .. n - m -> Codes]
  BY <1>1
<1> HIDE DEF pad
<1>4. pad \in Seq(Codes) /\ Len(pad) = n - m
  BY <1>2, <1>3, ListOf
<1>5. row = read \o pad
  BY DEF PadTo, pad
<1> HIDE DEF row
<1>6. /\ row \in Seq(Codes) /\ Len(row) = m + (n - m)
      /\ \A t \in 1 .. m + (n - m) : row[t] = IF t <= m THEN read[t] ELSE pad[t - m]
  BY <1>1, <1>4, <1>5, ConcatProperties
<1>7. Len(row) = n /\ \A t \in 1 .. m : row[t] = read[t]
  BY <1>1, <1>2, <1>6
<1>8. QED
  BY <1>6, <1>7 DEF RowOf, row

\* Every entity has its row.
LEMMA RowsAreHistories ==
    ASSUME records \in Batches, Collated
    PROVE  LET n == Cardinality(Entities)
           IN  /\ n \in Nat \ {0}
               /\ entity_ids \in Seq(Entities) /\ Len(entity_ids) = n
               /\ padded \in Seq(Seq(Codes)) /\ Len(padded) = n
               /\ lengths \in Seq(Nat) /\ Len(lengths) = n
               /\ \A e \in Entities : \E i \in 1 .. n : entity_ids[i] = e
               /\ \A i, j \in 1 .. n : entity_ids[i] = entity_ids[j] => i = j
               /\ \A i \in 1 .. n : RowOf(padded[i], lengths[i], entity_ids[i])
<1> DEFINE n == Cardinality(Entities)
           encoded == [i \in DOMAIN entity_ids |->
                          EncodeEntityRecords(records, RecordsOf(entity_ids[i]))]
           S == {Len(encoded[i]) : i \in DOMAIN encoded}
           longest == Max(S)
<1>1. /\ lengths = [i \in DOMAIN encoded |-> Len(encoded[i])]
      /\ padded = [i \in DOMAIN encoded |-> PadTo(longest, encoded[i])]
      /\ entity_ids = EntityOrder
  BY DEF Collated
<1>2. /\ n \in Nat \ {0} /\ DOMAIN entity_ids = 1 .. n
      /\ entity_ids \in [1 .. n -> Entities]
      /\ \A e \in Entities : \E i \in 1 .. n : entity_ids[i] = e
      /\ \A i, j \in 1 .. n : entity_ids[i] = entity_ids[j] => i = j
  BY <1>1, EntitiesInOrder
<1>3. DOMAIN encoded = 1 .. n
  BY <1>2
<1>4. \A i \in 1 .. n : IsHistory(encoded[i], entity_ids[i])
  BY <1>2, HistoryIsEncoded
<1> HIDE DEF encoded, n
<1>5. \A i \in 1 .. n : Len(encoded[i]) \in Nat
  BY <1>4, LenProperties DEF IsHistory
<1>6. longest \in Nat /\ \A i \in 1 .. n : Len(encoded[i]) <= longest
  <2> DEFINE f == [i \in 1 .. n |-> Len(encoded[i])]
  <2>1. f \in Surjection(1 .. n, S)
    BY <1>3 DEF Surjection
  <2>2. IsFiniteSet(1 .. n)
    BY <1>2, FS_Interval
  <2>3. IsFiniteSet(S)
    BY <2>1, <2>2, FS_Surjection
  <2>4. S \in SUBSET Nat /\ \A i \in 1 .. n : Len(encoded[i]) \in S
    BY <1>3, <1>5
  <2>5. 1 \in 1 .. n
    BY <1>2
  <2> HIDE DEF S
  <2>6. S \in SUBSET Int /\ S # {}
    BY <2>4, <2>5
  <2>7. longest \in S /\ \A x \in S : x <= longest
    BY <2>3, <2>6, FiniteExtremes
  <2>8. QED
    BY <2>4, <2>7
<1> HIDE DEF longest, S
<1>7. \A i \in 1 .. n : RowOf(padded[i], lengths[i], entity_ids[i])
  <2>1. ASSUME NEW i \in 1 .. n
        PROVE  RowOf(padded[i], lengths[i], entity_ids[i])
    <3>1. padded[i] = PadTo(longest, encoded[i]) /\ lengths[i] = Len(encoded[i])
      BY <1>1, <1>3
    <3>2. RowOf(PadTo(longest, encoded[i]), Len(encoded[i]), entity_ids[i])
      BY <1>4, <1>6, PaddedRow
    <3>3. QED
      BY <3>1, <3>2
  <2>2. QED
    BY <2>1
<1>8. padded \in Seq(Seq(Codes)) /\ Len(padded) = n
  <2>1. padded \in [1 .. n -> Seq(Codes)]
    <3>1. \A i \in 1 .. n : padded[i] \in Seq(Codes)
      BY <1>7 DEF RowOf
    <3>2. padded = [i \in 1 .. n |-> padded[i]]
      BY <1>1, <1>3
    <3>3. QED
      BY <3>1, <3>2
  <2>2. QED
    BY <1>2, <2>1, ListOf
<1>9. lengths \in Seq(Nat) /\ Len(lengths) = n
  <2>1. lengths \in [1 .. n -> Nat]
    BY <1>1, <1>3, <1>5
  <2>2. QED
    BY <1>2, <2>1, ListOf
<1>10. entity_ids \in Seq(Entities) /\ Len(entity_ids) = n
  BY <1>2, ListOf
<1>11. QED
  BY <1>2, <1>7, <1>8, <1>9, <1>10 DEF n

\* The network reads the history, whatever padding is behind it.
LEMMA ForwardIsOwn ==
    ASSUME NEW row, NEW length, NEW e, RowOf(row, length, e)
    PROVE  IsOwn(Forward(row, length, FALSE), e)
<1>1. PICK read : /\ IsHistory(read, e) /\ length = Len(read)
                  /\ Len(read) <= Len(row)
                  /\ \A t \in 1 .. Len(read) : row[t] = read[t]
  BY DEF RowOf
<1> DEFINE x == Forward(row, length, FALSE)
           gru == RunGru(row, length)
<1>2. /\ row \in Seq(Codes) /\ read \in Seq(Codes)
      /\ Len(row) \in Nat /\ DOMAIN row = 1 .. Len(row)
      /\ Len(read) \in Nat /\ DOMAIN read = 1 .. Len(read) /\ 0 < Len(read)
  BY <1>1, LenProperties DEF IsHistory, RowOf
<1>3. \A t \in 1 .. length : SubSeq(row, 1, t) = SubSeq(read, 1, t)
  <2>1. ASSUME NEW t \in 1 .. length
        PROVE  SubSeq(row, 1, t) = SubSeq(read, 1, t)
    <3> DEFINE a == SubSeq(row, 1, t)
               b == SubSeq(read, 1, t)
    <3>1. t \in Int /\ 1 <= t /\ t - 1 + 1 = t /\ \A i \in 1 .. t : i \in 1 .. Len(read) /\ 1 + i - 1 = i
      BY <1>1, <1>2
    <3>2. \A i \in 1 .. t : row[i] = read[i] /\ read[i] \in Codes
      BY <1>1, <1>2, <3>1, ElementOfSeq
    <3>3. a \in Seq(Codes) /\ Len(a) = t /\ \A i \in 1 .. t : a[i] = row[i]
      BY <3>1, <3>2, SubSeqProperties
    <3>4. b \in Seq(Codes) /\ Len(b) = t /\ \A i \in 1 .. t : b[i] = read[i]
      BY <3>1, <3>2, SubSeqProperties
    <3> HIDE DEF a, b
    <3>5. a = b
      BY <3>2, <3>3, <3>4, SeqEqual
    <3>6. QED
      BY <3>5 DEF a, b
  <2>2. QED
    BY <2>1
<1>4. gru.valid = 1 .. length
  BY <1>1, <1>2 DEF RunGru
<1>5. \A t \in 1 .. length : gru.state[t] = SubSeq(read, 1, t)
  BY <1>1, <1>2, <1>3 DEF RunGru
<1>6. x.states = {gru.state[t] : t \in gru.valid} /\ x.space = "representation"
  BY DEF Forward, AttentionPooling
<1> HIDE DEF gru, x
<1>7. x.states = {SubSeq(read, 1, t) : t \in DOMAIN read}
  BY <1>1, <1>2, <1>4, <1>5, <1>6
<1>8. read \in x.states
  <2> DEFINE n == Len(read)
             b == SubSeq(read, 1, n)
  <2>1. n \in Int /\ 1 <= n /\ n - 1 + 1 = n /\ n \in DOMAIN read /\ \A i \in 1 .. n : 1 + i - 1 = i
    BY <1>2
  <2>2. \A i \in 1 .. n : read[i] \in Codes
    BY <1>2, ElementOfSeq
  <2>3. b \in Seq(Codes) /\ Len(b) = n /\ \A i \in 1 .. n : b[i] = read[i]
    BY <2>1, <2>2, SubSeqProperties
  <2>4. b \in x.states
    BY <1>7, <2>1
  <2> HIDE DEF b, n
  <2>5. b = read
    BY <1>2, <2>3, SeqEqual DEF n
  <2>6. QED
    BY <2>4, <2>5
<1>9. QED
  BY <1>1, <1>6, <1>7, <1>8 DEF IsOwn, IsHistory, x

\* No code is without a row in its embedding table.
LEMMA LookupFinds ==
    ASSUME NEW rows \in Seq(Seq(Codes))
    PROVE  ~LookupRaises(rows)
<1>1. \A c \in Codes : c.metric < TableSize /\ c.metric \in Int
  <2>1. ASSUME NEW c \in Codes
        PROVE  \E m : c.metric = VocabIndex(m) \/ c.metric = 0
    BY DEF Codes, EncodeRecord, Padding, Unknown
  <2>2. QED
    BY <2>1, NamesHaveRows
<1>2. ASSUME NEW i \in DOMAIN rows, NEW t \in DOMAIN rows[i]
      PROVE  rows[i][t] \in Codes
  <2>1. rows[i] \in Seq(Codes)
    BY LenProperties, ElementOfSeq
  <2>2. QED
    BY <2>1, LenProperties, ElementOfSeq
<1>3. QED
  BY <1>1, <1>2, NamesHaveRows DEF LookupRaises

\* k-means is never given fewer points than cells.
LEMMA EnoughPoints ==
    ASSUME NEW n \in Nat \ {0}
    PROVE  ~(TrainSize(n) < Cells(n))
<1> DEFINE share == Max({1, n \div MinTrainPoints})
           c == Cells(n)
           wanted == Max({c * MinTrainPoints, n \div 10})
<1>1. \A a, b, d : IsFiniteSet({a, b}) /\ IsFiniteSet({a, b, d})
  <2>1. ASSUME NEW a, NEW b, NEW d
        PROVE  IsFiniteSet({a, b}) /\ IsFiniteSet({a, b, d})
    <3>1. IsFiniteSet({a} \cup {b})
      BY FS_Singleton, FS_AddElement
    <3>2. IsFiniteSet(({a} \cup {b}) \cup {d})
      BY <3>1, FS_AddElement
    <3>3. {a, b} = {a} \cup {b} /\ {a, b, d} = ({a} \cup {b}) \cup {d}
      OBVIOUS
    <3>4. QED
      BY <3>1, <3>2, <3>3
  <2>2. QED
    BY <2>1
<1>2. n \div MinTrainPoints \in Nat /\ n \div 10 \in Nat
  BY Sizes
<1>3. share \in Int /\ share >= 1
  <2> DEFINE s == {1, n \div MinTrainPoints}
  <2>1. s \in SUBSET Int /\ s # {}
    BY <1>2
  <2>2. IsFiniteSet(s)
    BY <1>1
  <2>3. 1 \in s
    OBVIOUS
  <2>4. share = Max(s)
    OBVIOUS
  <2> HIDE DEF s, share
  <2>5. share \in s /\ 1 <= share
    BY <2>1, <2>2, <2>3, <2>4, FiniteExtremes
  <2>6. QED
    BY <2>1, <2>5
<1> HIDE DEF share
<1>4. c \in Nat /\ 1 <= c /\ c <= n
  <2> DEFINE s == {NList, share, n}
  <2>1. s \in SUBSET Int /\ n \in s /\ \A x \in s : 1 <= x
    BY <1>3, Sizes
  <2>2. IsFiniteSet(s)
    BY <1>1
  <2>3. c = Min(s)
    BY DEF Cells, share
  <2> HIDE DEF s, c
  <2>4. c \in s /\ c <= n
    BY <2>1, <2>2, <2>3, FiniteExtremes
  <2>5. QED
    BY <2>1, <2>4
<1> HIDE DEF c
<1>5. c * MinTrainPoints \in Int /\ c <= c * MinTrainPoints
  <2>1. \A a, b \in Nat : 1 <= b => a * b \in Nat /\ a <= a * b
    OBVIOUS
  <2>2. MinTrainPoints \in Nat /\ 1 <= MinTrainPoints
    BY Sizes
  <2>3. QED
    BY <1>4, <2>1, <2>2
<1> DEFINE product == c * MinTrainPoints
<1>6. product \in Int /\ c <= product
  BY <1>5
<1> HIDE DEF product
<1>7. wanted \in Int /\ c <= wanted
  <2> DEFINE s == {product, n \div 10}
  <2>1. s \in SUBSET Int /\ product \in s
    BY <1>2, <1>6
  <2>2. IsFiniteSet(s)
    BY <1>1
  <2>3. wanted = Max(s)
    BY DEF product
  <2> HIDE DEF s, wanted
  <2>4. wanted \in s /\ product <= wanted
    BY <2>1, <2>2, <2>3, FiniteExtremes
  <2>5. QED
    BY <1>4, <1>6, <2>1, <2>4
<1> HIDE DEF wanted
<1>8. TrainSize(n) = Min({wanted, n})
  BY DEF TrainSize, wanted, c
<1>9. TrainSize(n) = IF wanted <= n THEN wanted ELSE n
  BY <1>7, <1>8, MinOfTwo
<1>10. c <= TrainSize(n) /\ TrainSize(n) \in Int
  BY <1>4, <1>7, <1>9
<1>11. QED
  BY <1>4, <1>10 DEF c

\* The rows that have been through the network.
Embedded ==
    /\ Len(embeddings) \in Nat /\ Len(embeddings) <= Len(padded)
    /\ embeddings = [i \in 1 .. Len(embeddings) |-> Forward(padded[i], lengths[i], FALSE)]

PooledRows ==
    [e \in ToSet(entity_ids) |->
        [emb |-> {embeddings[i] : i \in {j \in DOMAIN entity_ids : entity_ids[j] = e}},
         n_records |-> Cardinality({j \in DOMAIN entity_ids : entity_ids[j] = e})]]

EncodingInv ==
    /\ records \in Batches /\ projection \in BOOLEAN
    /\ stage \in {"loading", "rejected", "batch", "forward", "trained", "done"}
    /\ \/ stage \in {"loading", "rejected"}
       \/ user = "batch"
       \/ user = "inference" /\ projection = FALSE
    /\ stage \in {"loading", "batch"} => embeddings = <<>>
    /\ stage \in {"forward", "trained", "done"} => Collated /\ Embedded
    /\ stage # "done" => index = [vectors |-> <<>>, metadata |-> <<>>]
    /\ stage = "trained" => user = "batch"
    /\ stage \in {"trained", "done"} => Len(embeddings) = Len(padded)
    /\ stage = "done" /\ user = "inference" => current = PooledRows
    /\ stage = "done" /\ user = "batch" => index = [vectors |-> embeddings, metadata |-> entity_ids]

LEMMA RowsAreCounted == records \in Batches /\ Collated => Len(padded) \in Nat
BY RowsAreHistories

LEMMA Collating ==
    ASSUME EncodingInv, EncodeEventBatch
    PROVE  EncodingInv'
<1>1. stage = "batch" /\ stage' = "forward" /\ UNCHANGED <<projection, user, records, embeddings, resultVars>>
  BY DEF EncodeEventBatch
<1>2. Collated'
  BY DEF EncodeEventBatch, Collated, EncodeEntityRecords, RecordsOf, EntityOrder, Entities
<1>3. Embedded'
  <2>1. (records \in Batches /\ Collated => Len(padded) \in Nat)'
    BY RowsAreCounted, PTL
  <2>2. Len(padded') \in Nat
    BY <1>1, <1>2, <2>1 DEF EncodingInv
  <2>3. embeddings' = <<>> /\ Len(embeddings') = 0
    BY <1>1 DEF EncodingInv
  <2>4. embeddings' = [i \in 1 .. 0 |-> Forward(padded'[i], lengths'[i], FALSE)]
    BY <2>3
  <2>5. QED
    BY <2>2, <2>3, <2>4 DEF Embedded
<1>4. QED
  BY <1>1, <1>2, <1>3 DEF EncodingInv, resultVars

LEMMA BatchStays ==
    ASSUME Collated, UNCHANGED <<records, entity_ids, padded, lengths>>
    PROVE  Collated'
<1>1. records' = records /\ entity_ids' = entity_ids /\ padded' = padded /\ lengths' = lengths
  OBVIOUS
<1>2. EntityOrder' = EntityOrder /\ \A e : RecordsOf(e)' = RecordsOf(e)
  BY <1>1 DEF RecordsOf, EntityOrder, Entities
<1>3. QED
  BY <1>1, <1>2 DEF Collated

\* One chunk more.
LEMMA Embedding ==
    ASSUME EncodingInv, ForwardPass(FALSE)
    PROVE  EncodingInv'
<1> DEFINE k == Len(embeddings)
           n == Len(padded)
           last == Min({k + ForwardSize, n})
           rows == SubSeq(padded, k + 1, last)
           cut == ChunkLengths(k + 1, last)
           more == [i \in DOMAIN rows |-> Forward(rows[i], cut[i], FALSE)]
           E == {Forward(padded[i], lengths[i], FALSE) : i \in 1 .. n}
<1>1. stage = "forward" /\ k < n /\ UNCHANGED <<projection, user, records, batchVars, resultVars>>
  BY DEF ForwardPass
<1>2. /\ records \in Batches /\ Collated /\ Embedded
      /\ k \in Nat /\ n \in Nat
      /\ padded \in Seq(Seq(Codes)) /\ lengths \in Seq(Nat) /\ Len(lengths) = n
      /\ embeddings = [i \in 1 .. k |-> Forward(padded[i], lengths[i], FALSE)]
  <2>1. records \in Batches /\ Collated /\ Embedded
    BY <1>1 DEF EncodingInv
  <2>2. n \in Nat /\ padded \in Seq(Seq(Codes)) /\ lengths \in Seq(Nat) /\ Len(lengths) = n
    <3> DEFINE c == Cardinality(Entities)
    <3>1. c \in Nat \ {0} /\ Len(padded) = c /\ Len(lengths) = c
      BY <2>1, RowsAreHistories
    <3>2. padded \in Seq(Seq(Codes)) /\ lengths \in Seq(Nat)
      BY <2>1, RowsAreHistories
    <3> HIDE DEF c
    <3>3. QED
      BY <3>1, <3>2
  <2>3. k \in Nat /\ embeddings = [i \in 1 .. k |-> Forward(padded[i], lengths[i], FALSE)]
    BY <2>1, <2>2 DEF Embedded
  <2>4. QED
    BY <2>1, <2>2, <2>3
<1>3. /\ IF LookupRaises(rows)
         THEN stage' = "raised" /\ UNCHANGED embeddings
         ELSE embeddings' = embeddings \o more /\ UNCHANGED stage
  BY DEF ForwardPass
<1> HIDE DEF k, n
<1>4. last \in k + 1 .. n
  <2>1. ForwardSize \in Nat \ {0}
    BY Sizes
  <2>2. k + ForwardSize \in Int /\ k + ForwardSize >= k + 1 /\ n \in Int /\ n >= k + 1
    BY <1>1, <1>2, <2>1
  <2>3. last = IF k + ForwardSize <= n THEN k + ForwardSize ELSE n
    BY <2>2, MinOfTwo
  <2> HIDE DEF last
  <2>4. QED
    BY <1>2, <2>2, <2>3
<1> HIDE DEF last, rows, cut
<1> DEFINE m == last - k
<1>5. /\ rows \in Seq(Seq(Codes)) /\ Len(rows) = m /\ m \in Nat
      /\ \A i \in 1 .. m : rows[i] = padded[k + i]
  <2>1. /\ k + 1 \in Int /\ last \in Int /\ k + 1 <= last /\ last - (k + 1) + 1 = m
        /\ \A i \in k + 1 .. last : i \in 1 .. n
        /\ \A i \in 1 .. m : k + 1 + i - 1 = k + i
    BY <1>2, <1>4
  <2>2. \A i \in k + 1 .. last : padded[i] \in Seq(Codes)
    BY <1>2, <2>1, ElementOfSeq DEF n
  <2>3. rows = SubSeq(padded, k + 1, last)
    BY DEF rows
  <2> HIDE DEF m
  <2>4. /\ rows \in Seq(Seq(Codes)) /\ Len(rows) = m
        /\ \A i \in 1 .. m : rows[i] = padded[k + 1 + i - 1]
    BY <2>1, <2>2, <2>3, SubSeqProperties
  <2>5. m \in Nat
    BY <1>2, <1>4 DEF m
  <2>6. QED
    BY <2>1, <2>4, <2>5
<1>6. \A i \in 1 .. m : cut[i] = lengths[k + i]
  <2>1. /\ k + 1 \in Int /\ last \in Int /\ k + 1 <= last /\ last - (k + 1) + 1 = m
        /\ \A i \in k + 1 .. last : i \in 1 .. n
        /\ \A i \in 1 .. m : k + 1 + i - 1 = k + i
    BY <1>2, <1>4
  <2>2. \A i \in k + 1 .. last : lengths[i] \in Nat
    BY <1>2, <2>1, ElementOfSeq
  <2>3. cut = SubSeq(lengths, k + 1, last)
    BY DEF cut, ChunkLengths
  <2> HIDE DEF m
  <2>4. \A i \in 1 .. m : cut[i] = lengths[k + 1 + i - 1]
    BY <2>1, <2>2, <2>3, SubSeqProperties
  <2>5. QED
    BY <2>1, <2>4
<1>7. ~LookupRaises(rows)
  BY <1>5, LookupFinds
<1>8. embeddings' = embeddings \o more /\ UNCHANGED stage
  BY <1>3, <1>7
<1>9. DOMAIN rows = 1 .. m
  BY <1>5, LenProperties
<1>10. \A i \in 1 .. m : more[i] = Forward(padded[k + i], lengths[k + i], FALSE) /\ k + i \in 1 .. n
  <2>1. \A i \in 1 .. m : k + i \in 1 .. n
    BY <1>2, <1>4
  <2>2. \A i \in 1 .. m : more[i] = Forward(rows[i], cut[i], FALSE)
    BY <1>9
  <2> HIDE DEF more, m
  <2>3. QED
    BY <1>5, <1>6, <2>1, <2>2
<1>11. more \in Seq(E) /\ Len(more) = m
  <2>1. \A i \in 1 .. m : more[i] \in E
    BY <1>10
  <2>2. more \in [1 .. m -> E]
    BY <1>9, <2>1
  <2> HIDE DEF more, m, E
  <2>3. QED
    BY <1>5, <2>2, ListOf
<1>12. embeddings \in Seq(E) /\ Len(embeddings) = k
  <2>1. k <= n
    BY <1>1, <1>2
  <2>2. \A i \in 1 .. k : i \in 1 .. n
    BY <1>2, <2>1
  <2>3. embeddings \in [1 .. k -> E]
    BY <1>2, <2>2
  <2> HIDE DEF E
  <2>4. QED
    BY <1>2, <2>3, ListOf
<1> HIDE DEF more, E, m
<1> DEFINE both == embeddings \o more
<1>13. /\ both \in Seq(E) /\ Len(both) = k + m
       /\ \A i \in 1 .. k + m : both[i] = IF i <= k THEN embeddings[i] ELSE more[i - k]
  BY <1>11, <1>12, ConcatProperties
<1> HIDE DEF both
<1>14. \A i \in 1 .. k + m : both[i] = Forward(padded[i], lengths[i], FALSE)
  <2>1. ASSUME NEW i \in 1 .. k + m
        PROVE  both[i] = Forward(padded[i], lengths[i], FALSE)
    <3>1. CASE i <= k
      <4>1. i \in 1 .. k
        BY <1>2, <1>5, <3>1
      <4>2. embeddings[i] = Forward(padded[i], lengths[i], FALSE)
        BY <1>2, <4>1
      <4>3. QED
        BY <1>13, <3>1, <4>2
    <3>2. CASE ~(i <= k)
      <4>1. i - k \in 1 .. m /\ k + (i - k) = i
        BY <1>2, <1>5, <3>2
      <4>2. more[i - k] = Forward(padded[i], lengths[i], FALSE)
        BY <1>10, <4>1
      <4>3. QED
        BY <1>13, <3>2, <4>2
    <3>3. QED
      BY <3>1, <3>2
  <2>2. QED
    BY <2>1
<1>15. Embedded'
  <2>1. embeddings' = both /\ padded' = padded /\ lengths' = lengths
    BY <1>1, <1>8 DEF both, batchVars
  <2>2. DOMAIN both = 1 .. k + m
    BY <1>13, LenProperties
  <2>3. both = [i \in 1 .. k + m |-> both[i]]
    <3>1. both \in [1 .. Len(both) -> E]
      BY <1>13, LenProperties
    <3>2. QED
      BY <1>13, <3>1
  <2>4. both = [i \in 1 .. k + m |-> Forward(padded[i], lengths[i], FALSE)]
    BY <1>14, <2>3
  <2>5. k + m \in Nat /\ k + m <= n
    BY <1>2, <1>4, <1>5 DEF m
  <2>6. QED
    BY <1>13, <2>1, <2>4, <2>5 DEF Embedded, n
<1>16. Collated'
  BY <1>1, <1>2, BatchStays DEF batchVars
<1>17. QED
  BY <1>1, <1>8, <1>15, <1>16 DEF EncodingInv, batchVars, resultVars

\* The rows the network has returned, as lists.
LEMMA EmbeddingsAreListed ==
    ASSUME records \in Batches, Collated, Embedded
    PROVE  /\ embeddings \in Seq({embeddings[i] : i \in DOMAIN embeddings})
           /\ DOMAIN embeddings = 1 .. Len(embeddings)
           /\ entity_ids \in Seq(Entities) /\ Len(entity_ids) = Len(padded)
           /\ Len(padded) \in Nat \ {0}
<1> DEFINE k == Len(embeddings)
           E == {embeddings[i] : i \in DOMAIN embeddings}
<1>1. k \in Nat /\ embeddings = [i \in 1 .. k |-> Forward(padded[i], lengths[i], FALSE)]
  BY DEF Embedded
<1> HIDE DEF k
<1>2. DOMAIN embeddings = 1 .. k
  BY <1>1
<1>3. embeddings \in [1 .. k -> E]
  BY <1>1, <1>2
<1> HIDE DEF E
<1>4. embeddings \in Seq(E)
  BY <1>1, <1>3, ListOf
<1>5. QED
  BY <1>2, <1>4, RowsAreHistories DEF k, E

LEMMA Pooling ==
    ASSUME EncodingInv, AggregateEmbeddings
    PROVE  EncodingInv'
<1>1. /\ stage = "forward" /\ stage' = "done" /\ user = "inference"
      /\ Len(embeddings) = Len(padded)
      /\ UNCHANGED <<projection, user, records, batchVars, embeddings, index>>
  BY DEF AggregateEmbeddings
<1>2. UNCHANGED <<entity_ids, padded, lengths>>
  BY <1>1 DEF batchVars
<1>3. Collated' /\ Embedded'
  BY <1>1, <1>2, BatchStays DEF EncodingInv, Embedded
<1>4. current' = PooledRows'
  BY <1>1, <1>2 DEF AggregateEmbeddings, PooledRows
<1>5. QED
  BY <1>1, <1>2, <1>3, <1>4 DEF EncodingInv

LEMMA Indexing ==
    ASSUME EncodingInv, BuildIndex \/ AddVectors
    PROVE  EncodingInv'
<1>1. /\ stage \in {"forward", "trained"} /\ user = "batch" /\ Len(embeddings) = Len(padded)
      /\ UNCHANGED <<projection, user, records, batchVars, embeddings, current>>
  BY DEF EncodingInv, BuildIndex, AddVectors, resultVars
<1>2. UNCHANGED <<entity_ids, padded, lengths>>
  BY <1>1 DEF batchVars
<1>3. /\ records \in Batches /\ Collated /\ Embedded
      /\ index = [vectors |-> <<>>, metadata |-> <<>>]
  BY <1>1 DEF EncodingInv
<1>4. Collated' /\ Embedded'
  BY <1>1, <1>2, <1>3, BatchStays DEF Embedded
<1>5. /\ embeddings \in Seq({embeddings[i] : i \in DOMAIN embeddings})
      /\ entity_ids \in Seq(Entities) /\ Len(entity_ids) = Len(padded)
      /\ Len(padded) \in Nat \ {0}
  BY <1>3, EmbeddingsAreListed
<1>6. CASE BuildIndex
  <2> DEFINE n == Len(embeddings)
  <2>1. /\ stage' = IF n = 0 \/ TrainSize(n) < Cells(n) THEN "raised" ELSE "trained"
        /\ UNCHANGED index
    BY <1>6 DEF BuildIndex, resultVars
  <2>2. n \in Nat \ {0}
    BY <1>1, <1>5
  <2> HIDE DEF n
  <2>3. stage' = "trained"
    BY <2>1, <2>2, EnoughPoints
  <2>4. QED
    BY <1>1, <1>2, <1>3, <1>4, <2>1, <2>3 DEF EncodingInv
<1>7. CASE AddVectors
  <2>1. stage' = "done"
    BY <1>1, <1>5, <1>7 DEF AddVectors
  <2>2. index' = [vectors |-> <<>> \o embeddings, metadata |-> <<>> \o entity_ids]
    BY <1>3, <1>7, <2>1 DEF AddVectors
  <2>3. <<>> \o embeddings = embeddings /\ <<>> \o entity_ids = entity_ids
    BY <1>5, ConcatEmptySeq
  <2>4. index' = [vectors |-> embeddings', metadata |-> entity_ids']
    BY <1>1, <1>2, <2>2, <2>3
  <2>5. QED
    BY <1>1, <1>2, <1>3, <1>4, <2>1, <2>4 DEF EncodingInv
<1>8. QED
  BY <1>6, <1>7

LEMMA EncodingStarts == EncodeInit => EncodingInv
BY DEF EncodeInit, EncodingInv

LEMMA EncodingStep == EncodingInv /\ [EncodeNext]_encodeVars => EncodingInv'
<1> SUFFICES ASSUME EncodingInv, [EncodeNext]_encodeVars
             PROVE  EncodingInv'
  OBVIOUS
<1>1. CASE DisableProjection \/ NewInferenceEncoder \/ NewBatchEncoder
  <2>1. /\ stage = "loading" /\ stage' \in {"loading", "rejected", "batch"}
        /\ projection' \in BOOLEAN
        /\ stage' = "batch" => user' = "batch" \/ (user' = "inference" /\ projection' = FALSE)
        /\ UNCHANGED <<records, embeddings, index>>
    BY <1>1 DEF EncodingInv, DisableProjection, NewInferenceEncoder, NewBatchEncoder, resultVars
  <2>2. QED
    BY <2>1 DEF EncodingInv
<1>2. CASE EncodeEventBatch
  BY <1>2, Collating
<1>3. CASE EncodeChunk \/ EncodeRecords
  <2>1. ForwardPass(FALSE)
    <3>1. CASE EncodeRecords
      BY <3>1 DEF EncodeRecords
    <3>2. CASE EncodeChunk
      <4>1. user = "inference" /\ ForwardPass(projection) /\ stage = "forward"
        BY <3>2 DEF EncodeChunk, ForwardPass
      <4>2. projection = FALSE
        BY <4>1 DEF EncodingInv
      <4>3. QED
        BY <4>1, <4>2
    <3>3. QED
      BY <1>3, <3>1, <3>2
  <2>2. QED
    BY <2>1, Embedding
<1>4. CASE AggregateEmbeddings
  BY <1>4, Pooling
<1>5. CASE BuildIndex \/ AddVectors
  BY <1>5, Indexing
<1>6. CASE UNCHANGED encodeVars
  <2>1. /\ UNCHANGED <<projection, user, stage, records, entity_ids, padded, lengths, embeddings>>
        /\ UNCHANGED <<current, index>>
    BY <1>6 DEF encodeVars, batchVars, resultVars
  <2>2. Collated => Collated'
    BY <2>1, BatchStays
  <2>3. Embedded => Embedded'
    BY <2>1 DEF Embedded
  <2>4. PooledRows' = PooledRows
    BY <2>1 DEF PooledRows
  <2>5. QED
    BY <2>1, <2>2, <2>3, <2>4 DEF EncodingInv
<1>7. QED
  BY <1>1, <1>2, <1>3, <1>4, <1>5, <1>6 DEF EncodeNext

LEMMA EmbeddingsAreOwn == EncodingInv => EmbeddingIsOwn
<1> SUFFICES ASSUME EncodingInv
             PROVE  EmbeddingIsOwn
  OBVIOUS
<1>1. stage # "raised"
  BY DEF EncodingInv
<1> DEFINE n == Cardinality(Entities)
<1>2. ASSUME stage = "done"
      PROVE  /\ DOMAIN entity_ids = 1 .. n /\ DOMAIN embeddings = 1 .. n
             /\ \A i \in 1 .. n : entity_ids[i] \in Entities
             /\ \A e \in Entities : \E i \in 1 .. n : entity_ids[i] = e
             /\ \A i, j \in 1 .. n : entity_ids[i] = entity_ids[j] => i = j
             /\ \A i \in 1 .. n : IsOwn(embeddings[i], entity_ids[i])
  <2>1. records \in Batches /\ Collated /\ Embedded /\ Len(embeddings) = Len(padded)
    BY <1>2 DEF EncodingInv
  <2>2. /\ entity_ids \in Seq(Entities) /\ Len(entity_ids) = n
        /\ Len(padded) = n
        /\ \A e \in Entities : \E i \in 1 .. n : entity_ids[i] = e
        /\ \A i, j \in 1 .. n : entity_ids[i] = entity_ids[j] => i = j
        /\ \A i \in 1 .. n : RowOf(padded[i], lengths[i], entity_ids[i])
    BY <2>1, RowsAreHistories
  <2> HIDE DEF n
  <2>3. embeddings = [i \in 1 .. n |-> Forward(padded[i], lengths[i], FALSE)]
    BY <2>1, <2>2 DEF Embedded
  <2>4. \A i \in 1 .. n : IsOwn(Forward(padded[i], lengths[i], FALSE), entity_ids[i])
    BY <2>2, ForwardIsOwn
  <2>5. \A i \in 1 .. n : embeddings[i] = Forward(padded[i], lengths[i], FALSE)
    BY <2>3
  <2>6. \A i \in 1 .. n : IsOwn(embeddings[i], entity_ids[i])
    BY <2>4, <2>5
  <2>7. DOMAIN entity_ids = 1 .. n /\ \A i \in 1 .. n : entity_ids[i] \in Entities
    BY <2>2, LenProperties, ElementOfSeq
  <2>8. QED
    BY <2>2, <2>3, <2>6, <2>7
<1> HIDE DEF n
<1>3. stage = "done" => ToSet(entity_ids) = Entities
  BY <1>2 DEF ToSet
<1>4. ASSUME stage = "done", user = "inference"
      PROVE  /\ DOMAIN current = Entities
             /\ \A e \in Entities : \E x \in current[e].emb :
                   current[e].emb = {x} /\ IsOwn(x, e)
  <2>1. current = PooledRows
    BY <1>4 DEF EncodingInv
  <2>2. DOMAIN current = Entities
    BY <1>3, <1>4, <2>1 DEF PooledRows
  <2>3. ASSUME NEW e \in Entities
        PROVE  \E x \in current[e].emb : current[e].emb = {x} /\ IsOwn(x, e)
    <3>1. PICK i \in 1 .. n : entity_ids[i] = e
      BY <1>2, <1>4
    <3>2. {j \in DOMAIN entity_ids : entity_ids[j] = e} = {i}
      BY <1>2, <1>4, <3>1
    <3>3. current[e].emb = {embeddings[j] : j \in {j \in DOMAIN entity_ids : entity_ids[j] = e}}
      BY <1>3, <1>4, <2>1 DEF PooledRows
    <3>4. current[e].emb = {embeddings[i]}
      BY <3>2, <3>3
    <3>5. IsOwn(embeddings[i], e)
      BY <1>2, <1>4, <3>1
    <3>6. QED
      BY <3>4, <3>5
  <2>4. QED
    BY <2>2, <2>3
<1>5. ASSUME stage = "done", user = "batch"
      PROVE  /\ ToSet(index.metadata) = Entities
             /\ \A i \in DOMAIN index.vectors : IsOwn(index.vectors[i], index.metadata[i])
  <2>1. index = [vectors |-> embeddings, metadata |-> entity_ids]
    BY <1>5 DEF EncodingInv
  <2>2. index.vectors = embeddings /\ index.metadata = entity_ids
    BY <2>1
  <2>3. QED
    BY <1>2, <1>3, <1>5, <2>2
<1>6. QED
  BY <1>1, <1>4, <1>5 DEF EmbeddingIsOwn

-----------------------------------------------------------------------------
(* Theorems.                                                                *)

EncoderInv ==
    /\ side \in {"train", "serve"}
    /\ side = "train" => TrainingInv /\ FilePaired /\ stage = "loading"
    /\ side = "serve" => IdleTraining /\ EncodingInv

\* The training keeps its invariant, whatever its runs, crashes and resumes.
THEOREM TrainingStaysConsistent == Spec => []EncoderInv
<1>1. Init => EncoderInv
  BY TrainingStarts, PairsFromTheStart, EncodingStarts DEF Init, EncoderInv, IdleEncoding
<1>2. EncoderInv /\ [Next]_vars => EncoderInv'
  <2> SUFFICES ASSUME EncoderInv, [Next]_vars
               PROVE  EncoderInv'
    OBVIOUS
  <2>1. CASE side = "train"
    <3>1. [TrainNext]_trainVars /\ UNCHANGED <<side, stage>>
      BY <2>1 DEF Next, vars, encodeVars
    <3>2. TrainingInv'
      BY <2>1, <3>1, TrainingStep DEF EncoderInv
    <3>3. FilePaired'
      BY <2>1, <3>1, PairsStay DEF EncoderInv, TrainingInv, LoaderInv
    <3>4. QED
      BY <2>1, <3>1, <3>2, <3>3 DEF EncoderInv
  <2>2. CASE side = "serve"
    <3>1. UNCHANGED <<side, trainVars>> /\ [EncodeNext]_encodeVars
      BY <2>2 DEF Next, vars
    <3>2. IdleTraining'
      BY <2>2, <3>1 DEF EncoderInv, IdleTraining, trainVars, fileVars, loaderVars, savedVars
    <3>3. EncodingInv'
      BY <2>2, <3>1, EncodingStep DEF EncoderInv
    <3>4. QED
      BY <2>2, <3>1, <3>2, <3>3 DEF EncoderInv
  <2>3. QED
    BY <2>1, <2>2 DEF EncoderInv
<1>3. QED
  BY <1>1, <1>2, PTL DEF Spec

\* An epoch trains on a window at most once, however many workers share the
\* row groups out, in whatever order they yield, and leaves out none but the
\* last incomplete batch of each worker.
THEOREM WindowsAreTrainedOnOnce == Spec => []EachWindowOnce
<1>1. TrainingInv => EachWindowOnce
  <2> SUFFICES ASSUME LoaderInv
               PROVE  EachWindowOnce
    BY DEF TrainingInv
  <2> DEFINE flat == FlattenSeq(batches)
             W == AllWindows
  <2>1. flat \in Seq(W)
    <3>1. batches \in Seq(Seq(W)) /\ <<>> \in Seq(Seq(W))
      BY NothingOnce DEF LoaderInv, LoaderTypes
    <3>2. QED
      BY <3>1, FlattenConcat
  <2>2. Cardinality(ToSet(flat)) = Len(flat)
    BY <2>1, OnceCounts DEF LoaderInv, NothingTwice
  <2>3. ASSUME EpochOver, ~Capped
        PROVE  /\ \A w \in Workers : Len(partial[w]) < BatchSize
               /\ AllWindows \ Trained = UNION {ToSet(partial[w]) : w \in Workers}
    <3>1. job = "epoch" /\ \A w \in Workers : groups[w] = <<>> /\ windows[w] = {}
      BY <2>3 DEF EpochOver, Exhausted
    <3>2. \A w \in Workers : ToSet(groups[w]) = {}
      BY <3>1, NothingOnce
    <3>3. \A x \in AllWindows :
             /\ Owner(x.group) \in Workers
             /\ x \in ToSet(partial[Owner(x.group)]) \cup Trained
      <4>1. ASSUME NEW x \in AllWindows
            PROVE  /\ Owner(x.group) \in Workers
                   /\ x \in ToSet(partial[Owner(x.group)]) \cup Trained
        <5>1. x.group \in DOMAIN file /\ x \in WindowsOf(x.group)
          BY WindowsBelong
        <5>2. Owner(x.group) \in Workers
          BY <5>1, FileIsList, OwnersWork DEF LoaderInv
        <5>3. QED
          BY <3>1, <3>2, <5>1, <5>2 DEF LoaderInv, SomePlace
      <4>2. QED
        BY <4>1
    <3>4. \A w \in Workers : \A x \in ToSet(partial[w]) : x \in AllWindows /\ x \notin Trained
      <4>1. ASSUME NEW w \in Workers, NEW x \in ToSet(partial[w])
            PROVE  x \in AllWindows /\ x \notin Trained
        <5>1. partial[w] \in Seq(AllWindows)
          BY DEF LoaderInv, LoaderTypes
        <5>2. x \in AllWindows
          BY <5>1, LenProperties, ElementOfSeq DEF ToSet
        <5>3. QED
          BY <5>2 DEF LoaderInv, OnePlace
      <4>2. QED
        BY <4>1
    <3>5. AllWindows \ Trained = UNION {ToSet(partial[w]) : w \in Workers}
      BY <3>3, <3>4
    <3>6. QED
      BY <3>5 DEF LoaderInv, NothingTwice
  <2>4. QED
    BY <2>2, <2>3 DEF EachWindowOnce, Trained
<1>2. IdleTraining => EachWindowOnce
  <2> SUFFICES ASSUME IdleTraining
               PROVE  EachWindowOnce
    OBVIOUS
  <2> DEFINE flat == FlattenSeq(batches)
  <2>1. flat = <<>> /\ ToSet(flat) = {} /\ Len(flat) = 0
    BY NothingOnce DEF IdleTraining, FlattenSeq
  <2>2. Cardinality(ToSet(flat)) = Len(flat)
    BY <2>1, FS_EmptySet
  <2>3. ~EpochOver
    BY DEF EpochOver, IdleTraining
  <2>4. QED
    BY <2>2, <2>3 DEF EachWindowOnce
<1>3. EncoderInv => EachWindowOnce
  BY <1>1, <1>2 DEF EncoderInv
<1>4. QED
  BY <1>3, TrainingStaysConsistent, PTL

\* Whatever crashes, whatever runs of whatever length wrote to the directory,
\* one resumed from the final weights included: to what a readable file holds
\* no epoch was done twice and none left out, and a checkpoint's number is that
\* of its last epoch.
THEOREM CheckpointsContinue == Spec => []ResumeContinues
<1>1. TrainingInv => ResumeContinues
  <2> SUFFICES ASSUME TrainingInv
               PROVE  ResumeContinues
    OBVIOUS
  <2>1. ASSUME NEW k \in 1 .. MaxEpochs, Readable(disk[k])
        PROVE  Continues(disk[k]) /\ Last(disk[k])[2] = k
    <3>1. Sound(disk[k], runs) /\ Reached(disk[k], k)
      BY <2>1 DEF TrainingInv, EpochsOK, EpochsCounted
    <3>2. QED
      BY <3>1 DEF Sound, Reached, Last
  <2>2. Readable(final) => Continues(final)
    BY DEF TrainingInv, EpochsOK, EpochsCounted, Sound
  <2>3. QED
    BY <2>1, <2>2 DEF ResumeContinues
<1>2. IdleTraining => ResumeContinues
  BY DEF IdleTraining, ResumeContinues, Readable
<1>3. EncoderInv => ResumeContinues
  BY <1>1, <1>2 DEF EncoderInv
<1>4. QED
  BY <1>3, TrainingStaysConsistent, PTL

\* A crash, even one inside torch.save, costs at most CheckpointFreq epochs:
\* between two multiples of it there is always a checkpoint that was due,
\* writing the next one leaves it alone, and while the final file is written
\* the last checkpoint holds the same weights.
THEOREM CrashesCostFewEpochs == Spec => []CrashCostsFewEpochs
<1>1. TrainingInv /\ Len(weights) > CheckpointFreq => CrashCostsFewEpochs
  <2> SUFFICES ASSUME TrainingInv, Len(weights) > CheckpointFreq
               PROVE  \E saved \in {disk[k] : k \in 1 .. MaxEpochs} \cup {final} :
                         /\ Readable(saved) /\ IsPrefix(saved, weights)
                         /\ Len(saved) + CheckpointFreq >= Len(weights)
    BY DEF CrashCostsFewEpochs
  <2> DEFINE l == Len(weights)
             F == CheckpointFreq
  <2>1. l \in Nat /\ F \in Nat \ {0} /\ l > F /\ epoch \in Nat
    BY StageIs, Numbers DEF TrainingInv, EpochsOK, TrainingTypes
  <2>2. PICK n \in {l, l - 1} : n \in Nat /\ Kept(disk, final, weights, n, epoch)
    <3>1. Kept(disk, final, weights, l, epoch) \/ Kept(disk, final, weights, l - 1, epoch)
      BY DEF TrainingInv, EpochsOK, Saved
    <3> HIDE DEF l
    <3>2. QED
      BY <2>1, <3>1
  <2>3. PICK u \in 0 .. n : u < F /\ Found(disk, final, weights, n - u, epoch - 1 - u)
    BY <2>1, <2>2, FewAreLost
  <2> HIDE DEF l, F
  <2>4. n - u # 0 /\ n - u + F >= l
    BY <2>1, <2>2, <2>3
  <2>5. PICK saved \in {disk[k] : k \in 1 .. MaxEpochs} \cup {final} :
           Holds(saved, weights, n - u)
    BY <2>3, <2>4 DEF Found
  <2>6. Len(saved) + F >= l
    BY <2>4, <2>5 DEF Holds
  <2>7. QED
    BY <2>5, <2>6 DEF Holds, l, F
<1>2. IdleTraining => CrashCostsFewEpochs
  <2>1. IdleTraining => Len(weights) = 0
    BY DEF IdleTraining
  <2>2. QED
    BY <2>1, Numbers DEF CrashCostsFewEpochs
<1>3. EncoderInv => CrashCostsFewEpochs
  BY <1>1, <1>2 DEF EncoderInv, CrashCostsFewEpochs
<1>4. QED
  BY <1>3, TrainingStaysConsistent, PTL

\* NT-Xent pulls together the two views of one stretch of the corpus, however
\* the augmentation moved their rows and whatever a chunk held: the order of
\* the pairs, not that of time, aligns what is sorted and cut on its own.
THEOREM PositivesAreThePairs == Spec => []PositivesMatch
<1>1. EncoderInv => PositivesMatch
  <2>1. side = "train" /\ EncoderInv => PositivesMatch
    BY PairsMatch DEF EncoderInv, TrainingInv, LoaderInv
  <2>2. side = "serve" /\ EncoderInv => PositivesMatch
    <3>1. side = "serve" /\ EncoderInv => DOMAIN batches = {}
      BY DEF EncoderInv, IdleTraining
    <3>2. QED
      BY <3>1 DEF PositivesMatch
  <2>3. QED
    BY <2>1, <2>2 DEF EncoderInv
<1>2. QED
  BY <1>1, TrainingStaysConsistent, PTL

\* An embedding is that of its entity's own latest events: the lengths undo
\* the padding of whatever shares the batch, chunks are cut alike, a name
\* nobody trained on has a row in the tables, and k-means has enough points.
THEOREM EmbeddingsAreTheirOwn == Spec => []EmbeddingIsOwn
<1>1. EncoderInv => EmbeddingIsOwn
  <2>1. side = "serve" /\ EncoderInv => EmbeddingIsOwn
    BY EmbeddingsAreOwn DEF EncoderInv
  <2>2. side = "train" /\ EncoderInv => EmbeddingIsOwn
    BY DEF EncoderInv, EmbeddingIsOwn
  <2>3. QED
    BY <2>1, <2>2 DEF EncoderInv
<1>2. QED
  BY <1>1, TrainingStaysConsistent, PTL

=============================================================================

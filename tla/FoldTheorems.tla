---------------------------- MODULE FoldTheorems ----------------------------
(***************************************************************************)
(* Facts about the folds of the community modules that the proofs about    *)
(* the components need.  Folds are recursive functions over finite sets;   *)
(* here is why such a function exists, and what it computes.  Induction is *)
(* over sets: a set of naturals that is not empty has a smallest element.  *)
(* FlattenSeq is the fold of concatenation.  At the end, what Ordering's   *)
(* filters and sorts return.                                               *)
(***************************************************************************)
EXTENDS Ordering, SequencesExt, FiniteSetTheorems, SequenceTheorems,
        WellFoundedInduction, TLAPS

\* The least-number principle, of sets: what fails somewhere fails first
\* somewhere.
LEMMA SmallestElement ==
    ASSUME NEW S \in SUBSET Nat, S # {}
    PROVE  \E m \in S : \A k \in S : m <= k
<1> DEFINE Below(n) == 1 .. n
           T == {Below(n) : n \in S}
<1>1. T \subseteq FiniteSubsetsOf(Nat) /\ T # {}
  <2>1. \A n \in S : Below(n) \in SUBSET Nat /\ IsFiniteSet(Below(n))
    BY FS_Interval
  <2>2. QED
    BY <2>1 DEF FiniteSubsetsOf
<1>2. PICK x \in T : \A y \in T : ~ (<<y, x>> \in StrictSubsetOrdering(Nat))
  BY <1>1, FS_StrictSubsetOrderingWellFounded, WFMin, Zenon
<1>3. PICK m \in S : x = Below(m)
  BY <1>2
<1>4. ASSUME NEW k \in S, ~(m <= k)
      PROVE  FALSE
  <2>1. /\ Below(k) \subseteq Below(m) /\ Below(k) # Below(m)
        /\ Below(k) \in SUBSET Nat /\ Below(m) \in SUBSET Nat
    <3>1. m \in Below(m) /\ m \notin Below(k)
      BY <1>4
    <3>2. QED
      BY <1>4, <3>1
  <2> HIDE DEF Below
  <2>2. <<Below(k), Below(m)>> \in StrictSubsetOrdering(Nat)
    BY <2>1 DEF StrictSubsetOrdering
  <2>3. QED
    BY <1>2, <1>3, <2>2
<1>5. QED
  BY <1>4

\* Induction, of sets: a set of naturals with 0 and the successor of each of
\* its elements holds all naturals.
LEMMA EveryNatural ==
    ASSUME NEW S, 0 \in S, \A n \in Nat : n \in S => n + 1 \in S
    PROVE  \A n \in Nat : n \in S
<1> SUFFICES ASSUME NEW n \in Nat, n \notin S
             PROVE  FALSE
  OBVIOUS
<1>1. PICK m \in Nat \ S : \A k \in Nat \ S : m <= k
  BY SmallestElement
<1>2. m # 0 /\ m - 1 \in Nat
  BY <1>1
<1>3. m - 1 \in S
  BY <1>1, <1>2
<1>4. m - 1 + 1 \in S
  BY <1>2, <1>3
<1>5. QED
  BY <1>1, <1>4

\* Part of the positions of a list, and the rest of them.
LEMMA PartOfInterval ==
    ASSUME NEW n \in Nat, NEW P \in SUBSET (1 .. n)
    PROVE  /\ IsFiniteSet(P) /\ Cardinality(P) \in Nat /\ Cardinality(P) <= n
           /\ Cardinality((1 .. n) \ P) = n - Cardinality(P)
<1> DEFINE D == 1 .. n
<1>1. IsFiniteSet(D) /\ Cardinality(D) = n
  BY FS_Interval
<1> HIDE DEF D
<1>2. P \in SUBSET D /\ D \cap P = P
  BY DEF D
<1>3. IsFiniteSet(P) /\ Cardinality(P) \in Nat /\ Cardinality(P) <= n
  BY <1>1, <1>2, FS_Subset, FS_CardinalityType
<1>4. Cardinality(D \ P) = n - Cardinality(P)
  BY <1>1, <1>2, FS_Difference
<1>5. QED
  BY <1>3, <1>4 DEF D

-----------------------------------------------------------------------------
(* The function a fold is defined by exists: pick takes an element out of a *)
(* set, step works it into what the rest of the set has given.              *)

FoldStep(it, s, base, pick, step) ==
    IF s = {} THEN base ELSE step[<<pick[s], it[s \ {pick[s]}]>>]

IsFold(it, D, base, pick, step) ==
    \A s \in SUBSET D : it[s] = FoldStep(it, s, base, pick, step)

LEMMA FoldExists ==
    ASSUME NEW D, IsFiniteSet(D), NEW B, NEW base \in B, NEW pick,
           \A s \in SUBSET D : s # {} => pick[s] \in s,
           NEW step \in [D \X B -> B]
    PROVE  \E it \in [SUBSET D -> B] : IsFold(it, D, base, pick, step)
<1> DEFINE Solved(it, n) == \A s \in SUBSET D :
                 Cardinality(s) <= n => it[s] = FoldStep(it, s, base, pick, step)
           S == {n \in Nat : \E it \in [SUBSET D -> B] : Solved(it, n)}
<1>1. \A s \in SUBSET D : IsFiniteSet(s) /\ Cardinality(s) \in Nat
                          /\ (Cardinality(s) = 0 <=> s = {})
                          /\ Cardinality(s) <= Cardinality(D)
  BY FS_Subset, FS_CardinalityType, FS_EmptySet
<1>2. 0 \in S
  <2> DEFINE it == [s \in SUBSET D |-> base]
  <2>1. Solved(it, 0)
    BY <1>1 DEF FoldStep
  <2>2. it \in [SUBSET D -> B]
    OBVIOUS
  <2> HIDE DEF Solved, it
  <2>3. QED
    BY <2>1, <2>2
<1>3. ASSUME NEW n \in Nat, n \in S
      PROVE  n + 1 \in S
  <2>1. PICK it \in [SUBSET D -> B] : Solved(it, n)
    BY <1>3
  <2> DEFINE next == [s \in SUBSET D |-> FoldStep(it, s, base, pick, step)]
  <2>2. next \in [SUBSET D -> B]
    <3>1. ASSUME NEW s \in SUBSET D
          PROVE  FoldStep(it, s, base, pick, step) \in B
      <4>1. CASE s = {}
        BY <4>1 DEF FoldStep
      <4>2. CASE s # {}
        <5>1. pick[s] \in D /\ s \ {pick[s]} \in SUBSET D
          BY <4>2
        <5>2. it[s \ {pick[s]}] \in B
          BY <5>1
        <5>3. <<pick[s], it[s \ {pick[s]}]>> \in D \X B
          BY <5>1, <5>2
        <5>4. QED
          BY <4>2, <5>3 DEF FoldStep
      <4>3. QED
        BY <4>1, <4>2
    <3>2. QED
      BY <3>1
  <2>3. \A s \in SUBSET D : Cardinality(s) <= n => next[s] = it[s]
    BY <2>1
  <2>4. ASSUME NEW s \in SUBSET D, Cardinality(s) <= n + 1
        PROVE  next[s] = FoldStep(next, s, base, pick, step)
    <3>1. CASE s = {}
      BY <3>1 DEF FoldStep
    <3>2. CASE s # {}
      <4>1. /\ pick[s] \in s /\ s \ {pick[s]} \in SUBSET D
            /\ Cardinality(s \ {pick[s]}) = Cardinality(s) - 1
        BY <1>1, <3>2, FS_RemoveElement
      <4>2. Cardinality(s \ {pick[s]}) <= n
        BY <1>1, <2>4, <4>1
      <4>3. next[s \ {pick[s]}] = it[s \ {pick[s]}]
        BY <2>3, <4>1, <4>2
      <4>4. next[s] = FoldStep(it, s, base, pick, step)
        OBVIOUS
      <4> HIDE DEF next
      <4>5. QED
        BY <4>3, <4>4 DEF FoldStep
    <3>3. QED
      BY <3>1, <3>2
  <2> HIDE DEF next
  <2>5. Solved(next, n + 1)
    BY <2>4
  <2>6. QED
    BY <2>2, <2>5
<1>4. Cardinality(D) \in S
  <2> HIDE DEF S
  <2>1. Cardinality(D) \in Nat
    BY FS_CardinalityType
  <2>2. QED
    BY <1>2, <1>3, <2>1, EveryNatural
<1>5. PICK it \in [SUBSET D -> B] : Solved(it, Cardinality(D))
  BY <1>4
<1>6. \A s \in SUBSET D : it[s] = FoldStep(it, s, base, pick, step)
  BY <1>1, <1>5
<1>7. QED
  BY <1>6 DEF IsFold

-----------------------------------------------------------------------------
(* Sums.                                                                    *)


AnyOf(s) == CHOOSE x \in s : TRUE

\* it[s] is the sum of f over s, element by element.
SumsUp(it, f, D) ==
    it = [s \in SUBSET D |-> IF s = {} THEN 0 ELSE f[AnyOf(s)] + it[s \ {AnyOf(s)}]]

LEMMA SumExists ==
    ASSUME NEW D, IsFiniteSet(D), NEW f \in [D -> Int]
    PROVE  \E it \in [SUBSET D -> Int] : SumsUp(it, f, D)
<1> DEFINE pick == [s \in SUBSET D |-> AnyOf(s)]
           step == [p \in D \X Int |-> f[p[1]] + p[2]]
<1>1. \A s \in SUBSET D : s # {} => pick[s] \in s
  BY DEF AnyOf
<1>2. step \in [D \X Int -> Int]
  OBVIOUS
<1>3. \A x \in D, n \in Int : step[<<x, n>>] = f[x] + n
  OBVIOUS
<1>4. \A s \in SUBSET D : pick[s] = AnyOf(s)
  OBVIOUS
<1> HIDE DEF pick, step
<1>5. PICK it \in [SUBSET D -> Int] : IsFold(it, D, 0, pick, step)
  <2>1. 0 \in Int
    OBVIOUS
  <2>2. QED
    BY <1>1, <1>2, <2>1, FoldExists
<1>6. ASSUME NEW s \in SUBSET D
      PROVE  FoldStep(it, s, 0, pick, step)
                = IF s = {} THEN 0 ELSE f[AnyOf(s)] + it[s \ {AnyOf(s)}]
  <2>1. CASE s = {}
    BY <2>1 DEF FoldStep
  <2>2. CASE s # {}
    <3>1. pick[s] \in D /\ it[s \ {pick[s]}] \in Int
      BY <1>1, <2>2
    <3>2. step[<<pick[s], it[s \ {pick[s]}]>>] = f[pick[s]] + it[s \ {pick[s]}]
      BY <1>3, <3>1
    <3>3. QED
      BY <1>4, <2>2, <3>2 DEF FoldStep
  <2>3. QED
    BY <2>1, <2>2
<1>7. \A s \in SUBSET D : it[s] = IF s = {} THEN 0 ELSE f[AnyOf(s)] + it[s \ {AnyOf(s)}]
  BY <1>5, <1>6 DEF IsFold
<1>8. SumsUp(it, f, D)
  <2> DEFINE sum == [s \in SUBSET D |-> IF s = {} THEN 0 ELSE f[AnyOf(s)] + it[s \ {AnyOf(s)}]]
  <2>1. it = sum
    BY <1>7
  <2>2. QED
    BY <2>1, Zenon DEF SumsUp
<1>9. QED
  BY <1>8

\* A function on the subsets of a finite set that has a property of the empty
\* set, and of every set one of whose elements can be left out with the
\* property, has it of every set.
LEMMA SubsetInduction ==
    ASSUME NEW D, IsFiniteSet(D), NEW S,
           {} \in S,
           \A s \in SUBSET D : (\A t \in SUBSET s : t # s => t \in S) => s \in S
    PROVE  \A s \in SUBSET D : s \in S
<1> DEFINE N == {n \in Nat : \A s \in SUBSET D : Cardinality(s) <= n => s \in S}
<1>1. \A s \in SUBSET D : IsFiniteSet(s) /\ Cardinality(s) \in Nat
                          /\ (Cardinality(s) = 0 <=> s = {})
  BY FS_Subset, FS_CardinalityType, FS_EmptySet
<1>2. 0 \in N
  BY <1>1
<1>3. ASSUME NEW n \in Nat, n \in N
      PROVE  n + 1 \in N
  <2>1. ASSUME NEW s \in SUBSET D, Cardinality(s) <= n + 1,
               NEW t \in SUBSET s, t # s
        PROVE  t \in S
    <3>1. t \in SUBSET D
      OBVIOUS
    <3>2. Cardinality(t) <= Cardinality(s) /\ Cardinality(t) # Cardinality(s)
      BY <1>1, <2>1, FS_Subset
    <3>3. Cardinality(t) <= n
      BY <1>1, <2>1, <3>1, <3>2
    <3>4. QED
      BY <1>3, <3>1, <3>3
  <2>2. QED
    BY <2>1
<1> HIDE DEF N
<1>4. \A n \in Nat : n \in N
  BY <1>2, <1>3, EveryNatural
<1>5. QED
  BY <1>1, <1>4 DEF N

\* The sum does not depend on the order in which the elements are taken.
TakesAny(it, f, D) ==
    \A s \in SUBSET D : \A x \in s : it[s] = f[x] + it[s \ {x}]

LEMMA SumTakesAny ==
    ASSUME NEW D, IsFiniteSet(D), NEW f \in [D -> Int],
           NEW it \in [SUBSET D -> Int], SumsUp(it, f, D)
    PROVE  TakesAny(it, f, D)
<1> DEFINE S == {s \in SUBSET D : \A x \in s : it[s] = f[x] + it[s \ {x}]}
<1>1. \A s \in SUBSET D : s # {} => it[s] = f[AnyOf(s)] + it[s \ {AnyOf(s)}]
  BY DEF SumsUp
<1>2. ASSUME NEW s \in SUBSET D, \A t \in SUBSET s : t # s => t \in S,
             NEW x \in s
      PROVE  it[s] = f[x] + it[s \ {x}]
  <2> DEFINE y == AnyOf(s)
             both == (s \ {x}) \ {y}
  <2>1. y \in s
    BY DEF AnyOf
  <2>2. CASE x = y
    BY <1>1, <2>2
  <2>3. CASE x # y
    <3>1. s \ {x} \in S /\ y \in s \ {x} /\ s \ {y} \in S /\ x \in s \ {y}
      BY <1>2, <2>1, <2>3
    <3>2. it[s \ {x}] = f[y] + it[both]
      BY <3>1
    <3>3. (s \ {y}) \ {x} = both
      OBVIOUS
    <3>4. it[s \ {y}] = f[x] + it[both]
      BY <3>1, <3>3
    <3>5. it[s] = f[y] + it[s \ {y}]
      BY <1>1
    <3>6. f[x] \in Int /\ f[y] \in Int /\ it[both] \in Int
      BY <2>1
    <3> HIDE DEF y, both
    <3>7. QED
      BY <3>2, <3>4, <3>5, <3>6
  <2>4. QED
    BY <2>2, <2>3
<1>3. {} \in S
  OBVIOUS
<1>4. \A s \in SUBSET D : (\A t \in SUBSET s : t # s => t \in S) => s \in S
  BY <1>2
<1>5. \A s \in SUBSET D : s \in S
  <2> HIDE DEF S
  <2>1. QED
    BY <1>3, <1>4, SubsetInduction
<1>6. QED
  BY <1>5 DEF TakesAny

\* SumFunction is such a sum.
LEMMA SumFunctionSums ==
    ASSUME NEW D, IsFiniteSet(D), NEW f \in [D -> Int]
    PROVE  \E it \in [SUBSET D -> Int] : SumsUp(it, f, D) /\ SumFunction(f) = it[D]
<1> DEFINE chosen == CHOOSE it : SumsUp(it, f, D)
<1>1. SumFunction(f) = chosen[D]
  BY DEF SumFunction, SumFunctionOnSet, FoldFunctionOnSet, MapThenFoldSet, SumsUp, AnyOf
<1>2. PICK it \in [SUBSET D -> Int] : SumsUp(it, f, D)
  BY SumExists
<1>3. SumsUp(chosen, f, D)
  BY <1>2
<1> HIDE DEF chosen
<1>4. \A s \in SUBSET D : chosen[s] = it[s]
  <2> DEFINE S == {s \in SUBSET D : chosen[s] = it[s]}
  <2>1. \A s \in SUBSET D :
           /\ it[s] = IF s = {} THEN 0 ELSE f[AnyOf(s)] + it[s \ {AnyOf(s)}]
           /\ chosen[s] = IF s = {} THEN 0 ELSE f[AnyOf(s)] + chosen[s \ {AnyOf(s)}]
    BY <1>2, <1>3 DEF SumsUp
  <2>2. {} \in S
    BY <2>1
  <2>3. ASSUME NEW s \in SUBSET D, \A t \in SUBSET s : t # s => t \in S
        PROVE  s \in S
    <3>1. CASE s = {}
      BY <2>2, <3>1
    <3>2. CASE s # {}
      <4>1. AnyOf(s) \in s
        BY <3>2 DEF AnyOf
      <4>2. s \ {AnyOf(s)} \in S
        BY <2>3, <4>1
      <4>3. QED
        BY <2>1, <3>2, <4>2
    <3>3. QED
      BY <3>1, <3>2
  <2> HIDE DEF S
  <2>4. \A s \in SUBSET D : s \in S
    BY <2>2, <2>3, SubsetInduction
  <2>5. QED
    BY <2>4 DEF S
<1>5. QED
  BY <1>1, <1>2, <1>4

\* The sum of a sequence is what running totals grow by along it.
LEMMA SumOfRun ==
    ASSUME NEW n \in Nat, NEW f \in [1 .. n -> Int], NEW total \in [0 .. n -> Int],
           \A i \in 1 .. n : total[i] = total[i - 1] + f[i]
    PROVE  SumFunction(f) = total[n] - total[0]
<1> DEFINE D == 1 .. n
<1>1. IsFiniteSet(D) /\ f \in [D -> Int]
  BY FS_Interval
<1> HIDE DEF D
<1>2. PICK it \in [SUBSET D -> Int] : SumsUp(it, f, D) /\ SumFunction(f) = it[D]
  BY <1>1, SumFunctionSums
<1>3. \A s \in SUBSET D : \A x \in s : it[s] = f[x] + it[s \ {x}]
  <2>1. TakesAny(it, f, D)
    BY <1>1, <1>2, SumTakesAny
  <2>2. QED
    BY <2>1 DEF TakesAny
<1>4. it[{}] = 0
  BY <1>2 DEF SumsUp
<1> DEFINE Holds(i) == i <= n => it[1 .. i] = total[i] - total[0]
           S == {i \in Nat : Holds(i)}
<1>5. Holds(0)
  <2>1. total[0] \in Int /\ total[0] - total[0] = 0
    <3>1. 0 \in 0 .. n
      OBVIOUS
    <3>2. total[0] \in Int
      BY <3>1
    <3>3. QED
      BY <3>2
  <2>2. 1 .. 0 = {}
    OBVIOUS
  <2>3. it[1 .. 0] = total[0] - total[0]
    BY <1>4, <2>1, <2>2
  <2>4. QED
    BY <2>3
<1>6. ASSUME NEW i \in Nat, Holds(i)
      PROVE  Holds(i + 1)
  <2> SUFFICES ASSUME i + 1 <= n
               PROVE  it[1 .. i + 1] = total[i + 1] - total[0]
    OBVIOUS
  <2>1. /\ 1 .. (i + 1) \in SUBSET D /\ i + 1 \in 1 .. (i + 1)
        /\ (1 .. (i + 1)) \ {i + 1} = 1 .. i
    <3>1. \A x : x \in 1 .. (i + 1) => x \in 1 .. n
      OBVIOUS
    <3>2. /\ \A x \in 1 .. (i + 1) : x # i + 1 => x \in 1 .. i
          /\ \A x \in 1 .. i : x \in 1 .. (i + 1) /\ x # i + 1
      OBVIOUS
    <3>3. 1 .. (i + 1) \in SUBSET D
      BY <3>1 DEF D
    <3>4. (1 .. (i + 1)) \ {i + 1} = 1 .. i
      BY <3>2
    <3>5. QED
      BY <3>3, <3>4
  <2>2. it[1 .. i + 1] = f[i + 1] + it[1 .. i]
    BY <1>3, <2>1
  <2>3. it[1 .. i] = total[i] - total[0]
    BY <1>6
  <2>4. /\ total[i + 1] = total[i] + f[i + 1]
        /\ total[i] \in Int /\ total[0] \in Int /\ f[i + 1] \in Int
    <3>1. i + 1 - 1 = i /\ i + 1 \in 1 .. n /\ i \in 0 .. n /\ 0 \in 0 .. n
      OBVIOUS
    <3>2. QED
      BY <3>1
  <2>5. QED
    BY <2>2, <2>3, <2>4
<1> HIDE DEF Holds
<1>7. 0 \in S /\ \A i \in Nat : i \in S => i + 1 \in S
  BY <1>5, <1>6
<1> HIDE DEF S
<1>8. n \in S
  BY <1>7, EveryNatural
<1>9. it[1 .. n] = total[n] - total[0]
  BY <1>8 DEF S, Holds
<1>10. QED
  BY <1>2, <1>9 DEF D

\* Integers have running totals.
LEMMA RunningTotals ==
    ASSUME NEW n \in Nat, NEW f \in [1 .. n -> Int]
    PROVE  \E total \in [0 .. n -> Int] :
              /\ total[0] = 0 /\ total[n] = SumFunction(f)
              /\ \A i \in 1 .. n : total[i] = total[i - 1] + f[i]
<1> DEFINE D == 1 .. n
<1>1. IsFiniteSet(D) /\ f \in [D -> Int]
  BY FS_Interval
<1> HIDE DEF D
<1>2. PICK it \in [SUBSET D -> Int] : SumsUp(it, f, D) /\ SumFunction(f) = it[D]
  BY <1>1, SumFunctionSums
<1>3. \A s \in SUBSET D : \A x \in s : it[s] = f[x] + it[s \ {x}]
  <2>1. TakesAny(it, f, D)
    BY <1>1, <1>2, SumTakesAny
  <2>2. QED
    BY <2>1 DEF TakesAny
<1> DEFINE total == [i \in 0 .. n |-> it[1 .. i]]
<1>4. total[0] = 0
  <2>1. 1 .. 0 = {}
    OBVIOUS
  <2>2. it[{}] = 0
    BY <1>2 DEF SumsUp
  <2>3. QED
    BY <2>1, <2>2
<1>5. total[n] = SumFunction(f)
  BY <1>2 DEF D
<1>6. ASSUME NEW i \in 0 .. n
      PROVE  1 .. i \in SUBSET D
  BY DEF D
<1>7. total \in [0 .. n -> Int]
  BY <1>2, <1>6
<1>8. ASSUME NEW i \in 1 .. n
      PROVE  total[i] = total[i - 1] + f[i]
  <2>1. (1 .. i) \ {i} = 1 .. (i - 1) /\ i \in 1 .. i /\ i \in 0 .. n /\ i - 1 \in 0 .. n
    OBVIOUS
  <2>2. 1 .. i \in SUBSET D
    BY <1>6, <2>1
  <2>3. total[i] = it[1 .. i] /\ total[i - 1] = it[1 .. (i - 1)] /\ total[i - 1] \in Int
    BY <1>7, <2>1
  <2> HIDE DEF total
  <2> DEFINE t == 1 .. i
  <2> HIDE DEF t
  <2>4. it[t] = f[i] + it[t \ {i}]
    <3>1. t \in SUBSET D /\ i \in t
      BY <2>1, <2>2 DEF t
    <3>2. QED
      BY <1>3, <3>1
  <2>5. f[i] \in Int
    OBVIOUS
  <2>6. it[t \ {i}] = total[i - 1] /\ it[t] = total[i]
    BY <2>1, <2>3 DEF t
  <2>7. total[i] = f[i] + total[i - 1]
    BY <2>4, <2>6
  <2>8. QED
    BY <2>3, <2>5, <2>7
<1> HIDE DEF total
<1>9. QED
  BY <1>4, <1>5, <1>7, <1>8

-----------------------------------------------------------------------------
(* Concatenation, and that of a sequence of sequences.                      *)

\* The provers keep a concatenation apart only under a name.
Cat(s, t) == s \o t

LEMMA CatType ==
    ASSUME NEW E, NEW s \in Seq(E), NEW t \in Seq(E)
    PROVE  /\ Cat(s, t) \in Seq(E) /\ Len(Cat(s, t)) = Len(s) + Len(t)
           /\ Len(s) \in Nat /\ Len(t) \in Nat
           /\ \A i \in 1 .. Len(s) : Cat(s, t)[i] = s[i]
           /\ \A i \in 1 .. Len(t) : Cat(s, t)[Len(s) + i] = t[i]
BY ConcatProperties, LenProperties DEF Cat

CatFacts(E, s, t) ==
    /\ Cat(s, t) \in Seq(E) /\ Len(Cat(s, t)) = Len(s) + Len(t)
    /\ Len(s) \in Nat /\ Len(t) \in Nat
    /\ \A i \in 1 .. Len(s) : Cat(s, t)[i] = s[i]
    /\ \A i \in 1 .. Len(t) : Cat(s, t)[Len(s) + i] = t[i]

LEMMA CatLaws == \A E : \A s, t \in Seq(E) : CatFacts(E, s, t)
BY CatType DEF CatFacts

LEMMA CatEmpty ==
    ASSUME NEW E, NEW s \in Seq(E)
    PROVE  Cat(s, <<>>) = s /\ Cat(<<>>, s) = s
BY ConcatEmptySeq DEF Cat

LEMMA CatAssociates ==
    ASSUME NEW E, NEW s \in Seq(E), NEW t \in Seq(E), NEW u \in Seq(E)
    PROVE  Cat(Cat(s, t), u) = Cat(s, Cat(t, u))
BY ConcatAssociative DEF Cat

LEMMA HeadTail ==
    ASSUME NEW E, NEW s \in Seq(E), s # <<>>
    PROVE  /\ Head(s) \in E /\ Tail(s) \in Seq(E)
           /\ s = Cat(<<Head(s)>>, Tail(s))
           /\ <<Head(s)>> \in Seq(E)
<1>1. /\ Head(s) \in E /\ Tail(s) \in Seq(E) /\ Len(Tail(s)) = Len(s) - 1
      /\ Len(s) \in Nat \ {0}
      /\ \A i \in 1 .. Len(Tail(s)) : Tail(s)[i] = s[i + 1]
      /\ Head(s) = s[1]
  BY HeadTailProperties, EmptySeq
<1> DEFINE h == Head(s)
           t == Tail(s)
<1> HIDE DEF h, t
<1>2. <<h>> \in Seq(E) /\ t \in Seq(E) /\ Len(<<h>>) = 1 /\ <<h>>[1] = h
  BY <1>1 DEF h, t
<1> DEFINE o == <<h>>
<1> HIDE DEF o
<1>3. o \in Seq(E) /\ t \in Seq(E) /\ Len(o) = 1 /\ o[1] = h
  BY <1>2 DEF o
<1>4. /\ Cat(o, t) \in Seq(E) /\ Len(Cat(o, t)) = Len(o) + Len(t)
      /\ \A i \in 1 .. Len(o) : Cat(o, t)[i] = o[i]
      /\ \A i \in 1 .. Len(t) : Cat(o, t)[Len(o) + i] = t[i]
  <2>1. o \in Seq(E) /\ t \in Seq(E)
    BY <1>3
  <2>2. CatFacts(E, o, t)
    BY <2>1, CatLaws, Zenon
  <2>3. QED
    BY <2>2 DEF CatFacts
<1> DEFINE v == Cat(o, t)
<1> HIDE DEF v
<1>5. v \in Seq(E) /\ Len(v) = Len(s)
  BY <1>1, <1>3, <1>4 DEF v, t
<1>6. \A i \in 1 .. Len(s) : v[i] = s[i]
  <2>1. ASSUME NEW i \in 1 .. Len(s)
        PROVE  v[i] = s[i]
    <3>1. CASE i = 1
      BY <1>1, <1>3, <1>4, <3>1 DEF v, h
    <3>2. CASE i # 1
      <4>1. i - 1 \in 1 .. Len(t) /\ 1 + (i - 1) = i /\ (i - 1) + 1 = i
        BY <1>1, <3>2 DEF t
      <4>2. v[1 + (i - 1)] = t[i - 1]
        BY <1>3, <1>4, <4>1 DEF v
      <4>3. t[i - 1] = s[(i - 1) + 1]
        BY <1>1, <4>1 DEF t
      <4>4. QED
        BY <4>1, <4>2, <4>3
    <3>3. QED
      BY <3>1, <3>2
  <2>2. QED
    BY <2>1
<1>7. v = s
  BY <1>5, <1>6, SeqEqual
<1>8. QED
  BY <1>1, <1>2, <1>7 DEF v, o, h, t

LEMMA ToSetCat ==
    ASSUME NEW E, NEW s \in Seq(E), NEW t \in Seq(E)
    PROVE  ToSet(Cat(s, t)) = ToSet(s) \cup ToSet(t)
<1>1. CatFacts(E, s, t)
  BY CatLaws
<1> DEFINE u == Cat(s, t)
           n == Len(s)
           m == Len(t)
<1>2. /\ u \in Seq(E) /\ Len(u) = n + m /\ n \in Nat /\ m \in Nat
      /\ \A i \in 1 .. n : u[i] = s[i]
      /\ \A i \in 1 .. m : u[n + i] = t[i]
  BY <1>1 DEF CatFacts
<1>3. DOMAIN u = 1 .. n + m /\ DOMAIN s = 1 .. n /\ DOMAIN t = 1 .. m
  BY <1>2, LenProperties
<1> HIDE DEF u, n, m
<1>4. ToSet(s) \subseteq ToSet(u)
  BY <1>2, <1>3 DEF ToSet
<1>5. ToSet(t) \subseteq ToSet(u)
  <2>1. ASSUME NEW i \in 1 .. m
        PROVE  t[i] \in ToSet(u)
    <3>1. n + i \in 1 .. n + m /\ u[n + i] = t[i]
      BY <1>2
    <3>2. QED
      BY <1>3, <3>1 DEF ToSet
  <2>2. QED
    BY <1>3, <2>1 DEF ToSet
<1>6. ToSet(u) \subseteq ToSet(s) \cup ToSet(t)
  <2>1. ASSUME NEW i \in 1 .. n + m
        PROVE  u[i] \in ToSet(s) \cup ToSet(t)
    <3>1. CASE i \in 1 .. n
      BY <1>2, <1>3, <3>1 DEF ToSet
    <3>2. CASE i \notin 1 .. n
      <4>1. PICK j \in 1 .. m : i = n + j
        <5>1. i - n \in 1 .. m /\ i = n + (i - n)
          BY <1>2, <3>2
        <5>2. QED
          BY <5>1
      <4>2. u[i] = t[j]
        BY <1>2, <4>1
      <4>3. QED
        BY <1>3, <4>2 DEF ToSet
    <3>3. QED
      BY <3>1, <3>2
  <2>2. QED
    BY <1>3, <2>1 DEF ToSet
<1>7. QED
  BY <1>4, <1>5, <1>6 DEF u

\* out[n] is the concatenation of the first n sequences of ss.
Flattens(out, ss, E) ==
    /\ out \in [0 .. Len(ss) -> Seq(E)]
    /\ out[0] = <<>>
    /\ \A i \in 1 .. Len(ss) : out[i] = Cat(out[i - 1], ss[i])

FlatStep(f, ss) == [i \in 1 .. Len(ss) |-> IF i = 1 THEN ss[i] ELSE Cat(f[i - 1], ss[i])]

LEMMA FlatteningExists ==
    ASSUME NEW E, NEW ss \in Seq(Seq(E))
    PROVE  \E out : Flattens(out, ss, E)
<1> DEFINE all == Len(ss)
           Upto(out, n) == /\ out \in [0 .. n -> Seq(E)]
                           /\ out[0] = <<>>
                           /\ \A i \in 1 .. n : out[i] = Cat(out[i - 1], ss[i])
           Some(n) == \E out : Upto(out, n)
           S == {n \in Nat : n <= all => Some(n)}
<1>1. all \in Nat /\ \A i \in 1 .. all : ss[i] \in Seq(E)
  BY LenProperties, ElementOfSeq
<1> HIDE DEF all, Some
<1>2. 0 \in S
  <2>1. Upto([i \in 0 .. 0 |-> <<>>], 0)
    BY EmptySeq
  <2> HIDE DEF Upto
  <2>2. Some(0)
    BY <2>1 DEF Some
  <2>3. QED
    BY <2>2
<1>3. ASSUME NEW n \in Nat, n \in S
      PROVE  n + 1 \in S
  <2>1. SUFFICES ASSUME n + 1 <= all
                 PROVE  Some(n + 1)
    OBVIOUS
  <2>2. Some(n)
    BY <1>1, <1>3, <2>1
  <2>3. PICK out : Upto(out, n)
    BY <2>2 DEF Some
  <2> DEFINE next == [i \in 0 .. n + 1 |-> IF i = n + 1 THEN Cat(out[n], ss[n + 1]) ELSE out[i]]
  <2>4. out[n] \in Seq(E) /\ ss[n + 1] \in Seq(E)
    BY <1>1, <2>1, <2>3
  <2>5. Cat(out[n], ss[n + 1]) \in Seq(E)
    BY <2>4, CatType
  <2>6. next \in [0 .. n + 1 -> Seq(E)]
    BY <2>3, <2>5
  <2>7. next[0] = <<>>
    BY <2>3
  <2>8. ASSUME NEW i \in 1 .. n + 1
        PROVE  next[i] = Cat(next[i - 1], ss[i])
    <3>1. next[n + 1] = Cat(out[n], ss[n + 1]) /\ \A j \in 0 .. n : next[j] = out[j]
      OBVIOUS
    <3> HIDE DEF next
    <3>2. CASE i = n + 1
      BY <3>1, <3>2
    <3>3. CASE i \in 1 .. n
      <4>1. next[i] = out[i] /\ next[i - 1] = out[i - 1]
        BY <3>1, <3>3
      <4>2. QED
        BY <2>3, <3>3, <4>1
    <3>4. QED
      BY <3>2, <3>3
  <2>9. Upto(next, n + 1)
    BY <2>6, <2>7, <2>8
  <2> HIDE DEF Upto
  <2>10. QED
    BY <2>9 DEF Some
<1> HIDE DEF S, Upto
<1>4. \A n \in Nat : n \in S
  BY <1>2, <1>3, EveryNatural
<1>5. Some(all)
  BY <1>1, <1>4 DEF S
<1>6. QED
  BY <1>5 DEF Some, Upto, Flattens, all

LEMMA FlattenSeqFlattens ==
    ASSUME NEW E, NEW ss \in Seq(Seq(E)), NEW out, Flattens(out, ss, E)
    PROVE  FlattenSeq(ss) = out[Len(ss)]
<1> DEFINE n == Len(ss)
<1>1. n \in Nat /\ \A i \in 1 .. n : ss[i] \in Seq(E)
  BY LenProperties, ElementOfSeq
<1>2. /\ out[0] = <<>>
      /\ \A i \in 1 .. n : out[i] = Cat(out[i - 1], ss[i])
  BY DEF Flattens
<1>3. CASE n = 0
  <2>1. ss = <<>>
    BY <1>3, EmptySeq
  <2>2. FlattenSeq(ss) = ss
    BY <1>3 DEF FlattenSeq
  <2>3. QED
    BY <1>2, <1>3, <2>1, <2>2
<1>4. CASE n # 0
  <2> DEFINE f == [i \in 1 .. n |-> out[i]]
             chosen == CHOOSE g : g = FlatStep(g, ss)
  <2>1. FlattenSeq(ss) = chosen[n]
    BY <1>4, Zenon DEF FlattenSeq, FlatStep, Cat
  <2> HIDE DEF n
  <2>2. ASSUME NEW i \in 1 .. n
        PROVE  f[i] = IF i = 1 THEN ss[i] ELSE Cat(f[i - 1], ss[i])
    <3>1. CASE i = 1
      <4>1. 1 \in 1 .. n /\ 1 - 1 = 0
        BY <1>1, <3>1
      <4>2. out[1] = Cat(out[0], ss[1]) /\ ss[1] \in Seq(E)
        BY <1>1, <1>2, <4>1
      <4>3. out[1] = ss[1]
        BY <1>2, <4>2, CatEmpty
      <4>4. QED
        BY <3>1, <4>1, <4>3
    <3>2. CASE i # 1
      <4>1. i - 1 \in 1 .. n
        BY <1>1, <3>2
      <4>2. QED
        BY <1>2, <3>2, <4>1
    <3>3. QED
      BY <3>1, <3>2
  <2>3. f = FlatStep(f, ss)
    <3>1. f = [i \in 1 .. n |-> IF i = 1 THEN ss[i] ELSE Cat(f[i - 1], ss[i])]
      BY <2>2
    <3> HIDE DEF f
    <3>2. QED
      BY <3>1 DEF FlatStep, n
  <2> HIDE DEF f
  <2>4. chosen = FlatStep(chosen, ss)
    BY <2>3
  <2> HIDE DEF chosen
  <2>5. \A i \in 1 .. n : chosen[i] = IF i = 1 THEN ss[i] ELSE Cat(chosen[i - 1], ss[i])
    BY <2>4 DEF FlatStep, n
  <2>6. \A i \in 1 .. n : f[i] = IF i = 1 THEN ss[i] ELSE Cat(f[i - 1], ss[i])
    BY <2>2
  <2> DEFINE S == {i \in Nat : i \in 1 .. n => chosen[i] = f[i]}
  <2>7. 0 \in S
    OBVIOUS
  <2>8. ASSUME NEW i \in Nat, i \in S
        PROVE  i + 1 \in S
    <3>1. SUFFICES ASSUME i + 1 \in 1 .. n
                   PROVE  chosen[i + 1] = f[i + 1]
      OBVIOUS
    <3>2. CASE i = 0
      <4>1. chosen[1] = ss[1] /\ f[1] = ss[1]
        BY <2>5, <2>6, <3>1, <3>2
      <4>2. QED
        BY <3>2, <4>1
    <3>3. CASE i # 0
      <4>1. i \in 1 .. n /\ i + 1 # 1 /\ (i + 1) - 1 = i
        BY <1>1, <3>1, <3>3
      <4>2. chosen[i] = f[i]
        BY <2>8, <4>1
      <4>3. chosen[i + 1] = Cat(chosen[(i + 1) - 1], ss[i + 1])
            /\ f[i + 1] = Cat(f[(i + 1) - 1], ss[i + 1])
        BY <2>5, <2>6, <3>1, <4>1
      <4>4. QED
        BY <4>1, <4>2, <4>3
    <3>4. QED
      BY <3>2, <3>3
  <2> HIDE DEF S
  <2>9. \A i \in Nat : i \in S
    BY <2>7, <2>8, EveryNatural
  <2>10. n \in 1 .. n
    BY <1>1, <1>4
  <2>11. chosen[n] = f[n]
    BY <1>1, <2>9, <2>10 DEF S
  <2>12. f[n] = out[n]
    BY <2>10 DEF f
  <2>13. QED
    BY <2>1, <2>11, <2>12 DEF n
<1>5. QED
  BY <1>3, <1>4

LEMMA FlattenConcat ==
    ASSUME NEW E, NEW ss \in Seq(Seq(E)), NEW tt \in Seq(Seq(E))
    PROVE  /\ FlattenSeq(ss) \in Seq(E)
           /\ FlattenSeq(Cat(ss, tt)) = Cat(FlattenSeq(ss), FlattenSeq(tt))
<1> DEFINE uu == Cat(ss, tt)
           n  == Len(ss)
           m  == Len(tt)
<1>1. /\ uu \in Seq(Seq(E)) /\ Len(uu) = n + m
      /\ \A i \in 1 .. n : uu[i] = ss[i]
      /\ \A i \in 1 .. m : uu[n + i] = tt[i] /\ tt[i] \in Seq(E)
      /\ n \in Nat /\ m \in Nat
  <2>1. \A i \in 1 .. m : tt[i] \in Seq(E)
    BY ElementOfSeq
  <2>2. /\ Cat(ss, tt) \in Seq(Seq(E)) /\ Len(Cat(ss, tt)) = Len(ss) + Len(tt)
        /\ Len(ss) \in Nat /\ Len(tt) \in Nat
        /\ \A i \in 1 .. Len(ss) : Cat(ss, tt)[i] = ss[i]
        /\ \A i \in 1 .. Len(tt) : Cat(ss, tt)[Len(ss) + i] = tt[i]
    <3> DEFINE F == Seq(E)
    <3> HIDE DEF F
    <3>1. ss \in Seq(F) /\ tt \in Seq(F)
      BY DEF F
    <3>2. /\ Cat(ss, tt) \in Seq(F) /\ Len(Cat(ss, tt)) = Len(ss) + Len(tt)
          /\ Len(ss) \in Nat /\ Len(tt) \in Nat
          /\ \A i \in 1 .. Len(ss) : Cat(ss, tt)[i] = ss[i]
          /\ \A i \in 1 .. Len(tt) : Cat(ss, tt)[Len(ss) + i] = tt[i]
      BY <3>1, ConcatProperties, LenProperties DEF Cat
    <3>3. QED
      BY <3>2 DEF F
  <2>3. QED
    BY <2>1, <2>2
<1> HIDE DEF uu, n, m
<1>2. n \in Nat /\ m \in Nat
  BY <1>1
<1>3. PICK s : Flattens(s, ss, E)
  BY FlatteningExists
<1>4. PICK t : Flattens(t, tt, E)
  BY FlatteningExists
<1>5. PICK u : Flattens(u, uu, E)
  BY <1>1, FlatteningExists
<1>6. FlattenSeq(ss) = s[n] /\ FlattenSeq(tt) = t[m] /\ FlattenSeq(uu) = u[n + m]
  BY <1>1, <1>3, <1>4, <1>5, FlattenSeqFlattens DEF n, m
<1>7. /\ \A i \in 0 .. n : s[i] \in Seq(E)
      /\ \A i \in 0 .. m : t[i] \in Seq(E)
      /\ s[0] = <<>> /\ t[0] = <<>> /\ u[0] = <<>>
      /\ \A i \in 1 .. n : s[i] = Cat(s[i - 1], ss[i])
      /\ \A i \in 1 .. m : t[i] = Cat(t[i - 1], tt[i])
      /\ \A i \in 1 .. n + m : u[i] = Cat(u[i - 1], uu[i])
  BY <1>1, <1>3, <1>4, <1>5 DEF Flattens, n, m
<1> DEFINE S == {i \in Nat : i \in 0 .. n => u[i] = s[i]}
<1>8. \A i \in Nat : i \in S
  <2>1. 0 \in S
    BY <1>7
  <2>2. ASSUME NEW i \in Nat, i \in S
        PROVE  i + 1 \in S
    <3>1. SUFFICES ASSUME i + 1 \in 0 .. n
                   PROVE  u[i + 1] = s[i + 1]
      OBVIOUS
    <3>2. i + 1 \in 1 .. n /\ i + 1 \in 1 .. n + m /\ i \in 0 .. n /\ (i + 1) - 1 = i
      BY <1>1, <3>1
    <3>3. u[i + 1] = Cat(u[i], uu[i + 1]) /\ s[i + 1] = Cat(s[i], ss[i + 1])
      BY <1>7, <3>2
    <3>4. u[i] = s[i] /\ uu[i + 1] = ss[i + 1]
      BY <1>1, <2>2, <3>2
    <3>5. QED
      BY <3>3, <3>4
  <2> HIDE DEF S
  <2>3. QED
    BY <2>1, <2>2, EveryNatural
<1> HIDE DEF S
<1> DEFINE T == {i \in Nat : i \in 0 .. m => u[n + i] = Cat(s[n], t[i])}
<1>9. \A i \in Nat : i \in T
  <2>1. 0 \in T
    <3>1. u[n] = s[n] /\ s[n] \in Seq(E)
      BY <1>2, <1>7, <1>8 DEF S
    <3>2. Cat(s[n], t[0]) = s[n]
      BY <1>7, <3>1, CatEmpty
    <3>3. QED
      BY <1>1, <3>1, <3>2
  <2>2. ASSUME NEW i \in Nat, i \in T
        PROVE  i + 1 \in T
    <3>1. SUFFICES ASSUME i + 1 \in 0 .. m
                   PROVE  u[n + (i + 1)] = Cat(s[n], t[i + 1])
      OBVIOUS
    <3>2. /\ i + 1 \in 1 .. m /\ n + (i + 1) \in 1 .. n + m /\ i \in 0 .. m
          /\ (i + 1) - 1 = i /\ (n + (i + 1)) - 1 = n + i /\ n \in 0 .. n
      BY <1>2, <3>1
    <3>3. u[n + (i + 1)] = Cat(u[n + i], tt[i + 1]) /\ t[i + 1] = Cat(t[i], tt[i + 1])
      BY <1>1, <1>7, <3>2
    <3>4. u[n + i] = Cat(s[n], t[i])
      BY <2>2, <3>2
    <3>5. s[n] \in Seq(E) /\ t[i] \in Seq(E) /\ tt[i + 1] \in Seq(E)
      BY <1>1, <1>7, <3>2
    <3> DEFINE a == s[n]
               b == t[i]
               c == tt[i + 1]
    <3> HIDE DEF a, b, c
    <3>6. a \in Seq(E) /\ b \in Seq(E) /\ c \in Seq(E)
      BY <3>5 DEF a, b, c
    <3>7. Cat(Cat(a, b), c) = Cat(a, Cat(b, c))
      BY <3>6, CatAssociates
    <3>8. Cat(Cat(s[n], t[i]), tt[i + 1]) = Cat(s[n], Cat(t[i], tt[i + 1]))
      BY <3>7 DEF a, b, c
    <3>9. QED
      BY <3>3, <3>4, <3>8
  <2> HIDE DEF T
  <2>3. QED
    BY <2>1, <2>2, EveryNatural
<1>10. u[n + m] = Cat(s[n], t[m]) /\ s[n] \in Seq(E)
  <2>1. m \in 0 .. m /\ n \in 0 .. n
    BY <1>1
  <2>2. QED
    BY <1>1, <1>7, <1>9, <2>1
<1>11. QED
  BY <1>6, <1>10 DEF uu

LEMMA FlattenFew ==
    ASSUME NEW E, NEW s \in Seq(E)
    PROVE  FlattenSeq(<<>>) = <<>> /\ FlattenSeq(<<s>>) = s
BY DEF FlattenSeq

LEMMA FlattenEmpties ==
    ASSUME NEW E, NEW ss \in Seq(Seq(E)), \A i \in 1 .. Len(ss) : ss[i] = <<>>
    PROVE  FlattenSeq(ss) = <<>>
<1>1. Len(ss) \in Nat
  BY LenProperties
<1>2. PICK out : Flattens(out, ss, E)
  BY FlatteningExists
<1> DEFINE n == Len(ss)
           S == {i \in Nat : i \in 0 .. n => out[i] = <<>>}
<1>3. out[0] = <<>> /\ \A i \in 1 .. n : out[i] = Cat(out[i - 1], <<>>)
  BY <1>2 DEF Flattens
<1>4. Cat(<<>>, <<>>) = <<>>
  BY EmptySeq, CatEmpty
<1> HIDE DEF n
<1>5. 0 \in S
  BY <1>3
<1>6. ASSUME NEW i \in Nat, i \in S
      PROVE  i + 1 \in S
  <2>1. SUFFICES ASSUME i + 1 \in 0 .. n
                 PROVE  out[i + 1] = <<>>
    OBVIOUS
  <2>2. i \in 0 .. n /\ i + 1 \in 1 .. n /\ (i + 1) - 1 = i
    BY <1>1, <2>1 DEF n
  <2>3. QED
    BY <1>3, <1>4, <1>6, <2>2
<1> HIDE DEF S
<1>7. \A i \in Nat : i \in S
  BY <1>5, <1>6, EveryNatural
<1>8. n \in 0 .. n
  BY <1>1 DEF n
<1>9. out[n] = <<>>
  BY <1>1, <1>7, <1>8 DEF S, n
<1>10. QED
  BY <1>2, <1>9, FlattenSeqFlattens DEF n

-----------------------------------------------------------------------------
(* Ordering by rank.                                                        *)

\* before is a strict total order of S.
StrictlyOrders(before, S) ==
    /\ before \in [S -> SUBSET S]
    /\ \A x \in S : x \notin before[x]
    /\ \A x, y \in S : y \in before[x] => before[y] \subseteq before[x]
    /\ \A x, y \in S : x # y => x \in before[y] \/ y \in before[x]

\* order enumerates S, each element once and behind those before it.
Enumerates(order, before, S) ==
    /\ order \in [1 .. Cardinality(S) -> S]
    /\ \A x \in S : \E k \in 1 .. Cardinality(S) : order[k] = x
    /\ \A k, l \in 1 .. Cardinality(S) : order[k] = order[l] => k = l
    /\ \A k, l \in 1 .. Cardinality(S) : k < l => order[k] \in before[order[l]]

\* The number of elements before it tells an element's place.
LEMMA InOrderEnumerates ==
    ASSUME NEW S, IsFiniteSet(S), NEW before, StrictlyOrders(before, S)
    PROVE  Cardinality(S) \in Nat /\ Enumerates(InOrder(before), before, S)
<1> DEFINE n == Cardinality(S)
           rank == [x \in S |-> Cardinality(before[x]) + 1]
           order == InOrder(before)
<1>1. n \in Nat /\ DOMAIN before = S
  BY FS_CardinalityType DEF StrictlyOrders
<1>2. \A x \in S : rank[x] \in 1 .. n /\ rank[x] = Cardinality(before[x]) + 1
  <2>1. ASSUME NEW x \in S
        PROVE  Cardinality(before[x]) \in Nat /\ Cardinality(before[x]) < n
    <3>1. before[x] \in SUBSET S /\ before[x] # S
      BY DEF StrictlyOrders
    <3>2. /\ IsFiniteSet(before[x]) /\ Cardinality(before[x]) <= n
          /\ Cardinality(before[x]) # n
      BY <3>1, FS_Subset
    <3>3. Cardinality(before[x]) \in Nat
      BY <3>2, FS_CardinalityType
    <3>4. QED
      BY <1>1, <3>2, <3>3
  <2>2. QED
    BY <1>1, <2>1
<1>3. DOMAIN rank = S
  OBVIOUS
<1> HIDE DEF rank
<1>4. ASSUME NEW x \in S, NEW y \in before[x]
      PROVE  y \in S /\ rank[y] < rank[x]
  <2>1. y \in S /\ before[y] \subseteq before[x] /\ before[y] # before[x]
    BY DEF StrictlyOrders
  <2>2. before[x] \in SUBSET S
    BY DEF StrictlyOrders
  <2>3. IsFiniteSet(before[x])
    BY <2>2, FS_Subset
  <2>4. Cardinality(before[y]) <= Cardinality(before[x]) /\ Cardinality(before[y]) # Cardinality(before[x])
    BY <2>1, <2>3, FS_Subset
  <2>5. rank[y] = Cardinality(before[y]) + 1 /\ rank[x] = Cardinality(before[x]) + 1
    BY <1>2, <2>1
  <2>6. rank[y] \in 1 .. n /\ rank[x] \in 1 .. n
    BY <1>2, <2>1
  <2>7. Cardinality(before[y]) \in Nat /\ Cardinality(before[x]) \in Nat
    BY <2>1, <2>3, FS_Subset, FS_CardinalityType
  <2>8. QED
    BY <2>1, <2>4, <2>5, <2>7
<1>5. \A x, y \in S : x # y => rank[x] # rank[y]
  <2>1. ASSUME NEW x \in S, NEW y \in S, x # y
        PROVE  rank[x] # rank[y]
    <3>1. x \in before[y] \/ y \in before[x]
      BY <2>1 DEF StrictlyOrders
    <3>2. rank[x] < rank[y] \/ rank[y] < rank[x]
      BY <1>4, <3>1
    <3>3. rank[x] \in Int /\ rank[y] \in Int
      BY <1>2
    <3>4. QED
      BY <3>2, <3>3
  <2>2. QED
    BY <2>1
<1>6. \A k \in 1 .. n : \E x \in S : rank[x] = k
  <2>1. rank \in [S -> 1 .. n]
    <3>1. rank = [x \in S |-> rank[x]]
      BY DEF rank
    <3>2. QED
      BY <1>2, <3>1
  <2>2. rank \in Injection(S, 1 .. n)
    BY <1>5, <2>1 DEF Injection, IsInjective
  <2>3. IsFiniteSet(1 .. n) /\ Cardinality(1 .. n) = n
    BY <1>1, FS_Interval
  <2>4. rank \in Surjection(S, 1 .. n)
    BY <2>2, <2>3, FS_Injection
  <2>5. QED
    BY <2>4 DEF Surjection
<1>7. DOMAIN order = 1 .. n
  BY <1>1 DEF InOrder
<1>8. \A k \in 1 .. n : order[k] \in S /\ rank[order[k]] = k
  <2>1. ASSUME NEW k \in 1 .. n
        PROVE  order[k] \in S /\ rank[order[k]] = k
    <3>1. order[k] = CHOOSE x \in S : Cardinality(before[x]) = k - 1
      BY <1>1 DEF InOrder
    <3>2. PICK x \in S : rank[x] = k
      BY <1>6
    <3>3. Cardinality(before[x]) = k - 1
      <4>1. before[x] \in SUBSET S
        BY DEF StrictlyOrders
      <4>2. Cardinality(before[x]) \in Nat
        BY <4>1, FS_Subset, FS_CardinalityType
      <4>3. QED
        BY <1>2, <3>2, <4>2
    <3>4. order[k] \in S /\ Cardinality(before[order[k]]) = k - 1
      BY <3>1, <3>3
    <3>5. QED
      BY <1>2, <3>4
  <2>2. QED
    BY <2>1
<1>9. order = [k \in 1 .. n |-> order[k]]
  BY <1>1 DEF InOrder
<1> HIDE DEF order
<1>10. order \in [1 .. n -> S]
  BY <1>8, <1>9
<1>11. \A x \in S : rank[x] \in 1 .. n /\ order[rank[x]] = x
  BY <1>2, <1>5, <1>8
<1>12. \A k, l \in 1 .. n : k < l => order[k] \in before[order[l]]
  <2>1. ASSUME NEW k \in 1 .. n, NEW l \in 1 .. n, k < l
        PROVE  order[k] \in before[order[l]]
    <3>1. order[k] # order[l]
      BY <1>8, <2>1
    <3>2. order[l] \notin before[order[k]]
      <4>1. order[l] \in before[order[k]] => l < k
        BY <1>4, <1>8
      <4>2. QED
        BY <1>1, <2>1, <4>1
    <3>3. QED
      BY <1>8, <3>1, <3>2 DEF StrictlyOrders
  <2>2. QED
    BY <2>1
<1>13. QED
  BY <1>1, <1>8, <1>11, <1>12, <1>10 DEF Enumerates, order

\* Numbers in their order.
LEMMA NumbersAreOrdered ==
    ASSUME NEW positions \in SUBSET Int
    PROVE  StrictlyOrders([i \in positions |-> {j \in positions : j < i}], positions)
<1> DEFINE before == [i \in positions |-> {j \in positions : j < i}]
<1>1. \A i \in positions : before[i] = {j \in positions : j < i} /\ i \in Int
  OBVIOUS
<1>2. before \in [positions -> SUBSET positions]
  OBVIOUS
<1> HIDE DEF before
<1>3. \A i, j \in positions : j \in before[i] <=> j < i
  BY <1>1
<1>4. \A x, y \in positions : y \in before[x] => before[y] \subseteq before[x]
  <2>1. ASSUME NEW x \in positions, NEW y \in positions, y < x, NEW z \in before[y]
        PROVE  z \in before[x]
    <3>1. z \in positions /\ z < y /\ {x, y, z} \subseteq Int
      BY <1>1, <2>1
    <3>2. z < x
      BY <2>1, <3>1
    <3>3. QED
      BY <1>3, <3>1, <3>2
  <2>2. QED
    BY <1>3, <2>1
<1>5. \A x, y \in positions : x # y => x < y \/ y < x
  OBVIOUS
<1>6. \A x \in positions : x \notin before[x]
  BY <1>1
<1>7. \A x, y \in positions : x # y => x \in before[y] \/ y \in before[x]
  BY <1>3, <1>5
<1>8. StrictlyOrders(before, positions)
  BY <1>2, <1>4, <1>6, <1>7 DEF StrictlyOrders
<1>9. QED
  BY <1>8 DEF before

\* A filter keeps what is at the positions, in their order.
FiltersOut(t, s, positions) ==
    \E order : /\ Enumerates(order, [i \in positions |-> {j \in positions : j < i}], positions)
               /\ t = [k \in 1 .. Cardinality(positions) |-> s[order[k]]]

LEMMA FilterPicks ==
    ASSUME NEW s, NEW positions \in SUBSET Int, IsFiniteSet(positions)
    PROVE  FiltersOut(Filter(s, positions), s, positions)
<1> DEFINE before == [i \in positions |-> {j \in positions : j < i}]
<1>1. StrictlyOrders(before, positions)
  BY NumbersAreOrdered
<1>2. /\ Cardinality(positions) \in Nat
      /\ Enumerates(InOrder(before), before, positions)
  BY <1>1, InOrderEnumerates
<1>3. Filter(s, positions) = [k \in 1 .. Cardinality(positions) |-> s[InOrder(before)[k]]]
  BY <1>2 DEF Filter, Enumerates
<1>4. QED
  BY <1>2, <1>3 DEF FiltersOut

\* A finite set of integers has a smallest and a largest member.
LEMMA FiniteExtremes ==
    ASSUME NEW S \in SUBSET Int, IsFiniteSet(S), S # {}
    PROVE  /\ Min(S) \in S /\ \A x \in S : Min(S) <= x
           /\ Max(S) \in S /\ \A x \in S : x <= Max(S)
<1> DEFINE before == [i \in S |-> {j \in S : j < i}]
           n == Cardinality(S)
<1>1. n \in Nat /\ n # 0
  BY FS_CardinalityType, FS_EmptySet
<1>2. PICK order : Enumerates(order, before, S)
  BY FilterPicks DEF FiltersOut
<1>3. \A i, j \in S : j \in before[i] => j < i
  OBVIOUS
<1> HIDE DEF before, n
<1>4. /\ \A k \in 1 .. n : order[k] \in S
      /\ \A x \in S : \E k \in 1 .. n : order[k] = x
      /\ \A k, l \in 1 .. n : k < l => order[k] < order[l]
  BY <1>2, <1>3 DEF Enumerates, n
<1>5. /\ 1 \in 1 .. n /\ n \in 1 .. n
      /\ \A k \in 1 .. n : (k = 1 \/ 1 < k) /\ (k = n \/ k < n)
  BY <1>1
<1>6. order[1] \in S /\ \A x \in S : order[1] <= x
  <2>1. ASSUME NEW x \in S
        PROVE  order[1] <= x
    <3>1. PICK k \in 1 .. n : order[k] = x
      BY <1>4
    <3>2. k = 1 \/ order[1] < order[k]
      BY <1>4, <1>5
    <3>3. order[1] \in Int /\ order[k] \in Int
      BY <1>4, <1>5
    <3>4. QED
      BY <3>1, <3>2, <3>3
  <2>2. QED
    BY <1>4, <1>5, <2>1
<1>7. order[n] \in S /\ \A x \in S : x <= order[n]
  <2>1. ASSUME NEW x \in S
        PROVE  x <= order[n]
    <3>1. PICK k \in 1 .. n : order[k] = x
      BY <1>4
    <3>2. k = n \/ order[k] < order[n]
      BY <1>4, <1>5
    <3>3. order[n] \in Int /\ order[k] \in Int
      BY <1>4, <1>5
    <3>4. QED
      BY <3>1, <3>2, <3>3
  <2>2. QED
    BY <1>4, <1>5, <2>1
<1>8. Min(S) \in S /\ \A x \in S : Min(S) <= x
  BY <1>6 DEF Min
<1>9. \A x \in S : x <= Max(S)
  <2>1. \A x \in S : order[n] >= x
    BY <1>7
  <2>2. Max(S) \in S /\ \A x \in S : Max(S) >= x
    BY <1>7, <2>1 DEF Max
  <2>3. QED
    BY <2>2
<1>10. Max(S) \in S
  <2>1. \A x \in S : order[n] >= x
    BY <1>7
  <2>2. QED
    BY <1>7, <2>1 DEF Max
<1>11. QED
  BY <1>8, <1>9, <1>10

LEMMA MinOfTwo ==
    ASSUME NEW a \in Int, NEW b \in Int
    PROVE  Min({a, b}) = IF a <= b THEN a ELSE b
<1>1. {a, b} \in SUBSET Int /\ {a, b} # {} /\ IsFiniteSet({a, b})
  <2>1. IsFiniteSet({a} \cup {b})
    BY FS_Singleton, FS_AddElement
  <2>2. {a, b} = {a} \cup {b}
    OBVIOUS
  <2>3. QED
    BY <2>1, <2>2
<1>2. Min({a, b}) \in {a, b} /\ \A x \in {a, b} : Min({a, b}) <= x
  BY <1>1, FiniteExtremes
<1>3. QED
  BY <1>2

LEMMA ListOf ==
    ASSUME NEW S, NEW n \in Nat, NEW s \in [1 .. n -> S]
    PROVE  s \in Seq(S) /\ Len(s) = n /\ DOMAIN s = 1 .. n
<1>1. s \in Seq(S)
  BY SeqDef
<1>2. DOMAIN s = 1 .. n
  OBVIOUS
<1>3. QED
  BY <1>1, <1>2, LenProperties

=============================================================================

------------------------- MODULE MetricStreamsProofs -------------------------
(***************************************************************************)
(* Proofs about the stream readers.                                        *)
(***************************************************************************)
EXTENDS MetricStreams, FoldTheorems, FunctionTheorems

-----------------------------------------------------------------------------
(* The copies of an entry that the workers hold in their lists.             *)

Lists == [Workers -> Seq(Entries)]

Copies(q, e) ==
    {c \in Workers \X Nat : c[2] \in DOMAIN q[c[1]] /\ q[c[1]][c[2]] = e}

CopyCount(q, e) == Cardinality(Copies(q, e))

\* Two lists of lists that differ at one worker only.
SameBut(q, r, w) == \A v \in Workers : v # w => r[v] = q[v]

LEMMA CopiesAre ==
    ASSUME NEW q \in Lists, NEW e
    PROVE  \A v, i : <<v, i>> \in Copies(q, e)
                        <=> v \in Workers /\ i \in 1 .. Len(q[v]) /\ q[v][i] = e
<1>1. \A v \in Workers : q[v] \in Seq(Entries)
  BY DEF Lists
<1>2. \A v \in Workers : DOMAIN q[v] = 1 .. Len(q[v]) /\ Len(q[v]) \in Nat
  BY <1>1, LenProperties
<1>3. \A v \in Workers : \A i \in DOMAIN q[v] : i \in Nat
  BY <1>2
<1>4. QED
  BY <1>2, <1>3 DEF Copies

LEMMA CopiesFinite ==
    ASSUME StreamsAssumption, NEW q \in Lists, NEW e
    PROVE  IsFiniteSet(Copies(q, e)) /\ CopyCount(q, e) \in Nat
<1> DEFINE Row(v) == {v} \X (1 .. Len(q[v]))
           rows   == [v \in Workers |-> Row(v)]
           S      == {Row(v) : v \in Workers}
<1>1. IsFiniteSet(Workers)
  BY DEF StreamsAssumption
<1>2. rows \in Surjection(Workers, S)
  <2>1. rows \in [Workers -> S]
    OBVIOUS
  <2>2. \A t \in S : \E v \in Workers : rows[v] = t
    OBVIOUS
  <2> HIDE DEF rows, S
  <2>3. QED
    BY <2>1, <2>2, Fun_IsSurj
<1>3. IsFiniteSet(S)
  <2> HIDE DEF rows, S
  <2>1. QED
    BY <1>1, <1>2, FS_Surjection
<1>4. \A v \in Workers : IsFiniteSet(Row(v))
  <2> TAKE v \in Workers
  <2> DEFINE D == 1 .. Len(q[v])
  <2>1. IsFiniteSet(D) /\ IsFiniteSet({v})
    <3>1. Len(q[v]) \in Nat
      BY LenProperties DEF Lists
    <3>2. IsFiniteSet(D)
      BY <3>1, FS_Interval
    <3>3. QED
      BY <3>2, FS_Singleton
  <2> HIDE DEF D
  <2>2. IsFiniteSet({v} \X D)
    BY <2>1, FS_Product
  <2>3. QED
    BY <2>2 DEF D
<1>5. IsFiniteSet(UNION S)
  <2>1. \A t \in S : IsFiniteSet(t)
    BY <1>4
  <2> HIDE DEF S
  <2>2. QED
    BY <1>3, <2>1, FS_UNION
<1>6. Copies(q, e) \subseteq UNION S
  <2>1. ASSUME NEW c \in Copies(q, e)
        PROVE  c \in Row(c[1]) /\ c[1] \in Workers
    <3>1. c = <<c[1], c[2]>> /\ c[1] \in Workers
      BY DEF Copies
    <3>2. c[2] \in 1 .. Len(q[c[1]])
      BY <3>1, CopiesAre
    <3>3. QED
      BY <3>1, <3>2
  <2>2. QED
    BY <2>1
<1>7. IsFiniteSet(Copies(q, e))
  <2> HIDE DEF S
  <2>1. QED
    BY <1>5, <1>6, FS_Subset
<1>8. QED
  BY <1>7, FS_CardinalityType DEF CopyCount

\* A worker takes the first entry off its list.
LEMMA CopiesOfTail ==
    ASSUME StreamsAssumption, NEW q \in Lists, NEW r \in Lists, NEW w \in Workers,
           q[w] # <<>>, r[w] = Tail(q[w]), SameBut(q, r, w), NEW e
    PROVE  CopyCount(r, e) + (IF Head(q[w]) = e THEN 1 ELSE 0) <= CopyCount(q, e)
<1> DEFINE first == <<w, 1>>
           rest  == Copies(q, e) \ {first}
           back  == [c \in Copies(r, e) |-> IF c[1] = w THEN <<w, c[2] + 1>> ELSE c]
<1>1. /\ q[w] \in Seq(Entries) /\ Len(q[w]) \in Nat \ {0}
      /\ Len(r[w]) = Len(q[w]) - 1 /\ \A i \in 1 .. Len(r[w]) : r[w][i] = q[w][i + 1]
      /\ Head(q[w]) = q[w][1]
  <2>1. q[w] \in Seq(Entries)
    BY DEF Lists
  <2>2. QED
    BY <2>1, HeadTailProperties, LenProperties, EmptySeq
<1>2. ASSUME NEW c \in Copies(r, e)
      PROVE  /\ c = <<c[1], c[2]>> /\ c[1] \in Workers /\ c[2] \in Nat \ {0}
             /\ back[c] \in rest
  <2>1. c = <<c[1], c[2]>> /\ c[1] \in Workers /\ c[2] \in Nat
    BY DEF Copies
  <2>2. c[2] \in 1 .. Len(r[c[1]]) /\ r[c[1]][c[2]] = e
    BY <2>1, CopiesAre
  <2>3. CASE c[1] = w
    <3>1. c[2] \in 1 .. Len(r[w]) /\ r[w][c[2]] = e
      BY <2>2, <2>3
    <3>2. c[2] + 1 \in 1 .. Len(q[w]) /\ q[w][c[2] + 1] = e /\ c[2] + 1 # 1
      BY <1>1, <2>1, <3>1
    <3>3. <<w, c[2] + 1>> \in Copies(q, e)
      BY <3>2, CopiesAre
    <3>4. QED
      BY <2>1, <2>2, <2>3, <3>2, <3>3
  <2>4. CASE c[1] # w
    <3>1. r[c[1]] = q[c[1]]
      BY <2>1, <2>4 DEF SameBut
    <3>2. <<c[1], c[2]>> \in Copies(q, e)
      BY <2>1, <2>2, <3>1, CopiesAre
    <3>3. QED
      BY <2>1, <2>2, <2>4, <3>2
  <2>5. QED
    BY <2>3, <2>4
<1>3. back \in Injection(Copies(r, e), rest)
  <2>1. back \in [Copies(r, e) -> rest]
    BY <1>2
  <2>2. ASSUME NEW a \in Copies(r, e), NEW b \in Copies(r, e), back[a] = back[b]
        PROVE  a = b
    <3>1. /\ a = <<a[1], a[2]>> /\ a[2] \in Nat /\ b = <<b[1], b[2]>> /\ b[2] \in Nat
      BY <1>2
    <3>2. /\ back[a] = IF a[1] = w THEN <<w, a[2] + 1>> ELSE a
          /\ back[b] = IF b[1] = w THEN <<w, b[2] + 1>> ELSE b
      OBVIOUS
    <3> HIDE DEF back
    <3>3. back[a][1] = a[1] /\ back[b][1] = b[1]
      BY <3>1, <3>2
    <3>4. CASE a[1] = w
      <4>1. b[1] = w
        BY <2>2, <3>3, <3>4
      <4>2. <<w, a[2] + 1>> = <<w, b[2] + 1>>
        BY <2>2, <3>2, <3>4, <4>1, Zenon
      <4>3. a[2] + 1 = b[2] + 1
        BY <4>2
      <4>4. a[2] = b[2]
        BY <3>1, <4>3
      <4>5. QED
        BY <3>1, <3>4, <4>1, <4>4
    <3>5. CASE a[1] # w
      BY <2>2, <3>2, <3>3, <3>5
    <3>6. QED
      BY <3>4, <3>5
  <2> HIDE DEF back, rest
  <2>3. QED
    BY <2>1, <2>2, Fun_IsInj
<1>4. /\ IsFiniteSet(Copies(q, e)) /\ IsFiniteSet(rest)
      /\ Cardinality(rest) = IF first \in Copies(q, e) THEN CopyCount(q, e) - 1
                             ELSE CopyCount(q, e)
  <2>1. IsFiniteSet(Copies(q, e))
    BY CopiesFinite
  <2>2. QED
    BY <2>1, FS_RemoveElement DEF CopyCount
<1>5. first \in Copies(q, e) <=> Head(q[w]) = e
  BY <1>1, CopiesAre
<1>6. CopyCount(r, e) <= Cardinality(rest)
  <2> HIDE DEF back, rest
  <2>1. QED
    BY <1>3, <1>4, FS_Injection DEF CopyCount
<1>7. CopyCount(q, e) \in Nat /\ CopyCount(r, e) \in Nat
  BY CopiesFinite
<1>8. QED
  <2> HIDE DEF rest, first
  <2>1. QED
    BY <1>4, <1>5, <1>6, <1>7

\* One entry more, in one place.
LEMMA CopiesOfOneMore ==
    ASSUME StreamsAssumption, NEW q \in Lists, NEW r \in Lists, NEW e, NEW new,
           Copies(r, e) \subseteq Copies(q, e) \cup {new}
    PROVE  CopyCount(r, e) <= CopyCount(q, e) + 1
<1>1. IsFiniteSet(Copies(q, e)) /\ CopyCount(q, e) \in Nat /\ CopyCount(r, e) \in Nat
  BY CopiesFinite
<1>2. /\ IsFiniteSet(Copies(q, e) \cup {new})
      /\ Cardinality(Copies(q, e) \cup {new})
            = IF new \in Copies(q, e) THEN CopyCount(q, e) ELSE CopyCount(q, e) + 1
  BY <1>1, FS_AddElement DEF CopyCount
<1>3. CopyCount(r, e) <= Cardinality(Copies(q, e) \cup {new})
  BY <1>2, FS_Subset DEF CopyCount
<1>4. QED
  BY <1>1, <1>2, <1>3

LEMMA CopiesOfNoMore ==
    ASSUME StreamsAssumption, NEW q \in Lists, NEW r \in Lists, NEW e,
           Copies(r, e) \subseteq Copies(q, e)
    PROVE  CopyCount(r, e) <= CopyCount(q, e)
<1>1. IsFiniteSet(Copies(q, e))
  BY CopiesFinite
<1>2. QED
  BY <1>1, FS_Subset DEF CopyCount

\* A worker appends an entry to its list.
LEMMA CopiesOfAppend ==
    ASSUME StreamsAssumption, NEW q \in Lists, NEW r \in Lists, NEW w \in Workers,
           NEW x \in Entries, r[w] = Append(q[w], x), SameBut(q, r, w), NEW e
    PROVE  CopyCount(r, e) <= CopyCount(q, e) + (IF x = e THEN 1 ELSE 0)
<1> DEFINE new == <<w, Len(q[w]) + 1>>
<1>1. /\ q[w] \in Seq(Entries) /\ Len(q[w]) \in Nat /\ Len(r[w]) = Len(q[w]) + 1
      /\ \A i \in 1 .. Len(q[w]) : r[w][i] = q[w][i]
      /\ r[w][Len(q[w]) + 1] = x
  <2>1. q[w] \in Seq(Entries)
    BY DEF Lists
  <2>2. QED
    BY <2>1, AppendProperties, LenProperties
<1>2. ASSUME NEW c \in Copies(r, e)
      PROVE  c \in Copies(q, e) \/ (c = new /\ x = e)
  <2>1. c = <<c[1], c[2]>> /\ c[1] \in Workers /\ c[2] \in Nat
    BY DEF Copies
  <2>2. c[2] \in 1 .. Len(r[c[1]]) /\ r[c[1]][c[2]] = e
    BY <2>1, CopiesAre
  <2>3. CASE c[1] # w
    <3>1. r[c[1]] = q[c[1]]
      BY <2>1, <2>3 DEF SameBut
    <3>2. <<c[1], c[2]>> \in Copies(q, e)
      BY <2>1, <2>2, <3>1, CopiesAre
    <3>3. QED
      BY <2>1, <3>2
  <2>4. CASE c[1] = w /\ c[2] <= Len(q[w])
    <3>1. c[2] \in 1 .. Len(q[w]) /\ q[w][c[2]] = e
      BY <1>1, <2>1, <2>2, <2>4
    <3>2. <<w, c[2]>> \in Copies(q, e)
      BY <3>1, CopiesAre
    <3>3. QED
      BY <2>1, <2>4, <3>2
  <2>5. CASE c[1] = w /\ ~(c[2] <= Len(q[w]))
    <3>1. c[2] = Len(q[w]) + 1
      BY <1>1, <2>1, <2>2, <2>5
    <3>2. QED
      BY <1>1, <2>1, <2>2, <2>5, <3>1
  <2>6. QED
    BY <2>3, <2>4, <2>5
<1>3. CopyCount(q, e) \in Nat
  BY CopiesFinite
<1>4. CASE x = e
  <2>1. Copies(r, e) \subseteq Copies(q, e) \cup {new}
    BY <1>2
  <2> HIDE DEF new
  <2>2. CopyCount(r, e) <= CopyCount(q, e) + 1
    BY <2>1, CopiesOfOneMore
  <2>3. QED
    BY <1>4, <2>2
<1>5. CASE x # e
  <2>1. Copies(r, e) \subseteq Copies(q, e)
    BY <1>2, <1>5
  <2>2. CopyCount(r, e) <= CopyCount(q, e)
    BY <2>1, CopiesOfNoMore
  <2>3. QED
    BY <1>3, <1>5, <2>2
<1>6. QED
  BY <1>4, <1>5

\* A worker drops its list.
LEMMA CopiesOfDropped ==
    ASSUME StreamsAssumption, NEW q \in Lists, NEW r \in Lists, NEW w \in Workers,
           r[w] = <<>>, SameBut(q, r, w), NEW e
    PROVE  CopyCount(r, e) <= CopyCount(q, e)
<1>1. ASSUME NEW c \in Copies(r, e)
      PROVE  c \in Copies(q, e)
  <2>1. c = <<c[1], c[2]>> /\ c[1] \in Workers /\ c[2] \in Nat
    BY DEF Copies
  <2>2. c[2] \in 1 .. Len(r[c[1]]) /\ r[c[1]][c[2]] = e
    BY <2>1, CopiesAre
  <2>3. c[1] # w
    BY <2>2, EmptySeq
  <2>4. r[c[1]] = q[c[1]]
    BY <2>1, <2>3 DEF SameBut
  <2>5. <<c[1], c[2]>> \in Copies(q, e)
    BY <2>1, <2>2, <2>4, CopiesAre
  <2>6. QED
    BY <2>1, <2>5
<1>2. QED
  BY <1>1, CopiesOfNoMore

\* A worker with an empty list gets a run of new entries.
LEMMA CopiesOfRun ==
    ASSUME StreamsAssumption, NEW q \in Lists, NEW r \in Lists, NEW w \in Workers,
           NEW a \in Nat, NEW b \in Nat, a <= b,
           r[w] = [i \in 1 .. b - a |-> a + i], SameBut(q, r, w), NEW e \in Nat
    PROVE  CopyCount(r, e) <= CopyCount(q, e) + (IF e \in a + 1 .. b THEN 1 ELSE 0)
<1> DEFINE new == <<w, e - a>>
<1>1. /\ Len(r[w]) = b - a /\ \A i \in 1 .. b - a : r[w][i] = a + i
  <2>1. \A v \in Workers : r[v] \in Seq(Entries)
    BY DEF Lists
  <2>2. r[w] \in Seq(Entries) /\ b - a \in Nat
    <3>1. r[w] \in Seq(Entries)
      BY <2>1, Zenon
    <3>2. b - a \in Nat
      OBVIOUS
    <3>3. QED
      BY <3>1, <3>2
  <2>3. DOMAIN r[w] = 1 .. b - a
    OBVIOUS
  <2>4. Len(r[w]) \in Nat /\ DOMAIN r[w] = 1 .. Len(r[w])
    BY <2>2, LenProperties
  <2>5. Len(r[w]) = b - a
    BY <2>3, <2>4, <2>2
  <2>6. QED
    BY <2>5
<1>2. ASSUME NEW c \in Copies(r, e)
      PROVE  c \in Copies(q, e) \/ (c = new /\ e \in a + 1 .. b)
  <2>1. c = <<c[1], c[2]>> /\ c[1] \in Workers /\ c[2] \in Nat
    BY DEF Copies
  <2>2. c[2] \in 1 .. Len(r[c[1]]) /\ r[c[1]][c[2]] = e
    BY <2>1, CopiesAre
  <2>3. CASE c[1] # w
    <3>1. r[c[1]] = q[c[1]]
      BY <2>1, <2>3 DEF SameBut
    <3>2. <<c[1], c[2]>> \in Copies(q, e)
      BY <2>1, <2>2, <3>1, CopiesAre
    <3>3. QED
      BY <2>1, <3>2
  <2>4. CASE c[1] = w
    <3>1. c[2] \in 1 .. b - a /\ e = a + c[2]
      BY <1>1, <2>2, <2>4
    <3>2. c[2] = e - a /\ e \in a + 1 .. b
      BY <2>1, <3>1
    <3>3. QED
      BY <2>1, <2>4, <3>2
  <2>5. QED
    BY <2>3, <2>4
<1>3. CopyCount(q, e) \in Nat
  BY CopiesFinite
<1>4. CASE e \in a + 1 .. b
  <2>1. Copies(r, e) \subseteq Copies(q, e) \cup {new}
    BY <1>2
  <2> HIDE DEF new
  <2>2. CopyCount(r, e) <= CopyCount(q, e) + 1
    BY <2>1, CopiesOfOneMore
  <2>3. QED
    BY <1>4, <2>2
<1>5. CASE e \notin a + 1 .. b
  <2>1. Copies(r, e) \subseteq Copies(q, e)
    BY <1>2, <1>5
  <2>2. CopyCount(r, e) <= CopyCount(q, e)
    BY <2>1, CopiesOfNoMore
  <2>3. QED
    BY <1>3, <1>5, <2>2
<1>6. QED
  BY <1>4, <1>5

-----------------------------------------------------------------------------
(* What is in a list.                                                       *)

LEMMA InList ==
    ASSUME NEW s \in Seq(Entries)
    PROVE  /\ \A x : x \in ToSet(s) <=> \E i \in 1 .. Len(s) : s[i] = x
           /\ ToSet(s) \subseteq Entries
<1>1. DOMAIN s = 1 .. Len(s) /\ \A i \in 1 .. Len(s) : s[i] \in Entries
  BY LenProperties, ElementOfSeq
<1>2. QED
  BY <1>1 DEF ToSet

LEMMA InTail ==
    ASSUME NEW s \in Seq(Entries), s # <<>>
    PROVE  /\ Tail(s) \in Seq(Entries) /\ Head(s) \in ToSet(s) /\ Head(s) \in Entries
           /\ \A x \in ToSet(s) : x = Head(s) \/ x \in ToSet(Tail(s))
           /\ ToSet(Tail(s)) \subseteq ToSet(s)
<1>1. /\ Len(s) \in Nat \ {0} /\ Tail(s) \in Seq(Entries)
      /\ Len(Tail(s)) = Len(s) - 1
      /\ \A i \in 1 .. Len(Tail(s)) : Tail(s)[i] = s[i + 1]
      /\ Head(s) = s[1]
  BY HeadTailProperties, LenProperties, EmptySeq
<1>2. \A i \in 1 .. Len(s) : i = 1 \/ (i - 1 \in 1 .. Len(Tail(s)) /\ Tail(s)[i - 1] = s[i])
  <2>1. \A i \in 1 .. Len(s) : i # 1 => i - 1 \in 1 .. Len(Tail(s)) /\ i - 1 + 1 = i
    BY <1>1
  <2>2. QED
    BY <1>1, <2>1
<1>3. \A i \in 1 .. Len(Tail(s)) : i + 1 \in 1 .. Len(s)
  BY <1>1
<1>4. \A x : /\ x \in ToSet(s) <=> \E i \in 1 .. Len(s) : s[i] = x
             /\ x \in ToSet(Tail(s)) <=> \E i \in 1 .. Len(Tail(s)) : Tail(s)[i] = x
  <2> DEFINE t == Tail(s)
  <2>1. t \in Seq(Entries)
    BY <1>1
  <2> HIDE DEF t
  <2>2. \A x : x \in ToSet(t) <=> \E i \in 1 .. Len(t) : t[i] = x
    BY <2>1, InList
  <2>3. QED
    BY <2>2, InList DEF t
<1>5. \A x \in ToSet(s) : x = Head(s) \/ x \in ToSet(Tail(s))
  BY <1>1, <1>2, <1>4
<1>6. ToSet(Tail(s)) \subseteq ToSet(s)
  BY <1>1, <1>3, <1>4
<1>7. Head(s) \in ToSet(s)
  <2>1. 1 \in 1 .. Len(s)
    BY <1>1
  <2>2. QED
    BY <1>1, <2>1, InList
<1>8. QED
  BY <1>1, <1>5, <1>6, <1>7, InList

LEMMA InAppended ==
    ASSUME NEW s \in Seq(Entries), NEW x \in Entries
    PROVE  /\ Append(s, x) \in Seq(Entries)
           /\ x \in ToSet(Append(s, x)) /\ ToSet(s) \subseteq ToSet(Append(s, x))
<1>1. /\ Append(s, x) \in Seq(Entries) /\ Len(Append(s, x)) = Len(s) + 1
      /\ \A i \in 1 .. Len(s) : Append(s, x)[i] = s[i]
      /\ Append(s, x)[Len(s) + 1] = x /\ Len(s) \in Nat
  BY AppendProperties, LenProperties
<1>2. Len(s) + 1 \in 1 .. Len(Append(s, x))
      /\ \A i \in 1 .. Len(s) : i \in 1 .. Len(Append(s, x))
  BY <1>1
<1> DEFINE t == Append(s, x)
<1> HIDE DEF t
<1>3. \A y : /\ y \in ToSet(s) <=> \E i \in 1 .. Len(s) : s[i] = y
             /\ y \in ToSet(t) <=> \E i \in 1 .. Len(t) : t[i] = y
  <2>1. t \in Seq(Entries)
    BY <1>1 DEF t
  <2>2. \A y : y \in ToSet(t) <=> \E i \in 1 .. Len(t) : t[i] = y
    BY <2>1, InList
  <2>3. QED
    BY <2>2, InList
<1>4. x \in ToSet(t) /\ ToSet(s) \subseteq ToSet(t)
  BY <1>1, <1>2, <1>3 DEF t
<1>5. QED
  BY <1>1, <1>4 DEF t

LEMMA InNothing == ToSet(<<>>) = {}
<1>1. <<>> \in Seq(Entries) /\ 1 .. Len(<<>>) = {}
  BY EmptySeq
<1>2. QED
  BY <1>1, InList

-----------------------------------------------------------------------------
(* The inductive invariant.                                                 *)

Places == {"down", "await", "poll", "ack", "process"}

TypesOK ==
    /\ backend \in {"kafka", "redis"} /\ kind \in [Entries -> Kinds]
    /\ pc \in [Workers -> Places]
    /\ running \in [Workers -> BOOLEAN] /\ open \in [Workers -> BOOLEAN]
    /\ response \in Lists /\ points \in Lists
    /\ cursor \in 0 .. MaxEntries /\ committed \in 0 .. cursor
    /\ owner \in Workers \cup {Nobody} /\ pending \subseteq 1 .. cursor
    /\ created \in BOOLEAN
    /\ handled \in [Entries -> Nat] /\ gone \subseteq Entries
    /\ rewinds \in Nat /\ starts \in Nat

\* Between its polls a worker holds nothing; only a Redis reader has a response
\* it has not looked at.
HandsOK ==
    \A w \in Workers :
       /\ pc[w] \in {"down", "await"} => points[w] = <<>>
       /\ pc[w] # "ack" => response[w] = <<>>
       /\ pc[w] = "ack" => backend = "redis"

\* Redis has no owner and no offset, Kafka nothing pending.
GroupOK ==
    /\ backend = "redis" => owner = Nobody /\ committed = 0
    /\ backend = "kafka" => pending = {}

TypeInv == TypesOK /\ HandsOK /\ GroupOK

\* How often an entry was given out, and how often it can have been: an entry
\* beyond the position of the group was given out in earlier tenures only.
GivenOut(e) == handled[e] + (CopyCount(points, e) + CopyCount(response, e))

Tenures(e) ==
    IF backend = "redis" THEN (IF e > cursor THEN 0 ELSE 1)
    ELSE IF owner # Nobody /\ e > cursor THEN rewinds - 1 ELSE rewinds

PaidFor == \A e \in Entries : GivenOut(e) <= Tenures(e)

Accounted(e) == handled[e] > 0 \/ e \in gone \/ \E w \in Workers : e \in InHand(w)

AllAccounted ==
    \A e \in (1 .. cursor) \ pending : kind[e] = "valid" => Accounted(e)

IInv == TypeInv /\ PaidFor /\ AllAccounted

-----------------------------------------------------------------------------
(* Assignments.                                                             *)

LEMMA ListReplaced ==
    ASSUME NEW q \in Lists, NEW w \in Workers, NEW s \in Seq(Entries), NEW r,
           r = [q EXCEPT ![w] = s]
    PROVE  r \in Lists /\ r[w] = s /\ SameBut(q, r, w)
BY DEF Lists, SameBut

LEMMA GotoIs ==
    ASSUME TypesOK, NEW w \in Workers, NEW where \in Places, Goto(w, where)
    PROVE  /\ pc' \in [Workers -> Places] /\ pc'[w] = where
           /\ \A v \in Workers : v # w => pc'[v] = pc[v]
<1>1. pc \in [Workers -> Places] /\ pc' = [pc EXCEPT ![w] = where]
  BY DEF TypesOK, Goto
<1>2. QED
  BY <1>1

LEMMA FlagSet ==
    ASSUME NEW f \in [Workers -> BOOLEAN], NEW w \in Workers, NEW b \in BOOLEAN
    PROVE  [f EXCEPT ![w] = b] \in [Workers -> BOOLEAN]
OBVIOUS

LEMMA GivenOutIsNat ==
    ASSUME StreamsAssumption, TypesOK, NEW e \in Entries
    PROVE  /\ handled[e] \in Nat /\ CopyCount(points, e) \in Nat
           /\ CopyCount(response, e) \in Nat /\ e \in Nat \ {0}
           /\ Tenures(e) \in Int /\ cursor \in Nat /\ rewinds \in Nat
<1>1. /\ points \in Lists /\ response \in Lists /\ handled \in [Entries -> Nat]
      /\ cursor \in 0 .. MaxEntries /\ rewinds \in Nat /\ MaxEntries \in Nat
  BY DEF TypesOK, StreamsAssumption
<1>2. CopyCount(points, e) \in Nat /\ CopyCount(response, e) \in Nat
  BY <1>1, CopiesFinite
<1>3. QED
  BY <1>1, <1>2 DEF Tenures, Entries

-----------------------------------------------------------------------------
(* Steps that give out, drop and process nothing.                           *)

\* A step may leave the partition without an owner.
LEMMA QuietKeeps ==
    ASSUME StreamsAssumption, IInv, TypeInv',
           UNCHANGED <<backend, kind, response, points, cursor, pending, handled,
                       gone, rewinds>>,
           owner' \in {owner, Nobody}
    PROVE  IInv'
<1>1. TypesOK /\ PaidFor /\ AllAccounted
  BY DEF IInv, TypeInv
<1>2. ASSUME NEW e \in Entries
      PROVE  GivenOut(e)' <= Tenures(e)'
  <2>1. GivenOut(e)' = GivenOut(e)
    BY DEF GivenOut
  <2>2. GivenOut(e) <= Tenures(e) /\ GivenOut(e) \in Int
    BY <1>1, GivenOutIsNat DEF PaidFor, GivenOut
  <2>3. Tenures(e) <= Tenures(e)' /\ Tenures(e) \in Int /\ Tenures(e)' \in Int
    BY <1>1, GivenOutIsNat DEF Tenures
  <2> HIDE DEF GivenOut, Tenures
  <2>4. QED
    BY <2>1, <2>2, <2>3
<1>3. AllAccounted'
  BY <1>1 DEF AllAccounted, Accounted, InHand
<1>4. QED
  BY <1>2, <1>3 DEF IInv, PaidFor

LEMMA StartKeeps ==
    ASSUME StreamsAssumption, IInv, NEW w \in Workers, Start(w)
    PROVE  IInv'
<1>1. TypesOK /\ HandsOK /\ GroupOK
  BY DEF IInv, TypeInv
<1>2. /\ pc[w] = "down" /\ starts' = starts + 1 /\ Goto(w, "await")
      /\ running' = [running EXCEPT ![w] = TRUE] /\ open' = [open EXCEPT ![w] = TRUE]
      /\ created' = (created \/ backend = "redis")
      /\ UNCHANGED <<backend, kind, response, points, cursor, owner, committed,
                     pending, rewinds, handled, gone>>
  BY DEF Start, historyVars
<1>3. /\ pc' \in [Workers -> Places] /\ pc'[w] = "await"
      /\ \A v \in Workers : v # w => pc'[v] = pc[v]
  BY <1>1, <1>2, GotoIs DEF Places
<1>4. running' \in [Workers -> BOOLEAN] /\ open' \in [Workers -> BOOLEAN]
  BY <1>1, <1>2, FlagSet DEF TypesOK
<1>5. TypesOK'
  BY <1>1, <1>2, <1>3, <1>4 DEF TypesOK
<1>6. HandsOK' /\ GroupOK'
  BY <1>1, <1>2, <1>3 DEF HandsOK, GroupOK
<1>7. QED
  BY <1>2, <1>5, <1>6, QuietKeeps DEF TypeInv

LEMMA StopKeeps ==
    ASSUME StreamsAssumption, IInv, NEW w \in Workers, Stop(w)
    PROVE  IInv'
<1>1. TypesOK /\ HandsOK /\ GroupOK
  BY DEF IInv, TypeInv
<1>2. /\ running' = [running EXCEPT ![w] = FALSE] /\ open' = [open EXCEPT ![w] = FALSE]
      /\ Leave(w)
      /\ UNCHANGED <<backend, kind, pc, response, points, cursor, pending, created,
                     rewinds, handled, gone, starts>>
  BY DEF Stop, historyVars
<1>3. running' \in [Workers -> BOOLEAN] /\ open' \in [Workers -> BOOLEAN]
  BY <1>1, <1>2, FlagSet DEF TypesOK
<1>4. /\ owner' \in {owner, Nobody} /\ committed' \in {committed, cursor}
      /\ backend = "redis" => UNCHANGED <<owner, committed>>
  BY <1>1, <1>2 DEF Leave, TypesOK
<1>5. committed' \in 0 .. cursor'
  BY <1>1, <1>2, <1>4 DEF TypesOK
<1>6. TypesOK'
  BY <1>1, <1>2, <1>3, <1>4, <1>5 DEF TypesOK
<1>7. HandsOK' /\ GroupOK'
  BY <1>1, <1>2, <1>4 DEF HandsOK, GroupOK
<1>8. QED
  BY <1>2, <1>4, <1>6, <1>7, QuietKeeps DEF TypeInv

\* The loop goes from one of its parts to the next.
LEMMA MoveKeeps ==
    ASSUME StreamsAssumption, IInv, NEW w \in Workers,
           NEW where \in Places, Goto(w, where),
           UNCHANGED <<backend, kind, running, open, response, points, groupVars,
                       historyVars, starts>>,
           where \in {"down", "await"} => points[w] = <<>>,
           response[w] = <<>>, where # "ack"
    PROVE  IInv'
<1>1. TypesOK /\ HandsOK /\ GroupOK
  BY DEF IInv, TypeInv
<1>2. /\ pc' \in [Workers -> Places] /\ pc'[w] = where
      /\ \A v \in Workers : v # w => pc'[v] = pc[v]
  BY <1>1, GotoIs
<1>3. TypesOK' /\ HandsOK' /\ GroupOK'
  BY <1>1, <1>2 DEF TypesOK, HandsOK, GroupOK, groupVars, historyVars
<1>4. QED
  BY <1>3, QuietKeeps DEF TypeInv, groupVars, historyVars

LEMMA AutoCommitKeeps ==
    ASSUME StreamsAssumption, IInv, AutoCommit
    PROVE  IInv'
<1>1. TypesOK /\ HandsOK /\ GroupOK
  BY DEF IInv, TypeInv
<1>2. /\ owner # Nobody /\ committed' = cursor
      /\ UNCHANGED <<backend, kind, pc, running, open, response, points, cursor, owner,
                     pending, created, rewinds, handled, gone, starts>>
  BY DEF AutoCommit, workerVars, historyVars
<1>3. cursor \in 0 .. cursor
  BY <1>1 DEF TypesOK
<1>4. TypesOK' /\ HandsOK' /\ GroupOK'
  BY <1>1, <1>2, <1>3 DEF TypesOK, HandsOK, GroupOK
<1>5. QED
  BY <1>2, <1>4, QuietKeeps DEF TypeInv

\* The partition changes hands: a new tenure, in which nothing is given out yet.
LEMMA RebalanceKeeps ==
    ASSUME StreamsAssumption, IInv, NEW w \in Workers, Rebalance(w)
    PROVE  IInv'
<1>1. TypesOK /\ HandsOK /\ GroupOK /\ PaidFor /\ AllAccounted
  BY DEF IInv, TypeInv
<1>2. /\ backend = "kafka" /\ owner' = w
      /\ committed' \in {committed, cursor} /\ cursor' = committed'
      /\ rewinds' = rewinds + 1
      /\ UNCHANGED <<backend, kind, pc, running, open, response, points, pending,
                     created, handled, gone, starts>>
  BY DEF Rebalance, workerVars, historyVars
<1>3. cursor' \in 0 .. cursor /\ cursor \in 0 .. MaxEntries /\ MaxEntries \in Nat
  BY <1>1, <1>2 DEF TypesOK, StreamsAssumption
<1>4. /\ cursor' \in 0 .. MaxEntries /\ committed' \in 0 .. cursor'
      /\ rewinds' \in Nat /\ pending = {}
  BY <1>1, <1>2, <1>3 DEF TypesOK, GroupOK
<1>5. TypesOK' /\ HandsOK' /\ GroupOK'
  BY <1>1, <1>2, <1>4 DEF TypesOK, HandsOK, GroupOK
<1>6. ASSUME NEW e \in Entries
      PROVE  GivenOut(e)' <= Tenures(e)'
  <2>1. GivenOut(e)' = GivenOut(e)
    BY <1>2 DEF GivenOut
  <2>2. GivenOut(e) <= Tenures(e) /\ GivenOut(e) \in Int /\ rewinds \in Nat
    BY <1>1, GivenOutIsNat DEF PaidFor, GivenOut
  <2>3. Tenures(e) <= rewinds /\ rewinds <= Tenures(e)' /\ Tenures(e)' \in Int
        /\ Tenures(e) \in Int
    BY <1>1, <1>2, <2>2 DEF Tenures
  <2> HIDE DEF GivenOut, Tenures
  <2>4. QED
    BY <2>1, <2>2, <2>3
<1>7. AllAccounted'
  <2>1. \A e \in 1 .. cursor' : e \in (1 .. cursor) \ pending
    BY <1>3, <1>4
  <2>2. QED
    BY <1>1, <1>2, <2>1 DEF AllAccounted, Accounted, InHand
<1>8. QED
  BY <1>5, <1>6, <1>7 DEF IInv, TypeInv, PaidFor

-----------------------------------------------------------------------------
(* Steps that drop what a worker holds.                                     *)

LEMMA DropsKeep ==
    ASSUME StreamsAssumption, IInv, TypeInv', NEW w \in Workers,
           points' = [points EXCEPT ![w] = <<>>],
           response' = [response EXCEPT ![w] = <<>>],
           UNCHANGED <<backend, kind, handled, rewinds>>,
           gone \cup InHand(w) \subseteq gone',
           owner' \in {owner, Nobody}, cursor <= cursor',
           \A e \in (1 .. cursor') \ pending' :
              e \in (1 .. cursor) \ pending \/ e \in gone' \/ kind[e] # "valid"
    PROVE  IInv'
<1>1. TypesOK /\ PaidFor /\ AllAccounted /\ TypesOK'
  BY DEF IInv, TypeInv
<1>2. /\ points \in Lists /\ points' \in Lists /\ points'[w] = <<>>
      /\ SameBut(points, points', w)
      /\ response \in Lists /\ response' \in Lists /\ response'[w] = <<>>
      /\ SameBut(response, response', w)
  <2>1. points \in Lists /\ response \in Lists /\ <<>> \in Seq(Entries)
    BY <1>1, EmptySeq DEF TypesOK
  <2>2. points' \in Lists /\ points'[w] = <<>> /\ SameBut(points, points', w)
    BY <2>1 DEF Lists, SameBut
  <2>3. response' \in Lists /\ response'[w] = <<>> /\ SameBut(response, response', w)
    BY <2>1 DEF Lists, SameBut
  <2>4. QED
    BY <2>1, <2>2, <2>3
<1>3. ASSUME NEW e \in Entries
      PROVE  GivenOut(e)' <= Tenures(e)'
  <2>1. /\ CopyCount(points', e) <= CopyCount(points, e)
        /\ CopyCount(response', e) <= CopyCount(response, e)
    BY <1>2, CopiesOfDropped
  <2>2. /\ CopyCount(points, e) \in Nat /\ CopyCount(points', e) \in Nat
        /\ CopyCount(response, e) \in Nat /\ CopyCount(response', e) \in Nat
        /\ handled[e] \in Nat
    <3>1. handled[e] \in Nat
      BY <1>1, GivenOutIsNat
    <3>2. QED
      BY <1>2, <3>1, CopiesFinite
  <2>3. handled[e] + (CopyCount(points, e) + CopyCount(response, e)) <= Tenures(e)
    BY <1>1 DEF PaidFor, GivenOut
  <2>4. cursor \in Nat /\ cursor' \in Nat /\ e \in Nat /\ rewinds \in Nat
    BY <1>1, GivenOutIsNat DEF TypesOK, StreamsAssumption
  <2>5. Tenures(e) <= Tenures(e)' /\ Tenures(e) \in Int /\ Tenures(e)' \in Int
    BY <1>1, <2>4 DEF Tenures
  <2> HIDE DEF Tenures
  <2>6. handled[e] + (CopyCount(points', e) + CopyCount(response', e)) <= Tenures(e)'
    BY <2>1, <2>2, <2>3, <2>5
  <2>7. QED
    BY <2>6 DEF GivenOut
<1>4. ASSUME NEW e \in (1 .. cursor') \ pending', kind[e] = "valid"
      PROVE  Accounted(e)'
  <2>1. CASE e \in gone'
    BY <2>1 DEF Accounted
  <2>2. CASE e \notin gone'
    <3>1. Accounted(e)
      BY <1>1, <1>4, <2>2 DEF AllAccounted
    <3>2. CASE handled[e] > 0
      BY <3>2 DEF Accounted
    <3>3. CASE \E v \in Workers : e \in InHand(v)
      <4>1. PICK v \in Workers : e \in InHand(v)
        BY <3>3
      <4>2. v # w
        BY <2>2, <4>1
      <4>3. e \in InHand(v)'
        BY <1>2, <4>1, <4>2 DEF SameBut, InHand
      <4>4. QED
        BY <4>3 DEF Accounted
    <3>4. QED
      BY <2>2, <3>1, <3>2, <3>3 DEF Accounted
  <2>3. QED
    BY <2>1, <2>2
<1>5. QED
  BY <1>3, <1>4 DEF IInv, PaidFor, AllAccounted

\* The types after a poll that raised, or a crash.
LEMMA DropTypes ==
    ASSUME TypesOK, NEW w \in Workers
    PROVE  /\ [points EXCEPT ![w] = <<>>] \in Lists
           /\ [response EXCEPT ![w] = <<>>] \in Lists
           /\ [points EXCEPT ![w] = <<>>][w] = <<>>
           /\ [response EXCEPT ![w] = <<>>][w] = <<>>
           /\ \A v \in Workers : v # w =>
                 /\ [points EXCEPT ![w] = <<>>][v] = points[v]
                 /\ [response EXCEPT ![w] = <<>>][v] = response[v]
           /\ ToSet(points[w]) \subseteq Entries /\ ToSet(response[w]) \subseteq Entries
<1>1. points \in Lists /\ response \in Lists /\ <<>> \in Seq(Entries)
  BY EmptySeq DEF TypesOK
<1>2. points[w] \in Seq(Entries) /\ response[w] \in Seq(Entries)
  BY <1>1 DEF Lists
<1>3. ToSet(points[w]) \subseteq Entries /\ ToSet(response[w]) \subseteq Entries
  BY <1>2, InList
<1>4. QED
  BY <1>1, <1>3 DEF Lists

LEMMA PollRaisesIs ==
    ASSUME StreamsAssumption, IInv, NEW w \in Workers, NEW entry \in SUBSET Entries,
           PollRaises(w, entry), pc[w] \in {"poll", "ack"},
           cursor' \in 0 .. MaxEntries, cursor <= cursor', pending' \subseteq pending,
           UNCHANGED <<owner, committed, created, rewinds>>,
           pc[w] = "ack" => entry = ToSet(response[w])
    PROVE  /\ TypeInv'
           /\ gone \cup InHand(w) \cup entry \subseteq gone'
           /\ points' = [points EXCEPT ![w] = <<>>]
           /\ response' = [response EXCEPT ![w] = <<>>]
           /\ UNCHANGED <<backend, kind, handled>>
<1>1. TypesOK /\ HandsOK /\ GroupOK
  BY DEF IInv, TypeInv
<1>2. /\ Goto(w, "await") /\ gone' = (gone \cup ToSet(points[w])) \cup entry
      /\ points' = [points EXCEPT ![w] = <<>>]
      /\ response' = [response EXCEPT ![w] = <<>>]
      /\ UNCHANGED <<backend, kind, running, open, handled, starts>>
  BY DEF PollRaises
<1>3. /\ points' \in Lists /\ response' \in Lists
      /\ points'[w] = <<>> /\ response'[w] = <<>>
      /\ \A v \in Workers : v # w => points'[v] = points[v] /\ response'[v] = response[v]
      /\ ToSet(points[w]) \subseteq Entries
  BY <1>1, <1>2, DropTypes
<1>4. /\ pc' \in [Workers -> Places] /\ pc'[w] = "await"
      /\ \A v \in Workers : v # w => pc'[v] = pc[v]
  BY <1>1, <1>2, GotoIs DEF Places
<1>5. pending' \subseteq 1 .. cursor' /\ committed' \in 0 .. cursor'
  BY <1>1 DEF TypesOK, StreamsAssumption
<1>6. TypesOK'
  BY <1>1, <1>2, <1>3, <1>4, <1>5 DEF TypesOK
<1>7. HandsOK' /\ GroupOK'
  BY <1>1, <1>2, <1>3, <1>4 DEF HandsOK, GroupOK
<1>8. ToSet(response[w]) \subseteq entry
  BY <1>1, InNothing DEF HandsOK
<1>9. QED
  BY <1>2, <1>6, <1>7, <1>8 DEF TypeInv, InHand

LEMMA RedisRaisesKeeps ==
    ASSUME StreamsAssumption, IInv, NEW w \in Workers, RedisRaises(w)
    PROVE  IInv'
<1>1. TypesOK /\ HandsOK /\ GroupOK
  BY DEF IInv, TypeInv
<1>2. cursor' = cursor /\ cursor \in 0 .. MaxEntries /\ MaxEntries \in Nat
      /\ UNCHANGED <<owner, committed, created, rewinds>>
  <2>1. UNCHANGED <<cursor, owner, committed, created>>
    BY DEF RedisRaises
  <2>2. rewinds' = rewinds
    BY DEF RedisRaises
  <2>3. QED
    BY <1>1, <2>1, <2>2 DEF TypesOK, StreamsAssumption
<1>3. CASE pc[w] = "poll" /\ UNCHANGED pending /\ PollRaises(w, {})
  <2>1. /\ TypeInv' /\ gone \cup InHand(w) \subseteq gone'
        /\ points' = [points EXCEPT ![w] = <<>>]
        /\ response' = [response EXCEPT ![w] = <<>>]
        /\ UNCHANGED <<backend, kind, handled>>
    BY <1>2, <1>3, PollRaisesIs
  <2>2. \A e \in (1 .. cursor') \ pending' : e \in (1 .. cursor) \ pending
    BY <1>2, <1>3
  <2>3. owner' \in {owner, Nobody} /\ cursor <= cursor' /\ rewinds' = rewinds
    BY <1>2
  <2>4. QED
    BY <2>1, <2>2, <2>3, DropsKeep
<1>4. CASE /\ pc[w] = "ack" /\ response[w] # <<>>
           /\ pending' = pending \/ pending' = pending \ {Head(response[w])}
           /\ PollRaises(w, ToSet(response[w]))
  <2>1. response[w] \in Seq(Entries)
    BY <1>1 DEF TypesOK, Lists
  <2>2. ToSet(response[w]) \subseteq Entries /\ Head(response[w]) \in ToSet(response[w])
    BY <1>4, <2>1, InList, InTail
  <2>3. /\ TypeInv' /\ (gone \cup InHand(w)) \cup ToSet(response[w]) \subseteq gone'
        /\ points' = [points EXCEPT ![w] = <<>>]
        /\ response' = [response EXCEPT ![w] = <<>>]
        /\ UNCHANGED <<backend, kind, handled>>
    <3>1. pending' \subseteq pending
      BY <1>4
    <3>2. QED
      BY <1>2, <1>4, <2>2, <3>1, PollRaisesIs
  <2>4. \A e \in (1 .. cursor') \ pending' : e \in (1 .. cursor) \ pending \/ e \in gone'
    BY <1>2, <1>4, <2>2, <2>3
  <2>5. owner' \in {owner, Nobody} /\ cursor <= cursor' /\ rewinds' = rewinds
    BY <1>2
  <2>6. gone \cup InHand(w) \subseteq gone'
    BY <2>3
  <2>7. QED
    BY <2>3, <2>4, <2>5, <2>6, DropsKeep
<1>5. QED
  BY <1>3, <1>4 DEF RedisRaises

LEMMA CrashKeeps ==
    ASSUME StreamsAssumption, IInv, NEW w \in Workers, Crash(w)
    PROVE  IInv'
<1>1. TypesOK /\ HandsOK /\ GroupOK
  BY DEF IInv, TypeInv
<1>2. /\ Goto(w, "down") /\ gone' = gone \cup InHand(w)
      /\ running' = [running EXCEPT ![w] = FALSE] /\ open' = [open EXCEPT ![w] = FALSE]
      /\ points' = [points EXCEPT ![w] = <<>>]
      /\ response' = [response EXCEPT ![w] = <<>>]
      /\ owner' = IF owner = w THEN Nobody ELSE owner
      /\ UNCHANGED <<backend, kind, cursor, committed, pending, created, rewinds,
                     handled, starts>>
  BY DEF Crash
<1>3. /\ points' \in Lists /\ response' \in Lists
      /\ points'[w] = <<>> /\ response'[w] = <<>>
      /\ \A v \in Workers : v # w => points'[v] = points[v] /\ response'[v] = response[v]
      /\ InHand(w) \subseteq Entries
  BY <1>1, <1>2, DropTypes DEF InHand
<1>4. /\ pc' \in [Workers -> Places] /\ pc'[w] = "down"
      /\ \A v \in Workers : v # w => pc'[v] = pc[v]
  BY <1>1, <1>2, GotoIs DEF Places
<1>5. running' \in [Workers -> BOOLEAN] /\ open' \in [Workers -> BOOLEAN]
      /\ owner' \in {owner, Nobody}
  BY <1>1, <1>2, FlagSet DEF TypesOK
<1>6. TypesOK'
  BY <1>1, <1>2, <1>3, <1>4, <1>5 DEF TypesOK
<1>7. HandsOK' /\ GroupOK'
  BY <1>1, <1>2, <1>3, <1>4, <1>5 DEF HandsOK, GroupOK
<1>8. cursor <= cursor'
  BY <1>1, <1>2 DEF TypesOK, StreamsAssumption
<1>9. QED
  BY <1>2, <1>5, <1>6, <1>7, <1>8, DropsKeep DEF TypeInv

-----------------------------------------------------------------------------
(* Steps that give an entry out and process it.                             *)

\* What _parse leaves in the list of the poll.
LEMMA ParsedIs ==
    ASSUME StreamsAssumption, TypesOK, NEW w \in Workers, NEW e \in Entries, Parsed(w, e)
    PROVE  /\ points' \in Lists
           /\ \A x : CopyCount(points', x) <= CopyCount(points, x) + (IF e = x THEN 1 ELSE 0)
           /\ \A v \in Workers : ToSet(points[v]) \subseteq ToSet(points'[v])
           /\ \A v \in Workers : v # w => points'[v] = points[v]
           /\ kind[e] = "valid" => e \in ToSet(points'[w])
<1>1. points \in Lists /\ points[w] \in Seq(Entries)
  BY DEF TypesOK, Lists
<1>2. CASE kind[e] = "valid"
  <2> DEFINE s == Append(points[w], e)
  <2>1. points' = [points EXCEPT ![w] = s]
    BY <1>2 DEF Parsed
  <2>2. /\ s \in Seq(Entries) /\ e \in ToSet(s) /\ ToSet(points[w]) \subseteq ToSet(s)
    BY <1>1, InAppended
  <2> HIDE DEF s
  <2>3. points' \in Lists /\ points'[w] = s /\ SameBut(points, points', w)
    BY <1>1, <2>1, <2>2 DEF Lists, SameBut
  <2>4. \A x : CopyCount(points', x) <= CopyCount(points, x) + (IF e = x THEN 1 ELSE 0)
    BY <1>1, <2>3, CopiesOfAppend DEF s
  <2>5. QED
    BY <1>1, <2>2, <2>3, <2>4 DEF SameBut
<1>3. CASE kind[e] # "valid"
  <2>1. points' = [points EXCEPT ![w] = points[w]]
    BY <1>3 DEF Parsed
  <2>2. points' = points
    BY <1>1, <2>1 DEF Lists
  <2>3. \A x : CopyCount(points, x) \in Nat
    BY <1>1, CopiesFinite
  <2>4. QED
    BY <1>1, <1>3, <2>2, <2>3
<1>4. QED
  BY <1>2, <1>3

LEMMA KafkaMessageKeeps ==
    ASSUME StreamsAssumption, IInv, NEW w \in Workers, KafkaMessage(w)
    PROVE  IInv'
<1> DEFINE e == cursor + 1
<1>1. TypesOK /\ HandsOK /\ GroupOK /\ PaidFor /\ AllAccounted
  BY DEF IInv, TypeInv
<1>2. /\ pc[w] = "poll" /\ owner = w /\ e \in Entries /\ cursor' = e
      /\ UNCHANGED <<owner, committed, pending, created, rewinds>>
  BY DEF KafkaMessage
<1>3. /\ cursor \in 0 .. MaxEntries /\ cursor' \in 0 .. MaxEntries /\ cursor \in Nat
      /\ cursor <= cursor' /\ cursor' \in Nat
      /\ \A x \in 1 .. cursor' : x \in 1 .. cursor \/ x = e
  BY <1>1, <1>2 DEF TypesOK, StreamsAssumption, Entries
<1>4. backend = "kafka" /\ pending = {} /\ response[w] = <<>>
  BY <1>1, <1>2 DEF TypesOK, GroupOK, HandsOK, StreamsAssumption
<1> HIDE DEF e
<1>5. CASE kind[e] = "poison" /\ PollRaises(w, {e})
  <2>1. /\ TypeInv' /\ (gone \cup InHand(w)) \cup {e} \subseteq gone'
        /\ points' = [points EXCEPT ![w] = <<>>]
        /\ response' = [response EXCEPT ![w] = <<>>]
        /\ UNCHANGED <<backend, kind, handled>>
    BY <1>2, <1>3, <1>5, PollRaisesIs
  <2>2. \A x \in (1 .. cursor') \ pending' : x \in (1 .. cursor) \ pending \/ x \in gone'
    BY <1>2, <1>3, <2>1
  <2>3. QED
    BY <1>2, <1>3, <2>1, <2>2, DropsKeep
<1>6. CASE /\ Parsed(w, e)
           /\ UNCHANGED <<backend, kind, pc, running, open, response, historyVars, starts>>
  <2>1. /\ points' \in Lists
        /\ \A x : CopyCount(points', x) <= CopyCount(points, x) + (IF e = x THEN 1 ELSE 0)
        /\ \A v \in Workers : ToSet(points[v]) \subseteq ToSet(points'[v])
        /\ \A v \in Workers : v # w => points'[v] = points[v]
        /\ kind[e] = "valid" => e \in ToSet(points'[w])
    BY <1>1, <1>2, <1>6, ParsedIs
  <2>2. committed' \in 0 .. cursor' /\ pending' \subseteq 1 .. cursor'
    BY <1>1, <1>2, <1>3, <1>4 DEF TypesOK
  <2>3. TypesOK'
    BY <1>1, <1>2, <1>3, <1>6, <2>1, <2>2 DEF TypesOK, historyVars
  <2>4. HandsOK' /\ GroupOK'
    BY <1>1, <1>2, <1>6, <2>1 DEF HandsOK, GroupOK
  <2>5. ASSUME NEW x \in Entries
        PROVE  GivenOut(x)' <= Tenures(x)'
    <3>1. /\ handled[x] \in Nat /\ CopyCount(points, x) \in Nat /\ rewinds \in Nat
          /\ CopyCount(points', x) \in Nat /\ CopyCount(response, x) \in Nat /\ x \in Nat
      BY <1>1, <2>1, GivenOutIsNat, CopiesFinite
    <3>2. handled[x] + (CopyCount(points, x) + CopyCount(response, x)) <= Tenures(x)
      BY <1>1 DEF PaidFor, GivenOut
    <3>3. /\ Tenures(x) = IF x > cursor THEN rewinds - 1 ELSE rewinds
          /\ Tenures(x)' = IF x > cursor' THEN rewinds - 1 ELSE rewinds
      BY <1>2, <1>4, <1>6 DEF Tenures, StreamsAssumption
    <3>4. Tenures(x) + (IF e = x THEN 1 ELSE 0) <= Tenures(x)'
          /\ Tenures(x) \in Int /\ Tenures(x)' \in Int
      BY <1>2, <1>3, <3>1, <3>3 DEF e
    <3> HIDE DEF Tenures
    <3>5. CopyCount(points', x) <= CopyCount(points, x) + (IF e = x THEN 1 ELSE 0)
      BY <2>1
    <3>6. handled[x] + (CopyCount(points', x) + CopyCount(response, x)) <= Tenures(x)'
      BY <3>1, <3>2, <3>4, <3>5
    <3>7. GivenOut(x)' = handled[x] + (CopyCount(points', x) + CopyCount(response, x))
      BY <1>6 DEF GivenOut, historyVars
    <3>8. QED
      BY <3>6, <3>7
  <2>6. ASSUME NEW x \in 1 .. cursor', kind[x] = "valid"
        PROVE  Accounted(x)'
    <3>1. CASE x = e
      BY <2>1, <2>6, <3>1 DEF Accounted, InHand
    <3>2. CASE x \in 1 .. cursor
      <4>1. Accounted(x)
        BY <1>1, <1>4, <2>6, <3>2 DEF AllAccounted
      <4>2. QED
        BY <1>6, <2>1, <4>1 DEF Accounted, InHand, historyVars
    <3>3. QED
      BY <1>3, <3>1, <3>2
  <2>7. AllAccounted'
    BY <1>6, <2>6 DEF AllAccounted
  <2>8. QED
    BY <2>3, <2>4, <2>5, <2>7 DEF IInv, TypeInv, PaidFor
<1>7. QED
  BY <1>5, <1>6 DEF KafkaMessage, e

\* Entries go to one consumer, behind everything that was delivered before.
LEMMA XReadGroupKeeps ==
    ASSUME StreamsAssumption, IInv, NEW w \in Workers, XReadGroup(w)
    PROVE  IInv'
<1>1. TypesOK /\ HandsOK /\ GroupOK /\ PaidFor /\ AllAccounted
  BY DEF IInv, TypeInv
<1>2. PICK to \in cursor .. MaxEntries :
         /\ response' = [response EXCEPT ![w] = [i \in 1 .. to - cursor |-> cursor + i]]
         /\ pending' = pending \cup (cursor + 1 .. to)
         /\ cursor' = to
  BY DEF XReadGroup
<1>3. /\ pc[w] = "poll" /\ backend = "redis" /\ Goto(w, "ack")
      /\ UNCHANGED <<backend, kind, running, open, points, owner, committed, created,
                     rewinds, handled, gone, starts>>
  BY DEF XReadGroup, historyVars
<1>4. /\ cursor \in Nat /\ to \in Nat /\ MaxEntries \in Nat /\ cursor <= to
      /\ to \in 0 .. MaxEntries
  BY <1>1 DEF TypesOK, StreamsAssumption
<1> DEFINE run == [i \in 1 .. to - cursor |-> cursor + i]
<1>5. run \in Seq(Entries)
  <2>1. to - cursor \in Nat /\ \A i \in 1 .. to - cursor : cursor + i \in Entries
    BY <1>4 DEF Entries
  <2>2. run \in [1 .. to - cursor -> Entries]
    BY <2>1
  <2>3. QED
    BY <2>1, <2>2
<1>6. response[w] = <<>> /\ response \in Lists
  BY <1>1, <1>3 DEF HandsOK, TypesOK
<1>7. response' \in Lists /\ response'[w] = run /\ SameBut(response, response', w)
  <2> HIDE DEF run
  <2>1. response' = [response EXCEPT ![w] = run]
    BY <1>2 DEF run
  <2>2. QED
    BY <1>5, <1>6, <2>1 DEF Lists, SameBut
<1>8. /\ pc' \in [Workers -> Places] /\ pc'[w] = "ack"
      /\ \A v \in Workers : v # w => pc'[v] = pc[v]
  BY <1>1, <1>3, GotoIs DEF Places
<1>9. TypesOK'
  <2>1. cursor' \in 0 .. MaxEntries /\ pending' \subseteq 1 .. cursor'
        /\ committed' \in 0 .. cursor'
    BY <1>1, <1>2, <1>3, <1>4 DEF TypesOK
  <2>2. QED
    BY <1>1, <1>3, <1>7, <1>8, <2>1 DEF TypesOK
<1>10. HandsOK' /\ GroupOK'
  BY <1>1, <1>3, <1>7, <1>8 DEF HandsOK, GroupOK, SameBut
<1>11. ASSUME NEW e \in Entries
       PROVE  GivenOut(e)' <= Tenures(e)'
  <2>1. /\ handled[e] \in Nat /\ CopyCount(points, e) \in Nat /\ e \in Nat
        /\ CopyCount(response, e) \in Nat /\ CopyCount(response', e) \in Nat
    BY <1>1, <1>7, GivenOutIsNat, CopiesFinite
  <2>2. CopyCount(response', e)
          <= CopyCount(response, e) + (IF e \in cursor + 1 .. to THEN 1 ELSE 0)
    BY <1>4, <1>6, <1>7, <2>1, CopiesOfRun
  <2>3. handled[e] + (CopyCount(points, e) + CopyCount(response, e))
           <= IF e > cursor THEN 0 ELSE 1
    BY <1>1, <1>3 DEF PaidFor, GivenOut, Tenures
  <2>4. handled[e] + (CopyCount(points, e) + CopyCount(response', e))
           <= IF e > to THEN 0 ELSE 1
    BY <1>4, <2>1, <2>2, <2>3
  <2>5. QED
    BY <1>2, <1>3, <2>4 DEF GivenOut, Tenures
<1>12. ASSUME NEW e \in (1 .. cursor') \ pending', kind[e] = "valid"
       PROVE  Accounted(e)'
  <2>1. e \in (1 .. cursor) \ pending
    BY <1>2, <1>4, <1>12
  <2>2. Accounted(e)
    BY <1>1, <1>12, <2>1 DEF AllAccounted
  <2>3. \A v \in Workers : ToSet(response[v]) \subseteq ToSet(response'[v])
    BY <1>6, <1>7, InNothing DEF SameBut
  <2>4. QED
    BY <1>3, <2>2, <2>3 DEF Accounted, InHand
<1>13. AllAccounted'
  BY <1>3, <1>12 DEF AllAccounted
<1>14. QED
  BY <1>9, <1>10, <1>11, <1>13 DEF IInv, TypeInv, PaidFor

\* The head h of a list leaves it.
HeadLeaves(q, r, w, h) ==
    /\ h \in Entries /\ r \in Lists
    /\ \A v \in Workers : v # w => r[v] = q[v]
    /\ \A e : CopyCount(r, e) + (IF h = e THEN 1 ELSE 0) <= CopyCount(q, e)
    /\ \A v \in Workers : \A e \in ToSet(q[v]) :
          (v = w /\ e = h) \/ e \in ToSet(r[v])

LEMMA HeadTaken ==
    ASSUME StreamsAssumption, NEW q \in Lists, NEW w \in Workers, q[w] # <<>>, NEW r,
           r = [q EXCEPT ![w] = Tail(q[w])]
    PROVE  HeadLeaves(q, r, w, Head(q[w]))
<1>1. q[w] \in Seq(Entries)
  BY DEF Lists
<1> DEFINE t == Tail(q[w])
<1>2. /\ t \in Seq(Entries) /\ Head(q[w]) \in Entries
      /\ \A x \in ToSet(q[w]) : x = Head(q[w]) \/ x \in ToSet(t)
  BY <1>1, InTail
<1>3. r = [q EXCEPT ![w] = t]
  OBVIOUS
<1> HIDE DEF t
<1>4. r \in Lists /\ r[w] = t /\ SameBut(q, r, w)
  BY <1>2, <1>3, ListReplaced
<1>5. \A e : CopyCount(r, e) + (IF Head(q[w]) = e THEN 1 ELSE 0) <= CopyCount(q, e)
  BY <1>4, CopiesOfTail DEF t
<1>6. \A v \in Workers : \A e \in ToSet(q[v]) :
                 (v = w /\ e = Head(q[w])) \/ e \in ToSet(r[v])
  BY <1>2, <1>4 DEF SameBut
<1>7. QED
  BY <1>2, <1>4, <1>5, <1>6 DEF SameBut, HeadLeaves

LEMMA ParseAndAckKeeps ==
    ASSUME StreamsAssumption, IInv, NEW w \in Workers, ParseAndAck(w)
    PROVE  IInv'
<1> DEFINE h == Head(response[w])
<1>1. TypesOK /\ HandsOK /\ GroupOK /\ PaidFor /\ AllAccounted
  BY DEF IInv, TypeInv
<1>2. /\ pc[w] = "ack" /\ response[w] # <<>> /\ Parsed(w, h)
      /\ response' = [response EXCEPT ![w] = Tail(response[w])]
      /\ pending' = pending \ {h}
      /\ UNCHANGED <<backend, kind, pc, running, open, cursor, owner, committed,
                     created, rewinds, handled, gone, starts>>
  BY DEF ParseAndAck, historyVars
<1>3. response \in Lists
  BY <1>1 DEF TypesOK
<1>4. /\ h \in Entries /\ response' \in Lists
      /\ \A v \in Workers : v # w => response'[v] = response[v]
      /\ \A e : CopyCount(response', e) + (IF h = e THEN 1 ELSE 0) <= CopyCount(response, e)
      /\ \A v \in Workers : \A e \in ToSet(response[v]) :
            (v = w /\ e = h) \/ e \in ToSet(response'[v])
  <2>1. HeadLeaves(response, response', w, h)
    BY <1>2, <1>3, HeadTaken
  <2>2. QED
    BY <2>1 DEF HeadLeaves
<1> HIDE DEF h
<1>5. /\ points' \in Lists
      /\ \A x : CopyCount(points', x) <= CopyCount(points, x) + (IF h = x THEN 1 ELSE 0)
      /\ \A v \in Workers : ToSet(points[v]) \subseteq ToSet(points'[v])
      /\ \A v \in Workers : v # w => points'[v] = points[v]
      /\ kind[h] = "valid" => h \in ToSet(points'[w])
  BY <1>1, <1>2, <1>4, ParsedIs
<1>6. backend = "redis" /\ pending' \subseteq pending
  BY <1>1, <1>2 DEF HandsOK
<1>7. TypesOK'
  BY <1>1, <1>2, <1>4, <1>5, <1>6 DEF TypesOK
<1>8. HandsOK' /\ GroupOK'
  BY <1>1, <1>2, <1>4, <1>5, <1>6 DEF HandsOK, GroupOK
<1>9. ASSUME NEW e \in Entries
      PROVE  GivenOut(e)' <= Tenures(e)'
  <2>1. /\ handled[e] \in Nat /\ CopyCount(points, e) \in Nat
        /\ CopyCount(points', e) \in Nat
        /\ CopyCount(response, e) \in Nat /\ CopyCount(response', e) \in Nat
        /\ Tenures(e) \in Int
    BY <1>1, <1>4, <1>5, GivenOutIsNat, CopiesFinite
  <2>2. handled[e] + (CopyCount(points, e) + CopyCount(response, e)) <= Tenures(e)
    BY <1>1 DEF PaidFor, GivenOut
  <2>3. Tenures(e)' = Tenures(e)
    BY <1>2 DEF Tenures
  <2>4. /\ CopyCount(response', e) + (IF h = e THEN 1 ELSE 0) <= CopyCount(response, e)
        /\ CopyCount(points', e) <= CopyCount(points, e) + (IF h = e THEN 1 ELSE 0)
    BY <1>4, <1>5
  <2> HIDE DEF Tenures
  <2>5. handled[e] + (CopyCount(points', e) + CopyCount(response', e)) <= Tenures(e)
    BY <2>1, <2>2, <2>4
  <2>6. QED
    BY <1>2, <2>3, <2>5 DEF GivenOut
<1>10. ASSUME NEW e \in (1 .. cursor') \ pending', kind[e] = "valid"
       PROVE  Accounted(e)'
  <2>1. CASE e = h
    BY <1>5, <1>10, <2>1 DEF Accounted, InHand
  <2>2. CASE e # h
    <3>1. e \in (1 .. cursor) \ pending
      BY <1>2, <1>10, <2>2
    <3>2. Accounted(e)
      BY <1>1, <1>10, <3>1 DEF AllAccounted
    <3>3. \A v \in Workers : e \in ToSet(response[v]) => e \in ToSet(response'[v])
      BY <1>4, <2>2
    <3>4. QED
      BY <1>2, <1>5, <3>2, <3>3 DEF Accounted, InHand
  <2>3. QED
    BY <2>1, <2>2
<1>11. AllAccounted'
  BY <1>2, <1>10 DEF AllAccounted
<1>12. QED
  BY <1>7, <1>8, <1>9, <1>11 DEF IInv, TypeInv, PaidFor

LEMMA ProcessPointKeeps ==
    ASSUME StreamsAssumption, IInv, NEW w \in Workers, ProcessPoint(w)
    PROVE  IInv'
<1> DEFINE h == Head(points[w])
<1>1. TypesOK /\ HandsOK /\ GroupOK /\ PaidFor /\ AllAccounted
  BY DEF IInv, TypeInv
<1>2. /\ pc[w] = "process" /\ points[w] # <<>>
      /\ points' = [points EXCEPT ![w] = Tail(points[w])]
      /\ handled' = [handled EXCEPT ![h] = @ + 1]
      /\ UNCHANGED <<backend, kind, pc, running, open, response, cursor, owner, committed,
                     pending, created, rewinds, gone, starts>>
  BY DEF ProcessPoint, groupVars
<1>3. points \in Lists /\ handled \in [Entries -> Nat]
  BY <1>1 DEF TypesOK
<1>4. /\ h \in Entries /\ points' \in Lists
      /\ \A v \in Workers : v # w => points'[v] = points[v]
      /\ \A e : CopyCount(points', e) + (IF h = e THEN 1 ELSE 0) <= CopyCount(points, e)
      /\ \A v \in Workers : \A e \in ToSet(points[v]) :
            (v = w /\ e = h) \/ e \in ToSet(points'[v])
  <2>1. HeadLeaves(points, points', w, h)
    BY <1>2, <1>3, HeadTaken
  <2>2. QED
    BY <2>1 DEF HeadLeaves
<1> HIDE DEF h
<1>5. /\ handled' \in [Entries -> Nat] /\ handled'[h] = handled[h] + 1
      /\ \A e \in Entries : e # h => handled'[e] = handled[e]
  BY <1>2, <1>3, <1>4
<1>6. TypesOK'
  BY <1>1, <1>2, <1>4, <1>5 DEF TypesOK
<1>7. HandsOK' /\ GroupOK'
  BY <1>1, <1>2, <1>4 DEF HandsOK, GroupOK
<1>8. ASSUME NEW e \in Entries
      PROVE  GivenOut(e)' <= Tenures(e)'
  <2>1. /\ handled[e] \in Nat /\ CopyCount(points, e) \in Nat
        /\ CopyCount(points', e) \in Nat /\ CopyCount(response, e) \in Nat
        /\ Tenures(e) \in Int
    BY <1>1, <1>4, GivenOutIsNat, CopiesFinite
  <2>2. handled[e] + (CopyCount(points, e) + CopyCount(response, e)) <= Tenures(e)
    BY <1>1 DEF PaidFor, GivenOut
  <2>3. Tenures(e)' = Tenures(e)
    BY <1>2 DEF Tenures
  <2>4. /\ CopyCount(points', e) + (IF h = e THEN 1 ELSE 0) <= CopyCount(points, e)
        /\ handled'[e] = handled[e] + (IF h = e THEN 1 ELSE 0)
    BY <1>4, <1>5, <2>1
  <2> HIDE DEF Tenures
  <2>5. handled'[e] + (CopyCount(points', e) + CopyCount(response, e)) <= Tenures(e)
    BY <2>1, <2>2, <2>4
  <2>6. QED
    BY <1>2, <2>3, <2>5 DEF GivenOut
<1>9. ASSUME NEW e \in (1 .. cursor) \ pending, kind[e] = "valid"
      PROVE  Accounted(e)'
  <2>1. e \in Entries
    BY <1>1 DEF TypesOK, Entries, StreamsAssumption
  <2>2. CASE e = h
    <3>1. handled'[e] > 0
      BY <1>3, <1>4, <1>5, <2>2
    <3>2. QED
      BY <3>1 DEF Accounted
  <2>3. CASE e # h
    <3>1. Accounted(e)
      BY <1>1, <1>9 DEF AllAccounted
    <3>2. \A v \in Workers : e \in ToSet(points[v]) => e \in ToSet(points'[v])
      BY <1>4, <2>3
    <3>3. QED
      BY <1>2, <1>5, <2>1, <2>3, <3>1, <3>2 DEF Accounted, InHand
  <2>4. QED
    BY <2>2, <2>3
<1>10. AllAccounted'
  BY <1>2, <1>9 DEF AllAccounted
<1>11. QED
  BY <1>6, <1>7, <1>8, <1>10 DEF IInv, TypeInv, PaidFor

-----------------------------------------------------------------------------
(* Theorems.                                                                *)

LEMMA InitEstablishes ==
    ASSUME StreamsAssumption, Init
    PROVE  IInv
<1>1. /\ points \in Lists /\ response \in Lists
      /\ \A w \in Workers : points[w] = <<>> /\ response[w] = <<>>
  <2>1. <<>> \in Seq(Entries)
    BY EmptySeq
  <2>2. QED
    BY <2>1 DEF Init, Lists
<1>2. TypesOK /\ HandsOK /\ GroupOK
  <2>1. cursor \in 0 .. MaxEntries /\ committed \in 0 .. cursor /\ pending \subseteq 1 .. cursor
    BY DEF Init, StreamsAssumption
  <2>2. TypesOK
    BY <1>1, <2>1 DEF Init, TypesOK, Places
  <2>3. QED
    BY <1>1, <2>2 DEF Init, HandsOK, GroupOK
<1>3. ASSUME NEW e \in Entries
      PROVE  GivenOut(e) <= Tenures(e)
  <2>1. \A q \in Lists : (\A w \in Workers : q[w] = <<>>) => CopyCount(q, e) = 0
    <3> SUFFICES ASSUME NEW q \in Lists, \A w \in Workers : q[w] = <<>>
                 PROVE  CopyCount(q, e) = 0
      OBVIOUS
    <3>1. Copies(q, e) = {}
      <4>1. SUFFICES ASSUME NEW c \in Copies(q, e)
                     PROVE  FALSE
        OBVIOUS
      <4>2. c = <<c[1], c[2]>> /\ c[1] \in Workers /\ c[2] \in 1 .. Len(q[c[1]])
        <5>1. c = <<c[1], c[2]>> /\ c[1] \in Workers
          BY DEF Copies
        <5>2. QED
          BY <5>1, CopiesAre
      <4>3. QED
        BY <4>2, EmptySeq
    <3>2. QED
      BY <3>1, FS_EmptySet DEF CopyCount
  <2>2. CopyCount(points, e) = 0 /\ CopyCount(response, e) = 0
    BY <1>1, <2>1
  <2>3. handled[e] = 0 /\ rewinds = 0 /\ owner = Nobody
    BY DEF Init
  <2>4. QED
    BY <2>2, <2>3 DEF GivenOut, Tenures
<1>4. AllAccounted
  BY DEF Init, AllAccounted
<1>5. QED
  BY <1>2, <1>3, <1>4 DEF IInv, TypeInv, PaidFor

LEMMA StepKeeps ==
    ASSUME StreamsAssumption, IInv, [Next]_vars
    PROVE  IInv'
<1>1. HandsOK /\ TypesOK
  BY DEF IInv, TypeInv
<1>2. ASSUME NEW w \in Workers, LoopTest(w) \/ KafkaNone(w) \/ AllAcked(w) \/ BatchDone(w)
      PROVE  IInv'
  <2>1. CASE LoopTest(w)
    <3> DEFINE where == IF running[w] THEN "poll" ELSE "down"
    <3>1. /\ Goto(w, where) /\ points[w] = <<>> /\ response[w] = <<>>
          /\ UNCHANGED <<backend, kind, running, open, response, points, groupVars,
                         historyVars, starts>>
      BY <1>1, <2>1 DEF LoopTest, HandsOK
    <3>2. where \in Places /\ where # "ack"
      BY DEF Places
    <3> HIDE DEF where
    <3>3. QED
      BY <3>1, <3>2, MoveKeeps
  <2>2. CASE KafkaNone(w) \/ AllAcked(w)
    <3>1. /\ Goto(w, "process") /\ response[w] = <<>>
          /\ UNCHANGED <<backend, kind, running, open, response, points, groupVars,
                         historyVars, starts>>
      BY <1>1, <2>2 DEF KafkaNone, AllAcked, HandsOK
    <3>2. "process" \in Places
      BY DEF Places
    <3>3. QED
      BY <3>1, <3>2, MoveKeeps
  <2>3. CASE BatchDone(w)
    <3>1. /\ Goto(w, "await") /\ points[w] = <<>> /\ response[w] = <<>>
          /\ UNCHANGED <<backend, kind, running, open, response, points, groupVars,
                         historyVars, starts>>
      BY <1>1, <2>3 DEF BatchDone, HandsOK
    <3>2. "await" \in Places
      BY DEF Places
    <3>3. QED
      BY <3>1, <3>2, MoveKeeps
  <2>4. QED
    BY <1>2, <2>1, <2>2, <2>3
<1>3. ASSUME NEW w \in Workers, Loop(w)
      PROVE  IInv'
  BY <1>2, <1>3, KafkaMessageKeeps, XReadGroupKeeps, ParseAndAckKeeps, RedisRaisesKeeps,
     ProcessPointKeeps DEF Loop
<1>4. ASSUME NEW w \in Workers, Start(w) \/ Stop(w) \/ Rebalance(w) \/ Crash(w)
      PROVE  IInv'
  BY <1>4, StartKeeps, StopKeeps, RebalanceKeeps, CrashKeeps
<1>5. CASE UNCHANGED vars
  <2>1. TypesOK' /\ HandsOK' /\ GroupOK'
    BY <1>5 DEF IInv, TypeInv, TypesOK, HandsOK, GroupOK, vars, workerVars, groupVars,
                historyVars
  <2>2. QED
    BY <1>5, <2>1, QuietKeeps DEF TypeInv, vars, workerVars, groupVars, historyVars
<1>6. QED
  BY <1>3, <1>4, <1>5, AutoCommitKeeps DEF Next

THEOREM StreamsStayConsistent == Spec => []IInv
<1>1. Init => IInv
  BY StreamsAssumption, InitEstablishes
<1>2. IInv /\ [Next]_vars => IInv'
  BY StreamsAssumption, StepKeeps
<1>3. QED
  BY <1>1, <1>2, PTL DEF Spec

\* The types of the readers and of the group; a worker holds points only
\* between its poll and the end of its batch.
THEOREM StreamTypes == Spec => []StreamsTypeOK
<1>1. IInv => StreamsTypeOK
  <2> SUFFICES ASSUME TypesOK, HandsOK
               PROVE  StreamsTypeOK
    BY DEF IInv, TypeInv
  <2>1. \A w \in Workers : pc[w] \in {"down", "await"} => InHand(w) = {}
    BY InNothing DEF HandsOK, InHand
  <2>2. QED
    BY <2>1 DEF TypesOK, StreamsTypeOK, Lists, Places
<1>2. QED
  BY <1>1, StreamsStayConsistent, PTL

\* Over all stops, crashes, restarts and rebalances of any number of workers:
\* an entry of a Redis stream is in one worker's hands or went through
\* process_point once, never both; an entry of a Kafka partition was handled and
\* is held at most as often as the partition was given to somebody.
THEOREM EntriesAreHandledOnce == Spec => []HandledOncePerDelivery
<1>1. IInv => HandledOncePerDelivery
  <2> SUFFICES ASSUME IInv, NEW e \in Entries
               PROVE  handled[e] + Cardinality({w \in Workers : e \in InHand(w)})
                         <= IF backend = "redis" THEN 1 ELSE rewinds
    BY DEF HandledOncePerDelivery
  <2> DEFINE holders == {w \in Workers : e \in InHand(w)}
             p == Copies(points, e)
             r == Copies(response, e)
             both == (p \X {1}) \cup (r \X {2})
  <2>1. TypesOK /\ PaidFor /\ StreamsAssumption
    BY StreamsAssumption DEF IInv, TypeInv
  <2>2. points \in Lists /\ response \in Lists
    BY <2>1 DEF TypesOK
  <2>3. /\ IsFiniteSet(p) /\ IsFiniteSet(r)
        /\ Cardinality(p) = CopyCount(points, e) /\ Cardinality(r) = CopyCount(response, e)
        /\ Cardinality(p) \in Nat /\ Cardinality(r) \in Nat
    BY <2>1, <2>2, CopiesFinite DEF CopyCount
  <2>4. \A w \in Workers :
           /\ e \in ToSet(points[w]) => \E i : <<w, i>> \in p
           /\ e \in ToSet(response[w]) => \E i : <<w, i>> \in r
    <3> TAKE w \in Workers
    <3>1. points[w] \in Seq(Entries) /\ response[w] \in Seq(Entries)
      BY <2>2 DEF Lists
    <3>2. /\ e \in ToSet(points[w]) <=> \E i \in 1 .. Len(points[w]) : points[w][i] = e
          /\ e \in ToSet(response[w]) <=> \E i \in 1 .. Len(response[w]) : response[w][i] = e
      BY <3>1, InList
    <3>3. QED
      BY <2>2, <3>2, CopiesAre
  <2>5. IsFiniteSet(holders) /\ Cardinality(holders) \in Nat
    <3>1. IsFiniteSet(Workers) /\ holders \in SUBSET Workers
      BY <2>1 DEF StreamsAssumption
    <3> HIDE DEF holders
    <3>2. QED
      BY <3>1, FS_Subset, FS_CardinalityType
  <2> DEFINE inPoints == {w \in Workers : e \in ToSet(points[w])}
             inResponse == {w \in Workers : e \in ToSet(response[w])}
  <2>6. /\ IsFiniteSet(inPoints) /\ Cardinality(inPoints) \in Nat
        /\ Cardinality(inPoints) <= Cardinality(p)
    <3> DEFINE f == [w \in inPoints |-> CHOOSE c \in p : c[1] = w]
    <3>1. \A w \in inPoints : f[w] \in p /\ f[w][1] = w
      <4> TAKE w \in inPoints
      <4>1. \E c \in p : c[1] = w
        BY <2>4
      <4>2. QED
        BY <4>1
    <3>2. f \in [inPoints -> p] /\ \A a, b \in inPoints : f[a] = f[b] => a = b
      BY <3>1
    <3> HIDE DEF f, p, inPoints
    <3>3. f \in Injection(inPoints, p)
      BY <3>2, Fun_IsInj
    <3>4. QED
      BY <2>3, <3>3, FS_Injection, FS_CardinalityType
  <2>7. /\ IsFiniteSet(inResponse) /\ Cardinality(inResponse) \in Nat
        /\ Cardinality(inResponse) <= Cardinality(r)
    <3> DEFINE f == [w \in inResponse |-> CHOOSE c \in r : c[1] = w]
    <3>1. \A w \in inResponse : f[w] \in r /\ f[w][1] = w
      <4> TAKE w \in inResponse
      <4>1. \E c \in r : c[1] = w
        BY <2>4
      <4>2. QED
        BY <4>1
    <3>2. f \in [inResponse -> r] /\ \A a, b \in inResponse : f[a] = f[b] => a = b
      BY <3>1
    <3> HIDE DEF f, r, inResponse
    <3>3. f \in Injection(inResponse, r)
      BY <3>2, Fun_IsInj
    <3>4. QED
      BY <2>3, <3>3, FS_Injection, FS_CardinalityType
  <2>8. holders = inPoints \cup inResponse
    BY DEF InHand
  <2> HIDE DEF holders, inPoints, inResponse, p, r
  <2>9. Cardinality(holders) <= Cardinality(inPoints) + Cardinality(inResponse)
    <3>1. Cardinality(inPoints \cup inResponse)
            = Cardinality(inPoints) + Cardinality(inResponse)
                 - Cardinality(inPoints \cap inResponse)
      BY <2>6, <2>7, FS_Union
    <3>2. Cardinality(inPoints \cap inResponse) \in Nat
      <4>1. IsFiniteSet(inPoints \cap inResponse)
        BY <2>6, FS_Intersection
      <4>2. QED
        BY <4>1, FS_CardinalityType
    <3>3. QED
      BY <2>5, <2>6, <2>7, <2>8, <3>1, <3>2
  <2>10. handled[e] + (Cardinality(p) + Cardinality(r)) <= Tenures(e)
    BY <2>1, <2>3 DEF PaidFor, GivenOut
  <2>11. /\ Tenures(e) <= (IF backend = "redis" THEN 1 ELSE rewinds)
         /\ Tenures(e) \in Int /\ handled[e] \in Nat /\ rewinds \in Nat
    <3>1. handled[e] \in Nat /\ rewinds \in Nat /\ cursor \in Nat /\ e \in Nat
      BY <2>1, GivenOutIsNat
    <3>2. QED
      BY <3>1 DEF Tenures
  <2>12. handled[e] + Cardinality(holders) <= Tenures(e)
    BY <2>3, <2>5, <2>6, <2>7, <2>9, <2>10, <2>11
  <2>13. handled[e] + Cardinality(holders) <= IF backend = "redis" THEN 1 ELSE rewinds
    BY <2>5, <2>11, <2>12
  <2>14. QED
    BY <2>13 DEF holders
<1>2. QED
  BY <1>1, StreamsStayConsistent, PTL

\* A valid entry the group will not give out again went through process_point,
\* is in some worker's hands, or was dropped by a poll that raised or a crash:
\* offsets are committed, and entries acknowledged, only of what was delivered.
THEOREM NothingIsDroppedSilently == Spec => []DeliveredIsAccounted
<1>1. IInv => DeliveredIsAccounted
  <2> SUFFICES ASSUME IInv,
                      NEW e \in IF backend = "redis" THEN (1 .. cursor) \ pending
                                ELSE 1 .. committed,
                      kind[e] = "valid"
               PROVE  Accounted(e)
    BY DEF DeliveredIsAccounted, Accounted
  <2>1. TypesOK /\ GroupOK /\ AllAccounted
    BY DEF IInv, TypeInv
  <2>2. e \in (1 .. cursor) \ pending
    BY <2>1, StreamsAssumption DEF TypesOK, GroupOK, StreamsAssumption
  <2>3. QED
    BY <2>1, <2>2 DEF AllAccounted
<1>2. QED
  BY <1>1, StreamsStayConsistent, PTL

=============================================================================

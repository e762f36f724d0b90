-------------------- MODULE ReferenceEncoderServiceProofs --------------------
(***************************************************************************)
(* Proofs about the reference profiles.                                    *)
(***************************************************************************)
EXTENDS ReferenceEncoderService, FoldTheorems

-----------------------------------------------------------------------------
(* Windows and the latest elements of a list.                               *)

\* A division rounds down.
LEMMA Quotient ==
    ASSUME NEW x \in Nat, NEW s \in Nat \ {0}
    PROVE  /\ x \div s \in Nat /\ (x \div s) * s <= x
           /\ x < s => x \div s = 0
OBVIOUS

\* Among the first n multiples none is beyond the last one.
LEMMA Multiples ==
    ASSUME NEW s \in Nat \ {0}, NEW n \in Nat, NEW i \in 1 .. n
    PROVE  /\ (i - 1) * s \in Nat /\ i * s \in Nat /\ n * s \in Nat
           /\ i * s = (i - 1) * s + s
           /\ i * s <= n * s
OBVIOUS

\* _build_windows and _encode_windows: each embedding is of records the entity
\* has, by the encoder it was called with.
LEMMA WindowsOfRecords ==
    ASSUME ProfileAssumption, NEW e \in Entities, NEW first \in Nat \ {0},
           NEW last \in 0 .. MaxRecords[e], first <= last + 1, NEW v \in Versions
    PROVE  Encode(Windows(first, last), v) \in Seq(Embeddings(e))
<1> DEFINE x == (last - first) + seq_len
           n == x \div seq_len
<1>1. seq_len \in Nat \ {0} /\ MaxRecords[e] \in Nat
  BY DEF ProfileAssumption
<1>2. x \in Nat
  BY <1>1
<1>3. n \in Nat /\ n * seq_len <= x
  <2> HIDE DEF x
  <2>1. QED
    BY <1>1, <1>2, Quotient
<1> HIDE DEF n
<1>4. ASSUME NEW i \in 1 .. n
      PROVE  <<first + (i - 1) * seq_len, Min({first + i * seq_len - 1, last})>>
                \in (1 .. MaxRecords[e]) \X (1 .. MaxRecords[e])
  <2> DEFINE before == (i - 1) * seq_len
             upto   == i * seq_len
             all    == n * seq_len
             low    == Min({first + upto - 1, last})
  <2>1. /\ before \in Nat /\ upto \in Nat /\ all \in Nat
        /\ upto = before + seq_len /\ upto <= all /\ all <= x
    BY <1>1, <1>3, Multiples
  <2> HIDE DEF before, upto, all
  <2>2. first + before \in 1 .. last
    BY <1>1, <2>1
  <2>3. first + upto - 1 \in Nat \ {0} /\ last \in Nat \ {0}
    BY <1>1, <2>1, <2>2
  <2>4. low \in {first + upto - 1, last} /\ low <= last
    <3>1. \E a \in {first + upto - 1, last} :
             \A b \in {first + upto - 1, last} : a <= b
      BY <2>3
    <3>2. QED
      BY <3>1 DEF Min
  <2>5. low \in 1 .. MaxRecords[e]
    BY <1>1, <2>3, <2>4
  <2> HIDE DEF low
  <2>6. <<first + before, low>> \in (1 .. MaxRecords[e]) \X (1 .. MaxRecords[e])
    BY <1>1, <2>2, <2>5
  <2>7. QED
    BY <2>6 DEF before, upto, low
<1> DEFINE windows == Windows(first, last)
<1>5. /\ DOMAIN windows = 1 .. n
      /\ \A i \in 1 .. n :
            windows[i] \in (1 .. MaxRecords[e]) \X (1 .. MaxRecords[e])
  <2>1. /\ DOMAIN windows = 1 .. n
        /\ \A i \in 1 .. n : windows[i] =
             <<first + (i - 1) * seq_len, Min({first + i * seq_len - 1, last})>>
    BY DEF Windows, n
  <2>2. QED
    BY <1>4, <2>1
<1> HIDE DEF windows
<1>6. Encode(windows, v) \in [1 .. n -> Embeddings(e)]
  <2>1. ASSUME NEW i \in 1 .. n
        PROVE  [window |-> windows[i], version |-> v] \in Embeddings(e)
    BY <1>5, <2>1 DEF Embeddings
  <2>2. QED
    BY <1>5, <2>1 DEF Encode
<1>7. QED
  BY <1>3, <1>6 DEF windows

\* history[-history_len:]
LEMMA LatestIs ==
    ASSUME NEW E, NEW s \in Seq(E), NEW n \in Nat
    PROVE  /\ Latest(s, n) \in Seq(E)
           /\ Len(Latest(s, n)) = IF Len(s) <= n THEN Len(s) ELSE n
           /\ \A i \in 1 .. Len(Latest(s, n)) :
                 Latest(s, n)[i] = s[(Len(s) - Len(Latest(s, n))) + i]
<1>1. Len(s) \in Nat
  BY LenProperties
<1>2. CASE Len(s) <= n
  BY <1>1, <1>2 DEF Latest
<1>3. CASE ~(Len(s) <= n)
  <2> DEFINE m == Len(s) - n + 1
  <2>1. m \in 1 .. Len(s) + 1 /\ Len(s) \in (m - 1) .. Len(s)
    BY <1>1, <1>3
  <2>2. Latest(s, n) = SubSeq(s, m, Len(s))
    BY <1>3 DEF Latest
  <2>3. Len(s) - m + 1 = n
    BY <1>1
  <2>4. m <= Len(s) + 1
    BY <1>1, <1>3
  <2> HIDE DEF m
  <2>5. /\ SubSeq(s, m, Len(s)) \in Seq(E)
        /\ Len(SubSeq(s, m, Len(s))) = Len(s) - m + 1
        /\ \A i \in 1 .. Len(s) - m + 1 : SubSeq(s, m, Len(s))[i] = s[m + i - 1]
    BY <1>1, <2>1, <2>4, SubSeqProperties
  <2>6. \A i \in 1 .. n : m + i - 1 = (Len(s) - n) + i
    BY <1>1 DEF m
  <2>7. /\ Latest(s, n) \in Seq(E) /\ Len(Latest(s, n)) = n
        /\ \A i \in 1 .. n : Latest(s, n)[i] = s[m + i - 1]
    BY <2>2, <2>3, <2>5
  <2>8. \A i \in 1 .. n : Latest(s, n)[i] = s[(Len(s) - n) + i]
    BY <2>6, <2>7
  <2>9. QED
    BY <1>3, <2>7, <2>8
<1>4. QED
  BY <1>2, <1>3

\* What was cut off before is cut off afterwards.
LEMMA LatestOfLatest ==
    ASSUME NEW E, NEW s \in Seq(E), NEW t \in Seq(E), NEW n \in Nat
    PROVE  Latest(Latest(s, n) \o t, n) = Latest(s \o t, n)
<1> DEFINE l == Latest(s, n)
           a == l \o t
           b == s \o t
           la == Latest(a, n)
           lb == Latest(b, n)
<1>1. /\ l \in Seq(E)
      /\ Len(l) = IF Len(s) <= n THEN Len(s) ELSE n
      /\ \A i \in 1 .. Len(l) : l[i] = s[(Len(s) - Len(l)) + i]
  BY LatestIs
<1>2. l \in Seq(E)
  BY <1>1
<1> HIDE DEF l, la, lb
<1>3. /\ a \in Seq(E) /\ Len(a) = Len(l) + Len(t)
      /\ \A i \in 1 .. Len(a) : a[i] = IF i <= Len(l) THEN l[i] ELSE t[i - Len(l)]
  BY <1>2, ConcatProperties
<1>4. /\ b \in Seq(E) /\ Len(b) = Len(s) + Len(t)
      /\ \A i \in 1 .. Len(b) : b[i] = IF i <= Len(s) THEN s[i] ELSE t[i - Len(s)]
  BY ConcatProperties
<1> HIDE DEF a, b
<1>5. a \in Seq(E) /\ b \in Seq(E)
  BY <1>3, <1>4
<1>6. /\ la \in Seq(E)
      /\ Len(la) = IF Len(a) <= n THEN Len(a) ELSE n
      /\ \A i \in 1 .. Len(la) : la[i] = a[(Len(a) - Len(la)) + i]
  BY <1>5, LatestIs DEF la
<1>7. /\ lb \in Seq(E)
      /\ Len(lb) = IF Len(b) <= n THEN Len(b) ELSE n
      /\ \A i \in 1 .. Len(lb) : lb[i] = b[(Len(b) - Len(lb)) + i]
  BY <1>5, LatestIs DEF lb
<1>8. Len(s) \in Nat /\ Len(t) \in Nat /\ Len(l) \in Nat
  BY <1>1, LenProperties
<1>9. Len(la) = Len(lb) /\ Len(la) \in Nat /\ Len(la) <= Len(a) /\ Len(la) <= Len(b)
  BY <1>1, <1>3, <1>4, <1>6, <1>7, <1>8
<1>10. ASSUME NEW i \in 1 .. Len(la)
      PROVE  la[i] = lb[i]
  <2> DEFINE j == (Len(a) - Len(la)) + i
             k == (Len(b) - Len(lb)) + i
  <2>1. j \in 1 .. Len(a) /\ k \in 1 .. Len(b) /\ j - Len(l) = k - Len(s)
    BY <1>3, <1>4, <1>8, <1>9
  <2>2. la[i] = a[j] /\ lb[i] = b[k]
    BY <1>6, <1>7, <1>9
  <2> HIDE DEF j, k
  <2>3. CASE j <= Len(l)
    <3>1. k <= Len(s) /\ j \in 1 .. Len(l) /\ (Len(s) - Len(l)) + j = k
      BY <1>3, <1>4, <1>8, <2>1, <2>3
    <3>2. a[j] = l[j] /\ b[k] = s[k] /\ l[j] = s[k]
      BY <1>1, <1>3, <1>4, <2>1, <2>3, <3>1
    <3>3. QED
      BY <2>2, <3>2
  <2>4. CASE ~(j <= Len(l))
    <3>1. ~(k <= Len(s))
      BY <1>3, <1>4, <1>8, <2>1, <2>4
    <3>2. a[j] = t[j - Len(l)] /\ b[k] = t[k - Len(s)]
      BY <1>3, <1>4, <2>1, <2>4, <3>1
    <3>3. QED
      BY <2>1, <2>2, <3>2
  <2>5. QED
    BY <2>3, <2>4
<1>11. la = lb
  BY <1>6, <1>7, <1>9, <1>10, SeqEqual
<1>12. QED
  BY <1>11 DEF la, lb, a, b, l

\* A finite set of numbers that is not empty has a greatest one.
LEMMA GreatestElement ==
    ASSUME NEW D \in SUBSET Nat, IsFiniteSet(D), D # {}
    PROVE  Max(D) \in D /\ \A y \in D : y <= Max(D)
<1> DEFINE S == {s \in SUBSET D : s # {} => \E m \in s : \A y \in s : y <= m}
<1>1. {} \in S
  OBVIOUS
<1>2. ASSUME NEW s \in SUBSET D, \A t \in SUBSET s : t # s => t \in S
      PROVE  s \in S
  <2> SUFFICES ASSUME s # {}
               PROVE  \E m \in s : \A y \in s : y <= m
    OBVIOUS
  <2>1. PICK x \in s : TRUE
    OBVIOUS
  <2>2. s \ {x} \in S
    BY <1>2, <2>1
  <2>3. CASE s \ {x} = {}
    BY <2>1, <2>3
  <2>4. CASE s \ {x} # {}
    <3>1. PICK m \in s \ {x} : \A y \in s \ {x} : y <= m
      BY <2>2, <2>4
    <3>2. m \in Nat /\ x \in Nat /\ \A y \in s : y \in Nat
      OBVIOUS
    <3>3. CASE x <= m
      BY <3>1, <3>2, <3>3
    <3>4. CASE ~(x <= m)
      BY <2>1, <3>1, <3>2, <3>4
    <3>5. QED
      BY <3>3, <3>4
  <2>5. QED
    BY <2>3, <2>4
<1> HIDE DEF S
<1>3. \A s \in SUBSET D : s \in S
  BY <1>1, <1>2, SubsetInduction
<1>4. \E m \in D : \A y \in D : y <= m
  BY <1>3 DEF S
<1>5. QED
  <2>1. PICK m \in D : \A y \in D : m >= y
    BY <1>4
  <2>2. Max(D) \in D /\ \A y \in D : Max(D) >= y
    BY <2>1, Zenon DEF Max
  <2>3. QED
    BY <2>2

-----------------------------------------------------------------------------
(* The inductive invariant.                                                 *)

\* A call that has read: the entity it is on and what it is about to write.
CallOK(c) ==
    /\ c.entity \in Entities /\ c.full \in BOOLEAN
    /\ c.new \in Seq(Embeddings(c.entity))
    /\ c.embs \in Seq(Embeddings(c.entity))

CallsOK ==
    /\ DOMAIN local = Processes
    /\ \A p \in Processes : at[p] \in {"build", "write"} => CallOK(local[p])

RegistryOK ==
    /\ versions \subseteq Versions /\ versions # {}
    /\ encoder \in [Processes -> Versions]

\* The provider of historical records, and the batches that were sent.
ProviderOK ==
    /\ arrived \in [Entities -> Nat] /\ aged \in [Entities -> Nat]
    /\ sent \in [Entities -> Nat]
    /\ \A e \in Entities :
          /\ aged[e] <= arrived[e] /\ arrived[e] <= MaxRecords[e]
          /\ sent[e] <= MaxRecords[e]

\* A profile keeps at most history_len embeddings, and is a cold start exactly
\* when it has none.
ProfileOK(e, p) ==
    /\ p.history \in Seq(Embeddings(e))
    /\ Len(p.history) <= history_len
    /\ p.stored => (p.cold <=> p.history = <<>>)

StoreOK ==
    /\ DOMAIN profile = Entities /\ DOMAIN log = Entities
    /\ \A e \in Entities :
          ProfileOK(e, profile[e]) /\ log[e] \in Seq(Embeddings(e))
    /\ overlapped \subseteq Entities

StepsOK ==
    /\ at \in [Processes -> {"idle", "build", "next", "write"}]
    /\ todo \subseteq Known

\* A profile nothing has been lost from, and an update that nothing has
\* overtaken: it is about to write what it read, and its own windows.
HistoryKept(e) == profile[e].history = Latest(log[e], history_len)

UpdateCurrent(p) ==
    at[p] = "write" /\ ~local[p].full /\ local[p].entity \notin overlapped
       => local[p].embs = profile[local[p].entity].history \o local[p].new

NothingLost ==
    /\ \A e \in Entities \ overlapped : HistoryKept(e)
    /\ \A p \in Processes : UpdateCurrent(p)

TypeInv == CallsOK /\ RegistryOK /\ ProviderOK /\ StoreOK /\ StepsOK

IInv == TypeInv /\ NothingLost

-----------------------------------------------------------------------------
(* What the steps do to a call.                                             *)

\* The assignment of one entry of a function.
LEMMA EntryReplaced ==
    ASSUME NEW f, NEW g, NEW S, DOMAIN f = S, NEW x \in S, NEW v,
           g = [f EXCEPT ![x] = v]
    PROVE  DOMAIN g = S /\ g[x] = v /\ \A y \in S : y # x => g[y] = f[y]
OBVIOUS

LEMMA LoadedIsRegistered ==
    ASSUME ProfileAssumption, RegistryOK
    PROVE  LoadEncoder \in Versions
<1>1. /\ versions \in SUBSET Nat /\ versions # {} /\ IsFiniteSet(versions)
      /\ versions \subseteq Versions
  <2>1. /\ versions \subseteq Versions /\ versions # {}
        /\ Versions \subseteq Nat /\ IsFiniteSet(Versions)
    BY DEF ProfileAssumption, RegistryOK
  <2>2. IsFiniteSet(versions)
    BY <2>1, FS_Subset
  <2>3. QED
    BY <2>1, <2>2
<1>2. Max(versions) \in versions
  BY <1>1, GreatestElement
<1>3. QED
  BY <1>1, <1>2 DEF LoadEncoder

LEMMA ProfileOfOK ==
    ASSUME ProfileAssumption, NEW e \in Entities, NEW embs \in Seq(Embeddings(e))
    PROVE  /\ ProfileOK(e, ProfileOf(embs))
           /\ ProfileOf(embs).history = Latest(embs, history_len)
<1> DEFINE l == Latest(embs, history_len)
<1>1. history_len \in Nat \ {0} /\ Len(embs) \in Nat
  BY LenProperties DEF ProfileAssumption
<1>2. l \in Seq(Embeddings(e)) /\ Len(l) = IF Len(embs) <= history_len THEN Len(embs)
                                           ELSE history_len
  BY <1>1, LatestIs
<1> HIDE DEF l
<1>3. Len(l) = 0 <=> Len(embs) = 0
  BY <1>1, <1>2
<1>4. embs = <<>> <=> l = <<>>
  BY <1>2, <1>3, EmptySeq
<1>5. ProfileOf(embs) = [stored |-> TRUE, cold |-> embs = <<>>, history |-> l]
  BY DEF ProfileOf, l
<1>6. Len(l) <= history_len
  BY <1>1, <1>2
<1>7. QED
  <2>1. /\ ProfileOf(embs).history = l
        /\ ProfileOf(embs).cold = (embs = <<>>)
    BY <1>5
  <2>2. ProfileOK(e, ProfileOf(embs))
    BY <1>2, <1>4, <1>6, <2>1 DEF ProfileOK
  <2>3. QED
    BY <2>1, <2>2 DEF l

\* A full build is of what the provider holds.
LEMMA BuildForOK ==
    ASSUME ProfileAssumption, TypeInv, NEW p \in Processes, NEW e \in Entities,
           BuildFor(p, e)
    PROVE  /\ DOMAIN local' = Processes
           /\ CallOK(local'[p]) /\ local'[p].full /\ local'[p].entity = e
           /\ at'[p] = "write"
           /\ at' \in [Processes -> {"idle", "build", "next", "write"}]
           /\ \A q \in Processes \ {p} : at'[q] = at[q] /\ local'[q] = local[q]
<1> DEFINE embs == Latest(Build(e, encoder[p]), history_len)
           call == [entity |-> e, full |-> TRUE, new |-> <<>>, embs |-> embs]
<1>1. Build(e, encoder[p]) \in Seq(Embeddings(e))
  <2>1. /\ aged[e] + 1 \in Nat \ {0} /\ arrived[e] \in 0 .. MaxRecords[e]
        /\ aged[e] + 1 <= arrived[e] + 1 /\ encoder[p] \in Versions
    BY DEF TypeInv, ProviderOK, RegistryOK, ProfileAssumption
  <2>2. QED
    BY <2>1, WindowsOfRecords DEF Build
<1>2. embs \in Seq(Embeddings(e)) /\ history_len \in Nat
  BY <1>1, LatestIs DEF ProfileAssumption
<1> HIDE DEF embs
<1>3. CallOK(call)
  BY <1>2, EmptySeq DEF CallOK
<1>4. local' = [local EXCEPT ![p] = call] /\ at' = [at EXCEPT ![p] = "write"]
  BY DEF BuildFor, embs
<1>5. call.full /\ call.entity = e
  OBVIOUS
<1> HIDE DEF call
<1>6. DOMAIN local = Processes /\ DOMAIN at = Processes
      /\ at \in [Processes -> {"idle", "build", "next", "write"}]
  BY DEF TypeInv, CallsOK, StepsOK
<1>7. /\ DOMAIN local' = Processes /\ local'[p] = call
      /\ \A q \in Processes : q # p => local'[q] = local[q]
  BY <1>4, <1>6
<1>8. /\ at' \in [Processes -> {"idle", "build", "next", "write"}]
      /\ at'[p] = "write" /\ \A q \in Processes : q # p => at'[q] = at[q]
  BY <1>4, <1>6
<1>9. QED
  BY <1>3, <1>5, <1>7, <1>8

\* A build disturbs nothing that is kept.
LEMMA BuildKeeps ==
    ASSUME ProfileAssumption, IInv, NEW p \in Processes, NEW e \in Entities,
           BuildFor(p, e), todo' \subseteq todo,
           UNCHANGED <<versions, encoder, providerVars, sent, profile, historyVars>>
    PROVE  IInv'
<1>1. TypeInv /\ NothingLost
  BY DEF IInv
<1>2. /\ DOMAIN local' = Processes
      /\ CallOK(local'[p]) /\ local'[p].full
      /\ at' \in [Processes -> {"idle", "build", "next", "write"}]
      /\ \A q \in Processes \ {p} : at'[q] = at[q] /\ local'[q] = local[q]
  BY <1>1, BuildForOK
<1>3. CallsOK'
  BY <1>1, <1>2 DEF TypeInv, CallsOK, CallOK
<1>4. RegistryOK' /\ ProviderOK' /\ StoreOK' /\ StepsOK'
  BY <1>1, <1>2 DEF TypeInv, RegistryOK, ProviderOK, StoreOK, StepsOK, providerVars,
                    historyVars, Known
<1>5. NothingLost'
  <2>1. \A x \in Entities \ overlapped' : HistoryKept(x)'
    BY <1>1 DEF NothingLost, HistoryKept, historyVars
  <2>2. ASSUME NEW q \in Processes
        PROVE  UpdateCurrent(q)'
    BY <1>1, <1>2 DEF NothingLost, UpdateCurrent, historyVars
  <2>3. QED
    BY <2>1, <2>2 DEF NothingLost
<1>6. QED
  BY <1>3, <1>4, <1>5 DEF IInv, TypeInv

\* A process that leaves its method takes nothing along.
LEMMA ReturnsOK ==
    ASSUME TypeInv, NEW p \in Processes, NEW next \in {"idle", "next"},
           Returns(p, next)
    PROVE  /\ DOMAIN local' = Processes
           /\ at' \in [Processes -> {"idle", "build", "next", "write"}]
           /\ at'[p] = next
           /\ \A q \in Processes \ {p} : at'[q] = at[q] /\ local'[q] = local[q]
<1>1. DOMAIN local = Processes
      /\ at \in [Processes -> {"idle", "build", "next", "write"}]
  BY DEF TypeInv, CallsOK, StepsOK
<1>2. local' = [local EXCEPT ![p] = Nothing] /\ at' = [at EXCEPT ![p] = next]
  BY DEF Returns
<1>3. QED
  BY <1>1, <1>2

LEMMA ReturnKeeps ==
    ASSUME IInv, NEW p \in Processes, Returns(p, "idle"), todo' \subseteq todo,
           UNCHANGED <<versions, encoder, providerVars, sent, profile, historyVars>>
    PROVE  IInv'
<1>1. TypeInv /\ NothingLost
  BY DEF IInv
<1>2. /\ DOMAIN local' = Processes
      /\ at' \in [Processes -> {"idle", "build", "next", "write"}]
      /\ at'[p] = "idle"
      /\ \A q \in Processes \ {p} : at'[q] = at[q] /\ local'[q] = local[q]
  BY <1>1, ReturnsOK
<1>3. CallsOK'
  BY <1>1, <1>2 DEF TypeInv, CallsOK, CallOK
<1>4. RegistryOK' /\ ProviderOK' /\ StoreOK' /\ StepsOK'
  BY <1>1, <1>2 DEF TypeInv, RegistryOK, ProviderOK, StoreOK, StepsOK, providerVars,
                    historyVars, Known
<1>5. NothingLost'
  <2>1. \A x \in Entities \ overlapped' : HistoryKept(x)'
    BY <1>1 DEF NothingLost, HistoryKept, historyVars
  <2>2. ASSUME NEW q \in Processes
        PROVE  UpdateCurrent(q)'
    BY <1>1, <1>2 DEF NothingLost, UpdateCurrent, historyVars
  <2>3. QED
    BY <2>1, <2>2 DEF NothingLost
<1>6. QED
  BY <1>3, <1>4, <1>5 DEF IInv, TypeInv

-----------------------------------------------------------------------------
(* The write at the end of a call.                                          *)

LEMMA WriteKeeps ==
    ASSUME ProfileAssumption, IInv, NEW p \in Processes, NEW next \in {"idle", "next"},
           at[p] = "write", Write(p), Returns(p, next),
           UNCHANGED <<versions, encoder, providerVars, sent, todo>>
    PROVE  IInv'
<1> DEFINE e == local[p].entity
           c == local[p]
           others == \E q \in Processes \ {p} : Reading(q, e)
<1>1. TypeInv /\ NothingLost
  BY DEF IInv
<1>2. CallOK(c) /\ e \in Entities /\ c.new \in Seq(Embeddings(e))
      /\ c.embs \in Seq(Embeddings(e))
  BY <1>1 DEF TypeInv, CallsOK, CallOK
<1>3. /\ profile' = [profile EXCEPT ![e] = ProfileOf(c.embs)]
      /\ log' = [log EXCEPT ![e] = IF c.full THEN c.embs ELSE log[e] \o c.new]
      /\ overlapped' = IF others THEN overlapped \cup {e}
                       ELSE IF c.full THEN overlapped \ {e} ELSE overlapped
  BY DEF Write
<1>4. /\ DOMAIN local' = Processes
      /\ at' \in [Processes -> {"idle", "build", "next", "write"}]
      /\ at'[p] = next
      /\ \A q \in Processes \ {p} : at'[q] = at[q] /\ local'[q] = local[q]
  BY <1>1, ReturnsOK
<1>5. DOMAIN profile = Entities /\ DOMAIN log = Entities
      /\ \A x \in Entities : ProfileOK(x, profile[x]) /\ log[x] \in Seq(Embeddings(x))
      /\ overlapped \subseteq Entities
  BY <1>1 DEF TypeInv, StoreOK
<1> HIDE DEF e, c, others
<1>6. /\ DOMAIN profile' = Entities /\ profile'[e] = ProfileOf(c.embs)
      /\ \A x \in Entities : x # e => profile'[x] = profile[x]
  BY <1>2, <1>3, <1>5
<1>7. /\ DOMAIN log' = Entities
      /\ log'[e] = IF c.full THEN c.embs ELSE log[e] \o c.new
      /\ \A x \in Entities : x # e => log'[x] = log[x]
  BY <1>2, <1>3, <1>5
<1>8. /\ ProfileOK(e, ProfileOf(c.embs))
      /\ ProfileOf(c.embs).history = Latest(c.embs, history_len)
  BY <1>2, ProfileOfOK
<1>9. CallsOK'
  <2>1. ASSUME NEW q \in Processes, at'[q] \in {"build", "write"}
        PROVE  CallOK(local'[q])
    BY <1>1, <1>4, <2>1 DEF TypeInv, CallsOK
  <2>2. QED
    BY <1>4, <2>1 DEF CallsOK, CallOK
<1>10. RegistryOK' /\ ProviderOK' /\ StepsOK'
  BY <1>1, <1>4 DEF TypeInv, RegistryOK, ProviderOK, StepsOK, providerVars, Known
<1>11. StoreOK'
  <2>1. ASSUME NEW x \in Entities
        PROVE  ProfileOK(x, profile'[x]) /\ log'[x] \in Seq(Embeddings(x))
    <3>1. CASE x # e
      BY <1>5, <1>6, <1>7, <3>1
    <3>2. CASE x = e
      <4>1. log[e] \o c.new \in Seq(Embeddings(e))
        BY <1>2, <1>5, ConcatProperties
      <4>2. QED
        BY <1>2, <1>6, <1>7, <1>8, <3>2, <4>1
    <3>3. QED
      BY <3>1, <3>2
  <2>2. overlapped' \subseteq Entities
    BY <1>2, <1>3, <1>5
  <2>3. QED
    BY <1>6, <1>7, <2>1, <2>2 DEF StoreOK, ProfileOK
<1>12. ASSUME NEW x \in Entities \ overlapped'
       PROVE  profile'[x].history = Latest(log'[x], history_len)
  <2>1. CASE x # e
    BY <1>1, <1>3, <1>6, <1>7, <2>1 DEF NothingLost, HistoryKept
  <2>2. CASE x = e /\ c.full
    BY <1>6, <1>7, <1>8, <2>2
  <2>3. CASE x = e /\ ~c.full
    <3>1. e \notin overlapped
      BY <1>3, <2>3
    <3>2. c.embs = profile[e].history \o c.new
      BY <1>1, <2>3, <3>1 DEF NothingLost, UpdateCurrent, e, c
    <3>3. profile[e].history = Latest(log[e], history_len)
      BY <1>1, <1>2, <3>1 DEF NothingLost, HistoryKept
    <3>4. Latest(c.embs, history_len) = Latest(log[e] \o c.new, history_len)
      <4>1. log[e] \in Seq(Embeddings(e)) /\ history_len \in Nat
        BY <1>2, <1>5 DEF ProfileAssumption
      <4>2. Latest(Latest(log[e], history_len) \o c.new, history_len)
              = Latest(log[e] \o c.new, history_len)
        BY <1>2, <4>1, LatestOfLatest
      <4>3. QED
        BY <3>2, <3>3, <4>2
    <3>5. QED
      BY <1>6, <1>7, <1>8, <2>3, <3>4
  <2>4. QED
    BY <2>1, <2>2, <2>3
<1>13. ASSUME NEW q \in Processes, at'[q] = "write", ~local'[q].full,
              local'[q].entity \notin overlapped'
       PROVE  local'[q].embs = profile'[local'[q].entity].history \o local'[q].new
  <2>1. q # p /\ at[q] = "write" /\ local'[q] = local[q]
    BY <1>4, <1>13
  <2>2. local[q].entity # e
    <3>1. SUFFICES ASSUME local[q].entity = e
                   PROVE  FALSE
      OBVIOUS
    <3>2. others
      BY <2>1, <3>1 DEF others, Reading
    <3>3. QED
      BY <1>3, <1>13, <2>1, <3>1, <3>2
  <2>3. local[q].entity \in Entities
    BY <1>1, <2>1 DEF TypeInv, CallsOK, CallOK
  <2>4. local[q].entity \notin overlapped
    BY <1>3, <1>13, <2>1, <2>2
  <2>5. local[q].embs = profile[local[q].entity].history \o local[q].new
    BY <1>1, <1>13, <2>1, <2>4 DEF NothingLost, UpdateCurrent
  <2>6. QED
    BY <1>6, <2>1, <2>2, <2>3, <2>5
<1>14. NothingLost'
  BY <1>12, <1>13 DEF NothingLost, HistoryKept, UpdateCurrent
<1>15. QED
  BY <1>9, <1>10, <1>11, <1>14 DEF IInv, TypeInv

-----------------------------------------------------------------------------
(* The steps.                                                               *)

\* A call starts: what it fetches is what the profile holds.
LEMMA UpdateKeeps ==
    ASSUME ProfileAssumption, IInv, NEW u \in Updaters, Update(u)
    PROVE  IInv'
<1>1. TypeInv /\ NothingLost /\ u \in Processes
  BY DEF IInv, Processes
<1>2. PICK e \in Entities :
          \E last \in sent[e] .. MaxRecords[e] :
             Fetch(u, e, sent[e] + 1, last) /\ sent' = [sent EXCEPT ![e] = last]
  BY DEF Update
<1>3. PICK last \in sent[e] .. MaxRecords[e] :
              Fetch(u, e, sent[e] + 1, last) /\ sent' = [sent EXCEPT ![e] = last]
  BY <1>2
<1>4. UNCHANGED <<versions, encoder, providerVars, profile, todo, historyVars>>
  BY DEF Update
<1> DEFINE new  == Encode(Windows(sent[e] + 1, last), encoder[u])
           embs == profile[e].history \o new
           call == [entity |-> e, full |-> FALSE, new |-> new, embs |-> embs]
           next == IF profile[e].cold \/ new = <<>> \/ ~profile[e].stored
                   THEN "build" ELSE "write"
<1>5. sent[e] \in Nat /\ last \in Nat /\ sent[e] <= last /\ last <= MaxRecords[e]
      /\ MaxRecords[e] \in Nat
  BY <1>1 DEF TypeInv, ProviderOK, ProfileAssumption
<1>6. new \in Seq(Embeddings(e))
  <2>1. /\ sent[e] + 1 \in Nat \ {0} /\ last \in 0 .. MaxRecords[e]
        /\ sent[e] + 1 <= last + 1 /\ encoder[u] \in Versions
    BY <1>1, <1>5 DEF TypeInv, RegistryOK
  <2>2. QED
    BY <2>1, WindowsOfRecords
<1>7. local' = [local EXCEPT ![u] = call] /\ at' = [at EXCEPT ![u] = next]
  BY <1>3 DEF Fetch
<1> HIDE DEF new
<1>8. embs \in Seq(Embeddings(e))
  <2>1. profile[e].history \in Seq(Embeddings(e))
    BY <1>1 DEF TypeInv, StoreOK, ProfileOK
  <2>2. QED
    BY <1>6, <2>1, ConcatProperties
<1>9. /\ call.entity = e /\ call.new = new
      /\ call.embs = profile[call.entity].history \o call.new
  OBVIOUS
<1> HIDE DEF embs
<1>10. CallOK(call)
  BY <1>6, <1>8 DEF CallOK
<1>11. next \in {"build", "write"}
  OBVIOUS
<1> HIDE DEF call, next
<1>12. /\ DOMAIN local = Processes /\ DOMAIN at = Processes
       /\ at \in [Processes -> {"idle", "build", "next", "write"}]
  BY <1>1 DEF TypeInv, CallsOK, StepsOK
<1>13. /\ DOMAIN local' = Processes /\ local'[u] = call
       /\ \A q \in Processes : q # u => local'[q] = local[q]
  BY <1>1, <1>7, <1>12
<1>14. /\ at' \in [Processes -> {"idle", "build", "next", "write"}]
       /\ \A q \in Processes : q # u => at'[q] = at[q]
  BY <1>1, <1>7, <1>11, <1>12
<1>15. CallsOK'
  <2>1. ASSUME NEW q \in Processes, at'[q] \in {"build", "write"}
        PROVE  CallOK(local'[q])
    <3>1. CASE q = u
      BY <1>10, <1>13, <3>1
    <3>2. CASE q # u
      BY <1>1, <1>13, <1>14, <2>1, <3>2 DEF TypeInv, CallsOK
    <3>3. QED
      BY <3>1, <3>2
  <2>2. QED
    BY <1>13, <2>1 DEF CallsOK, CallOK
<1>16. ProviderOK'
  <2>1. /\ sent \in [Entities -> Nat] /\ arrived' = arrived /\ aged' = aged
    BY <1>1, <1>4 DEF TypeInv, ProviderOK, providerVars
  <2>2. /\ sent' \in [Entities -> Nat] /\ sent'[e] = last
        /\ \A x \in Entities : x # e => sent'[x] = sent[x]
    BY <1>3, <1>5, <2>1
  <2>3. \A x \in Entities : sent'[x] <= MaxRecords[x]
    BY <1>1, <1>5, <2>2 DEF TypeInv, ProviderOK
  <2>4. QED
    BY <1>1, <2>1, <2>2, <2>3 DEF TypeInv, ProviderOK
<1>17. RegistryOK' /\ StoreOK' /\ StepsOK'
  BY <1>1, <1>4, <1>14 DEF TypeInv, RegistryOK, StoreOK, StepsOK, providerVars,
                           historyVars, Known
<1>18. NothingLost'
  <2>1. \A x \in Entities \ overlapped' : HistoryKept(x)'
    BY <1>1, <1>4 DEF NothingLost, HistoryKept, historyVars
  <2>2. ASSUME NEW q \in Processes
        PROVE  UpdateCurrent(q)'
    <3>1. CASE q = u
      BY <1>4, <1>9, <1>13, <3>1 DEF UpdateCurrent
    <3>2. CASE q # u
      BY <1>1, <1>4, <1>13, <1>14, <3>2 DEF NothingLost, UpdateCurrent, historyVars
    <3>3. QED
      BY <3>1, <3>2
  <2>3. QED
    BY <2>1, <2>2 DEF NothingLost
<1>19. QED
  BY <1>15, <1>16, <1>17, <1>18 DEF IInv, TypeInv

\* A refresh takes its list of entities from the provider.
LEMMA RefreshStartKeeps ==
    ASSUME IInv, RefreshStarts
    PROVE  IInv'
<1>1. TypeInv /\ NothingLost /\ Refresher \in Processes
  BY DEF IInv, Processes
<1>2. /\ at[Refresher] = "idle" /\ todo' = Known
      /\ at' = [at EXCEPT ![Refresher] = "next"]
      /\ UNCHANGED <<versions, encoder, providerVars, sent, profile, local, historyVars>>
  BY DEF RefreshStarts
<1>3. at \in [Processes -> {"idle", "build", "next", "write"}]
  BY <1>1 DEF TypeInv, StepsOK
<1> HIDE DEF Refresher
<1>4. /\ at' \in [Processes -> {"idle", "build", "next", "write"}]
      /\ at'[Refresher] = "next"
      /\ \A q \in Processes : q # Refresher => at'[q] = at[q]
  BY <1>1, <1>2, <1>3
<1>5. CallsOK'
  BY <1>1, <1>2, <1>4 DEF TypeInv, CallsOK, CallOK
<1>6. RegistryOK' /\ ProviderOK' /\ StoreOK' /\ StepsOK'
  BY <1>1, <1>2, <1>4 DEF TypeInv, RegistryOK, ProviderOK, StoreOK, StepsOK,
                          providerVars, historyVars, Known
<1>7. NothingLost'
  <2>1. \A x \in Entities \ overlapped' : HistoryKept(x)'
    BY <1>1, <1>2 DEF NothingLost, HistoryKept, historyVars
  <2>2. ASSUME NEW q \in Processes
        PROVE  UpdateCurrent(q)'
    BY <1>1, <1>2, <1>4 DEF NothingLost, UpdateCurrent, historyVars
  <2>3. QED
    BY <2>1, <2>2 DEF NothingLost
<1>8. QED
  BY <1>5, <1>6, <1>7 DEF IInv, TypeInv

\* The registry, the processes that load from it and the provider.
LEMMA SurroundingsKeep ==
    ASSUME ProfileAssumption, IInv,
           Register \/ Arrives \/ Ages \/ \E p \in Processes : Restart(p)
    PROVE  IInv'
<1>1. TypeInv /\ NothingLost
  BY DEF IInv
<1>2. UNCHANGED <<sent, profile, at, local, todo, historyVars>>
  BY DEF Register, Arrives, Ages, Restart
<1>3. RegistryOK'
  <2>1. CASE Register
    BY <1>1, <2>1 DEF TypeInv, RegistryOK, Register
  <2>2. CASE Arrives \/ Ages
    BY <1>1, <2>2 DEF TypeInv, RegistryOK, Arrives, Ages
  <2>3. ASSUME NEW p \in Processes, Restart(p)
        PROVE  RegistryOK'
    <3>1. LoadEncoder \in Versions
      BY <1>1, LoadedIsRegistered DEF TypeInv
    <3>2. encoder' = [encoder EXCEPT ![p] = LoadEncoder] /\ versions' = versions
      BY <2>3 DEF Restart
    <3> HIDE DEF LoadEncoder
    <3>3. QED
      BY <1>1, <3>1, <3>2 DEF TypeInv, RegistryOK
  <2>4. QED
    BY <2>1, <2>2, <2>3
<1>4. /\ arrived \in [Entities -> Nat] /\ aged \in [Entities -> Nat]
      /\ sent \in [Entities -> Nat] /\ MaxRecords \in [Entities -> Nat]
      /\ \A e \in Entities :
            aged[e] <= arrived[e] /\ arrived[e] <= MaxRecords[e]
            /\ sent[e] <= MaxRecords[e]
  BY <1>1 DEF TypeInv, ProviderOK, ProfileAssumption
<1>5. ProviderOK' /\ Known \subseteq Known'
  <2>1. CASE Register \/ \E p \in Processes : Restart(p)
    BY <1>4, <2>1 DEF ProviderOK, Register, Restart, providerVars, Known
  <2>2. CASE Arrives
    <3>1. PICK e \in Entities : arrived[e] < MaxRecords[e]
                                /\ arrived' = [arrived EXCEPT ![e] = arrived[e] + 1]
      BY <2>2 DEF Arrives
    <3>2. aged' = aged /\ sent' = sent
      BY <2>2 DEF Arrives
    <3>3. /\ arrived' \in [Entities -> Nat] /\ arrived'[e] = arrived[e] + 1
          /\ \A x \in Entities : x # e => arrived'[x] = arrived[x]
      BY <1>4, <3>1
    <3>4. \A x \in Entities :
             /\ aged[x] <= arrived'[x] /\ arrived'[x] <= MaxRecords[x]
             /\ arrived[x] > 0 => arrived'[x] > 0
      BY <1>4, <3>1, <3>3
    <3>5. QED
      BY <1>4, <3>2, <3>3, <3>4 DEF ProviderOK, Known
  <2>3. CASE Ages
    <3>1. PICK e \in Entities : aged[e] < arrived[e]
                                /\ aged' = [aged EXCEPT ![e] = aged[e] + 1]
      BY <2>3 DEF Ages
    <3>2. arrived' = arrived /\ sent' = sent
      BY <2>3 DEF Ages
    <3>3. /\ aged' \in [Entities -> Nat] /\ aged'[e] = aged[e] + 1
          /\ \A x \in Entities : x # e => aged'[x] = aged[x]
      BY <1>4, <3>1
    <3>4. \A x \in Entities : aged'[x] <= arrived[x]
      BY <1>4, <3>1, <3>3
    <3>5. QED
      BY <1>4, <3>2, <3>3, <3>4 DEF ProviderOK, Known
  <2>4. QED
    BY <2>1, <2>2, <2>3
<1>6. CallsOK' /\ StoreOK' /\ StepsOK'
  BY <1>1, <1>2, <1>5 DEF TypeInv, CallsOK, CallOK, StoreOK, StepsOK, historyVars
<1>7. NothingLost'
  <2>1. \A x \in Entities \ overlapped' : HistoryKept(x)'
    BY <1>1, <1>2 DEF NothingLost, HistoryKept, historyVars
  <2>2. ASSUME NEW q \in Processes
        PROVE  UpdateCurrent(q)'
    BY <1>1, <1>2 DEF NothingLost, UpdateCurrent, historyVars
  <2>3. QED
    BY <2>1, <2>2 DEF NothingLost
<1>8. QED
  BY <1>3, <1>5, <1>6, <1>7 DEF IInv, TypeInv

LEMMA InitEstablishes ==
    ASSUME ProfileAssumption, Init
    PROVE  IInv
<1>1. RegistryOK
  <2>1. PICK v \in Versions : versions = {v}
    BY DEF Init
  <2>2. versions \in SUBSET Nat /\ IsFiniteSet(versions) /\ versions # {}
        /\ versions \subseteq Versions
    BY <2>1, FS_Singleton DEF ProfileAssumption
  <2>3. Max(versions) \in Versions
    BY <2>2, GreatestElement
  <2>4. QED
    BY <2>2, <2>3 DEF RegistryOK, Init, LoadEncoder
<1>2. CallsOK /\ StepsOK
  BY DEF Init, CallsOK, StepsOK
<1>3. ProviderOK
  BY DEF Init, ProviderOK, ProfileAssumption
<1>4. history_len \in Nat \ {0}
  BY DEF ProfileAssumption
<1>5. StoreOK
  <2>1. \A e \in Entities : <<>> \in Seq(Embeddings(e)) /\ Len(<<>>) = 0
    BY EmptySeq
  <2>2. \A e \in Entities : profile[e].history = <<>> /\ log[e] = <<>>
                            /\ profile[e].stored = FALSE
    BY DEF Init, NoProfile
  <2>3. \A e \in Entities : Len(profile[e].history) <= history_len
    BY <1>4, <2>1, <2>2
  <2>4. DOMAIN profile = Entities /\ DOMAIN log = Entities /\ overlapped = {}
    BY DEF Init
  <2>5. QED
    BY <2>1, <2>2, <2>3, <2>4 DEF StoreOK, ProfileOK
<1>6. NothingLost
  <2>1. \A e \in Entities : profile[e].history = <<>> /\ log[e] = <<>>
    BY DEF Init, NoProfile
  <2>2. Latest(<<>>, history_len) = <<>>
    BY <1>4, EmptySeq DEF Latest
  <2>3. \A p \in Processes : at[p] # "write"
    BY DEF Init
  <2>4. QED
    BY <2>1, <2>2, <2>3 DEF NothingLost, HistoryKept, UpdateCurrent
<1>7. QED
  BY <1>1, <1>2, <1>3, <1>5, <1>6 DEF IInv, TypeInv

LEMMA StepKeeps ==
    ASSUME ProfileAssumption, IInv, [Next]_vars
    PROVE  IInv'
<1>1. Refresher \in Processes /\ Updaters \subseteq Processes /\ TypeInv
  BY DEF Processes, IInv
<1>2. ASSUME NEW p \in Processes, at[p] = "build" \/ at[p] = "write"
      PROVE  local[p].entity \in Entities
  BY <1>1, <1>2 DEF TypeInv, CallsOK, CallOK
<1>3. ASSUME NEW u \in Updaters, Update(u)
      PROVE  IInv'
  BY <1>3, UpdateKeeps
<1>4. ASSUME NEW u \in Updaters, UpdateBuilds(u)
      PROVE  IInv'
  <2>1. /\ BuildFor(u, local[u].entity) /\ local[u].entity \in Entities
        /\ u \in Processes /\ todo' \subseteq todo
        /\ UNCHANGED <<versions, encoder, providerVars, sent, profile, historyVars>>
    BY <1>1, <1>2, <1>4 DEF UpdateBuilds
  <2>2. QED
    BY <2>1, BuildKeeps
<1>5. ASSUME NEW u \in Updaters, UpdateWrites(u)
      PROVE  IInv'
  <2>1. /\ at[u] = "write" /\ Write(u) /\ Returns(u, "idle") /\ u \in Processes
        /\ UNCHANGED <<versions, encoder, providerVars, sent, todo>>
    BY <1>1, <1>5 DEF UpdateWrites
  <2>2. QED
    BY <2>1, WriteKeeps
<1>6. ASSUME NEW u \in Updaters, UpdateFails(u)
      PROVE  IInv'
  <2>1. /\ Returns(u, "idle") /\ u \in Processes /\ todo' \subseteq todo
        /\ UNCHANGED <<versions, encoder, providerVars, sent, profile, historyVars>>
    BY <1>1, <1>6 DEF UpdateFails
  <2>2. QED
    BY <2>1, ReturnKeeps
<1>7. CASE RefreshStarts
  BY <1>7, RefreshStartKeeps
<1>8. CASE RefreshEnds
  <2>1. /\ Returns(Refresher, "idle") /\ todo' \subseteq todo
        /\ UNCHANGED <<versions, encoder, providerVars, sent, profile, historyVars>>
    BY <1>8 DEF RefreshEnds
  <2>2. QED
    BY <1>1, <2>1, ReturnKeeps
<1>9. ASSUME NEW e \in Entities, RefreshBuilds(e)
      PROVE  IInv'
  <2>1. /\ BuildFor(Refresher, e) /\ todo' \subseteq todo
        /\ UNCHANGED <<versions, encoder, providerVars, sent, profile, historyVars>>
    BY <1>9 DEF RefreshBuilds
  <2>2. QED
    BY <1>1, <2>1, BuildKeeps
<1>10. ASSUME NEW e \in Entities, RefreshWrites(e)
       PROVE  IInv'
  <2>1. /\ at[Refresher] = "write" /\ Write(Refresher) /\ Returns(Refresher, "next")
        /\ UNCHANGED <<versions, encoder, providerVars, sent, todo>>
    BY <1>10 DEF RefreshWrites
  <2>2. QED
    BY <1>1, <2>1, WriteKeeps
<1>11. CASE Register \/ Arrives \/ Ages \/ \E p \in Processes : Restart(p)
  BY <1>11, SurroundingsKeep
<1>12. CASE UNCHANGED vars
  <2>1. CallsOK' /\ RegistryOK' /\ ProviderOK' /\ StoreOK' /\ StepsOK'
    BY <1>1, <1>12 DEF TypeInv, CallsOK, CallOK, RegistryOK, ProviderOK, StoreOK,
                       StepsOK, Known, vars, providerVars, historyVars
  <2>2. NothingLost'
    BY <1>12 DEF IInv, NothingLost, HistoryKept, UpdateCurrent, vars, historyVars
  <2>3. QED
    BY <2>1, <2>2 DEF IInv, TypeInv
<1>13. QED
  BY <1>3, <1>4, <1>5, <1>6, <1>7, <1>8, <1>9, <1>10, <1>11, <1>12 DEF Next, Refresh

-----------------------------------------------------------------------------
(* Theorems.                                                                *)

THEOREM ProfilesStayConsistent == Spec => []IInv
<1>1. Init => IInv
  BY ProfileAssumption, InitEstablishes
<1>2. IInv /\ [Next]_vars => IInv'
  BY ProfileAssumption, StepKeeps
<1>3. QED
  BY <1>1, <1>2, PTL DEF Spec

\* Whatever refreshes, updates, failures and upgrades interleave: a profile
\* keeps at most history_len embeddings, each of records its entity has and by a
\* registered encoder, and is a cold start exactly when it has none.
THEOREM ProfileTypes == Spec => []ProfilesTypeOK
<1>1. IInv => ProfilesTypeOK
  <2> SUFFICES ASSUME TypeInv
               PROVE  ProfilesTypeOK
    BY DEF IInv
  <2>1. MaxRecords \in [Entities -> Nat]
    BY ProfileAssumption DEF ProfileAssumption
  <2>2. ASSUME NEW e \in Entities
        PROVE  /\ 0 <= aged[e] /\ aged[e] <= arrived[e] /\ arrived[e] <= MaxRecords[e]
               /\ sent[e] \in 0 .. MaxRecords[e]
    BY <2>1 DEF TypeInv, ProviderOK
  <2>3. ASSUME NEW e \in Entities
        PROVE  /\ profile[e].history \in Seq(Embeddings(e))
               /\ Len(profile[e].history) <= history_len
               /\ profile[e].stored => (profile[e].cold <=> profile[e].history = <<>>)
               /\ log[e] \in Seq(Embeddings(e))
    BY DEF TypeInv, StoreOK, ProfileOK
  <2>4. QED
    BY <2>2, <2>3 DEF ProfilesTypeOK, TypeInv, RegistryOK, StepsOK, StoreOK
<1>2. QED
  BY <1>1, ProfilesStayConsistent, PTL

\* update_profile_incremental and build_profile_for_entity take no lock: still,
\* an update is lost only when another write falls between its read and its
\* write.
THEOREM UpdatesAreKept == Spec => []UpdateLostOnlyToOverlap
<1>1. IInv => UpdateLostOnlyToOverlap
  BY DEF IInv, NothingLost, HistoryKept, UpdateLostOnlyToOverlap
<1>2. QED
  BY <1>1, ProfilesStayConsistent, PTL

=============================================================================

------------------------------ MODULE Ordering ------------------------------
(***************************************************************************)
(* Filters and stable sorts, by rank: the k-th element is the one with     *)
(* k - 1 before it.  SelectSeq and TLC's SortSeq compute the same, but say *)
(* nothing a proof could use.                                              *)
(***************************************************************************)
EXTENDS Integers, Sequences, FiniteSets

\* The elements of a finite set in their order; before[x] are those before x.
InOrder(before) ==
    [k \in 1 .. Cardinality(DOMAIN before) |->
        CHOOSE x \in DOMAIN before : Cardinality(before[x]) = k - 1]

\* What s holds at these of its positions.
Filter(s, positions) ==
    LET order == InOrder([i \in positions |-> {j \in positions : j < i}])
    IN  [k \in DOMAIN order |-> s[order[k]]]

\* ... and that sorted: of two elements neither of which is before the other
\* the first stays the first.
StableSort(s, positions, Before(_, _)) ==
    LET order == InOrder([i \in positions |->
                             {j \in positions \ {i} :
                                 IF j < i THEN ~Before(s[i], s[j]) ELSE Before(s[j], s[i])}])
    IN  [k \in DOMAIN order |-> s[order[k]]]

=============================================================================

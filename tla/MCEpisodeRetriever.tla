------------------------- MODULE MCEpisodeRetriever -------------------------
(* TLC instances of EpisodeRetriever: two bundles whose files share no path   *)
(* or all, with an old _meta.pkl at one; a margin of one.                     *)
EXTENDS EpisodeRetriever

CONSTANTS p1, p2, ea, eb, q1, q2

Layout(encoders, indexes) ==
    [v \in Versions |-> [encoder |-> encoders[v], index |-> indexes[v]]]

Apart == Layout(<<p1, p2>>, <<p1, p2>>)

ApartOnly == {Apart}

MCLayouts == {Apart, Layout(<<p1, p1>>, <<p1, p1>>)}

\* Three episodes, then five, of which the two nearest are of one entity.
Rankings == [v \in Versions |->
    [x \in Queries |-> IF v = 1 THEN <<2, 1, 3>> ELSE <<1, 3, 2, 4, 5>>]]

EntitiesOfSaves == [v \in Versions |->
    IF v = 1 THEN <<ea, eb, ea>> ELSE <<ea, eb, ea, eb, ea>>]

\* The truncated hashes of all queries are the same.
OneHash == [x \in Queries |-> 0]

FarthestMissed == {{5}}

Interchangeable == Permutations(Services) \cup Permutations(Queries)

=============================================================================

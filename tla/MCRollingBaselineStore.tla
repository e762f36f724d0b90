----------------------- MODULE MCRollingBaselineStore -----------------------
(* TLC instances of RollingBaselineStore. *)
EXTENDS RollingBaselineStore

CONSTANTS c1, c2

\* Every client was deployed with the same window_size.
Window2 == [c \in Clients |-> 2]

=============================================================================

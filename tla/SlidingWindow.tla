---------------------------- MODULE SlidingWindow ----------------------------
(***************************************************************************)
(* What the rolling baseline store promises, without Redis, retries or     *)
(* incremental statistics: a bucket IS the last Window values given to it; *)
(* a call takes effect atomically at one moment of its lifetime, or not at *)
(* all; the caller may be told of a failure although the call took effect. *)
(***************************************************************************)
EXTENDS Integers, Sequences

CONSTANTS Clients, Keys, Values, Window, Outcomes, NoCall

VARIABLES samples, call, outcome

vars == <<samples, call, outcome>>

\* The last Window elements of s.
LastOf(s) == SubSeq(s, IF Len(s) > Window THEN Len(s) - Window + 1 ELSE 1, Len(s))

Init ==
    /\ samples = [k \in Keys |-> <<>>]
    /\ call = [c \in Clients |-> NoCall]
    /\ outcome = [c \in Clients |-> <<>>]

Begin(c, k, x) ==
    /\ call[c] = NoCall
    /\ call' = [call EXCEPT ![c] = [key |-> k, value |-> x]]
    /\ UNCHANGED <<samples, outcome>>

End(c, how) ==
    /\ call[c] # NoCall
    /\ call' = [call EXCEPT ![c] = NoCall]
    /\ outcome' = [outcome EXCEPT ![c] = Append(@, how)]

\* The call takes effect.
Fold(c) ==
    /\ \E how \in {"returned", "failed"} : End(c, how)
    /\ samples' = [samples EXCEPT
          ![call[c].key] = LastOf(Append(@, call[c].value))]

\* The call ends without any effect.
GiveUp(c) ==
    /\ \E how \in Outcomes \ {"returned"} : End(c, how)
    /\ UNCHANGED samples

Next ==
    \E c \in Clients :
        \/ \E k \in Keys, x \in Values : Begin(c, k, x)
        \/ Fold(c)
        \/ GiveUp(c)

Spec == Init /\ [][Next]_vars

FairSpec == Spec /\ \A c \in Clients : WF_vars(Fold(c) \/ GiveUp(c))

=============================================================================

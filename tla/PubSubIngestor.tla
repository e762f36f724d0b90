--------------------------- MODULE PubSubIngestor ---------------------------
(***************************************************************************)
(* IngestionPipeline over pubsub_ingestor.py: a subscription holds the     *)
(* events; a pull leases some of them, and they are acknowledged together  *)
(* once all of them have been processed.  Pub/Sub delivers again whatever  *)
(* is not acknowledged before its lease ends, and an acknowledge that      *)
(* raises may have taken effect.                                           *)
(***************************************************************************)
EXTENDS IngestionPipeline, FiniteSets

VARIABLES
    connected,  \* is there a subscriber (self._subscriber)
    lease,      \* Pub/Sub: the state of each message
    ack_ids     \* poll()'s local list

pubsubVars == <<connected, lease, ack_ids>>

vars == <<pipelineVars, pubsubVars>>

LeaseStates == {"ready", "leased", "acked"}

Init ==
    /\ PipelineInit
    /\ connected = FALSE
    /\ lease = [e \in Events |-> "ready"]
    /\ ack_ids = {}

Acked == {e \in Events : lease[e] = "acked"}

Start ==
    /\ StartLoop
    /\ connected' = TRUE
    /\ UNCHANGED <<lease, ack_ids>>

Stop ==
    /\ StopLoop
    /\ connected' = FALSE
    /\ UNCHANGED <<lease, ack_ids>>

\* Mutant: messages are acknowledged as they are received.
PullAcknowledgesFirst ==
    /\ phase = "poll"
    /\ \E S \in SUBSET {e \in Events : lease[e] = "ready"} :
          /\ Cardinality(S) <= MaxPage
          /\ \E order \in SetToSeqs(S) : Fetch(order)
          /\ ack_ids' = S
          /\ lease' = [e \in Events |-> IF e \in S THEN "acked" ELSE lease[e]]
    /\ UNCHANGED connected

\* pull returns some of the messages that are ready, possibly none, in any
\* order.
Pull ==
    /\ phase = "poll"
    /\ \E S \in SUBSET {e \in Events : lease[e] = "ready"} :
          /\ Cardinality(S) <= MaxPage
          /\ \E order \in SetToSeqs(S) : Fetch(order)
          /\ ack_ids' = S
          /\ lease' = [e \in Events |-> IF e \in S THEN "leased" ELSE lease[e]]
    /\ UNCHANGED connected

\* pull raises, as it does when its timeout passes without a message.
PullRaises ==
    /\ phase = "poll"
    /\ TransportRaises(Acked)
    /\ UNCHANGED pubsubVars

\* Pub/Sub acts on an acknowledge: a message whose lease has ended may stay.
Acknowledged(S) ==
    /\ lease' = [e \in Events |-> IF e \in S THEN "acked" ELSE lease[e]]
    /\ ack_ids' = {}

\* Everything is processed: acknowledge, return the records.
Acknowledge ==
    /\ phase = "process"
    /\ \E S \in SUBSET ack_ids :
          /\ {e \in ack_ids : lease[e] = "leased"} \subseteq S
          /\ Acknowledged(S)
    /\ PollReturns
    /\ UNCHANGED connected

\* acknowledge raises, with or without effect: poll() raises with it.
AcknowledgeRaises ==
    /\ phase = "process"
    /\ ack_ids # {}
    /\ \E S \in {{}, ack_ids} :
          /\ Acknowledged(S)
          /\ TransportRaises(Acked \cup S)
    /\ UNCHANGED connected

\* poll() raises before it acknowledges anything.
ProcessMessage ==
    /\ Process(Acked)
    /\ ack_ids' = IF phase' = "flush" THEN {} ELSE ack_ids
    /\ UNCHANGED <<connected, lease>>

LeaseEnds ==
    \E e \in Events :
       /\ lease[e] = "leased"
       /\ lease' = [lease EXCEPT ![e] = "ready"]
       /\ UNCHANGED <<pipelineVars, connected, ack_ids>>

Crash ==
    /\ CrashLoop(Acked)
    /\ connected' = FALSE
    /\ ack_ids' = {}
    /\ UNCHANGED lease

Loop ==
    \/ Pull \/ PullRaises \/ Acknowledge \/ AcknowledgeRaises \/ ProcessMessage
    \/ LoopStep /\ UNCHANGED pubsubVars

Next ==
    \/ Start \/ Stop \/ Loop \/ LeaseEnds \/ Crash
    \/ (WindowElapses /\ UNCHANGED pubsubVars)

Spec == Init /\ [][Next]_vars

-----------------------------------------------------------------------------
(* Properties                                                               *)

\* Types; poll() holds ack_ids only while it works a pull off.
TypeOK ==
    /\ PipelineTypeOK
    /\ connected \in BOOLEAN
    /\ lease \in [Events -> LeaseStates]
    /\ ack_ids \subseteq Events
    /\ phase # "process" => ack_ids = {}

\* Because it acknowledges last, a poll that raises on a message loses
\* nothing: Pub/Sub delivers again whatever the poll had drained.
RaisingPollIsRetried == [][ProcessMessage => gone' = gone]_vars

\* A message Pub/Sub will not deliver again is in a batch, in memory or in the
\* dead-letter file, unless it was acknowledged by a call that raised or the
\* process died with it afterwards.
AckedIsAccounted ==
    \A e \in Acked :
       \/ Valid(e) /\ e \in batched \cup InMemory \cup gone
       \/ kind[e] = "invalid" /\ e \in ToSet(dlq)

=============================================================================

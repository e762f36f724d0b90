---------------------------- MODULE KafkaIngestor ----------------------------
(***************************************************************************)
(* IngestionPipeline over kafka_ingestor.py: one consumer of one partition *)
(* whose messages are the events 1, 2, ...  poll() drains messages one at  *)
(* a time until there is none; librdkafka commits the position in the      *)
(* background (enable.auto.commit), whatever the pipeline has done with    *)
(* the messages.                                                           *)
(***************************************************************************)
EXTENDS IngestionPipeline

VARIABLES
    open,      \* is there a consumer (self._consumer)
    position,  \* the last event delivered to the consumer
    committed  \* the broker: the last event the group has committed

kafkaVars == <<open, position, committed>>

vars == <<pipelineVars, kafkaVars>>

Init ==
    /\ PipelineInit
    /\ open = FALSE
    /\ position = 0
    /\ committed = 0       \* "earliest": a new group starts at the first event

\* A consumer that is there is kept; a new one resumes where the group is.
Start ==
    /\ StartLoop
    /\ open' = TRUE
    /\ position' = IF open THEN position ELSE committed
    /\ UNCHANGED committed

\* close() commits the position before it leaves the group, if it can.
Stop ==
    /\ StopLoop
    /\ open' = FALSE
    /\ committed' \in IF open THEN {committed, position} ELSE {committed}
    /\ UNCHANGED position

\* consumer.poll returns the next message.
PollMessage ==
    /\ position < MaxEvents
    /\ Fetch(<<position + 1>>)
    /\ position' = position + 1
    /\ UNCHANGED <<open, committed>>

\* consumer.poll returns None: the poll is over.
PollNone == PollReturns /\ UNCHANGED kafkaVars

AutoCommit ==
    /\ open
    /\ committed' = position
    /\ UNCHANGED <<pipelineVars, open, position>>

Crash ==
    /\ CrashLoop(1 .. committed)
    /\ open' = FALSE
    /\ UNCHANGED <<position, committed>>

\* What a poll that raised had drained is behind the position: it is not
\* delivered again to this consumer.
Loop ==
    \/ PollNone
    \/ (LoopStep \/ Process(Events)) /\ UNCHANGED kafkaVars

Next ==
    \/ Start \/ Stop \/ Loop \/ PollMessage \/ AutoCommit \/ Crash
    \/ (WindowElapses /\ UNCHANGED kafkaVars)

Spec == Init /\ [][Next]_vars

-----------------------------------------------------------------------------
(* Properties                                                               *)

\* Types; the group never commits what the consumer has not been given.
TypeOK ==
    /\ PipelineTypeOK
    /\ open \in BOOLEAN
    /\ position \in 0 .. MaxEvents /\ committed \in 0 .. position

\* Crashes, restarts and auto-commit together skip nothing silently: a record
\* the group has moved past is in a batch or in memory, unless its poll
\* raised or the process died with it after the commit.
CommittedIsAccounted ==
    \A e \in 1 .. committed : Valid(e) => e \in batched \cup InMemory \cup gone

=============================================================================

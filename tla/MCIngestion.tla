---------------------------- MODULE MCIngestion ----------------------------
(* One run for the three ingestors: the pipeline is built over one of them, *)
(* and the properties of IngestionPipeline are asked of all.                *)
EXTENDS IngestionPipeline

VARIABLES
    adapter,                          \* which ingestor the pipeline was given
    open, position, committed,        \* KafkaIngestor
    shard_iterator, tip, closed, from,  \* KinesisIngestor
    lease, ack_ids,                   \* PubSubIngestor
    connected                         \* Kinesis or Pub/Sub

Kafka   == INSTANCE KafkaIngestor
Kinesis == INSTANCE KinesisIngestor
PubSub  == INSTANCE PubSubIngestor

kafkaVars   == <<open, position, committed>>
kinesisVars == <<shard_iterator, tip, closed, from>>
pubsubVars  == <<lease, ack_ids>>
vars == <<pipelineVars, adapter, kafkaVars, kinesisVars, pubsubVars, connected>>

NoKafka   == open = FALSE /\ position = 0 /\ committed = 0
NoKinesis == shard_iterator = 0 /\ tip = 0 /\ closed = FALSE /\ from = 0
NoPubSub  == lease = <<>> /\ ack_ids = {}

Init ==
    \/ adapter = "kafka" /\ Kafka!Init /\ NoKinesis /\ NoPubSub /\ connected = FALSE
    \/ adapter = "kinesis" /\ Kinesis!Init /\ NoKafka /\ NoPubSub
    \/ adapter = "pubsub" /\ PubSub!Init /\ NoKafka /\ NoKinesis

KafkaVarsOnly   == UNCHANGED <<adapter, kinesisVars, pubsubVars, connected>>
KinesisVarsOnly == UNCHANGED <<adapter, kafkaVars, pubsubVars>>
PubSubVarsOnly  == UNCHANGED <<adapter, kafkaVars, kinesisVars>>

\* Bound: one redelivery, in the first start_async, or after a crash.
PubSubBound == Len(taken') <= MaxEvents + MaxStarts - starts'

Next ==
    \/ adapter = "kafka" /\ Kafka!Next /\ KafkaVarsOnly
    \/ adapter = "kinesis" /\ Kinesis!Next /\ KinesisVarsOnly
    \/ adapter = "pubsub" /\ PubSub!Next /\ PubSubBound /\ PubSubVarsOnly

Spec == Init /\ [][Next]_vars

\* One step of start_async, the poll included.
Loop ==
    \/ adapter = "kafka" /\ Kafka!Loop /\ KafkaVarsOnly
    \/ adapter = "kinesis" /\ Kinesis!Loop /\ KinesisVarsOnly
    \/ adapter = "pubsub" /\ PubSub!Loop /\ PubSubBound /\ PubSubVarsOnly

\* The coroutine is resumed, time passes, and a Kafka consumer that keeps
\* polling gets the next message of its partition.  Kinesis and Pub/Sub may
\* raise on every poll.
FairSpec ==
    /\ Spec
    /\ WF_vars(Loop)
    /\ WF_vars(WindowElapses /\ UNCHANGED <<adapter, kafkaVars, kinesisVars,
                                            pubsubVars, connected>>)
    /\ SF_vars(adapter = "kafka" /\ Kafka!PollMessage /\ KafkaVarsOnly)

-----------------------------------------------------------------------------
(* The properties of the modules, for the ingestor the pipeline was given.  *)

\* The type invariant of the module of the ingestor.
TypeOK ==
    CASE adapter = "kafka" -> Kafka!TypeOK
      [] adapter = "kinesis" -> Kinesis!TypeOK
      [] adapter = "pubsub" -> PubSub!TypeOK

\* What the service takes for consumed, by commit, iterator or acknowledgement,
\* is in a batch, in memory or a dead letter, or was lost to a raising poll or
\* to a crash.
ConsumedIsAccounted ==
    CASE adapter = "kafka" -> Kafka!CommittedIsAccounted
      [] adapter = "kinesis" -> Kinesis!PassedIsAccounted
      [] adapter = "pubsub" -> PubSub!AckedIsAccounted

\* Pub/Sub: a poll that raises on a message loses nothing.
RaisingPollIsRetried ==
    [][adapter = "pubsub" /\ PubSub!ProcessMessage => gone' = gone]_vars

\* Kafka: a pipeline nobody stops, in a process that does not die, fetches the
\* whole backlog, whatever poll() and on_batch raise.
BacklogIsRead == adapter = "kafka" /\ running ~> (position = MaxEvents \/ ~running)

=============================================================================

--------------------------- MODULE KinesisIngestor ---------------------------
(***************************************************************************)
(* IngestionPipeline over kinesis_ingestor.py: one shard whose records are *)
(* the events 1, 2, ...  start() takes an iterator at the tip of the shard *)
(* ("LATEST"); every get_records call replaces it, before the records it   *)
(* returned are looked at.  A shard that is closed (after a reshard) ends  *)
(* with a null iterator, and an iterator expires when it is not used for   *)
(* five minutes: both can only be cured by stop() and start_async.         *)
(***************************************************************************)
EXTENDS IngestionPipeline

\* None, and an iterator that AWS no longer accepts: no positions of a shard.
NoIterator == -1
Expired == -2

VARIABLES
    connected,       \* is there a client (self._client)
    shard_iterator,  \* self._shard_iterator: the last record read through it
    tip,             \* AWS: records in the shard so far
    closed,          \* AWS: has the shard been closed
    from             \* history: the tip when the iterator was obtained

kinesisVars == <<connected, shard_iterator, tip, closed, from>>

vars == <<pipelineVars, kinesisVars>>

Init ==
    /\ PipelineInit
    /\ connected = FALSE
    /\ shard_iterator = NoIterator
    /\ tip = 0
    /\ closed = FALSE
    /\ from = 0

\* A client that is there is kept, with whatever iterator it has.
Start ==
    /\ StartLoop
    /\ connected' = TRUE
    /\ IF connected
       THEN UNCHANGED <<shard_iterator, from>>
       ELSE shard_iterator' = tip /\ from' = tip
    /\ UNCHANGED <<tip, closed>>

\* get_shard_iterator raises, and start_async with it: the client stays.
StartFails ==
    /\ phase = "stopped"
    /\ ~connected
    /\ connected' = TRUE
    /\ UNCHANGED <<pipelineVars, shard_iterator, tip, closed, from>>

Stop ==
    /\ StopLoop
    /\ connected' = FALSE
    /\ shard_iterator' = NoIterator
    /\ UNCHANGED <<tip, closed, from>>

\* get_records returns what follows the iterator, possibly nothing, and the
\* next iterator, which is used from now on whatever becomes of the records.
GetRecords ==
    /\ phase = "poll"
    /\ shard_iterator \notin {NoIterator, Expired}
    /\ \E to \in shard_iterator .. tip :
          /\ to - shard_iterator <= MaxPage
          /\ Fetch([i \in 1 .. to - shard_iterator |-> shard_iterator + i])
          /\ shard_iterator' = IF closed /\ to = tip THEN NoIterator ELSE to
    /\ UNCHANGED <<connected, tip, closed, from>>

\* There is no iterator, or AWS does not accept it or throttles the call.
GetRecordsRaises ==
    /\ phase = "poll"
    /\ TransportRaises({})
    /\ UNCHANGED kinesisVars

AllProcessed ==
    /\ phase = "process"
    /\ PollReturns
    /\ UNCHANGED kinesisVars

\* AWS: a record arrives, the shard is closed, an iterator lapses while
\* on_batch takes more than five minutes.
RecordArrives ==
    /\ ~closed /\ tip < MaxEvents
    /\ tip' = tip + 1
    /\ UNCHANGED <<pipelineVars, connected, shard_iterator, closed, from>>

ShardCloses ==
    /\ ~closed
    /\ closed' = TRUE
    /\ UNCHANGED <<pipelineVars, connected, shard_iterator, tip, from>>

IteratorExpires ==
    /\ phase = "on_batch"
    /\ shard_iterator \notin {NoIterator, Expired}
    /\ shard_iterator' = Expired
    /\ UNCHANGED <<pipelineVars, connected, tip, closed, from>>

\* Nothing is delivered again: a new process starts at the tip.
Crash ==
    /\ CrashLoop(Events)
    /\ connected' = FALSE
    /\ shard_iterator' = NoIterator
    /\ UNCHANGED <<tip, closed, from>>

Loop ==
    \/ GetRecords \/ GetRecordsRaises \/ AllProcessed
    \/ (LoopStep \/ Process(Events)) /\ UNCHANGED kinesisVars

Next ==
    \/ Start \/ StartFails \/ Stop \/ Loop \/ Crash
    \/ RecordArrives \/ ShardCloses \/ IteratorExpires
    \/ (WindowElapses /\ UNCHANGED kinesisVars)

Spec == Init /\ [][Next]_vars

-----------------------------------------------------------------------------
(* Properties                                                               *)

\* Types; an iterator never points past the tip.
TypeOK ==
    /\ PipelineTypeOK
    /\ connected \in BOOLEAN /\ closed \in BOOLEAN
    /\ tip \in 0 .. MaxEvents
    /\ shard_iterator \in (from .. tip) \cup {NoIterator, Expired}
    /\ from \in 0 .. tip

\* Nothing the iterator has passed since it was obtained is skipped: a record
\* behind it is in a batch or in memory, unless its poll raised.
PassedIsAccounted ==
    shard_iterator \notin {NoIterator, Expired} =>
       \A e \in from + 1 .. shard_iterator :
          Valid(e) => e \in batched \cup InMemory \cup gone

=============================================================================

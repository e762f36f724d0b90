-------------------------- MODULE IngestionPipeline --------------------------
(***************************************************************************)
(* The poll -> accumulate -> flush cycle of phase2/ingestion: the loop of  *)
(* ingestion_pipeline.py, the buffer of batch_accumulator.py, the dead     *)
(* letters of dead_letter_writer.py and the classification of events by    *)
(* schema_validator.py.  How a poll gets its events is left to the modules *)
(* that extend this one, one per ingestor: they fetch events, the Process  *)
(* actions work them off one by one, and the poll returns or raises.       *)
(*                                                                         *)
(* The loop is a coroutine: stop() runs at its await or inside on_batch.   *)
(* A crash of the process may come between any two steps.                  *)
(***************************************************************************)
EXTENDS Integers, Sequences, SequencesExt

CONSTANTS
    MaxEvents,  \* bound: events in the stream
    MaxStarts,  \* bound: calls of start_async
    MaxTaken,   \* bound: events fetched since the process started
    MaxPage,    \* max_records_per_poll / max_messages: events per transport call
    DlqCanFail  \* can a write of the dead-letter file raise (disk full)

ASSUME PipelineAssumption ==
    /\ MaxEvents \in Nat /\ MaxStarts \in Nat /\ MaxTaken \in Nat
    /\ MaxPage \in Nat \ {0}
    /\ DlqCanFail \in BOOLEAN

\* What SchemaValidator and json.loads make of an event: a record; an event
\* they reject (malformed JSON or schema); an event on which they raise
\* something poll() does not catch, as on JSON that is not an object.
Kinds == {"valid", "invalid", "poison"}

VARIABLES
    kind,     \* the kind of each event of the stream
    phase,    \* where start_async is
    running,  \* self._running
    fetched,  \* events the transport has handed to poll(), not processed yet
    drained,  \* poll()'s local list of records
    last_poll_invalid_count,
    buffer,   \* BatchAccumulator._buffer
    n_invalid,
    elapsed,  \* has the window elapsed since the last flush
    events_received_total,
    validation_errors_total,
    dlq,      \* the dead-letter file
    emitted,  \* history: the batches handed to on_batch since the process started
    taken,    \* history: every event fetched since the process started
    pollFrom, \* history: Len(taken) when the current poll began
    lostAt,   \* history: the indices of taken whose poll raised
    batched,  \* history: events that were in a batch, in any process
    gone,     \* history: events no batch will hold: their poll raised, or they
              \* were in memory at a crash and will not be delivered again
    starts    \* calls of start_async so far

pollVars    == <<fetched, drained, last_poll_invalid_count>>
accVars     == <<buffer, n_invalid, elapsed>>
countVars   == <<events_received_total, validation_errors_total>>
historyVars == <<emitted, taken, pollFrom, lostAt, batched, gone>>
loopVars    == <<kind, running, starts>>

pipelineVars ==
    <<phase, dlq, pollVars, accVars, countVars, historyVars, loopVars>>

Events == 1 .. MaxEvents

PipelineInit ==
    /\ kind \in [Events -> Kinds]
    /\ phase = "stopped"
    /\ running = FALSE
    /\ fetched = <<>> /\ drained = <<>> /\ last_poll_invalid_count = 0
    /\ buffer = <<>> /\ n_invalid = 0 /\ elapsed = FALSE
    /\ events_received_total = 0 /\ validation_errors_total = 0
    /\ dlq = <<>>
    /\ emitted = <<>> /\ taken = <<>> /\ pollFrom = 0 /\ lostAt = {}
    /\ batched = {} /\ gone = {}
    /\ starts = 0

-----------------------------------------------------------------------------
(* start_async and stop, up to what the ingestor does.                      *)

StartLoop ==
    /\ phase = "stopped"
    /\ starts < MaxStarts
    /\ starts' = starts + 1
    /\ running' = TRUE
    /\ phase' = "await"
    /\ UNCHANGED <<kind, dlq, pollVars, accVars, countVars, historyVars>>

StopLoop ==
    /\ phase \in {"stopped", "await", "on_batch"}
    /\ running' = FALSE
    /\ UNCHANGED <<kind, starts, phase, dlq, pollVars, accVars, countVars,
                   historyVars>>

\* The while test; poll() resets its locals and its invalid count.
LoopTest ==
    /\ phase = "await"
    /\ phase' = IF running THEN "poll" ELSE "stopped"
    /\ last_poll_invalid_count' = IF running THEN 0 ELSE last_poll_invalid_count
    /\ pollFrom' = Len(taken)
    /\ UNCHANGED <<dlq, fetched, drained, accVars, countVars, emitted, taken,
                   lostAt, batched, gone, loopVars>>

-----------------------------------------------------------------------------
(* Inside poll().                                                           *)

InPoll == phase \in {"poll", "process"}

\* The transport hands events over.
Fetch(events) ==
    /\ InPoll
    /\ fetched = <<>>
    /\ Len(taken) + Len(events) <= MaxTaken
    /\ phase' = "process"
    /\ fetched' = events
    /\ taken' = taken \o events
    /\ UNCHANGED <<dlq, drained, last_poll_invalid_count, accVars, countVars,
                   emitted, pollFrom, lostAt, batched, gone, loopVars>>

\* The event poll() looks at next is of kind k.
Facing(k) == phase = "process" /\ fetched # <<>> /\ kind[Head(fetched)] = k

ProcessValid ==
    /\ Facing("valid")
    /\ drained' = Append(drained, Head(fetched))
    /\ fetched' = Tail(fetched)
    /\ UNCHANGED <<phase, dlq, last_poll_invalid_count, accVars, countVars,
                   historyVars, loopVars>>

\* Mutant: the event is counted, and nothing is written.
ProcessInvalidUnwritten ==
    /\ Facing("invalid")
    /\ last_poll_invalid_count' = last_poll_invalid_count + 1
    /\ fetched' = Tail(fetched)
    /\ UNCHANGED <<phase, dlq, drained, accVars, countVars, historyVars, loopVars>>

ProcessInvalid ==
    /\ Facing("invalid")
    /\ last_poll_invalid_count' = last_poll_invalid_count + 1
    /\ dlq' = Append(dlq, Head(fetched))
    /\ fetched' = Tail(fetched)
    /\ UNCHANGED <<phase, drained, accVars, countVars, historyVars, loopVars>>

\* Mutant: the records drained so far survive into the next poll.
RaiseKeepsDrained(settled) ==
    /\ phase' = "flush"
    /\ fetched' = <<>>
    /\ UNCHANGED <<drained, accVars, countVars, historyVars, loopVars>>

\* poll() raises: start_async logs it and goes on.  What the poll had drained
\* is in no list any more; settled are the events the transport will not
\* deliver again.
Raise(settled) ==
    LET indices == pollFrom + 1 .. Len(taken)
    IN  /\ phase' = "flush"
        /\ fetched' = <<>>
        /\ drained' = <<>>
        /\ lostAt' = lostAt \cup indices
        /\ gone' = gone \cup ({taken[i] : i \in indices} \cap settled)
        /\ UNCHANGED <<accVars, countVars, emitted, taken, pollFrom, batched,
                       loopVars>>

\* The exception escapes the except clause of poll().
PoisonRaises(settled) ==
    /\ Facing("poison")
    /\ Raise(settled)
    /\ UNCHANGED <<dlq, last_poll_invalid_count>>

\* The dead letter cannot be written.  The event has been counted by then,
\* but nobody reads the count of a poll that raised.
DeadLetterRaises(settled) ==
    /\ DlqCanFail
    /\ Facing("invalid")
    /\ Raise(settled)
    /\ last_poll_invalid_count' = last_poll_invalid_count + 1
    /\ UNCHANGED dlq

\* The transport itself raises.
TransportRaises(settled) ==
    /\ InPoll
    /\ fetched = <<>>
    /\ Raise(settled)
    /\ UNCHANGED <<dlq, last_poll_invalid_count>>

Process(settled) ==
    ProcessValid \/ ProcessInvalid \/ PoisonRaises(settled) \/ DeadLetterRaises(settled)

\* Mutant: the records replace what the accumulator holds.
PollReturnsOverwrites ==
    /\ InPoll
    /\ fetched = <<>>
    /\ phase' = "flush"
    /\ buffer' = drained
    /\ n_invalid' = n_invalid + last_poll_invalid_count
    /\ events_received_total' =
          events_received_total + Len(drained) + last_poll_invalid_count
    /\ validation_errors_total' =
          validation_errors_total + last_poll_invalid_count
    /\ drained' = <<>>
    /\ UNCHANGED <<dlq, fetched, last_poll_invalid_count, elapsed, historyVars,
                   loopVars>>

\* Mutant: every poll restarts the window.
PollReturnsRestartsWindow ==
    /\ InPoll
    /\ fetched = <<>>
    /\ phase' = "flush"
    /\ buffer' = buffer \o drained
    /\ n_invalid' = n_invalid + last_poll_invalid_count
    /\ elapsed' = FALSE
    /\ drained' = <<>>
    /\ UNCHANGED <<dlq, fetched, last_poll_invalid_count, countVars, historyVars,
                   loopVars>>

\* poll() returns: the records go into the accumulator, the counters move.
PollReturns ==
    /\ InPoll
    /\ fetched = <<>>
    /\ phase' = "flush"
    /\ buffer' = buffer \o drained
    /\ n_invalid' = n_invalid + last_poll_invalid_count
    /\ events_received_total' =
          events_received_total + Len(drained) + last_poll_invalid_count
    /\ validation_errors_total' =
          validation_errors_total + last_poll_invalid_count
    /\ drained' = <<>>
    /\ UNCHANGED <<dlq, fetched, last_poll_invalid_count, elapsed, historyVars,
                   loopVars>>

-----------------------------------------------------------------------------
(* After the poll: should_flush, flush, on_batch.                           *)

WindowElapses ==
    /\ ~elapsed
    /\ elapsed' = TRUE
    /\ UNCHANGED <<phase, dlq, pollVars, buffer, n_invalid, countVars,
                   historyVars, loopVars>>

NoFlush ==
    /\ phase = "flush"
    /\ ~elapsed
    /\ phase' = "await"
    /\ UNCHANGED <<dlq, pollVars, accVars, countVars, historyVars, loopVars>>

\* There is nothing to emit: the window starts again.
FlushNothing ==
    /\ phase = "flush"
    /\ elapsed
    /\ buffer = <<>> /\ n_invalid = 0
    /\ elapsed' = FALSE
    /\ phase' = "await"
    /\ UNCHANGED <<dlq, pollVars, buffer, n_invalid, countVars, historyVars,
                   loopVars>>

\* Mutant: the batch is emitted and stays in the buffer.
FlushKeepsBuffer ==
    /\ phase = "flush"
    /\ elapsed
    /\ buffer # <<>> \/ n_invalid # 0
    /\ Len(emitted) < MaxTaken
    /\ emitted' = Append(emitted, [records |-> buffer, n_invalid |-> n_invalid])
    /\ batched' = batched \cup ToSet(buffer)
    /\ n_invalid' = 0
    /\ elapsed' = FALSE
    /\ phase' = "on_batch"
    /\ UNCHANGED <<dlq, pollVars, buffer, countVars, taken, pollFrom, lostAt,
                   gone, loopVars>>

\* Mutant: the invalid events of this window are counted again in the next.
FlushKeepsCount ==
    /\ phase = "flush"
    /\ elapsed
    /\ buffer # <<>> \/ n_invalid # 0
    /\ emitted' = Append(emitted, [records |-> buffer, n_invalid |-> n_invalid])
    /\ batched' = batched \cup ToSet(buffer)
    /\ buffer' = <<>>
    /\ elapsed' = FALSE
    /\ phase' = "on_batch"
    /\ UNCHANGED <<dlq, pollVars, n_invalid, countVars, taken, pollFrom, lostAt,
                   gone, loopVars>>

Flush ==
    /\ phase = "flush"
    /\ elapsed
    /\ buffer # <<>> \/ n_invalid # 0
    /\ emitted' = Append(emitted, [records |-> buffer, n_invalid |-> n_invalid])
    /\ batched' = batched \cup ToSet(buffer)
    /\ buffer' = <<>>
    /\ n_invalid' = 0
    /\ elapsed' = FALSE
    /\ phase' = "on_batch"
    /\ UNCHANGED <<dlq, pollVars, countVars, taken, pollFrom, lostAt, gone,
                   loopVars>>

\* Mutant: an exception of on_batch ends the coroutine.
OnBatchEscapes ==
    /\ phase = "on_batch"
    /\ phase' \in {"await", "stopped"}
    /\ UNCHANGED <<dlq, pollVars, accVars, countVars, historyVars, loopVars>>

\* on_batch returns or raises: the loop goes on, and the batch is not kept.
OnBatchEnds ==
    /\ phase = "on_batch"
    /\ phase' = "await"
    /\ UNCHANGED <<dlq, pollVars, accVars, countVars, historyVars, loopVars>>

\* The loop outside poll().
LoopStep == LoopTest \/ NoFlush \/ FlushNothing \/ Flush \/ OnBatchEnds

InMemory == ToSet(fetched) \cup ToSet(drained) \cup ToSet(buffer)

\* The process dies: only the dead-letter file survives.  settled are the
\* events that the transport takes for consumed.
CrashLoop(settled) ==
    /\ phase # "stopped"
    /\ phase' = "stopped"
    /\ running' = FALSE
    /\ fetched' = <<>> /\ drained' = <<>> /\ last_poll_invalid_count' = 0
    /\ buffer' = <<>> /\ n_invalid' = 0 /\ elapsed' = FALSE
    /\ events_received_total' = 0 /\ validation_errors_total' = 0
    /\ emitted' = <<>> /\ taken' = <<>> /\ pollFrom' = 0 /\ lostAt' = {}
    /\ gone' = gone \cup (InMemory \cap settled)
    /\ UNCHANGED <<kind, dlq, batched, starts>>

-----------------------------------------------------------------------------
(* Properties                                                               *)

Valid(e) == kind[e] = "valid"

\* The records of the batches emitted by this process, in order.
EmittedRecords == FlattenSeq([i \in DOMAIN emitted |-> emitted[i].records])

\* Types, and where there can be anything inside poll().
PipelineTypeOK ==
    /\ kind \in [Events -> Kinds]
    /\ phase \in {"stopped", "await", "poll", "process", "flush", "on_batch"}
    /\ running \in BOOLEAN
    /\ fetched \in Seq(Events) /\ drained \in Seq(Events) /\ buffer \in Seq(Events)
    /\ last_poll_invalid_count \in Nat /\ n_invalid \in Nat
    /\ elapsed \in BOOLEAN
    /\ events_received_total \in Nat /\ validation_errors_total \in Nat
    /\ dlq \in Seq(Events) /\ taken \in Seq(Events)
    /\ emitted \in Seq([records: Seq(Events), n_invalid: Nat])
    /\ pollFrom \in Nat /\ lostAt \subseteq Nat
    /\ batched \subseteq Events /\ gone \subseteq Events
    /\ starts \in Nat
    /\ ~InPoll => fetched = <<>> /\ drained = <<>>

\* The valid events of s, in order, without those at the indices lost.
Kept(s, lost) ==
    FlattenSeq([i \in DOMAIN s |->
                   IF i \notin lost /\ Valid(s[i]) THEN <<s[i]>> ELSE <<>>])

\* Between the transport and on_batch no record is skipped, doubled or
\* reordered: emitted batches, buffer and drained list are, in this order,
\* the valid events fetched, except those of polls that raised.
RecordsAreConserved ==
    EmittedRecords \o buffer \o drained \o Kept(fetched, {}) = Kept(taken, lostAt)

\* The health counters agree with what went into batches and buffer: every
\* record and every invalid event is counted once, in one window.
CountersAgree ==
    LET inBatches == SumFunction([i \in DOMAIN emitted |-> emitted[i].n_invalid])
    IN  /\ validation_errors_total = inBatches + n_invalid
        /\ events_received_total =
              Len(EmittedRecords) + Len(buffer) + validation_errors_total

\* n_invalid: "these events themselves go to the DLQ".  What is counted as
\* invalid is in the dead-letter file, once per count.
CountedIsDeadLettered ==
    validation_errors_total + (IF InPoll THEN last_poll_invalid_count ELSE 0)
       <= Len(dlq)

\* Malformed events are dropped by the adapter, and only they: a poll that
\* raises takes no well-formed record with it.
MalformedDropsOnlyItself == \A i \in lostAt : ~Valid(taken[i])

\* A record in the buffer gets into a batch, whatever the source raises and
\* however on_batch ends, unless the loop is stopped or the process dies.
AcceptedIsEmitted == buffer # <<>> ~> (buffer = <<>> \/ phase = "stopped")

=============================================================================

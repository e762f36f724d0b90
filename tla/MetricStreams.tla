---------------------------- MODULE MetricStreams ----------------------------
(***************************************************************************)
(* The stream readers of phase0/streaming under the poll loop of           *)
(* anomaly_scoring_worker.py: several workers of one consumer group read   *)
(* one stream whose entries are 1, 2, ..., through Kafka or through a      *)
(* Redis stream.  Kafka commits the position of the consumer in the        *)
(* background and gives the partition to another member on a rebalance;    *)
(* Redis gives every entry to one consumer, keeps it pending until XACK,   *)
(* and the reader asks for new entries (">") only.  Workers stop, crash    *)
(* and are started again.  What process_point does with a point is the     *)
(* subject of AnomalyScoringWorker.                                        *)
(***************************************************************************)
EXTENDS Integers, Sequences, SequencesExt, FiniteSets

CONSTANTS
    Workers,     \* worker processes, one reader each
    MaxEntries,  \* bound: entries of the stream
    Count,       \* count of xreadgroup (500 in the code)
    MaxStarts,   \* bound: calls of run_async, and rebalances while there is an owner
    Nobody       \* the partition has no owner

ASSUME StreamsAssumption ==
    /\ MaxEntries \in Nat /\ Count \in Nat \ {0} /\ MaxStarts \in Nat
    /\ IsFiniteSet(Workers) /\ Nobody \notin Workers

\* What _parse makes of an entry: a MetricPoint, None, or an exception, as on
\* JSON that is not an object.
Kinds == {"valid", "invalid", "poison"}

VARIABLES
    backend,    \* which reader the workers were built with
    kind,       \* the kind of each entry
    pc,         \* where the run_async of each worker is
    running,    \* self._running
    open,       \* the reader: is there a consumer / self._started
    response,   \* poll(): entries xreadgroup returned, not looked at yet
    points,     \* poll()'s list, then what process_batch has still to do
    cursor,     \* Kafka: position of the owner; Redis: last entry delivered
    owner,      \* Kafka: the member that has the partition
    committed,  \* Kafka: offset of the group
    pending,    \* Redis: delivered and not acknowledged
    created,    \* Redis: is there a consumer group
    handled,    \* history: how often each entry went through process_point
    gone,       \* history: entries dropped by a poll that raised or a crash
    rewinds,    \* history: how often the partition went to another consumer
    starts      \* calls of run_async so far

workerVars  == <<pc, running, open, response, points>>
groupVars   == <<cursor, owner, committed, pending, created, rewinds>>
historyVars == <<handled, gone>>
vars == <<backend, kind, workerVars, groupVars, historyVars, starts>>

Entries == 1 .. MaxEntries

Init ==
    /\ backend \in {"kafka", "redis"}
    /\ kind \in [Entries -> Kinds]
    /\ pc = [w \in Workers |-> "down"]
    /\ running = [w \in Workers |-> FALSE] /\ open = [w \in Workers |-> FALSE]
    /\ response = [w \in Workers |-> <<>>] /\ points = [w \in Workers |-> <<>>]
    /\ cursor = 0 /\ owner = Nobody /\ committed = 0
    /\ pending = {} /\ created = FALSE
    /\ handled = [e \in Entries |-> 0] /\ gone = {} /\ rewinds = 0
    /\ starts = 0

InHand(w) == ToSet(response[w]) \cup ToSet(points[w])

Goto(w, where) == pc' = [pc EXCEPT ![w] = where]

\* The partition loses its owner, who commits its position if it still can.
Leave(w) ==
    IF backend = "kafka" /\ owner = w
    THEN owner' = Nobody /\ committed' \in {committed, cursor}
    ELSE UNCHANGED <<owner, committed>>

-----------------------------------------------------------------------------
(* run_async, stop                                                          *)

\* Mutant: the group is created again, from id 0, although it is there.
StartResetsGroup(w) ==
    /\ pc[w] = "down"
    /\ starts < MaxStarts
    /\ starts' = starts + 1
    /\ running' = [running EXCEPT ![w] = TRUE]
    /\ open' = [open EXCEPT ![w] = TRUE]
    /\ created' = (created \/ backend = "redis")
    /\ cursor' = IF backend = "redis" /\ ~open[w] THEN 0 ELSE cursor
    /\ Goto(w, "await")
    /\ UNCHANGED <<backend, kind, response, points, owner, committed, pending,
                   rewinds, historyVars>>

\* The reader is opened; xgroup_create starts a new group at id 0 and leaves
\* one that exists (BUSYGROUP) as it is.
Start(w) ==
    /\ pc[w] = "down"
    /\ starts < MaxStarts
    /\ starts' = starts + 1
    /\ running' = [running EXCEPT ![w] = TRUE]
    /\ open' = [open EXCEPT ![w] = TRUE]
    /\ created' = (created \/ backend = "redis")
    /\ Goto(w, "await")
    /\ UNCHANGED <<backend, kind, response, points, cursor, owner, committed,
                   pending, rewinds, historyVars>>

\* stop() runs at the await or in the on_score callback of process_batch.
Stop(w) ==
    /\ pc[w] \in {"await", "process"}
    /\ running' = [running EXCEPT ![w] = FALSE]
    /\ open' = [open EXCEPT ![w] = FALSE]
    /\ Leave(w)
    /\ UNCHANGED <<backend, kind, pc, response, points, cursor, pending,
                   created, rewinds, historyVars, starts>>

LoopTest(w) ==
    /\ pc[w] = "await"
    /\ Goto(w, IF running[w] THEN "poll" ELSE "down")
    /\ UNCHANGED <<backend, kind, running, open, response, points, groupVars,
                   historyVars, starts>>

-----------------------------------------------------------------------------
(* poll() and process_batch                                                 *)

\* Mutant: the try block is around the loop, not inside it.
PollRaisesOut(w, entry) ==
    /\ Goto(w, "down")
    /\ gone' = gone \cup ToSet(points[w]) \cup entry
    /\ points' = [points EXCEPT ![w] = <<>>]
    /\ response' = [response EXCEPT ![w] = <<>>]
    /\ running' = [running EXCEPT ![w] = FALSE]
    /\ UNCHANGED <<backend, kind, open, handled, starts>>

\* Mutant: the list of the poll outlives it.
PollRaisesKeepsList(w, entry) ==
    /\ Goto(w, "await")
    /\ response' = [response EXCEPT ![w] = <<>>]
    /\ UNCHANGED <<backend, kind, running, open, points, historyVars, starts>>

\* poll() raises: run_async logs it and goes on; its list is dropped.
PollRaises(w, entry) ==
    /\ Goto(w, "await")
    /\ gone' = gone \cup ToSet(points[w]) \cup entry
    /\ points' = [points EXCEPT ![w] = <<>>]
    /\ response' = [response EXCEPT ![w] = <<>>]
    /\ UNCHANGED <<backend, kind, running, open, handled, starts>>

\* _parse returned: the point, or nothing but the invalid count.
Parsed(w, e) ==
    /\ kind[e] # "poison"
    /\ points' = [points EXCEPT
          ![w] = IF kind[e] = "valid" THEN Append(@, e) ELSE @]

\* Kafka: consumer.poll returns the next message, and poll() parses it.
KafkaMessage(w) ==
    LET e == cursor + 1
    IN  /\ pc[w] = "poll" /\ owner = w
        /\ e \in Entries
        /\ cursor' = e
        /\ UNCHANGED <<owner, committed, pending, created, rewinds>>
        /\ \/ /\ Parsed(w, e)
              /\ UNCHANGED <<backend, kind, pc, running, open, response,
                             historyVars, starts>>
           \/ kind[e] = "poison" /\ PollRaises(w, {e})

\* Kafka: no message, or none for this consumer: poll() returns.
KafkaNone(w) ==
    /\ pc[w] = "poll" /\ backend = "kafka"
    /\ Goto(w, "process")
    /\ UNCHANGED <<backend, kind, running, open, response, points, groupVars,
                   historyVars, starts>>

\* Redis: entries behind the last one delivered, to this consumer alone.
XReadGroup(w) ==
    /\ pc[w] = "poll" /\ backend = "redis"
    /\ \E to \in cursor .. MaxEntries :
          /\ to - cursor <= Count
          /\ response' = [response EXCEPT
                 ![w] = [i \in 1 .. to - cursor |-> cursor + i]]
          /\ pending' = pending \cup (cursor + 1 .. to)
          /\ cursor' = to
    /\ Goto(w, "ack")
    /\ UNCHANGED <<backend, kind, running, open, points, owner, committed,
                   created, rewinds, historyVars, starts>>

\* Redis: one entry is parsed and acknowledged, before anything is processed.
ParseAndAck(w) ==
    /\ pc[w] = "ack" /\ response[w] # <<>>
    /\ Parsed(w, Head(response[w]))
    /\ response' = [response EXCEPT ![w] = Tail(@)]
    /\ pending' = pending \ {Head(response[w])}
    /\ UNCHANGED <<backend, kind, pc, running, open, cursor, owner, committed,
                   created, rewinds, historyVars, starts>>

\* Redis: a call fails, with or without effect, or _parse raises; the entries
\* not reached yet stay pending, and ">" never returns them again.
RedisRaises(w) ==
    /\ backend = "redis"
    /\ \/ pc[w] = "poll" /\ UNCHANGED pending /\ PollRaises(w, {})
       \/ /\ pc[w] = "ack" /\ response[w] # <<>>
          /\ \/ UNCHANGED pending
             \/ /\ kind[Head(response[w])] # "poison"
                /\ pending' = pending \ {Head(response[w])}
          /\ PollRaises(w, ToSet(response[w]))
    /\ UNCHANGED <<cursor, owner, committed, created, rewinds>>

AllAcked(w) ==
    /\ pc[w] = "ack" /\ response[w] = <<>>
    /\ Goto(w, "process")
    /\ UNCHANGED <<backend, kind, running, open, response, points, groupVars,
                   historyVars, starts>>

\* One point goes through process_point, which may fail: it is skipped then.
ProcessPoint(w) ==
    /\ pc[w] = "process" /\ points[w] # <<>>
    /\ points' = [points EXCEPT ![w] = Tail(@)]
    /\ handled' = [handled EXCEPT ![Head(points[w])] = @ + 1]
    /\ UNCHANGED <<backend, kind, pc, running, open, response, groupVars, gone,
                   starts>>

BatchDone(w) ==
    /\ pc[w] = "process" /\ points[w] = <<>>
    /\ Goto(w, "await")
    /\ UNCHANGED <<backend, kind, running, open, response, points, groupVars,
                   historyVars, starts>>

-----------------------------------------------------------------------------
(* The services, and crashes                                                *)

AutoCommit ==
    /\ owner # Nobody
    /\ committed' = cursor
    /\ UNCHANGED <<backend, kind, workerVars, cursor, owner, pending, created,
                   rewinds, historyVars, starts>>

\* Mutant: auto.offset.reset is "latest", and the group has no offset yet.
RebalanceLatest(w) ==
    /\ backend = "kafka" /\ open[w] /\ owner # w
    /\ owner' = w
    /\ committed' \in IF owner = Nobody THEN {committed} ELSE {committed, cursor}
    /\ cursor' = IF committed' = 0 THEN MaxEntries ELSE committed'
    /\ rewinds' = rewinds + 1
    /\ UNCHANGED <<backend, kind, workerVars, pending, created, historyVars,
                   starts>>

\* The partition goes to a member that has none.  Its owner has committed its
\* position, unless it was thrown out; the new one resumes at the offset.
Rebalance(w) ==
    /\ backend = "kafka" /\ open[w] /\ owner # w
    /\ owner # Nobody => rewinds < MaxStarts
    /\ owner' = w
    /\ committed' \in IF owner = Nobody THEN {committed} ELSE {committed, cursor}
    /\ cursor' = committed'
    /\ rewinds' = rewinds + 1
    /\ UNCHANGED <<backend, kind, workerVars, pending, created, historyVars,
                   starts>>

\* The process dies with what it has in its hands.
Crash(w) ==
    /\ pc[w] # "down"
    /\ Goto(w, "down")
    /\ running' = [running EXCEPT ![w] = FALSE]
    /\ open' = [open EXCEPT ![w] = FALSE]
    /\ response' = [response EXCEPT ![w] = <<>>]
    /\ points' = [points EXCEPT ![w] = <<>>]
    /\ gone' = gone \cup InHand(w)
    /\ owner' = IF owner = w THEN Nobody ELSE owner
    /\ UNCHANGED <<backend, kind, cursor, committed, pending, created, rewinds,
                   handled, starts>>

Loop(w) ==
    \/ LoopTest(w)
    \/ KafkaMessage(w) \/ KafkaNone(w)
    \/ XReadGroup(w) \/ ParseAndAck(w) \/ RedisRaises(w) \/ AllAcked(w)
    \/ ProcessPoint(w) \/ BatchDone(w)

Next ==
    \/ \E w \in Workers :
          Start(w) \/ Stop(w) \/ Loop(w) \/ Rebalance(w) \/ Crash(w)
    \/ AutoCommit

Spec == Init /\ [][Next]_vars

\* Workers are scheduled, the group gives the partition to a live member, and
\* a consumer that keeps polling gets what is there; Redis may fail any call,
\* but not every one.
FairSpec ==
    /\ Spec
    /\ \A w \in Workers :
          /\ WF_vars(Loop(w))
          /\ WF_vars(owner = Nobody /\ Rebalance(w))
          /\ SF_vars(KafkaMessage(w))
          /\ SF_vars(XReadGroup(w) /\ cursor' # cursor)

-----------------------------------------------------------------------------
(* Properties                                                               *)

\* Types; only the owner's consumer is ahead of the committed offset, and a
\* worker holds points only between its poll and the end of its batch.
StreamsTypeOK ==
    /\ backend \in {"kafka", "redis"} /\ kind \in [Entries -> Kinds]
    /\ pc \in [Workers -> {"down", "await", "poll", "ack", "process"}]
    /\ running \in [Workers -> BOOLEAN] /\ open \in [Workers -> BOOLEAN]
    /\ response \in [Workers -> Seq(Entries)] /\ points \in [Workers -> Seq(Entries)]
    /\ cursor \in 0 .. MaxEntries /\ committed \in 0 .. cursor
    /\ owner \in Workers \cup {Nobody} /\ pending \subseteq 1 .. cursor
    /\ created \in BOOLEAN
    /\ handled \in [Entries -> Nat] /\ gone \subseteq Entries
    /\ rewinds \in Nat /\ starts \in Nat
    /\ \A w \in Workers : pc[w] \in {"down", "await"} => InHand(w) = {}

\* Several readers of one group "each get a disjoint slice of the stream":
\* with Redis an entry is in one worker's hands or went through process_point
\* once, never both, over all stops, crashes and restarts; with Kafka each
\* further time is paid for by the partition having changed hands.
HandledOncePerDelivery ==
    \A e \in Entries :
       handled[e] + Cardinality({w \in Workers : e \in InHand(w)})
          <= IF backend = "redis" THEN 1 ELSE rewinds

\* "No backlog is ever silently dropped": a valid entry the group will not
\* give out again went through process_point or is in some worker's hands,
\* unless it was dropped by a poll that raised or by a crash.
DeliveredIsAccounted ==
    LET passed == IF backend = "redis" THEN (1 .. cursor) \ pending ELSE 1 .. committed
    IN  \A e \in passed : kind[e] = "valid" =>
           handled[e] > 0 \/ e \in gone \/ \E w \in Workers : e \in InHand(w)

\* A bad point never stops a worker: while one runs, the stream is read to
\* its end, whatever _parse, Redis and the rebalances do.
StreamIsConsumed ==
    []<>(cursor = MaxEntries \/ \A w \in Workers : ~running[w])

=============================================================================

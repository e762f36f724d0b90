------------------------------ MODULE MCEncoder ------------------------------
(* The two users of the encoder in one run: its training, and its use on     *)
(* live records.  They share the features and the vocabulary.                *)
EXTENDS ContrastiveTraining, SequenceEncoding

CONSTANTS e1, e2, e3

VARIABLE side   \* "train" or "serve"

vars == <<side, trainVars, encodeVars>>

IdleTraining ==
    /\ corpus = <<>> /\ offset = 0 /\ file = <<>> /\ job = "down"
    /\ args = [epochs |-> 0, cap |-> 0] /\ epoch = 0 /\ weights = <<>>
    /\ groups = <<>> /\ windows = <<>> /\ partial = <<>> /\ batches = <<>>
    /\ disk = [k \in 1 .. MaxEpochs |-> Absent] /\ final = Absent /\ runs = 0

IdleEncoding ==
    /\ projection = TRUE /\ user = "none" /\ stage = "loading" /\ records = <<>>
    /\ entity_ids = <<>> /\ padded = <<>> /\ lengths = <<>>
    /\ embeddings = <<>> /\ current = <<>>
    /\ index = [vectors |-> <<>>, metadata |-> <<>>]

Init ==
    \/ side = "train" /\ TrainInit /\ IdleEncoding
    \/ side = "serve" /\ EncodeInit /\ IdleTraining

Next ==
    \/ side = "train" /\ TrainNext /\ UNCHANGED <<side, encodeVars>>
    \/ side = "serve" /\ EncodeNext /\ UNCHANGED <<side, trainVars>>

Spec == Init /\ [][Next]_vars

-----------------------------------------------------------------------------
(* Instances.  A sample never lacks usable documents: the corpus would be     *)
(* synthetic then.                                                            *)

Doc(e, m, n) ==
    [entity |-> e, metric |-> m, day |-> 1, readings |-> n, expands |-> TRUE]

Broken(e, m) == [Doc(e, m, 24) EXCEPT !.expands = FALSE]

\* Two metrics of an entity around a document with too few readings; entities
\* with less than a batch of windows, of which two are kept, one of them with a
\* document that cannot be expanded; entities whose windows are spread over
\* both workers.
MixedSample == <<Doc(e1, 2, 24), Doc(e1, 1, 2), Doc(e1, 1, 24), Doc(e2, 1, 24)>>
ThinSample == <<Doc(e2, 1, 24), Broken(e1, 2), Doc(e1, 1, 24), Doc(e3, 2, 24)>>
SpreadSample == <<Doc(e1, 1, 24), Doc(e2, 1, 24), Doc(e1, 2, 24)>>

SampleSet == {MixedSample, ThinSample, SpreadSample}

\* All rows later, or the last of a full chunk before its neighbour.
JitterSet == {<<1, 1, 1, 1, 1>>, <<1, 1, 1, 1, -1>>}

Record == [entity: {e1, e2}, time: {0, 5}, metric: {1, 3}]

\* Up to SeqLen + 2 events of two entities, with a name nobody trained on.
BatchSet == UNION {[1 .. n -> Record] : n \in 1 .. SeqLen + 2}

\* One document, one shift: the rows of a window are in the order of time.
PlainSampleSet == {<<Doc(e1, 1, 24)>>}
PlainJitterSet == {<<1, 1, 1, 1, 1>>}

-----------------------------------------------------------------------------
\* "a record ingested live and a row read from aug_pairs.parquet during
\* training go through the identical encoding path" (shared/types.py): the
\* events of a training window, arriving live, are encoded as they were in
\* training.
IdenticalEncodingPath ==
    job # "augment" =>
       \A w \in AllWindows, view \in {"a", "b"} :
          LET rows == WindowRows(w, view)
          IN  EncodeEntityRecords(rows, DOMAIN rows) = [i \in DOMAIN rows |-> EncodeRow(rows[i])]

=============================================================================

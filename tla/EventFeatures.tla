---------------------------- MODULE EventFeatures ----------------------------
(***************************************************************************)
(* The features of one reading event, computed twice in this repository:   *)
(* while the training file is made and read (vm_augmentation,              *)
(* streaming_aug_pairs_dataset) and for live records (CategoricalEncoder,  *)
(* ContextEncoder).  Metric names are numbered in their lexical order and  *)
(* stand for all four categorical columns; time is counted in ticks, a     *)
(* share of a day in ticks too.  value_norm is one formula on both sides   *)
(* and is left out.                                                        *)
(***************************************************************************)
EXTENDS Ordering, SequencesExt

CONSTANTS
    Vocabulary,     \* metric names that occur in the training file
    TicksPerHour, HoursPerDay,
    SeqLen          \* events of a window (seq_len, the same on both sides)

TicksPerDay == TicksPerHour * HoursPerDay

ASSUME FeatureAssumption ==
    /\ Vocabulary \subseteq Nat /\ IsFiniteSet(Vocabulary)
    /\ {TicksPerHour, HoursPerDay, SeqLen} \subseteq Nat \ {0}

-----------------------------------------------------------------------------
(* The vocabulary and the embedding tables built from it.                   *)

\* Index 0 is shared by padding and by names the training file did not have.
Unknown == 0

Labels == InOrder([m \in Vocabulary |-> {n \in Vocabulary : n < m}])

\* The 1-based positions of the sorted names.
VocabIndex(m) ==
    IF m \in Vocabulary THEN CHOOSE i \in DOMAIN Labels : Labels[i] = m
                        ELSE Unknown

\* Mutant: the row reserved for index 0 is forgotten.
TableSizeUnpadded == Len(Labels)

TableSize == Len(Labels) + 1

-----------------------------------------------------------------------------
(* Time.                                                                    *)

\* hour_of_day as the augmentation recomputes it: minutes count.
FractionalHour(t) == t % TicksPerDay

\* hour_of_day of a live record: datetime.hour.
WholeHour(t) == ((t \div TicksPerHour) % HoursPerDay) * TicksPerHour

DayOfWeek(t) == (t \div TicksPerDay) % 7

\* The input of Time2Vec, the same on both sides.
TimestampScalar(t) == t % TicksPerDay

\* A live record, encoded.
EncodeRecord(r) ==
    [metric |-> VocabIndex(r.metric), hour |-> WholeHour(r.time),
     day |-> DayOfWeek(r.time), tau |-> TimestampScalar(r.time)]

\* A row of the training file, encoded: hour and day are columns of the file.
EncodeRow(r) ==
    [metric |-> VocabIndex(r.metric), hour |-> r.hour,
     day |-> r.day, tau |-> TimestampScalar(r.time)]

=============================================================================

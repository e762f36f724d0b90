---------------------- MODULE MCReferenceEncoderService ----------------------
(* TLC instance of ReferenceEncoderService. *)
EXTENDS ReferenceEncoderService

\* Two updates after a full build overfill a history of two embeddings.
TwoRecords == [e \in Entities |-> 2]

=============================================================================

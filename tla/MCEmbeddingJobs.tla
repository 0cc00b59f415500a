--------------------------- MODULE MCEmbeddingJobs --------------------------
(* Instances of EmbeddingJobs for TLC.                                     *)
EXTENDS EmbeddingJobs

=============================================================================

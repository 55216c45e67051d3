---------------------------- MODULE MCIngestion ----------------------------
(* Instances of Ingestion for TLC: two batches of chunks.                  *)
EXTENDS Ingestion, TLC

CONSTANTS b1, b2

MCBatches == {b1, b2}

\* The batches are alike.
Symmetry == Permutations(MCBatches)

=============================================================================

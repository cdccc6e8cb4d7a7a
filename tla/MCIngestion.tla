---------------------------- MODULE MCIngestion ----------------------------
(* Instances of Ingestion for TLC. *)
EXTENDS Ingestion, TLC

CONSTANTS live, i1, i2, x1, x2, x3

Symmetries == Permutations(Importer) \cup Permutations(Text)
=============================================================================

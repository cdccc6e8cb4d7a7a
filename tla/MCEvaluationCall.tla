-------------------------- MODULE MCEvaluationCall --------------------------
(* Instances of EvaluationCall for TLC. *)
EXTENDS EvaluationCall

CONSTANTS c1, c2, c3
=============================================================================

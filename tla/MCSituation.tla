---------------------------- MODULE MCSituation ----------------------------
(* Instances of Situation for TLC. *)
EXTENDS Situation, TLC

CONSTANTS p1, p2, p3

PostSymmetry == Permutations(Post \ Noise)
=============================================================================

---------------------------- MODULE MCVectorIndex ----------------------------
(* An instance of VectorIndex for TLC; ids and workers are only compared. *)
EXTENDS VectorIndexProps, TLC

Renaming == Permutations(Ids) \cup Permutations(Workers)
=============================================================================

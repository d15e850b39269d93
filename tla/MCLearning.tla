----------------------------- MODULE MCLearning -----------------------------
(***************************************************************************)
(* An instance of Learning for TLC.                                         *)
(***************************************************************************)
EXTENDS LearningProps, TLC

Symmetry == Permutations(Memories) \cup Permutations(Learners)
=============================================================================

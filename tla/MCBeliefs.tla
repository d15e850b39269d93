----------------------------- MODULE MCBeliefs -----------------------------
(* Instances of Beliefs for TLC. *)
EXTENDS BeliefsProps, TLC

\* Ids that are not used yet, and workers, are only compared.
Symmetry == Permutations(Beliefs \ Seeds) \cup Permutations(Workers)
=============================================================================

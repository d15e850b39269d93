--------------------------- MODULE MCStorageBackends ---------------------------
(* StorageBackends on a small instance. *)
EXTENDS StorageBackends, TLC

\* Ids are only compared.
Symmetry ==
  Permutations(Procs) \cup Permutations(Memories) \cup Permutations(Evidence)
  \cup Permutations(Repositories)
=============================================================================

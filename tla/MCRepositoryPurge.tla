-------------------------- MODULE MCRepositoryPurge --------------------------
(* An instance of RepositoryPurge for TLC; ids are only compared. *)
EXTENDS RepositoryPurgeProps, TLC

Renaming == Permutations(Ids)
=============================================================================

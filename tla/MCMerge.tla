------------------------------ MODULE MCMerge ------------------------------
(* An instance of Merge for TLC. *)
EXTENDS MergeProps, TLC

\* Memories and operations are only compared.
Symmetry == Permutations(Memories) \cup Permutations(Ops)

\* Two merges in any nesting, one of them failing, on a graph of one link; and
\* one merge over every graph of two links, with a crash and writes beside it.
MCScenes ==
  {[initially |-> {"active"}, links |-> 1, merges |-> 2, edits |-> 2, errors |-> 1,
    crashes |-> 0, threads |-> FALSE],
   [initially |-> {"active", "archived"}, links |-> 2, merges |-> 1, edits |-> 1,
    errors |-> 0, crashes |-> 1, threads |-> TRUE]}
=============================================================================

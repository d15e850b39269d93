----------------------------- MODULE MCDreaming -----------------------------
(* An instance of Dreaming for TLC: two plain notes and one derived note.  *)
(* Contents are only compared, so they may be renamed.                     *)
EXTENDS DreamingProps, TLC

Renaming == Permutations(Texts)
=============================================================================

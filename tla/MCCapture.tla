----------------------------- MODULE MCCapture ------------------------------
(***************************************************************************)
(* An instance of Capture for TLC: a commit, two versions of a report and   *)
(* two versions of a conversation that have a turn in common.               *)
(***************************************************************************)
EXTENDS CaptureProps, TLC

CONSTANTS c, r1, r2, v1, v2, q1, q2

MCIdentity == c :> "commit" @@ r1 :> "report" @@ r2 :> "report"
MCParts == c :> 1 @@ r1 :> 2 @@ r2 :> 0
MCSays == v1 :> <<{}, {q1, q2}>> @@ v2 :> <<{q1}, {}>>

Scene(what, together, n, errors, removed) ==
  [what |-> what, together |-> together, runs |-> n, faults |-> errors, removals |-> removed]

MCScenes ==
  { Scene({c, r1, r2}, FALSE, 4, 2, 0), Scene({c, r1, r2}, TRUE, 4, 1, 0),
    Scene({v1}, FALSE, 3, 2, 1), Scene({v1, v2}, FALSE, 3, 1, 0),
    Scene({v1, v2}, TRUE, 2, 1, 0), Scene({v2, c}, TRUE, 2, 1, 0) }

Symmetry == Permutations(Procs)
=============================================================================

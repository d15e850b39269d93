---------------------------- MODULE MCServerLife ----------------------------
(* The instance of ServerLife for TLC: two data directories whose servers share an endpoint and  *)
(* a graph, and three processes, as many as a supervisor and its workers are.                    *)
EXTENDS ServerLife, TLC

Symmetry == Permutations(Pids) \cup Permutations(Dirs)
=============================================================================

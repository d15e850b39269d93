SPECIFICATION StoresSpec
CONSTANTS
  Procs = {p1, p2}
  Memories = {m1, m2}
  Evidence = {e1, e2}
  FewEvidence = {f1}
  Nonces = {n1}
  Repositories = {r1, r2}
  Copies = {d1}
  MaxCreated = 1
  Blank = Blank
  Unscoped = Unscoped
  Absent = Absent
SYMMETRY Symmetry
INVARIANTS RefusedForLeftoversOnly OldStoresKept
PROPERTY PurgeLeavesNothing
CHECK_DEADLOCK FALSE

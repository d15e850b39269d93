SPECIFICATION Spec
CONSTANTS
  Procs = {p1, p2}
  c = c
  r1 = r1
  r2 = r2
  v1 = v1
  v2 = v2
  q1 = q1
  q2 = q2
  Sources = {c, r1, r2}
  Identity <- MCIdentity
  Parts <- MCParts
  Texts = {v1, v2}
  Turns = 2
  Quotes = {q1, q2}
  Says <- MCSays
  None = None
  Scenes <- MCScenes
SYMMETRY Symmetry
CHECK_DEADLOCK FALSE
INVARIANTS
  EntriesHonest
  EvidenceOfItsText
  StoredOnce
  RetryCompletes

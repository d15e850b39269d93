SPECIFICATION Spec
CONSTANTS
  Ids = {a, b}
  Workers = {v, w}
  Limit = 2
  None = None
  MaxWrites = 3
  MaxFaults = 2
SYMMETRY Renaming
INVARIANTS SearchFinds ServesLive IndexFollows

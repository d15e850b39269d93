SPECIFICATION BeliefsSpec
CONSTANTS
  Beliefs = {b1, b2, b3}
  b1 = b1 b2 = b2 b3 = b3
  Seeds = {b1}
  Workers = {w1, w2}
  w1 = w1 w2 = w2
  NoBelief = NoBelief
  MaxMoves = 2
  MaxFaults = 1
SYMMETRY Symmetry
PROPERTIES RevisionSettles RevokedFirst
CHECK_DEADLOCK FALSE

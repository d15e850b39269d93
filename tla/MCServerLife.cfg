SPECIFICATION ServerSpec
CONSTANTS
  Pids = {p1, p2, p3}
  Dirs = {d1, d2}
  Kinds = {"direct", "bare", "multi", "reload", "local", "maintenance"}
  Workers = 2
  MaxKills = 1
  None = None
SYMMETRY Symmetry
INVARIANTS OneWriter TokenNamesServer NoGap
PROPERTIES OneCyclePerDue
CHECK_DEADLOCK FALSE

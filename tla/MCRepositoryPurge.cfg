SPECIFICATION PurgeSpec
CONSTANTS
  Ids = {a, b, c}
  NoWrite = NoWrite
  Stored = Stored
SYMMETRY Renaming
INVARIANTS WritesExcluded
PROPERTIES TruthfulReport

SPECIFICATION Spec
CONSTANTS
  Ids = {a, b, c}
  Texts = {x, y}
  Derived = {c}
  Expired = {c}
  Related = {a}
  DecayEnabled = TRUE
  None = None
  Elsewhere = Elsewhere
  MaxRuns = 2
  MaxWrites = 2
SYMMETRY Renaming
PROPERTIES UndoIsInverse MergesExactCopies NotReapplied

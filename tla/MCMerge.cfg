SPECIFICATION Spec
CONSTANTS
  Memories = {m1, m2, m3}
  Ops = {o1, o2}
  NoMemory = NoMemory
  NoOp = NoOp
  Scenes <- MCScenes
SYMMETRY Symmetry
INVARIANTS MemoriesRestored GraphKept
PROPERTIES UndoNewestFirst UndoOverwritesNothing
CHECK_DEADLOCK FALSE

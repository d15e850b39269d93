SPECIFICATION Spec
CONSTANTS
  Memories = {m1, m2, m3}
  Learners = {l1, l2}
  Channels = {"cli", "http"}
  None = None
  MaxFaults = 1
  MaxEdits = 2
  MaxCalls = 3
  MaxEvents = 4
  MaxSources = 1
  Patched = {"active", "superseded"}
  MaxFields = 1
SYMMETRY Symmetry
CHECK_DEADLOCK FALSE
INVARIANTS
  NoLaundering
  ContradictionKept
  OneSideStands

SPECIFICATION Spec
CONSTANTS
  Mems <- MCMems
  Layers <- MCLayers
  RecallLayers = 2
  Limits = {1, 2}
  Scenes <- MCScenes
  DirectLimit = 3
  DirectCut = 3
  CorpusLimit = 4
  FirstSeeds = 1
  MaxSeeds = 2
  Iterations = 6
  GraphReach = 2
  RetrievalWindow = 2
  MaxAdmissions = 1
  InjectLimit = 4
  MinCorpus = 5
  MaxMemories = 2
  MaxChars = 5
CHECK_DEADLOCK FALSE
INVARIANTS
  GraphOnlyAdds
  InjectsWhatFits
PROPERTIES
  Fills

SPECIFICATION Spec
CONSTANTS
  Handler = {h1, h2}
  Window = 1
  Threshold = 2
  Batch = 1
  MinMessages = 1
  AnalysisBatch = 2
  MinSample = 1
  Limit = 1
  MaxMessages = 4
  MaxForced = 1
  None = None
SYMMETRY Symmetry
INVARIANTS
  PromptsSound
  PagesCoverHistory
  AnalyzedBounded
CHECK_DEADLOCK FALSE

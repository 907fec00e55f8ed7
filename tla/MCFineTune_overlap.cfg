SPECIFICATION Spec
CONSTANTS
  Job = {j1, j2}
  Handler = {h1}
  Keep = 1
  Threshold = 1
  MaxRows = 3
  MaxMessages = 1
  MaxCrashes = 1
  None = None
SYMMETRY Symmetry
INVARIANTS
  VersionsInv
  PruneKeepsNewest
CHECK_DEADLOCK FALSE

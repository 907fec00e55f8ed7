SPECIFICATION FairSpec
CONSTANTS
  Job = {j1}
  Handler = {h1}
  Keep = 1
  Threshold = 1
  MaxRows = 1
  MaxMessages = 0
  MaxCrashes = 1
  None = None
PROPERTY
  JobSettles
CHECK_DEADLOCK FALSE

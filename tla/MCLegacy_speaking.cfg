SPECIFICATION LegacySpec
CONSTANTS
  Activators = {a1}
  Pass = Pass
  Days = 1
  MaxDay = 3
  MaxConfigure = 1
INVARIANT OnlyWhenInactive
CHECK_DEADLOCK FALSE

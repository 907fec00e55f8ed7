SPECIFICATION Spec
CONSTANTS
  Owner = {o1}
  Worker = {w1, w2}
  Request = {r1}
  Period = 1
  MaxSubs = 1
  MaxInvoices = 0
  MaxFaults = 1
  MaxCount = 3
  MaxDay = 3
  None = None
SYMMETRY WorkersAlike
INVARIANTS
  RepeatsExplained
  OffStopsCharges
CHECK_DEADLOCK FALSE

SPECIFICATION Spec
CONSTANTS
  Owner = {o1}
  Worker = {w1, w2}
  Request = {r1}
  Period = 1
  MaxSubs = 1
  MaxInvoices = 0
  MaxFaults = 0
  MaxCount = 3
  MaxDay = 4
  None = None
INVARIANT ChargesSpaced
CHECK_DEADLOCK FALSE

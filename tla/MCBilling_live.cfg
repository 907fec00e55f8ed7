SPECIFICATION FairSpec
CONSTANTS
  Owner = {o1}
  Worker = {w1}
  Request = {r1}
  Period = 1
  MaxSubs = 1
  MaxInvoices = 1
  MaxFaults = 1
  MaxCount = 3
  MaxDay = 2
  None = None
CHECK_DEADLOCK FALSE
INVARIANTS TypeOK PaidKept
PROPERTY OverdueIsSettled

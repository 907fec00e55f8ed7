SPECIFICATION FairSpec
CONSTANTS
  p = p
  a = a
  e1 = e1
  Instances = {p, a}
  Entries = {e1}
  Thread = th
  Rule = ru
  Models = {m1}
  Api = {p, a}
  Home = p
  Requests <- MCRequests
  Starts <- MCStarts
  Window = 0
  Timeout = 0
  MaxClock = 2
  None = None
INVARIANTS SyncInv
PROPERTIES DeliverySpec OfflineComesBack
CHECK_DEADLOCK FALSE

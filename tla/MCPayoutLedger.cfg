SPECIFICATION Spec
CONSTANTS
  e1 = e1  e2 = e2  n1 = n1  n2 = n2
  a = a  b = b  p = p  x = x  y = y  rec = rec
  Namespaces = {n1, n2}
  Namespace = n1
  Mint = "mint"
  Decimals = 6
  Record = rec
  RecordRent = 2
  PooledLabels = {"rewards_pool"}
  Allocations <- MCAllocations
  BPS_DENOMINATOR = 4
  Events = {e1, e2}
  Requests <- MCRequests
  Landings <- MCLandings
INVARIANTS LedgerFollowsChain PoolsConserved OwnReconciles PaidAsAsked
CHECK_DEADLOCK FALSE

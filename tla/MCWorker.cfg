SPECIFICATION FairSpec
CONSTANTS
  w1 = w1
  w2 = w2
  e1 = e1
  n1 = n1
  n2 = n2
  r1 = r1
  r2 = r2
  Workers = {w1}
  Events = {e1}
  Configs <- OneConfig
  MaxAttempts = 2
  ValidFor = 1
  Foreign <- AllContents
  Disciplines <- OneCurrent
INVARIANTS TypeOK NothingUnaccounted LedgerMatchesChain
PROPERTIES RetryIsSafe DecisionsStand ImplementsPromise EventuallySettled
CHECK_DEADLOCK FALSE

SPECIFICATION Spec
CONSTANTS
  w1 = w1
  w2 = w2
  e1 = e1
  n1 = n1
  n2 = n2
  r1 = r1
  r2 = r2
  Workers = {w1}
  Events = {e1}
  Configs <- Reconfigured
  MaxAttempts = 2
  ValidFor = 1
  Foreign <- SameRate
  Disciplines <- CurrentAlone
INVARIANTS SettledOnce
PROPERTIES RetryIsSafe ImplementsPromise
CHECK_DEADLOCK FALSE

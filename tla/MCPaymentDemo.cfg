SPECIFICATION Spec
CONSTANTS
  r1 = r1
  r2 = r2
  Runs = {r1, r2}
  Settings <- MCSettings
  Timeout = 3
  Poll = 2
  MaxElapsed = 4
INVARIANTS VerdictsAreTrue WalletsReused
PROPERTIES RefusalsExplained EveryRunEnds
CHECK_DEADLOCK FALSE

SPECIFICATION Spec
CONSTANTS
  BPS_DENOMINATOR = 6
  Amounts <- MCAmounts
  BpsVectors <- MCBpsVectors
  MAX_U64 = 15
  MAX_U128 = 90
INVARIANTS NoUnderflow Conservation RoundingBounds MatchesReference
CHECK_DEADLOCK FALSE

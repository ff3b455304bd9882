SPECIFICATION CodecSpec
CONSTANTS
  BPS_DENOMINATOR = 4
  Base = 4
  Key = 1
  AmountBytes = 1
  BpsBytes = 2
  MaxShares = 2
  Tags = {0, 1, 2, 3, 4, 5, 6, 7}
  Longest = 9
INVARIANTS SameReading SdkSpeaksProgram AccountsAgree
CHECK_DEADLOCK FALSE

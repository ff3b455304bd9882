SPECIFICATION HistorySpec
CONSTANTS
  PageSize = 3
  BatchSize = 2
  MaxSignatures = 4
  Longest = 5
INVARIANTS SnapshotRead FoundIsCreator
CHECK_DEADLOCK FALSE

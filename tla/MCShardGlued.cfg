CONSTANTS
  Record = {r1, r2}
  Garbage = Garbage
  Empty = Empty
  Torn = Torn
  NoRecord = NoRecord
  MaxRecords = 3
SPECIFICATION Spec
INVARIANT NeverUnreadable
CHECK_DEADLOCK FALSE

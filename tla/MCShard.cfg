CONSTANTS
  Record = {r1, r2}
  Garbage = Garbage
  Empty = Empty
  Torn = Torn
  NoRecord = NoRecord
  MaxRecords = 4
SPECIFICATION Spec
INVARIANTS TypeOK DamageIsOneLine ResumeViewMatchesFile ReaderNeverMisled
PROPERTY ImplementsLog
CHECK_DEADLOCK FALSE

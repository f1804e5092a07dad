CONSTANTS
  MaxSheetRows = 3
  MaxSheetColumns = 3
  MaxSheetCells = 4
  MaxEvents <- Bounds
  MaxHtmlBytes = 4
  MaxRecords = 2
  MaxTables = 2
  MaxOutput = 18
  MaxMailParts = 4
  MaxMailDepth = 2
  MaxMailBytes = 2
  MaxRows = 2
  MaxRowBytes = 3
  MaxInflated = 1
  MaxXmlDepth = 3
  MaxXmlEvents = 8
  MaxBoxes = 4
  MaxSeconds = 2
  Priming = 1
  MaxDecoded = 8
  Kind <- MCKind
  Link <- MCLink
  Shared <- MCShared
SPECIFICATION Spec
INVARIANTS
  SheetsMarkHidden
  TextIsFaithful
  MailIsAccounted
  RowsAreComplete
  TranscriptIsWhole
  EveryFileHasOneRoute
CHECK_DEADLOCK FALSE

CONSTANTS
  ND = 2
  NP = 2
  DivKey <- Distinct
  PathKey <- Distinct
  None = None
  TextValue = {t1, t2}
  Shipped = {2}
  Presence <- Presences
  MaxRules = 2
  MaxRuns = 2
  MaxInputs = 2
  Mishaps = {"kill", "damage", "delete"}
  MaxMishaps = 1
SYMMETRY Texts
SPECIFICATION Spec
INVARIANTS TypeOK SidecarShips ShipsOneMoment VerifiedIsPackaged MergedIsUnion UndamagedMerges
PROPERTY QuietDivisionShips
CHECK_DEADLOCK FALSE

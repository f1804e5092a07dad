CONSTANTS
  ND = 2
  NP = 2
  DivKey <- Distinct
  PathKey <- Distinct
  None = None
  TextValue = {t1, t2}
  Shipped = {2}
  Presence <- Both
  MaxRules = 2
  MaxRuns = 2
  MaxInputs = 2
  Mishaps = {"delete"}
  MaxMishaps = 1
SYMMETRY Texts
SPECIFICATION Spec
PROPERTY RerunShips
CHECK_DEADLOCK FALSE

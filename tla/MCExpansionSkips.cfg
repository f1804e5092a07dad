CONSTANTS
  RootMayHold = {"t1", "v1", "v2", "deep"}
  NeighbourMayHold = {Absent}
  Absent = Absent
  None = None
  Refused = Refused
  Name <- MCName
  Content <- MCContent
  Key <- MCKey
  Rank <- MCRank
  Walk <- MCWalk
  MayHold <- MCMayHold
  Kind <- MCKind
  Members <- MCMembers
  Size <- MCSize
  Declared <- MCDeclared
  Converts <- MCConverts
  LegOutcome <- MCLegOutcome
  LegName <- MCLegName
  CollisionName <- MCCollisionName
  MaxDepth = 1
  MaxExpanded = 4
  MaxMember = 2
  Disturbances = {"edit", "kill", "append", "damage"}
  MaxDisturbances = 4
SPECIFICATION Spec
INVARIANT SkipMeansComplete
CHECK_DEADLOCK FALSE

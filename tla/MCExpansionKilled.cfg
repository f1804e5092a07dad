CONSTANTS
  RootMayHold = {"v1", "v2"}
  NeighbourMayHold = {Absent}
  Absent = Absent
  None = None
  Refused = Refused
  Name <- MCName
  Content <- MCContent
  Key <- MCKey
  Rank <- MCRank
  Walk <- MCWalk
  MayHold <- MCMayHold
  Kind <- MCKind
  Members <- MCMembers
  Size <- MCSize
  Declared <- MCDeclared
  Converts <- MCConverts
  LegOutcome <- MCLegOutcome
  LegName <- MCLegName
  CollisionName <- MCCollisionName
  MaxDepth = 1
  MaxExpanded = 4
  MaxMember = 2
  Disturbances = {"edit", "kill"}
  MaxDisturbances = 2
SPECIFICATION Spec
INVARIANT SafeToKill
CHECK_DEADLOCK FALSE

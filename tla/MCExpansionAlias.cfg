CONSTANTS
  RootMayHold = {"alias1", "alias2"}
  NeighbourMayHold = {Absent}
  Absent = Absent
  None = None
  Refused = Refused
  Name <- MCName
  Content <- MCContent
  Key <- MCKey
  Rank <- MCRank
  Walk <- MCWalk
  MayHold <- MCMayHold
  Kind <- MCKind
  Members <- MCMembers
  Size <- MCSize
  Declared <- MCDeclared
  Converts <- MCConverts
  LegOutcome <- MCLegOutcome
  LegName <- MCLegName
  CollisionName <- MCCollisionName
  MaxDepth = 1
  MaxExpanded = 4
  MaxMember = 2
  Disturbances = {"edit"}
  MaxDisturbances = 1
SPECIFICATION Spec
INVARIANT AliasesAreRefused
CHECK_DEADLOCK FALSE

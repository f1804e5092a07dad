CONSTANTS
  RootMayHold = {"t1", "junk", "link", "inner", "v1", "v2", "quine", "wrap", "deep", "over", "bad", "huge", "pics", "image", "blank", "torn", "vector", Absent}
  NeighbourMayHold = {Absent, "t1"}
  Absent = Absent
  None = None
  Refused = Refused
  Name <- MCName
  Content <- MCContent
  Key <- MCKey
  Rank <- MCRank
  Walk <- MCWalk
  MayHold <- MCMayHold
  Kind <- MCKind
  Members <- MCMembers
  Size <- MCSize
  Declared <- MCDeclared
  Converts <- MCConverts
  LegOutcome <- MCLegOutcome
  LegName <- MCLegName
  CollisionName <- MCCollisionName
  MaxDepth = 1
  MaxExpanded = 4
  MaxMember = 2
  Disturbances = {"edit", "kill", "append", "damage", "provider"}
  MaxDisturbances = 2
SPECIFICATION Spec
INVARIANTS TypeOK SubtreeIntact DroppedAreRetired ChildrenAreRecorded NoSelfNesting
CHECK_DEADLOCK FALSE

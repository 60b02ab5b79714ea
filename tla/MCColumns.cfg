SPECIFICATION Spec
CONSTANTS
  Types <- Structs
  Root = "R"
  Environments <- Declared
INVARIANTS
  DescentBounded
  FollowsTheRule
  NothingLost
  NoneHidden
CHECK_DEADLOCK FALSE

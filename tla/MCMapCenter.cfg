SPECIFICATION Spec
CONSTANTS
  Size = 8
  Grain = 2
  HashGrain = 4
  Zooms = {1, 2}
  CenterValues <- MCCenterValues
  Pages <- MCPages
  Undefined = Undefined
  NaN = NaN
  MaxObjects = 2
  MaxInputs = 3
CHECK_DEADLOCK FALSE
INVARIANTS TypeOK InSync DiscoveryIsHeard
PROPERTIES MoveEndKeepsView Settles

SPECIFICATION FairSpec
CONSTANTS
  a = a
  main = main
  other = other
  o = o
  Ids = {a}
  Maps = {main, other}
  PageMap = main
  OtherMaps = {other}
  OtherRequests = {o}
  Resizes = {"opened", "reopened"}
  Requests <- MCRequests
  Undefined = Undefined
  NoMap = NoMap
  MaxMoves = 3
CHECK_DEADLOCK FALSE
INVARIANTS TypeOK ServerKnowsWindow
PROPERTIES KeepsRegistry OpenedIsTold

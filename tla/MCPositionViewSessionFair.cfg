SPECIFICATION FairSpec
CONSTANTS
  t1 = t1
  t2 = t2
  Tabs <- MCTabs
  Pool = 2
  ResizeAt = 1
  MaxMoves = 1
  MaxReports = 1
PROPERTY MovedIsServed

SPECIFICATION Spec
CONSTANTS
  t1 = t1
  t2 = t2
  Tabs <- MCTabs
  Pool = 2
  ResizeAt = 1
  MaxMoves = 2
  MaxReports = 2
SYMMETRY TabSymmetry
INVARIANTS TypeOK ViewportFindsView LastViewportWins ToldIsShown
PROPERTY MapIsNeverReplaced

SPECIFICATION Spec
CONSTANTS
  t1 = t1
  t2 = t2
  v1 = v1
  v2 = v2
  Threads = {t1, t2}
  Vessels = {v1, v2}
  Positions <- ConcurrentPositions
  Viewports <- ConcurrentViewports
  MaxMessages = 3
  MaxViewports = 2
SYMMETRY MCSymmetry
INVARIANTS AgreesWithClient CacheCoherent ComparedInView Faithful
PROPERTY NoRedundantMessage

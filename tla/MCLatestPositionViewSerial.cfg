SPECIFICATION Spec
CONSTANTS
  t1 = t1
  t2 = t2
  v1 = v1
  v2 = v2
  Threads = {t1}
  Vessels = {v1, v2}
  Positions <- SerialPositions
  Viewports <- MCViewports
  MaxMessages = 3
  MaxViewports = 3
INVARIANT Faithful

SPECIFICATION Spec
CONSTANTS
  a = a
  v1 = v1
  v2 = v2
  n1 = n1
  n2 = n2
  u = u
  none = none
  Ids = {a}
  Vessels = {v1, v2}
  Unresolved = none
  Timestamps = {1}
  Timeout = 1
  Names = {n1, n2}
  UnknownNames = {}
  ResizeAt = 12
  MaxReports = 2
  MaxProfiles = 2
  MaxViews = 2
  MaxClock = 0
  MaxReassigned = 1
INVARIANT OneIdentity

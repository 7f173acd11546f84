SPECIFICATION FairSpec
CONSTANTS
  a = a
  v1 = v1
  v2 = v2
  n1 = n1
  n2 = n2
  u = u
  none = none
  Ids = {a}
  Vessels = {v1}
  Unresolved = none
  Timestamps = {1, 2}
  Timeout = 1
  Names = {n1}
  UnknownNames = {u}
  ResizeAt = 2
  MaxReports = 2
  MaxProfiles = 2
  MaxViews = 2
  MaxClock = 1
  MaxReassigned = 0
INVARIANTS TypeOK HeldViewsAreServed ViewsHaveNewest
PROPERTIES NeverBackInTime EveryReportFinishes

SPECIFICATION Spec
CONSTANTS
  Kinds = {"ais", "vms"}
  Vessels = {1}
  Ids = {10, 11}
  IdsOf <- MCIdsOf
  MaxTime = 3
  ChangeCount = 1
  MaxReports = 2
INVARIANT TrackIsExact

SPECIFICATION Spec
CONSTANTS
  Kinds = {"ais"}
  Vessels = {1, 2}
  Ids = {10, 11, 20, 21}
  IdsOf <- MCIdsOf
  MaxTime = 3
  ChangeCount = 2
  MaxReports = 2
INVARIANTS TypeOK TrackIsExact StoresAgree LatestVesselIsReporter

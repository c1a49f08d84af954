CONSTANTS
  Req = {1, 2, 3}
  Invalid = {3}
  UserOf <- MCUserOf
  RegionOf <- MCRegionOf
  DeltaOf <- MCDeltaOf
  Calendar <- MCCalendar
  MaxNow = 2
  MaxFaults = 2
SPECIFICATION Spec
INVARIANTS TypeOK MirrorAgrees ReplayNeverAhead OkMeansScored OneInstant ExactWithoutFaults
CHECK_DEADLOCK FALSE

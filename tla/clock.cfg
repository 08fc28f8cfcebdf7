SPECIFICATION Spec
CONSTANTS
  Caller = {main, g1}
  Main = main
  Server = {n1, n2, n3, n4}
  Offset <- FewOffsets
  RoundTrip = {1, 2}
  Considered = 3
  MaxOffset = 1
  Failed = Failed
  Polls <- SomePolls
SYMMETRY Symmetry
INVARIANT TypeOK
INVARIANT MinorityCannotSteer
INVARIANT OffsetFromFastServers
INVARIANT UsedServersAgree
INVARIANT OutOfSyncCaught
INVARIANT RecentMeansCalibrated
INVARIANT StampsAreCalibrated
CHECK_DEADLOCK FALSE

SPECIFICATION Spec
CONSTANTS
  DataLens <- MCDataLens
  Looks <- MCLooks
  Heads <- MCHeads
  Lists <- MCLists
  ObjectLists <- MCObjectLists
  Sums <- MCSums
  Cuts <- MCCuts
INVARIANT TypeOK
INVARIANT RoundTrip
INVARIANT NoOverread
INVARIANT CutInventsNothing
INVARIANT LegacyUnderstood
CHECK_DEADLOCK FALSE

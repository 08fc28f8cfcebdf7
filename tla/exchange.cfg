SPECIFICATION Spec
CONSTANTS
  Width = 6
  Slots = 3
  Clocks <- NearClocks
  Start = 6
  MaxSecond = 12
  MaxTransit = 2
  MaxFaults = 3
CONSTRAINT FewOddities
INVARIANT TypeOK
INVARIANT LossNotHidden
INVARIANT LossNotInvented
INVARIANT QuietLinkShowsOnlySkew
INVARIANT LatencyRecovers
CHECK_DEADLOCK FALSE

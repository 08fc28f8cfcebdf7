SPECIFICATION Spec
CONSTANTS
  Slots = 3
  Worker = {w1, w2}
  Info = {a, b}
  NoInfo = NoInfo
  Torn = Torn
  MaxReceived = 5
SYMMETRY Symmetry
INVARIANT StrayIndexIsFatal
INVARIANT RingHeals
INVARIANT LastPingIsTip
INVARIANT RingIsLatest
PROPERTY ImplementsLog
CHECK_DEADLOCK FALSE

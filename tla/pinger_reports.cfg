SPECIFICATION Spec
CONSTANTS
  Hosts = 2
  Day = 5
  Word = 8
  Timeout = 2
  MaxDelay = 3
  MaxStray = 1
INVARIANT TypeOK
INVARIANT ExactWithinADay
PROPERTY EveryHostReported

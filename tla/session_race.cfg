SPECIFICATION Spec
CONSTANTS
  c = c
  s = s
  Node = {c, s}
  Peering <- OneWay
  SessionID = {i1}
  Worker = {w1, w2}
  NoSession = NoSession
  NoAddr = NoAddr
  IdleLimit = 1
  HandshakeLimit = 1
  HandshakeGrace = 0
  SenderGrace = 0
  Old = 2
  MaxRestarts = 1
  MaxInFlight = 2
CONSTRAINT AtMostTwoHandlers
SYMMETRY Symmetry
INVARIANT TypeOK
INVARIANT SenderHasPeer
INVARIANT OneSenderPerSession
INVARIANT UnconfirmedNeverMeasured

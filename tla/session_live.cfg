SPECIFICATION FairSpec
CONSTANTS
  c = c
  s = s
  Node = {c, s}
  Peering <- OneWay
  SessionID = {i1}
  Worker = {w1}
  NoSession = NoSession
  NoAddr = NoAddr
  IdleLimit = 1
  HandshakeLimit = 1
  HandshakeGrace = 0
  SenderGrace = 0
  Old = 2
  MaxRestarts = 0
  MaxInFlight = 1
PROPERTY DialerRecovers
PROPERTY OrphanSenderStops

SPECIFICATION FairSpec
CONSTANTS
  c = c
  s = s
  Node = {c, s}
  Peering <- OneWay
  SessionID = {i1}
  Worker = {w1}
  NoSession = NoSession
  NoAddr = NoAddr
  IdleLimit = 0
  HandshakeLimit = 0
  HandshakeGrace = 0
  SenderGrace = 0
  Old = 1
  MaxRestarts = 0
  MaxInFlight = 1
PROPERTY ActivationStartsSender

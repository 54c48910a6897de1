SPECIFICATION Spec
CONSTANTS
  Keys = {k1, k2}
  Channels = {ch1}
  NoKey = NoKey
  NoChannel = NoChannel
  Conns = {c1, c2}
  NoConn = NoConn
  Peers = {p1}
  MaxChallenge = 1
  MaxStored = 1
  MaxOutbox = 1
PROPERTIES
  DeliveryIsSurvived
CHECK_DEADLOCK FALSE

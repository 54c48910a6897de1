SPECIFICATION Spec
CONSTANTS
  Keys = {k1}
  Channels = {ch1}
  NoKey = NoKey
  NoChannel = NoChannel
  Conns = {c1, c2}
  NoConn = NoConn
  Peers = {}
  MaxChallenge = 1
  MaxStored = 1
  MaxOutbox = 1
PROPERTIES
  SessionLastsAsItsConnection
CHECK_DEADLOCK FALSE

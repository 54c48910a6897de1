SPECIFICATION Spec
CONSTANTS
  Keys = {k1, k2}
  Channels = {ch1, ch2}
  NoKey = NoKey
  NoChannel = NoChannel
  Conns = {c1, c2}
  NoConn = NoConn
  Peers = {p1}
  MaxChallenge = 2
  MaxStored = 1
  MaxOutbox = 1
INVARIANTS
  TypeOK
  SessionInv
PROPERTIES
  DirectorySpec
CHECK_DEADLOCK FALSE

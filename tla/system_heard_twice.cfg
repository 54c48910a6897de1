SPECIFICATION Spec
CONSTANTS
  ka = ka
  kb = kb
  a = a
  b = b
  ch1 = ch1
  Keys = {ka, kb}
  Channels = {ch1}
  NoKey = NoKey
  NoChannel = NoChannel
  NoConn = NoConn
  Clients = {a, b}
  KeyOf <- TwoKeyOf
  Kind <- TwoPrivate
  ChannelOf <- TwoChannelOf
  PartnerOf <- TwoPartnerOf
  FlushLimit = 1
  Typists = {a}
  MaxMessages = 2
  MaxQueue = 2
INVARIANTS
  HeardOnce
CHECK_DEADLOCK FALSE

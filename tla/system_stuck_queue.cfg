SPECIFICATION FairSpec
CONSTANTS
  ka = ka
  kb = kb
  a = a
  b = b
  ch1 = ch1
  Keys = {ka, kb}
  Channels = {ch1}
  NoKey = NoKey
  NoChannel = NoChannel
  NoConn = NoConn
  Clients = {a, b}
  KeyOf <- TwoKeyOf
  Kind <- TwoPublic
  ChannelOf <- TwoChannelOf
  PartnerOf <- TwoPartnerOf
  FlushLimit = 1
  Typists = {a}
  MaxMessages = 2
  MaxQueue = 1
PROPERTIES
  FullQueuesAreSent
CHECK_DEADLOCK FALSE

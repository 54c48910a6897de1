SPECIFICATION FairSpec
CONSTANTS
  ka = ka
  kb = kb
  a = a
  b = b
  ch1 = ch1
  Keys = {ka, kb}
  Channels = {ch1}
  NoKey = NoKey
  NoChannel = NoChannel
  NoConn = NoConn
  Clients = {a, b}
  KeyOf <- TwoKeyOf
  Kind <- TwoPublic
  ChannelOf <- TwoChannelOf
  PartnerOf <- TwoPartnerOf
  FlushLimit = 1
  Typists = {a, b}
  MaxMessages = 3
  MaxQueue = 3
INVARIANTS
  TypeOK
  StageMatchesSession
  NothingRefused
  HeardInOrder
  NoEcho
  NothingHeardBeforeJoining
  EveryMessageIsAcknowledgedOnce
  SessionPhases
  NewsComesFirst
  DeliveryInv
PROPERTIES
  StartedClientsGetToChat
  ConversationSpec
  NothingIsMultiplied
CHECK_DEADLOCK FALSE

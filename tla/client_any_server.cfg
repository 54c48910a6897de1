SPECIFICATION AnsweredSpec
CONSTANTS
  ka = ka
  kb = kb
  pub = pub
  priv = priv
  chat = chat
  ch1 = ch1
  Keys = {ka, kb}
  Channels = {ch1}
  NoKey = NoKey
  NoChannel = NoChannel
  Clients = {pub, priv, chat}
  KeyOf <- MCKeyOf
  Kind <- MCKind
  ChannelOf <- MCChannelOf
  PartnerOf <- MCPartnerOf
  FlushLimit = 1
  Answers <- MCAnswers
  MaxMessages = 3
  MaxTraffic = 6
INVARIANTS
  TypeOK
  StagesAdvance
  AskedInTurn
  MessagesAdvance
PROPERTIES
  LostOnlyInExcess
CONSTRAINT
  OneIsActive
CHECK_DEADLOCK FALSE

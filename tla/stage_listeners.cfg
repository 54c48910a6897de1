SPECIFICATION ListenSpec
CONSTANTS
  ka = ka
  kb = kb
  me = me
  hears = hears
  awaits = awaits
  opens = opens
  g = g
  h = h
  w = w
  Keys = {ka, kb}
  Channels = {ch1}
  NoKey = NoKey
  NoChannel = NoChannel
  Clients = {me}
  KeyOf <- MCKeyOf
  Kind <- MCKind
  ChannelOf <- MCChannelOf
  PartnerOf <- MCPartnerOf
  FlushLimit = 1
  Answers <- MCAnswers
  MaxMessages = 1
  MaxTraffic = 5
  Tickets = {hears, awaits, opens}
  FnOf <- MCFnOf
  PreOf <- MCPreOf
  PostOf <- MCPostOf
  Promised = {awaits}
  NoFn = NoFn
  NoBuilder = NoBuilder
INVARIANTS
  ListenTypeOK
  IdsStayTrue
  CalledForItsChange
  ResolvesOnce
  EveryoneDueIsCalled
PROPERTIES
  HandlesAtOnce
CHECK_DEADLOCK FALSE

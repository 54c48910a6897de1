SPECIFICATION FairSpec
CONSTANTS
  x = x
  y = y
  z = z
  nat = nat
  public = public
  xPeers = xPeers
  yPeers = yPeers
  zPeers = zPeers
  xClients = xClients
  xz = xz
  xzAgain = xzAgain
  yz = yz
  zx = zx
  zxClients = zxClients
  NoEnd = NoEnd
  Servers = {x, y, z}
  Hosts = {nat, public}
  Addresses = {xPeers, yPeers, zPeers, xClients}
  ClientPorts = {xClients}
  Links = {xz, xzAgain, zxClients}
  HostOf <- MCHostOf
  Own <- MCOwn
  Reaches <- MCReaches
  From <- MCFrom
  To <- MCTo
INVARIANTS
  TypeOK
  EntriesAreLive
  QuietLinksAgree
PROPERTIES
  HandshakeSpec
  LinksAreListed

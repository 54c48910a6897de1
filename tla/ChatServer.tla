----------------------------- MODULE ChatServer -----------------------------
(***************************************************************************)
(* One BaseServer process (packages/server/src/serverUtils.js): the        *)
(* registration of clients, their channels, and the routing of messages,   *)
(* for any number of client connections and any set of peers.              *)
(*                                                                         *)
(* Node runs one handler at a time to its end, so a handler is one action. *)
(* The peer handshake is seen here only through the keys it adds to and    *)
(* removes from peer_list.                                                 *)
(***************************************************************************)
EXTENDS Wire, Sequences

CONSTANTS
  Conns,         \* client sockets, TCP or WebSocket; each is opened once
  NoConn,        \* an absent entry of client_list or of a channel
  Peers,         \* the keys of peer_list: addresses of peers
  MaxChallenge,  \* bound: challenges a connection asks for
  MaxStored,     \* bound: messages a server process accepts
  MaxOutbox      \* bound: unread datums on a connection

ASSUME ServerAssumption ==
  /\ NoConn \notin Conns
  /\ {MaxChallenge, MaxStored, MaxOutbox} \subseteq Nat

VARIABLES
  up,            \* the process runs
  client_list,   \* client_list[k]: the socket registered for key k
  channel_list,  \* channel_list[ch][k]: the socket k joined channel ch with
  peer_list,     \* the addresses that have an entry in peer_list
  msg_list,      \* how many message ids the process holds in msg_list
  conn,          \* per socket: "unused", "open" or "closed"
  id,            \* per socket: client.id, the key it last spoke for
  challenge,     \* per socket: how many challenges it was sent; the last is
                 \* client.challenge, 0 the empty one
  toClient       \* per socket: what was written to it and not yet read

tables == <<client_list, channel_list, peer_list, msg_list>>
vars == <<up, tables, conn, id, challenge, toClient>>

TypeOK ==
  /\ up \in BOOLEAN
  /\ client_list \in [Keys -> Conns \cup {NoConn}]
  /\ channel_list \in [Channels -> [Keys -> Conns \cup {NoConn}]]
  /\ peer_list \subseteq Peers
  /\ msg_list \in Nat
  /\ conn \in [Conns -> {"unused", "open", "closed"}]
  /\ id \in [Conns -> Keys \cup {NoKey}]
  /\ challenge \in [Conns -> Nat]
  /\ toClient \in [Conns -> Seq(Datum)]

(* An empty client_list, and a channel_list without members.  A channel
   that exists but is empty behaves as one that does not exist. *)
NoSessions == [k \in Keys |-> NoConn]
NoMembers  == [ch \in Channels |-> NoSessions]

Init ==
  /\ up = TRUE
  /\ client_list = NoSessions
  /\ channel_list = NoMembers
  /\ peer_list = {}
  /\ msg_list = 0
  /\ conn = [c \in Conns |-> "unused"]
  /\ id = [c \in Conns |-> NoKey]
  /\ challenge = [c \in Conns |-> 0]
  /\ toClient = [c \in Conns |-> <<>>]

-----------------------------------------------------------------------------
(* Helpers *)

Registered(k) == client_list[k] # NoConn

(* sock.write(d) on every socket of R, in the outboxes out. *)
Write(out, R, d) ==
  [c \in Conns |-> IF c \in R THEN Append(out[c], d) ELSE out[c]]

Reply(c, d) == toClient' = Write(toClient, {c}, d)

(* client.id = ch.fromPublicKey: every datum that parses sets it. *)
Identify(c, d) == id' = [id EXCEPT ![c] = d.from]

(* A slip: no "src !== sock". *)
RecipientsWithSender(src, d) ==
  IF d.to # NoKey /\ Registered(d.to) THEN {client_list[d.to]}
  ELSE IF d.cname # NoChannel
       THEN {channel_list[d.cname][k] : k \in Keys} \ {NoConn}
       ELSE {}

(* The sockets pushMessage writes to.  src is the sender's socket; for a
   message from a peer it is an address, which equals no socket. *)
Recipients(src, d) ==
  IF d.to # NoKey /\ Registered(d.to) THEN {client_list[d.to]}
  ELSE IF d.cname # NoChannel
       THEN {channel_list[d.cname][k] : k \in Keys} \ {NoConn, src}
       ELSE {}

(* The process ends.  Its memory is gone, its sockets close; what it wrote,
   out, is still in the network. *)
Die(out) ==
  /\ up' = FALSE
  /\ client_list' = NoSessions
  /\ channel_list' = NoMembers
  /\ peer_list' = {}
  /\ msg_list' = 0
  /\ conn' = [c \in Conns |-> IF conn[c] = "open" THEN "closed" ELSE conn[c]]
  /\ toClient' = out
  /\ UNCHANGED <<id, challenge>>

-----------------------------------------------------------------------------
(* Client connections *)

onClientConnected(c) ==
  /\ up
  /\ conn[c] = "unused"
  /\ conn' = [conn EXCEPT ![c] = "open"]
  /\ UNCHANGED <<up, tables, id, challenge, toClient>>

(* delete table[k] *)
Without(table, k) == [table EXCEPT ![k] = NoConn]

(* A slip: the channels are forgotten. *)
DisconnectKeepsChannels(c) ==
  /\ up
  /\ conn[c] = "open"
  /\ conn' = [conn EXCEPT ![c] = "closed"]
  /\ client_list' = IF id[c] \in Keys THEN Without(client_list, id[c]) ELSE client_list
  /\ UNCHANGED <<up, channel_list, peer_list, msg_list, id, challenge, toClient>>

(* The close event of c.  The entries of c's key go, whoever made them. *)
handleClientDisconnect(c) ==
  /\ up
  /\ conn[c] = "open"
  /\ conn' = [conn EXCEPT ![c] = "closed"]
  /\ IF id[c] \in Keys /\ Registered(id[c])
     THEN /\ client_list' = Without(client_list, id[c])
          /\ channel_list' = [ch \in Channels |-> Without(channel_list[ch], id[c])]
     ELSE UNCHANGED <<client_list, channel_list>>
  /\ UNCHANGED <<up, peer_list, msg_list, id, challenge, toClient>>

-----------------------------------------------------------------------------
(* handleClientData, one operator per branch. *)

Malformed(c, d) ==
  /\ d.from = NoKey
  /\ Reply(c, Error("MALFORMED DATA"))
  /\ UNCHANGED <<up, tables, conn, id, challenge>>

ConnectRequest(c, d) ==
  /\ d.type = "connect"
  /\ ~Registered(d.from)
  /\ Identify(c, d)
  /\ challenge' = [challenge EXCEPT ![c] = @ + 1]
  /\ Reply(c, AskVerify(challenge[c] + 1))
  /\ UNCHANGED <<up, tables, conn>>

(* A slip: the challenge is renewed before the signature is checked. *)
ProvesLate(c, d) ==
  /\ d.type = "verify"
  /\ challenge[c] # 0
  /\ d.msg = challenge[c] + 1

(* verifyChallenge: the signature is d.from's, over c's latest challenge. *)
Proves(c, d) ==
  /\ d.type = "verify"
  /\ challenge[c] # 0
  /\ d.msg = challenge[c]

(* A slip: a key that is registered may register again. *)
VerifyTakesOver(c, d) ==
  /\ Proves(c, d)
  /\ client_list' = [client_list EXCEPT ![d.from] = c]
  /\ Identify(c, d)
  /\ Reply(c, Success("Connected to Network"))
  /\ UNCHANGED <<up, channel_list, peer_list, msg_list, conn, challenge>>

(* A slip: who registers is in every channel. *)
VerifyJoins(c, d) ==
  /\ ~Registered(d.from)
  /\ Proves(c, d)
  /\ client_list' = [client_list EXCEPT ![d.from] = c]
  /\ channel_list' = [ch \in Channels |-> [channel_list[ch] EXCEPT ![d.from] = c]]
  /\ Identify(c, d)
  /\ Reply(c, Success("Connected to Network"))
  /\ UNCHANGED <<up, peer_list, msg_list, conn, challenge>>

VerifyRequest(c, d) ==
  /\ ~Registered(d.from)
  /\ Proves(c, d)
  /\ client_list' = [client_list EXCEPT ![d.from] = c]
  /\ Identify(c, d)
  /\ Reply(c, Success("Connected to Network"))
  /\ UNCHANGED <<up, channel_list, peer_list, msg_list, conn, challenge>>

(* Anything else from a key that is not registered. *)
NotRegistered(c, d) ==
  /\ d.from # NoKey
  /\ ~Registered(d.from)
  /\ d.type # "connect"
  /\ ~Proves(c, d)
  /\ Identify(c, d)
  /\ Reply(c, Error("MALFORMED DATA"))
  /\ UNCHANGED <<up, tables, conn, challenge>>

(* A slip: channel_list[cname] = sock. *)
JoinOverwrites(c, d) ==
  /\ d.type = "join"
  /\ Registered(d.from)
  /\ channel_list' = [channel_list EXCEPT ![d.cname] = c]
  /\ Identify(c, d)
  /\ Reply(c, Success("Connected to channel"))
  /\ UNCHANGED <<up, client_list, peer_list, msg_list, conn, challenge>>

(* A slip: the first to join makes the channel and is not entered in it. *)
JoinForgets(c, d) ==
  /\ d.type = "join"
  /\ Registered(d.from)
  /\ channel_list' = IF channel_list[d.cname] = NoSessions THEN channel_list
                     ELSE [channel_list EXCEPT ![d.cname][d.from] = c]
  /\ Identify(c, d)
  /\ Reply(c, Success("Connected to channel"))
  /\ UNCHANGED <<up, client_list, peer_list, msg_list, conn, challenge>>

JoinRequest(c, d) ==
  /\ d.type = "join"
  /\ Registered(d.from)
  /\ channel_list' = [channel_list EXCEPT ![d.cname][d.from] = c]
  /\ Identify(c, d)
  /\ Reply(c, Success("Connected to channel"))
  /\ UNCHANGED <<up, client_list, peer_list, msg_list, conn, challenge>>

InChannel(d) == channel_list[d.cname][d.from] # NoConn

NotInChannel(c, d) ==
  /\ d.type = "msg"
  /\ Registered(d.from)
  /\ d.cname # NoChannel /\ ~InChannel(d)
  /\ Identify(c, d)
  /\ Reply(c, Error("JOIN CHANNEL FIRST"))
  /\ UNCHANGED <<up, tables, conn, challenge>>

(* A message with no destination is answered with an error and then treated
   as any other. *)
Warned(c, d) ==
  IF d.to = NoKey /\ d.cname = NoChannel
  THEN Write(toClient, {c}, Error("destination required"))
  ELSE toClient

(* A slip: a message to a channel is pushed for the sender and again for the
   channel. *)
MsgPushedTwice(c, d) ==
  /\ d.type = "msg"
  /\ Registered(d.from)
  /\ d.cname # NoChannel => InChannel(d)
  /\ peer_list = {}
  /\ LET pushed == Write(Warned(c, d), Recipients(c, d), d) IN
       toClient' = Write(IF d.cname # NoChannel THEN Write(pushed, Recipients(c, d), d)
                         ELSE pushed,
                         {c}, Success("MESSAGE SENT"))
  /\ msg_list' = msg_list + 1
  /\ Identify(c, d)
  /\ UNCHANGED <<up, client_list, channel_list, peer_list, conn, challenge>>

(* pushMessage writes to the local recipients, then walks the peers with
   ([peerSock]) => ...; a socket is not iterable, so with one peer or more
   the walk throws, and nothing above catches it. *)
MsgRequest(c, d) ==
  /\ d.type = "msg"
  /\ Registered(d.from)
  /\ d.cname # NoChannel => InChannel(d)
  /\ LET pushed == Write(Warned(c, d), Recipients(c, d), d) IN
     \/ /\ peer_list = {}
        /\ msg_list' = msg_list + 1
        /\ toClient' = Write(pushed, {c}, Success("MESSAGE SENT"))
        /\ Identify(c, d)
        /\ UNCHANGED <<up, client_list, channel_list, peer_list, conn, challenge>>
     \/ /\ peer_list # {}
        /\ Die(pushed)

(* A registered key that asks to connect or to verify gets no answer. *)
Ignored(c, d) ==
  /\ d.type \in {"connect", "verify"}
  /\ Registered(d.from)
  /\ Identify(c, d)
  /\ UNCHANGED <<up, tables, conn, challenge, toClient>>

HandleClientDatum(c, d) ==
  \/ ConnectRequest(c, d)
  \/ VerifyRequest(c, d)
  \/ NotRegistered(c, d)
  \/ JoinRequest(c, d)
  \/ NotInChannel(c, d)
  \/ MsgRequest(c, d)
  \/ Ignored(c, d)

handleClientData(c, d) ==
  /\ up
  /\ conn[c] = "open"
  /\ IF d.from = NoKey THEN Malformed(c, d) ELSE HandleClientDatum(c, d)

-----------------------------------------------------------------------------
(* Peers *)

(* handlePeerData: a handshake ends with an entry in peer_list ... *)
PeerRegistered(a) ==
  /\ up
  /\ peer_list' = peer_list \cup {a}
  /\ UNCHANGED <<up, client_list, channel_list, msg_list, conn, id, challenge, toClient>>

(* ... and handlePeerDisconnect deletes it. *)
handlePeerDisconnect(a) ==
  /\ up
  /\ peer_list' = peer_list \ {a}
  /\ UNCHANGED <<up, client_list, channel_list, msg_list, conn, id, challenge, toClient>>

(* handlePeerData: a peer relays a message whose id is not in msg_list (one
   whose id is there changes nothing).  The relaying peer is in peer_list,
   so pushMessage throws after its local writes. *)
PeerRelays(a, d) ==
  /\ up
  /\ a \in peer_list
  /\ Die(Write(toClient, Recipients(NoConn, d), d))

-----------------------------------------------------------------------------
(* The process and the network around it *)

(* The operator types exit, or the process is killed. *)
Exit == up /\ Die(toClient)

(* supervisord (after a crash) or the operator starts the process again. *)
Restart ==
  /\ ~up
  /\ up' = TRUE
  /\ UNCHANGED <<tables, conn, id, challenge, toClient>>

(* The client reads what was written first. *)
Read(c) ==
  /\ toClient[c] # <<>>
  /\ toClient' = [toClient EXCEPT ![c] = Tail(@)]
  /\ UNCHANGED <<up, tables, conn, id, challenge>>

(* What is in flight on a connection that is not open may be lost. *)
Lose(c) ==
  /\ toClient[c] # <<>>
  /\ conn[c] = "closed"
  /\ toClient' = [toClient EXCEPT ![c] = <<>>]
  /\ UNCHANGED <<up, tables, conn, id, challenge>>

(* The messages of the users in K, to any destination or none. *)
Messages(K) ==
  [type : {"msg"}, from : K, to : Keys \cup {NoKey},
   cname : Channels \cup {NoChannel}, msg : {0}, text : {""}]

(* What may be sent on connection c: requests of any key pair, in any order,
   signed over a challenge of the connection or not signed (0).  Nothing ties
   a connection to one key: an application may hold several. *)
Requests(c) ==
  {Garbled} \cup {Connect(k) : k \in Keys}
    \cup {Verify(k, n) : k \in Keys, n \in 0..challenge[c]}
    \cup {Join(k, ch) : k \in Keys, ch \in Channels}
    \cup Messages(Keys)

(* What a peer relays: a message of a user it serves. *)
Relays == Messages(Keys)

Roomy == \A c \in Conns : Len(toClient[c]) < MaxOutbox

ClientSends(c, d) ==
  /\ Roomy
  /\ d.type = "connect" => challenge[c] < MaxChallenge
  /\ d.type = "msg" => msg_list < MaxStored
  /\ handleClientData(c, d)

Next ==
  \/ \E c \in Conns : onClientConnected(c)
  \/ \E c \in Conns : handleClientDisconnect(c)
  \/ \E c \in Conns : \E d \in Requests(c) : ClientSends(c, d)
  \/ \E a \in Peers : PeerRegistered(a)
  \/ \E a \in Peers : handlePeerDisconnect(a)
  \/ \E a \in Peers : \E d \in Relays : Roomy /\ PeerRelays(a, d)
  \/ Exit
  \/ Restart
  \/ \E c \in Conns : Read(c)
  \/ \E c \in Conns : Lose(c)

Spec == Init /\ [][Next]_vars

-----------------------------------------------------------------------------
(* Correctness *)

(* Connection c may carry an entry of key k: it spoke, and is open, or named
   another key last, so that its close (238-249) looked for that one's
   entries. *)
MayCarry(c, k) ==
  /\ id[c] \in Keys
  /\ conn[c] = "open" \/ (conn[c] = "closed" /\ id[c] # k)

(* A registered key is registered through a connection that was challenged,
   and an entry of client_list outlives its connection in one way only: the
   connection spoke for another key when it closed.  Verification (197-204),
   the reuse of client.id (187, 240) and the end of the process leave no
   other. *)
SessionsAreCarried ==
  \A k \in Keys : Registered(k) =>
    MayCarry(client_list[k], k) /\ challenge[client_list[k]] > 0

(* A channel holds registered keys only: no entry is left in a channel when
   the key's registration ends, whichever of its connections ended it, joined
   or registered.  And pushMessage (124-128) writes to a socket that is gone
   only under the same condition. *)
MembersAreCarried ==
  \A ch \in Channels, k \in Keys : channel_list[ch][k] # NoConn =>
    Registered(k) /\ MayCarry(channel_list[ch][k], k)

(* After the process ends nothing of it is left. *)
DeadServerIsEmpty ==
  ~up => /\ client_list = NoSessions
         /\ channel_list = NoMembers
         /\ \A c \in Conns : conn[c] # "open"

SessionInv ==
  /\ SessionsAreCarried
  /\ MembersAreCarried
  /\ DeadServerIsEmpty

(* The users in each channel. *)
Members == [ch \in Channels |-> {k \in Keys : channel_list[ch][k] # NoConn}]

Open == {c \in Conns : conn[c] = "open"}

(* The server implements the directory of users and channels: a session ends
   with the close of the connection that last spoke for its user, or with the
   process, and in no other way. *)
Directory ==
  INSTANCE SessionDirectory
    WITH session <- client_list, members <- Members, open <- Open, speaks <- id

DirectorySpec == Directory!Spec

-----------------------------------------------------------------------------
(* What the documentation says and the code does not do. *)

(* What a step writes to c. *)
Written(c) == SubSeq(toClient'[c], Len(toClient[c]) + 1, Len(toClient'[c]))

(* README.md:134: after a successful connection the client can join and talk,
   that is, its registration lasts as long as its connection.  It also ends
   with any other connection on which the same key was used. *)
SessionLastsAsItsConnection ==
  [][\A k \in Keys :
       Registered(k) /\ conn'[client_list[k]] = "open"
         => client_list'[k] = client_list[k]]_vars

(* README.md:5: peered servers carry messages between their clients.  A step
   that delivers a message on a peered server is the last of the process. *)
DeliveryIsSurvived ==
  [][(\E c \in Conns : Written(c) # <<>>) => up']_vars
=============================================================================

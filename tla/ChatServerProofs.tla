-------------------------- MODULE ChatServerProofs --------------------------
(***************************************************************************)
(* What is proved of a server, for every set of keys, channels,            *)
(* connections and peers.                                                  *)
(***************************************************************************)
EXTENDS ChatServer, SequenceTheorems, TLAPS

USE WireAssumption, ServerAssumption

-----------------------------------------------------------------------------
(* The datums. *)

(* The strings the datums are made of. *)
LEMMA Strings ==
  /\ "garbled" \in Types /\ "connect" \in Types /\ "verify" \in Types
  /\ "join" \in Types /\ "msg" \in Types
  /\ "success" \in Types /\ "error" \in Types
  /\ "" \in Texts /\ "Connected to Network" \in Texts
  /\ "Connected to channel" \in Texts /\ "MESSAGE SENT" \in Texts
  /\ "MALFORMED DATA" \in Texts /\ "JOIN CHANNEL FIRST" \in Texts
  /\ "destination required" \in Texts
BY DEF Types, Texts

(* What the server answers is a datum. *)
LEMMA AnswerType ==
  ASSUME NEW n \in Nat, NEW text \in Texts
  PROVE  AskVerify(n) \in Datum /\ Success(text) \in Datum /\ Error(text) \in Datum
BY Strings DEF AskVerify, Success, Error, MakeDatum, Datum

(* A message is a datum. *)
LEMMA MessageType ==
  ASSUME NEW K \in SUBSET Keys, NEW d \in Messages(K)
  PROVE  d \in Datum /\ d.from \in K /\ d.type = "msg"
<1>1. d = [type |-> d.type, from |-> d.from, to |-> d.to,
           cname |-> d.cname, msg |-> d.msg, text |-> d.text]
  BY DEF Messages
<1>2. d.type = "msg" /\ d.text = "" /\ d.from \in K
  BY DEF Messages
<1>3. d.to \in Keys \cup {NoKey} /\ d.cname \in Channels \cup {NoChannel}
  BY DEF Messages
<1>4. d.msg = 0
  BY DEF Messages
<1>5. d.msg \in Nat
  BY <1>4
<1> QED
  BY <1>1, <1>2, <1>3, <1>5, Strings DEF Datum

(* What is sent on a connection speaks for a key, or does not parse. *)
LEMMA RequestType ==
  ASSUME TypeOK, NEW c \in Conns, NEW d \in Requests(c)
  PROVE  /\ d \in Datum
         /\ d.from \in Keys \cup {NoKey}
         /\ d.type = "join" => d.cname \in Channels
<1>1. challenge[c] \in Nat
  BY DEF TypeOK
<1>2. CASE d = Garbled
  <2>1. Garbled.type # "join" /\ Garbled.from = NoKey
    BY DEF Garbled, MakeDatum
  <2>2. Garbled \in Datum
    BY Strings DEF Garbled, MakeDatum, Datum
  <2> QED
    BY <1>2, <2>1, <2>2
<1>3. CASE \E k \in Keys : d = Connect(k)
  <2>1. PICK k \in Keys : d = Connect(k)
    BY <1>3
  <2>2. d \in Datum
    BY <2>1, Strings DEF Connect, MakeDatum, Datum
  <2>3. d.type = "connect" /\ d.from = k
    BY <2>1 DEF Connect, MakeDatum
  <2> QED
    BY <2>2, <2>3
<1>4. CASE \E k \in Keys, n \in 0..challenge[c] : d = Verify(k, n)
  <2>1. PICK k \in Keys, n \in 0..challenge[c] : d = Verify(k, n)
    BY <1>4
  <2>2. n \in Nat
    BY <1>1
  <2>3. d \in Datum
    BY <2>1, <2>2, Strings DEF Verify, MakeDatum, Datum
  <2>4. d.type = "verify" /\ d.from = k
    BY <2>1 DEF Verify, MakeDatum
  <2> QED
    BY <2>3, <2>4
<1>5. CASE \E k \in Keys, ch \in Channels : d = Join(k, ch)
  <2>1. PICK k \in Keys, ch \in Channels : d = Join(k, ch)
    BY <1>5
  <2>2. d \in Datum
    BY <2>1, Strings DEF Join, MakeDatum, Datum
  <2>3. d.cname = ch /\ d.from = k
    BY <2>1 DEF Join, MakeDatum
  <2> QED
    BY <2>2, <2>3
<1>6. CASE d \in Messages(Keys)
  BY <1>6, MessageType
<1> QED
  BY <1>2, <1>3, <1>4, <1>5, <1>6 DEF Requests

(* What a peer relays is a datum. *)
LEMMA RelayType == Relays \subseteq Datum
BY MessageType DEF Relays

(* Writing a datum to any sockets keeps outboxes outboxes. *)
LEMMA WriteType ==
  ASSUME NEW out \in [Conns -> Seq(Datum)], NEW R, NEW d \in Datum
  PROVE  Write(out, R, d) \in [Conns -> Seq(Datum)]
BY AppendProperties DEF Write

-----------------------------------------------------------------------------
(* Type correctness *)

(* The end of the process leaves well-typed tables. *)
LEMMA DieType ==
  ASSUME TypeOK, NEW out \in [Conns -> Seq(Datum)], Die(out)
  PROVE  TypeOK'
BY DEF TypeOK, Die, NoSessions, NoMembers

(* Every branch of handleClientData keeps the types. *)
LEMMA HandlerType ==
  ASSUME TypeOK, NEW c \in Conns, NEW d \in Requests(c), handleClientData(c, d)
  PROVE  TypeOK'
<1> USE DEF TypeOK, tables
<1>d. /\ d \in Datum
      /\ d.from \in Keys \cup {NoKey}
      /\ d.type = "join" => d.cname \in Channels
  BY RequestType
<1>a. \A n \in Nat, text \in Texts :
        AskVerify(n) \in Datum /\ Success(text) \in Datum /\ Error(text) \in Datum
  BY AnswerType
<1>w. \A R, a : a \in Datum => Write(toClient, R, a) \in [Conns -> Seq(Datum)]
  BY WriteType
<1>1. CASE d.from = NoKey /\ Malformed(c, d)
  BY <1>1, Strings, <1>a, <1>w DEF Malformed, Reply
<1>2. CASE d.from # NoKey /\ HandleClientDatum(c, d)
  <2>k. d.from \in Keys
    BY <1>2, <1>d
  <2>i. Identify(c, d) => id' \in [Conns -> Keys \cup {NoKey}]
    BY <2>k DEF Identify
  <2>1. CASE ConnectRequest(c, d)
    <3>1. toClient' \in [Conns -> Seq(Datum)]
      <4>1. challenge[c] + 1 \in Nat
        OBVIOUS
      <4>2. AskVerify(challenge[c] + 1) \in Datum
        BY <4>1, Strings, <1>a
      <4> QED
        BY <2>1, <4>2, <1>w DEF ConnectRequest, Reply
    <3>2. challenge' \in [Conns -> Nat]
      BY <2>1 DEF ConnectRequest
    <3>3. id' \in [Conns -> Keys \cup {NoKey}]
      BY <2>1, <2>i DEF ConnectRequest
    <3> QED
      BY <2>1, <3>1, <3>2, <3>3 DEF ConnectRequest
  <2>2. CASE VerifyRequest(c, d)
    BY <2>2, <2>k, <2>i, Strings, <1>a, <1>w DEF VerifyRequest, Reply
  <2>3. CASE NotRegistered(c, d)
    BY <2>3, <2>i, Strings, <1>a, <1>w DEF NotRegistered, Reply
  <2>4. CASE JoinRequest(c, d)
    BY <2>4, <2>k, <2>i, <1>d, Strings, <1>a, <1>w DEF JoinRequest, Reply
  <2>5. CASE NotInChannel(c, d)
    BY <2>5, <2>i, Strings, <1>a, <1>w DEF NotInChannel, Reply
  <2>6. CASE MsgRequest(c, d)
    <3> DEFINE pushed == Write(Warned(c, d), Recipients(c, d), d)
    <3>1. Warned(c, d) \in [Conns -> Seq(Datum)]
      BY Strings, <1>a, <1>w DEF Warned
    <3>2. pushed \in [Conns -> Seq(Datum)]
      BY <3>1, <1>d, WriteType
    <3>3. Write(pushed, {c}, Success("MESSAGE SENT")) \in [Conns -> Seq(Datum)]
      BY <3>2, Strings, <1>a, WriteType
    <3>4. CASE peer_list = {}
      <4>1. msg_list' = msg_list + 1 /\ Identify(c, d)
        BY <2>6, <3>4 DEF MsgRequest
      <4>2. toClient' \in [Conns -> Seq(Datum)]
        BY <2>6, <3>3, <3>4 DEF MsgRequest
      <4>3. UNCHANGED <<up, client_list, channel_list, peer_list, conn, challenge>>
        BY <2>6, <3>4 DEF MsgRequest
      <4> QED
        BY <2>i, <4>1, <4>2, <4>3
    <3>5. CASE peer_list # {}
      <4>1. Die(pushed)
        BY <2>6, <3>5 DEF MsgRequest
      <4> QED
        BY <3>2, <4>1, DieType
    <3> QED
      BY <3>4, <3>5
  <2>7. CASE Ignored(c, d)
    BY <2>7, <2>i DEF Ignored
  <2> QED
    BY <1>2, <2>1, <2>2, <2>3, <2>4, <2>5, <2>6, <2>7 DEF HandleClientDatum
<1> QED
  BY <1>1, <1>2 DEF handleClientData

(* Every step keeps the types. *)
LEMMA TypeStep == TypeOK /\ [Next]_vars => TypeOK'
<1> SUFFICES ASSUME TypeOK, [Next]_vars PROVE TypeOK'
  OBVIOUS
<1>1. CASE \E c \in Conns : onClientConnected(c)
  BY <1>1 DEF TypeOK, onClientConnected, tables
<1>2. CASE \E c \in Conns : handleClientDisconnect(c)
  <2>1. PICK c \in Conns : handleClientDisconnect(c)
    BY <1>2
  <2>2. /\ conn' \in [Conns -> {"unused", "open", "closed"}]
        /\ UNCHANGED <<up, peer_list, msg_list, id, challenge, toClient>>
    BY <2>1 DEF TypeOK, handleClientDisconnect
  <2>3. client_list' \in [Keys -> Conns \cup {NoConn}]
    BY <2>1 DEF TypeOK, Without, handleClientDisconnect
  <2>4. channel_list' \in [Channels -> [Keys -> Conns \cup {NoConn}]]
    <3>1. \A f \in [Keys -> Conns \cup {NoConn}] :
            Without(f, id[c]) \in [Keys -> Conns \cup {NoConn}]
      BY DEF Without
    <3> QED
      BY <2>1, <3>1 DEF TypeOK, handleClientDisconnect
  <2> QED
    BY <2>2, <2>3, <2>4 DEF TypeOK
<1>3. CASE \E c \in Conns : \E d \in Requests(c) : ClientSends(c, d)
  BY <1>3, HandlerType DEF ClientSends
<1>4. CASE \E a \in Peers : PeerRegistered(a) \/ handlePeerDisconnect(a)
  BY <1>4 DEF TypeOK, PeerRegistered, handlePeerDisconnect
<1>5. CASE \E a \in Peers : \E d \in Relays : PeerRelays(a, d)
  <2>1. PICK d \in Datum : Die(Write(toClient, Recipients(NoConn, d), d))
    BY <1>5, RelayType DEF PeerRelays
  <2> QED
    BY <2>1, DieType, WriteType DEF TypeOK
<1>6. CASE Exit
  BY <1>6, DieType DEF Exit, TypeOK
<1>7. CASE Restart
  BY <1>7 DEF TypeOK, Restart, tables
<1>8. CASE \E c \in Conns : Read(c)
  <2>1. PICK c \in Conns : Read(c)
    BY <1>8
  <2>2. Tail(toClient[c]) \in Seq(Datum)
    BY <2>1, HeadTailProperties DEF TypeOK, Read
  <2> QED
    BY <2>1, <2>2 DEF TypeOK, Read, tables
<1>9. CASE \E c \in Conns : Lose(c)
  BY <1>9, EmptySeq DEF TypeOK, Lose, tables
<1>10. CASE UNCHANGED vars
  BY <1>10 DEF TypeOK, vars, tables
<1> QED
  BY <1>1, <1>2, <1>3, <1>4, <1>5, <1>6, <1>7, <1>8, <1>9, <1>10 DEF Next

(* The server's variables keep their types. *)
THEOREM TypeCorrect == Spec => []TypeOK
<1>1. Init => TypeOK
  BY EmptySeq DEF Init, TypeOK, NoSessions, NoMembers
<1> QED
  BY <1>1, TypeStep, PTL DEF Spec

-----------------------------------------------------------------------------
(* Sessions *)

(* A request is handled on an open connection, and renames that one only. *)
LEMMA OpenOnesSpeak ==
  ASSUME TypeOK, NEW c \in Conns, conn[c] = "open", NEW d, d.from \in Keys,
         Identify(c, d), UNCHANGED conn
  PROVE  \A x \in Conns : \A k : MayCarry(x, k) => MayCarry(x, k)'
BY DEF TypeOK, Identify, MayCarry

(* A step that changes no table preserves the invariant, if what may carry an
   entry still may, and no challenge is forgotten. *)
LEMMA QuietStep ==
  ASSUME TypeOK, SessionInv,
         UNCHANGED <<up, client_list, channel_list>>,
         \A x \in Conns : \A k : MayCarry(x, k) => MayCarry(x, k)',
         \A x \in Conns : challenge[x] > 0 => challenge'[x] > 0,
         ~up => UNCHANGED conn
  PROVE  SessionInv'
<1>1. SessionsAreCarried'
  BY DEF TypeOK, SessionInv, SessionsAreCarried, Registered
<1>2. MembersAreCarried'
  BY DEF TypeOK, SessionInv, MembersAreCarried, Registered
<1> QED
  BY <1>1, <1>2 DEF SessionInv, DeadServerIsEmpty

(* The end of the process. *)
LEMMA DieSessions ==
  ASSUME TypeOK, SessionInv, NEW out, Die(out)
  PROVE  SessionInv'
BY DEF TypeOK, SessionInv, Die, NoSessions, NoMembers, SessionsAreCarried,
       MembersAreCarried, DeadServerIsEmpty, Registered

(* The close of a connection takes every entry of the key it last spoke for,
   so that what it leaves behind is under other keys. *)
LEMMA DisconnectSessions ==
  ASSUME TypeOK, SessionInv, NEW c \in Conns, handleClientDisconnect(c)
  PROVE  SessionInv'
<1> USE DEF TypeOK, SessionInv, handleClientDisconnect, Registered
<1>0. /\ up /\ UNCHANGED <<up, id, challenge>>
      /\ conn' = [conn EXCEPT ![c] = "closed"]
  OBVIOUS
<1>1. \A k \in Keys : client_list'[k] # NoConn =>
        client_list'[k] = client_list[k] /\ id[c] # k
  BY DEF Without
<1>2. \A ch \in Channels, k \in Keys : channel_list'[ch][k] # NoConn =>
        /\ channel_list'[ch][k] = channel_list[ch][k]
        /\ id[c] # k
        /\ client_list'[k] # NoConn
  <2>1. \A ch \in Channels, k \in Keys :
          channel_list[ch][k] # NoConn => client_list[k] # NoConn
    BY DEF MembersAreCarried
  <2>2. CASE id[c] \in Keys /\ Registered(id[c])
    <3>1. \A ch \in Channels, k \in Keys :
            channel_list'[ch][k] = IF k = id[c] THEN NoConn ELSE channel_list[ch][k]
      BY <2>2 DEF Without
    <3>2. \A k \in Keys :
            client_list'[k] = IF k = id[c] THEN NoConn ELSE client_list[k]
      BY <2>2 DEF Without
    <3> QED
      BY <2>1, <3>1, <3>2
  <2>3. CASE ~(id[c] \in Keys /\ Registered(id[c]))
    BY <2>1, <2>3
  <2> QED
    BY <2>2, <2>3
<1>3. \A k \in Keys, x \in Conns : MayCarry(x, k) /\ id[c] # k => MayCarry(x, k)'
  BY <1>0 DEF MayCarry
<1>4. SessionsAreCarried'
  BY <1>0, <1>1, <1>3 DEF SessionsAreCarried
<1>5. MembersAreCarried'
  BY <1>0, <1>2, <1>3 DEF MembersAreCarried
<1> QED
  BY <1>0, <1>4, <1>5 DEF DeadServerIsEmpty

(* Every branch of handleClientData preserves the invariant. *)
LEMMA HandlerSessions ==
  ASSUME TypeOK, SessionInv, NEW c \in Conns, NEW d \in Requests(c),
         handleClientData(c, d)
  PROVE  SessionInv'
<1>o. up /\ conn[c] = "open"
  BY DEF handleClientData
<1>1. CASE d.from = NoKey /\ Malformed(c, d)
  <2>1. UNCHANGED <<up, client_list, channel_list, conn, id, challenge>>
    BY <1>1 DEF Malformed, tables
  <2> QED
    BY <2>1, QuietStep DEF MayCarry
<1>2. CASE d.from # NoKey /\ HandleClientDatum(c, d)
  <2>k. d.from \in Keys
    BY <1>2, RequestType
  <2>m. ASSUME Identify(c, d), UNCHANGED conn
        PROVE  /\ \A x \in Conns : \A k : MayCarry(x, k) => MayCarry(x, k)'
               /\ \A k : MayCarry(c, k)'
    <3>1. \A x \in Conns : \A k : MayCarry(x, k) => MayCarry(x, k)'
      BY <1>o, <2>k, <2>m, OpenOnesSpeak
    <3>2. id'[c] = d.from
      BY <2>m DEF TypeOK, Identify
    <3> QED
      BY <1>o, <2>k, <2>m, <3>1, <3>2 DEF MayCarry
  <2>q. ASSUME Identify(c, d), UNCHANGED <<up, client_list, channel_list, conn>>,
               \A x \in Conns : challenge[x] > 0 => challenge'[x] > 0
        PROVE  SessionInv'
    BY <2>q, <2>m, QuietStep
  <2>1. CASE ConnectRequest(c, d)
    <3>1. \A x \in Conns : challenge[x] > 0 => challenge'[x] > 0
      BY <2>1 DEF ConnectRequest, TypeOK
    <3> QED
      BY <2>1, <2>q, <3>1 DEF ConnectRequest, tables
  <2>2. CASE VerifyRequest(c, d)
    <3>1. /\ client_list' = [client_list EXCEPT ![d.from] = c]
          /\ Identify(c, d)
          /\ UNCHANGED <<up, channel_list, conn, challenge>>
      BY <2>2 DEF VerifyRequest
    <3>2. challenge[c] > 0
      <4>1. challenge[c] # 0
        BY <2>2 DEF VerifyRequest, Proves
      <4> QED
        BY <4>1 DEF TypeOK
    <3>3. SessionsAreCarried'
      BY <2>k, <2>m, <3>1, <3>2 DEF TypeOK, SessionInv, SessionsAreCarried, Registered
    <3>4. MembersAreCarried'
      BY <2>k, <2>m, <3>1 DEF TypeOK, SessionInv, MembersAreCarried, Registered
    <3> QED
      BY <1>o, <3>1, <3>3, <3>4 DEF SessionInv, DeadServerIsEmpty
  <2>3. CASE NotRegistered(c, d)
    BY <2>3, <2>q DEF NotRegistered, tables
  <2>4. CASE JoinRequest(c, d)
    <3>1. /\ channel_list' = [channel_list EXCEPT ![d.cname][d.from] = c]
          /\ Identify(c, d)
          /\ UNCHANGED <<up, client_list, conn, challenge>>
          /\ Registered(d.from)
      BY <2>4 DEF JoinRequest
    <3>2. SessionsAreCarried'
      BY <2>m, <3>1 DEF TypeOK, SessionInv, SessionsAreCarried, Registered
    <3>3. MembersAreCarried'
      BY <2>k, <2>m, <3>1 DEF TypeOK, SessionInv, MembersAreCarried, Registered
    <3> QED
      BY <1>o, <3>1, <3>2, <3>3 DEF SessionInv, DeadServerIsEmpty
  <2>5. CASE NotInChannel(c, d)
    BY <2>5, <2>q DEF NotInChannel, tables
  <2>6. CASE MsgRequest(c, d)
    <3>1. \/ Die(Write(Warned(c, d), Recipients(c, d), d))
          \/ /\ Identify(c, d)
             /\ UNCHANGED <<up, client_list, channel_list, conn, challenge>>
      BY <2>6 DEF MsgRequest
    <3> QED
      BY <2>q, <3>1, DieSessions
  <2>7. CASE Ignored(c, d)
    BY <2>7, <2>q DEF Ignored, tables
  <2> QED
    BY <1>2, <2>1, <2>2, <2>3, <2>4, <2>5, <2>6, <2>7 DEF HandleClientDatum
<1> QED
  BY <1>1, <1>2 DEF handleClientData

(* Every step preserves the invariant. *)
LEMMA SessionStep == TypeOK /\ SessionInv /\ [Next]_vars => SessionInv'
<1> SUFFICES ASSUME TypeOK, SessionInv, [Next]_vars PROVE SessionInv'
  OBVIOUS
<1>q. ASSUME UNCHANGED <<up, client_list, channel_list, conn, id, challenge>>
      PROVE  SessionInv'
  BY <1>q, QuietStep DEF MayCarry
<1>1. CASE \E c \in Conns : onClientConnected(c)
  <2>1. PICK c \in Conns : onClientConnected(c)
    BY <1>1
  <2>2. /\ up /\ conn[c] = "unused" /\ conn' = [conn EXCEPT ![c] = "open"]
        /\ UNCHANGED <<up, client_list, channel_list, id, challenge>>
    BY <2>1 DEF onClientConnected, tables
  <2>3. \A x \in Conns : \A k : MayCarry(x, k) => MayCarry(x, k)'
    BY <2>2 DEF TypeOK, MayCarry
  <2> QED
    BY <2>2, <2>3, QuietStep
<1>2. CASE \E c \in Conns : handleClientDisconnect(c)
  BY <1>2, DisconnectSessions
<1>3. CASE \E c \in Conns : \E d \in Requests(c) : ClientSends(c, d)
  BY <1>3, HandlerSessions DEF ClientSends
<1>4. CASE \E a \in Peers : PeerRegistered(a) \/ handlePeerDisconnect(a)
  BY <1>4, <1>q DEF PeerRegistered, handlePeerDisconnect
<1>5. CASE \E a \in Peers : \E d \in Relays : PeerRelays(a, d)
  BY <1>5, DieSessions DEF PeerRelays
<1>6. CASE Exit
  BY <1>6, DieSessions DEF Exit
<1>7. CASE Restart
  BY <1>7 DEF SessionInv, SessionsAreCarried, MembersAreCarried, MayCarry,
              DeadServerIsEmpty, Registered, Restart, tables
<1>8. CASE \E c \in Conns : Read(c) \/ Lose(c)
  BY <1>8, <1>q DEF Read, Lose, tables
<1>9. CASE UNCHANGED vars
  BY <1>9, <1>q DEF vars, tables
<1> QED
  BY <1>1, <1>2, <1>3, <1>4, <1>5, <1>6, <1>7, <1>8, <1>9 DEF Next

(* Whatever keys a connection names, and whatever peers, crashes and closes
   do: a channel holds registered keys only, and an entry of either table
   leads to an open connection, or to one that named another key before it
   closed.  That exception is real: the first key of a connection that names
   another before it closes stays registered. *)
THEOREM SessionsCorrect == Spec => []SessionInv
<1>1. Init => SessionInv
  BY DEF Init, SessionInv, SessionsAreCarried, MembersAreCarried,
         DeadServerIsEmpty, Registered, NoSessions, NoMembers
<1>2. Spec => []TypeOK
  BY TypeCorrect
<1> QED
  BY <1>1, <1>2, SessionStep, PTL DEF Spec

-----------------------------------------------------------------------------
(* Refinement *)

(* A step that leaves the tables of users and the connections alone is a
   stutter of the directory. *)
LEMMA QuietDirectory ==
  ASSUME UNCHANGED <<client_list, channel_list, conn, id>>
  PROVE  UNCHANGED Directory!vars
BY DEF Directory!vars, Members, Open

(* A request that changes no table says who speaks. *)
LEMMA JustSpeaks ==
  ASSUME NEW c \in Conns, conn[c] = "open", NEW d, d.from \in Keys,
         Identify(c, d), UNCHANGED <<client_list, channel_list, conn>>
  PROVE  Directory!Next
<1>1. Directory!SaysMore(c, d.from)
  BY DEF Identify, Members, Open, Directory!SaysMore, Directory!Speaks
<1> QED
  BY <1>1 DEF Directory!Next

(* The end of the process ends every session. *)
LEMMA DieForgets ==
  ASSUME TypeOK, NEW out, Die(out)
  PROVE  Directory!Forget
<1>1. client_list' = [k \in Keys |-> NoConn]
  BY DEF Die, NoSessions
<1>2. Members' = [ch \in Channels |-> {}]
  BY DEF Die, NoSessions, NoMembers, Members
<1>3. Open' = {} /\ UNCHANGED id
  BY DEF Die, Open, TypeOK
<1> QED
  BY <1>1, <1>2, <1>3 DEF Directory!Forget

(* The close of a connection ends the session of the key it last spoke for,
   if there is one. *)
LEMMA DisconnectCloses ==
  ASSUME TypeOK, SessionInv, NEW c \in Conns, handleClientDisconnect(c)
  PROVE  Directory!Closes(c)
<1>1. c \in Open /\ Open' = Open \ {c} /\ UNCHANGED id
  BY DEF TypeOK, handleClientDisconnect, Open
<1>2. client_list' = [k \in Keys |-> IF k = id[c] THEN NoConn ELSE client_list[k]]
  <2>1. CASE id[c] \in Keys /\ Registered(id[c])
    BY <2>1 DEF TypeOK, handleClientDisconnect, Without
  <2>2. CASE ~(id[c] \in Keys /\ Registered(id[c]))
    BY <2>2 DEF TypeOK, handleClientDisconnect, Registered
  <2> QED
    BY <2>1, <2>2
<1>3. Members' = [ch \in Channels |-> Members[ch] \ {id[c]}]
  <2>1. CASE id[c] \in Keys /\ Registered(id[c])
    BY <2>1 DEF TypeOK, handleClientDisconnect, Without, Members
  <2>2. CASE ~(id[c] \in Keys /\ Registered(id[c]))
    <3>1. \A ch \in Channels : id[c] \notin Members[ch]
      BY <2>2 DEF SessionInv, MembersAreCarried, Members
    <3>2. UNCHANGED channel_list
      BY <2>2 DEF handleClientDisconnect
    <3> QED
      BY <3>1, <3>2 DEF Members
  <2> QED
    BY <2>1, <2>2
<1> QED
  BY <1>1, <1>2, <1>3 DEF Directory!Closes

(* Every branch of handleClientData is a step of the directory. *)
LEMMA HandlerDirectory ==
  ASSUME TypeOK, NEW c \in Conns, NEW d \in Requests(c), handleClientData(c, d)
  PROVE  [Directory!Next]_(Directory!vars)
<1>o. conn[c] = "open"
  BY DEF handleClientData
<1>1. CASE d.from = NoKey /\ Malformed(c, d)
  BY <1>1, QuietDirectory DEF Malformed, tables
<1>2. CASE d.from # NoKey /\ HandleClientDatum(c, d)
  <2>k. d.from \in Keys
    BY <1>2, RequestType
  <2>s. Identify(c, d) /\ UNCHANGED conn => Directory!Speaks(c, d.from)
    BY <1>o DEF Identify, Open, Directory!Speaks
  <2>j. Identify(c, d) /\ UNCHANGED <<client_list, channel_list, conn>>
          => Directory!Next
    BY <1>o, <2>k, JustSpeaks
  <2>1. CASE ConnectRequest(c, d)
    BY <2>1, <2>j DEF ConnectRequest, tables
  <2>2. CASE VerifyRequest(c, d)
    <3>1. /\ client_list[d.from] = NoConn
          /\ client_list' = [client_list EXCEPT ![d.from] = c]
          /\ UNCHANGED Members
          /\ Directory!Speaks(c, d.from)
      BY <2>2, <2>s DEF VerifyRequest, Registered, Members
    <3>2. Directory!Establish(c, d.from)
      BY <3>1 DEF Directory!Establish
    <3> QED
      BY <2>k, <3>2 DEF Directory!Next
  <2>3. CASE NotRegistered(c, d)
    BY <2>3, <2>j DEF NotRegistered, tables
  <2>4. CASE JoinRequest(c, d)
    <3>1. d.cname \in Channels
      BY <2>4, RequestType DEF JoinRequest
    <3>2. Members' = [Members EXCEPT ![d.cname] = @ \cup {d.from}]
      <4>1. channel_list' = [channel_list EXCEPT ![d.cname][d.from] = c]
        BY <2>4 DEF JoinRequest
      <4>2. \A ch \in Channels, k \in Keys :
              channel_list'[ch][k] # NoConn
                <=> channel_list[ch][k] # NoConn \/ (ch = d.cname /\ k = d.from)
        BY <2>k, <3>1, <4>1 DEF TypeOK
      <4>3. \A ch \in Channels : ch # d.cname =>
              {k \in Keys : channel_list'[ch][k] # NoConn}
                = {k \in Keys : channel_list[ch][k] # NoConn}
        BY <4>2
      <4>4. {k \in Keys : channel_list'[d.cname][k] # NoConn}
              = {k \in Keys : channel_list[d.cname][k] # NoConn} \cup {d.from}
        BY <2>k, <3>1, <4>2
      <4> QED
        BY <3>1, <4>3, <4>4 DEF Members
    <3>3. Directory!Enter(c, d.from, d.cname)
      BY <2>4, <2>s, <3>2 DEF JoinRequest, Registered, Directory!Enter
    <3> QED
      BY <2>k, <3>1, <3>3 DEF Directory!Next
  <2>5. CASE NotInChannel(c, d)
    BY <2>5, <2>j DEF NotInChannel, tables
  <2>6. CASE MsgRequest(c, d)
    <3>1. \/ Die(Write(Warned(c, d), Recipients(c, d), d))
          \/ Identify(c, d) /\ UNCHANGED <<client_list, channel_list, conn>>
      BY <2>6 DEF MsgRequest
    <3> QED
      BY <2>j, <3>1, DieForgets DEF Directory!Next
  <2>7. CASE Ignored(c, d)
    BY <2>7, <2>j DEF Ignored, tables
  <2> QED
    BY <1>2, <2>1, <2>2, <2>3, <2>4, <2>5, <2>6, <2>7 DEF HandleClientDatum
<1> QED
  BY <1>1, <1>2 DEF handleClientData

(* Every step of the server is a step of the directory, or a stutter. *)
LEMMA DirectoryStep ==
  TypeOK /\ SessionInv /\ [Next]_vars => [Directory!Next]_(Directory!vars)
<1> SUFFICES ASSUME TypeOK, SessionInv, [Next]_vars
             PROVE  [Directory!Next]_(Directory!vars)
  OBVIOUS
<1>1. CASE \E c \in Conns : onClientConnected(c)
  <2>1. PICK c \in Conns : onClientConnected(c)
    BY <1>1
  <2>2. Directory!Opens(c)
    BY <2>1 DEF TypeOK, onClientConnected, tables, Members, Open, Directory!Opens
  <2> QED
    BY <2>2 DEF Directory!Next
<1>2. CASE \E c \in Conns : handleClientDisconnect(c)
  BY <1>2, DisconnectCloses DEF Directory!Next
<1>3. CASE \E c \in Conns : \E d \in Requests(c) : ClientSends(c, d)
  BY <1>3, HandlerDirectory DEF ClientSends
<1>4. CASE \E a \in Peers : \E d \in Relays : PeerRelays(a, d)
  BY <1>4, DieForgets DEF PeerRelays, Directory!Next
<1>5. CASE Exit
  BY <1>5, DieForgets DEF Exit, Directory!Next
<1>6. CASE \E c \in Conns : Read(c) \/ Lose(c)
  BY <1>6, QuietDirectory DEF Read, Lose, tables
<1>7. CASE \E a \in Peers : PeerRegistered(a) \/ handlePeerDisconnect(a)
  BY <1>7, QuietDirectory DEF PeerRegistered, handlePeerDisconnect
<1>8. CASE Restart
  BY <1>8, QuietDirectory DEF Restart, tables
<1>9. CASE UNCHANGED vars
  BY <1>9, QuietDirectory DEF vars, tables
<1> QED
  BY <1>1, <1>2, <1>3, <1>4, <1>5, <1>6, <1>7, <1>8, <1>9 DEF Next

(* The server implements the directory: a user has one session at most, which
   is never handed over and ends with the close of a connection that last
   spoke for the user or with the process, and a user is in channels only as
   long as the session lasts; also when one connection speaks for several. *)
THEOREM ImplementsDirectory == Spec => DirectorySpec
<1>1. Init => Directory!Init
  BY DEF Init, NoSessions, NoMembers, Members, Open, Directory!Init
<1> QED
  BY <1>1, TypeCorrect, SessionsCorrect, DirectoryStep, PTL
  DEF Spec, DirectorySpec, Directory!Spec
=============================================================================

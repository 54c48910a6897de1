-------------------------- MODULE ChatSystemProofs --------------------------
(***************************************************************************)
(* What is proved of clients and server together, whatever their number,   *)
(* their kinds, their keys and the length of their conversations.          *)
(***************************************************************************)
EXTENDS ChatSystem, SequenceTheorems, TLAPS

USE WireAssumption, SystemAssumption

-----------------------------------------------------------------------------
(* The three vocabularies.  ChatServer and DarkClient have the datums of Wire
   each by their own name for them. *)

(* ChatServer's and DarkClient's datums are Wire's. *)
LEMMA SameDatum == S!Datum = Datum /\ C!Datum = Datum
BY DEF Datum, Types, Texts, S!Datum, S!Types, S!Texts, C!Datum, C!Types, C!Texts

(* So are the replies the server writes and the one the client compares with. *)
LEMMA SameReplies ==
  /\ \A n : S!AskVerify(n) = AskVerify(n)
  /\ S!Success("Connected to Network") = Success("Connected to Network")
  /\ S!Success("Connected to channel") = Success("Connected to channel")
  /\ S!Success("MESSAGE SENT") = Success("MESSAGE SENT")
  /\ C!Success("MESSAGE SENT") = Success("MESSAGE SENT")
  /\ S!Error("MALFORMED DATA") = Error("MALFORMED DATA")
  /\ S!Error("JOIN CHANNEL FIRST") = Error("JOIN CHANNEL FIRST")
BY DEF AskVerify, Success, Error, MakeDatum,
       S!AskVerify, S!Success, S!Error, S!MakeDatum, C!Success, C!MakeDatum

(* The types, in the system's own words. *)
SystemTypes ==
  /\ up \in BOOLEAN
  /\ client_list \in [Keys -> Clients \cup {NoConn}]
  /\ channel_list \in [Channels -> [Keys -> Clients \cup {NoConn}]]
  /\ peer_list = {}
  /\ msg_list \in Nat
  /\ conn \in [Clients -> {"unused", "open", "closed"}]
  /\ id \in [Clients -> Keys \cup {NoKey}]
  /\ challenge \in [Clients -> Nat]
  /\ toClient \in [Clients -> Seq(Datum)]
  /\ started \in [Clients -> BOOLEAN]
  /\ stage \in [Clients -> C!Stages]
  /\ remaining \in [Clients -> Seq(C!Stages)]
  /\ challengeSig \in [Clients -> Nat]
  /\ stageSent \in [Clients -> Nat]
  /\ queue \in [Clients -> Seq(Nat)]
  /\ sentCount \in [Clients -> Nat]
  /\ ackedCount \in [Clients -> Nat]
  /\ heard \in [Clients -> Seq((Keys \cup {NoKey}) \X Nat)]
  /\ lastSent \in [Clients -> Nat]
  /\ toServer \in [Clients -> Seq(Datum)]

(* The types of the two components, variable by variable. *)
LEMMA SameTypes == SystemTypes <=> TypeOK
BY SameDatum DEF SystemTypes, TypeOK, S!TypeOK, C!TypeOK

-----------------------------------------------------------------------------
(* Sequences *)

(* What an item more at the end leaves as it was, and what it adds. *)
LEMMA AppendItems ==
  ASSUME NEW T, NEW s \in Seq(T), NEW e \in T
  PROVE  /\ Append(s, e) \in Seq(T) /\ Append(s, e) # <<>>
         /\ Len(Append(s, e)) = Len(s) + 1
         /\ ToSet(Append(s, e)) = ToSet(s) \cup {e}
         /\ \A i \in 1..Len(s) : Append(s, e)[i] = s[i]
         /\ Append(s, e)[Len(s) + 1] = e
         /\ s # <<>> => /\ Head(Append(s, e)) = Head(s)
                        /\ Tail(Append(s, e)) = Append(Tail(s), e)
         /\ s = <<>> => /\ Head(Append(s, e)) = e /\ Tail(Append(s, e)) = <<>>
<1>1. /\ Append(s, e) \in Seq(T) /\ Append(s, e) # <<>>
      /\ Len(Append(s, e)) = Len(s) + 1
      /\ \A i \in 1..Len(s) : Append(s, e)[i] = s[i]
      /\ Append(s, e)[Len(s) + 1] = e
  BY AppendProperties
<1>2. ToSet(Append(s, e)) = ToSet(s) \cup {e}
  BY <1>1 DEF ToSet
<1>3. s # <<>> => /\ Head(Append(s, e)) = Head(s)
                  /\ Tail(Append(s, e)) = Append(Tail(s), e)
  OBVIOUS
<1>4. s = <<>> => /\ Head(Append(s, e)) = e /\ Tail(Append(s, e)) = <<>>
  OBVIOUS
<1> QED
  BY <1>1, <1>2, <1>3, <1>4

(* The same, of the set of items only. *)
LEMMA AppendSet ==
  ASSUME NEW T, NEW s \in Seq(T), NEW e \in T
  PROVE  ToSet(Append(s, e)) = ToSet(s) \cup {e}
BY AppendItems

(* What is left when the first item is taken. *)
LEMMA TailItems ==
  ASSUME NEW T, NEW s \in Seq(T), s # <<>>
  PROVE  /\ Head(s) \in T /\ Tail(s) \in Seq(T)
         /\ Head(s) = s[1] /\ Len(s) \in Nat /\ Len(s) >= 1
         /\ Len(Tail(s)) = Len(s) - 1
         /\ \A i \in 1..Len(Tail(s)) : Tail(s)[i] = s[i + 1] /\ i + 1 \in 1..Len(s)
         /\ Head(s) \in ToSet(s) /\ ToSet(Tail(s)) \subseteq ToSet(s)
         /\ ToSet(s) = {Head(s)} \cup ToSet(Tail(s))
         /\ ToSet(s) \subseteq T
         /\ Len(s) = 1 => Tail(s) = <<>>
<1>1. /\ Head(s) \in T /\ Tail(s) \in Seq(T)
      /\ Head(s) = s[1] /\ Len(s) \in Nat /\ Len(s) >= 1
      /\ Len(Tail(s)) = Len(s) - 1
      /\ \A i \in 1..Len(Tail(s)) : Tail(s)[i] = s[i + 1] /\ i + 1 \in 1..Len(s)
  BY HeadTailProperties
<1>2. Head(s) \in ToSet(s) /\ ToSet(Tail(s)) \subseteq ToSet(s)
  BY <1>1 DEF ToSet
<1>3. ToSet(s) = {Head(s)} \cup ToSet(Tail(s))
  <2>1. ASSUME NEW x \in ToSet(s), x # Head(s) PROVE x \in ToSet(Tail(s))
    <3>1. PICK i \in 1..Len(s) : x = s[i]
      BY DEF ToSet
    <3>2. i # 1 /\ i - 1 \in 1..Len(Tail(s)) /\ (i - 1) + 1 = i
      BY <1>1, <2>1, <3>1
    <3>3. Tail(s)[i - 1] = x
      BY <1>1, <3>1, <3>2
    <3>4. DOMAIN Tail(s) = 1..Len(Tail(s))
      BY <1>1
    <3>5. \E j \in DOMAIN Tail(s) : Tail(s)[j] = x
      BY <3>2, <3>3, <3>4
    <3> QED
      BY <3>5 DEF ToSet
  <2> QED
    BY <1>2, <2>1
<1>4. ToSet(s) \subseteq T
  BY <1>1 DEF ToSet
<1>5. Len(s) = 1 => Tail(s) = <<>>
  <2>1. Len(s) = 1 => Len(Tail(s)) = 0
    BY <1>1
  <2> QED
    BY <1>1, <2>1, EmptySeq
<1> QED
  BY <1>1, <1>2, <1>3, <1>4, <1>5

(* The empty sequence has no items, of any type. *)
LEMMA EmptyItems == ToSet(<<>>) = {} /\ Len(<<>>) = 0 /\ \A T : <<>> \in Seq(T)
<1>1. Len(<<>>) = 0 /\ \A T : <<>> \in Seq(T)
  OBVIOUS
<1>2. ToSet(<<>>) = {}
  BY DEF ToSet
<1> QED
  BY <1>1, <1>2

-----------------------------------------------------------------------------
(* What the server does with a request, in the system's own words. *)

(* The only write of the step is r, to c. *)
Answers(c, r) ==
  toClient' = [x \in Clients |-> IF x = c THEN Append(toClient[x], r) ELSE toClient[x]]

Challenges(c, d) ==
  /\ d.type = "connect" /\ ~Registered(c)
  /\ challenge' = [challenge EXCEPT ![c] = @ + 1]
  /\ Answers(c, AskVerify(challenge[c] + 1))
  /\ UNCHANGED <<client_list, channel_list, msg_list>>

Admits(c, d) ==
  /\ d.type = "verify" /\ ~Registered(c)
  /\ client_list' = [client_list EXCEPT ![KeyOf[c]] = c]
  /\ Answers(c, Success("Connected to Network"))
  /\ UNCHANGED <<channel_list, msg_list, challenge>>

JoinsChannel(c, d) ==
  /\ d.type = "join" /\ Registered(c)
  /\ channel_list' = [channel_list EXCEPT ![ChannelOf[c]][KeyOf[c]] = c]
  /\ Answers(c, Success("Connected to channel"))
  /\ UNCHANGED <<client_list, msg_list, challenge>>

Delivers(c, d) ==
  /\ d.type = "msg" /\ Registered(c)
  /\ Kind[c] = "public" => InChannel(c)
  /\ toClient' = [x \in Clients |->
       LET out == IF x \in S!Recipients(c, d) THEN Append(toClient[x], d)
                  ELSE toClient[x]
       IN  IF x = c THEN Append(out, Success("MESSAGE SENT")) ELSE out]
  /\ msg_list' = msg_list + 1
  /\ UNCHANGED <<client_list, channel_list, challenge>>

Ignores(c, d) ==
  /\ d.type \in {"connect", "verify"} /\ Registered(c)
  /\ UNCHANGED <<client_list, channel_list, msg_list, challenge, toClient>>

(* The two ways to be refused. *)
Premature(c, d) ==
  /\ ~Registered(c)
  /\ d.type # "connect"
  /\ ~(d.type = "verify" /\ challenge[c] # 0 /\ d.msg = challenge[c])

Outside(c, d) ==
  /\ Registered(c) /\ d.type = "msg"
  /\ Kind[c] = "public" /\ ~InChannel(c)

Refuses(c, d) ==
  /\ Premature(c, d) \/ Outside(c, d)
  /\ \E text \in Texts : Answers(c, Error(text))
  /\ UNCHANGED <<client_list, channel_list, msg_list, challenge>>

Handles(c, d) ==
  \/ Challenges(c, d) \/ Admits(c, d) \/ JoinsChannel(c, d)
  \/ Delivers(c, d) \/ Ignores(c, d) \/ Refuses(c, d)

(* reply writes to one client. *)
LEMMA ReplyAnswers ==
  ASSUME NEW c \in Clients, NEW r, S!Reply(c, r)
  PROVE  Answers(c, r)
BY DEF S!Reply, S!Write, Answers

(* The same of each reply that ChatServer writes. *)
LEMMA Replies ==
  ASSUME NEW c \in Clients
  PROVE  /\ \A n : S!Reply(c, S!AskVerify(n)) => Answers(c, AskVerify(n))
         /\ S!Reply(c, S!Success("Connected to Network"))
              => Answers(c, Success("Connected to Network"))
         /\ S!Reply(c, S!Success("Connected to channel"))
              => Answers(c, Success("Connected to channel"))
         /\ S!Reply(c, S!Error("MALFORMED DATA")) => Answers(c, Error("MALFORMED DATA"))
         /\ S!Reply(c, S!Error("JOIN CHANNEL FIRST"))
              => Answers(c, Error("JOIN CHANNEL FIRST"))
BY ReplyAnswers, SameReplies

(* handleClientData with what a client wrote. *)
LEMMA Handled ==
  ASSUME SystemTypes, ClientsInv, NEW c \in Clients, ServerReceives(c)
  PROVE  LET d == Head(toServer[c]) IN
           /\ up /\ conn[c] = "open"
           /\ d \in ToSet(toServer[c]) /\ Wrote(c, d)
           /\ Handles(c, d)
           /\ id' = [id EXCEPT ![c] = KeyOf[c]]
           /\ toServer' = [toServer EXCEPT ![c] = Tail(@)]
           /\ UNCHANGED <<up, peer_list, conn, clientVars>>
<1> DEFINE d == Head(toServer[c])
<1>1. /\ toServer[c] # <<>>
      /\ S!handleClientData(c, d)
      /\ toServer' = [toServer EXCEPT ![c] = Tail(@)]
      /\ UNCHANGED clientVars
  BY DEF ServerReceives
<1>2. toServer[c] \in Seq(Datum)
  BY DEF SystemTypes
<1>3. d \in ToSet(toServer[c])
  BY <1>1, <1>2, TailItems
<1>4. Wrote(c, d)
  BY <1>3 DEF ClientsInv
<1>5. up /\ conn[c] = "open"
  BY <1>1 DEF S!handleClientData
<1>6. KeyOf[c] \in Keys /\ KeyOf[c] # NoKey /\ ChannelOf[c] \in Channels
      /\ PartnerOf[c] \in Keys /\ PartnerOf[c] # NoKey /\ ChannelOf[c] # NoChannel
  OBVIOUS
<1>7. d.from = KeyOf[c] /\ d.from # NoKey /\ d.from \in Keys
  BY <1>4, <1>6 DEF Wrote
<1>8. S!HandleClientDatum(c, d)
  BY <1>1, <1>7 DEF S!handleClientData
<1>9. S!Registered(d.from) <=> Registered(c)
  BY <1>7 DEF S!Registered, Registered
<1>10. S!Identify(c, d) => id' = [id EXCEPT ![c] = KeyOf[c]]
  BY <1>7 DEF S!Identify
<1> DEFINE Done ==
             /\ Handles(c, d)
             /\ id' = [id EXCEPT ![c] = KeyOf[c]]
             /\ UNCHANGED <<up, peer_list, conn>>
<1> HIDE DEF d
<1>11. Done
  <2> USE DEF S!tables
  <2>1. CASE S!ConnectRequest(c, d)
    <3>1. Challenges(c, d)
      BY <2>1, <1>9, Replies
      DEF S!ConnectRequest, Challenges
    <3> QED
      BY <2>1, <3>1, <1>10 DEF S!ConnectRequest, Handles
  <2>2. CASE S!VerifyRequest(c, d)
    <3>1. Admits(c, d)
      BY <2>2, <1>7, <1>9, Replies
      DEF S!VerifyRequest, S!Proves, Admits
    <3> QED
      BY <2>2, <3>1, <1>10 DEF S!VerifyRequest, Handles
  <2>3. CASE S!NotRegistered(c, d)
    <3>1. Premature(c, d)
      BY <2>3, <1>9 DEF S!NotRegistered, S!Proves, Premature
    <3>2. Answers(c, Error("MALFORMED DATA")) /\ "MALFORMED DATA" \in Texts
      BY <2>3, Replies DEF S!NotRegistered, Texts
    <3>3. Refuses(c, d)
      BY <2>3, <3>1, <3>2 DEF S!NotRegistered, Refuses
    <3> QED
      BY <2>3, <3>3, <1>10 DEF S!NotRegistered, Handles
  <2>4. CASE S!JoinRequest(c, d)
    <3>1. d.cname = ChannelOf[c]
      BY <2>4, <1>4 DEF S!JoinRequest, Wrote
    <3>2. JoinsChannel(c, d)
      BY <2>4, <3>1, <1>7, <1>9, Replies
      DEF S!JoinRequest, JoinsChannel
    <3> QED
      BY <2>4, <3>2, <1>10 DEF S!JoinRequest, Handles
  <2>5. CASE S!NotInChannel(c, d)
    <3>1. d.cname = ChannelOf[c] /\ Kind[c] = "public"
      BY <2>5, <1>4 DEF S!NotInChannel, Wrote
    <3>2. Outside(c, d)
      BY <2>5, <3>1, <1>7, <1>9
      DEF S!NotInChannel, S!InChannel, Outside, InChannel
    <3>3. Answers(c, Error("JOIN CHANNEL FIRST")) /\ "JOIN CHANNEL FIRST" \in Texts
      BY <2>5, Replies DEF S!NotInChannel, Texts
    <3>4. Refuses(c, d)
      BY <2>5, <3>2, <3>3 DEF S!NotInChannel, Refuses
    <3> QED
      BY <2>5, <3>4, <1>10 DEF S!NotInChannel, Handles
  <2>6. CASE S!MsgRequest(c, d)
    <3>1. d.type = "msg" /\ Registered(c) /\ peer_list = {}
      BY <2>6, <1>9 DEF S!MsgRequest, SystemTypes
    <3>2. ~(d.to = NoKey /\ d.cname = NoChannel)
      BY <3>1, <1>4, <1>6 DEF Wrote
    <3>3. S!Warned(c, d) = toClient
      BY <3>2 DEF S!Warned
    <3>4. Kind[c] = "public" => InChannel(c)
      BY <2>6, <3>1, <1>4, <1>6, <1>7
      DEF S!MsgRequest, S!InChannel, InChannel, Wrote
    <3>5. LET pushed == S!Write(toClient, S!Recipients(c, d), d) IN
            /\ msg_list' = msg_list + 1
            /\ toClient' = S!Write(pushed, {c}, S!Success("MESSAGE SENT"))
            /\ S!Identify(c, d)
            /\ UNCHANGED <<up, client_list, channel_list, peer_list, conn, challenge>>
      BY <2>6, <3>1, <3>3 DEF S!MsgRequest
    <3>6. Delivers(c, d)
      BY <3>1, <3>4, <3>5, SameReplies DEF S!Write, Delivers
    <3> QED
      BY <3>5, <3>6, <1>10 DEF Handles
  <2>7. CASE S!Ignored(c, d)
    <3>1. Ignores(c, d)
      BY <2>7, <1>9 DEF S!Ignored, Ignores
    <3> QED
      BY <2>7, <3>1, <1>10 DEF S!Ignored, Handles
  <2> QED
    BY <1>8, <2>1, <2>2, <2>3, <2>4, <2>5, <2>6, <2>7 DEF S!HandleClientDatum
<1> QED
  BY <1>1, <1>3, <1>4, <1>5, <1>11 DEF d

(* Who a message is written to: the channel's other members, or whoever is
   registered under the key it is for. *)
LEMMA RecipientsAre ==
  ASSUME SystemTypes, TablesInv, NEW c \in Clients, NEW d, Wrote(c, d),
         d.type = "msg", NEW x \in S!Recipients(c, d)
  PROVE  /\ x \in Clients /\ conn[x] = "open" /\ Registered(x)
         /\ IF Kind[c] = "public"
            THEN x # c /\ Kind[x] = "public" /\ ChannelOf[x] = ChannelOf[c] /\ InChannel(x)
            ELSE KeyOf[x] = PartnerOf[c]
<1>1. /\ KeyOf[c] \in Keys /\ ChannelOf[c] \in Channels /\ PartnerOf[c] \in Keys
      /\ PartnerOf[c] # NoKey /\ ChannelOf[c] # NoChannel
  OBVIOUS
<1>2. CASE Kind[c] = "public"
  <2>1. d.to = NoKey /\ d.cname = ChannelOf[c]
    BY <1>2 DEF Wrote
  <2>2. x \in {channel_list[ChannelOf[c]][k] : k \in Keys} \ {NoConn, c}
    BY <2>1, <1>1 DEF S!Recipients
  <2>3. PICK k \in Keys : x = channel_list[ChannelOf[c]][k] /\ x # NoConn /\ x # c
    BY <2>2
  <2>4. x \in Clients
    BY <1>1, <2>3 DEF SystemTypes
  <2>5. /\ client_list[k] # NoConn /\ conn[x] = "open" /\ id[x] = k
        /\ Kind[x] = "public" /\ ChannelOf[x] = ChannelOf[c]
    BY <1>1, <2>3 DEF TablesInv
  <2>6. KeyOf[x] = k
    BY <2>4, <2>5 DEF TablesInv
  <2> QED
    BY <1>2, <2>3, <2>4, <2>5, <2>6 DEF Registered, InChannel
<1>3. CASE Kind[c] # "public"
  <2>1. d.to = PartnerOf[c] /\ d.cname = NoChannel
    BY <1>3 DEF Wrote
  <2>2. client_list[PartnerOf[c]] # NoConn /\ x = client_list[PartnerOf[c]]
    BY <2>1, <1>1 DEF S!Recipients, S!Registered
  <2>3. x \in Clients
    BY <1>1, <2>2 DEF SystemTypes
  <2>4. conn[x] = "open" /\ id[x] = PartnerOf[c]
    BY <1>1, <2>2 DEF TablesInv
  <2>5. KeyOf[x] = PartnerOf[c]
    BY <1>1, <2>3, <2>4 DEF TablesInv
  <2> QED
    BY <1>3, <2>2, <2>3, <2>4, <2>5 DEF Registered
<1> QED
  BY <1>2, <1>3

(* What the replies are made of. *)
LEMMA ReplyTypes ==
  /\ \A n \in Nat : AskVerify(n) \in Datum /\ AskVerify(n).type = "verify"
                    /\ AskVerify(n).msg = n
  /\ \A text \in Texts : Error(text) \in Datum
  /\ \A text \in {"Connected to Network", "Connected to channel"} :
       Success(text) \in Datum /\ Grants(Success(text)) /\ Success(text).type = "success"
  /\ Success("MESSAGE SENT") \in Datum /\ Success("MESSAGE SENT").type = "success"
<1>1. /\ "verify" \in Types /\ "success" \in Types /\ "error" \in Types /\ "" \in Texts
      /\ "Connected to Network" \in Texts /\ "Connected to channel" \in Texts
      /\ "MESSAGE SENT" \in Texts /\ 0 \in Nat
  BY DEF Types, Texts
<1>2. \A n \in Nat : AskVerify(n) \in Datum /\ AskVerify(n).type = "verify"
                     /\ AskVerify(n).msg = n
  BY <1>1 DEF AskVerify, MakeDatum, Datum
<1>3. \A text \in Texts : Error(text) \in Datum
  BY <1>1 DEF Error, MakeDatum, Datum
<1>4. \A text \in Texts : Success(text) \in Datum /\ Success(text).type = "success"
                          /\ Success(text).text = text
  BY <1>1 DEF Success, MakeDatum, Datum
<1> QED
  BY <1>1, <1>2, <1>3, <1>4 DEF Grants

(* The outboxes after a message: the receivers' have it at the end, and the
   author's has the acknowledgement. *)
LEMMA DeliveredTo ==
  ASSUME SystemTypes, NEW c \in Clients, NEW d \in Datum, Delivers(c, d)
  PROVE  /\ \A x \in Clients :
              LET out == IF x \in S!Recipients(c, d) THEN Append(toClient[x], d)
                         ELSE toClient[x]
              IN  /\ out \in Seq(Datum)
                  /\ toClient'[x] = IF x = c THEN Append(out, Success("MESSAGE SENT"))
                                    ELSE out
         /\ toClient' \in [Clients -> Seq(Datum)]
<1> DEFINE out(x) == IF x \in S!Recipients(c, d) THEN Append(toClient[x], d)
                     ELSE toClient[x]
<1>1. ASSUME NEW x \in Clients PROVE out(x) \in Seq(Datum)
  <2>1. toClient[x] \in Seq(Datum)
    BY DEF SystemTypes
  <2>2. Append(toClient[x], d) \in Seq(Datum)
    BY <2>1, AppendProperties
  <2> QED
    BY <2>1, <2>2
<1> DEFINE final(x) == IF x = c THEN Append(out(x), Success("MESSAGE SENT")) ELSE out(x)
<1>2. ASSUME NEW x \in Clients PROVE final(x) \in Seq(Datum)
  <2> HIDE DEF out
  <2>1. Append(out(x), Success("MESSAGE SENT")) \in Seq(Datum)
    BY <1>1, ReplyTypes, AppendProperties
  <2> QED
    BY <1>1, <2>1
<1>3. toClient' = [x \in Clients |-> final(x)]
  BY DEF Delivers
<1>4. toClient' \in [Clients -> Seq(Datum)]
  <2> HIDE DEF final
  <2> QED
    BY <1>2, <1>3
<1> QED
  BY <1>1, <1>3, <1>4

(* A request keeps the types. *)
LEMMA HandledTypes ==
  ASSUME SystemTypes, ClientsInv, NEW c \in Clients, ServerReceives(c)
  PROVE  SystemTypes'
<1> DEFINE d == Head(toServer[c])
<1>1. /\ d \in ToSet(toServer[c]) /\ Wrote(c, d) /\ Handles(c, d)
      /\ id' = [id EXCEPT ![c] = KeyOf[c]]
      /\ toServer' = [toServer EXCEPT ![c] = Tail(@)]
      /\ UNCHANGED <<up, peer_list, conn, clientVars>>
  BY Handled
<1>2. d \in Datum
  BY <1>1 DEF Wrote
<1>3. toServer' \in [Clients -> Seq(Datum)]
  <2>1. toServer[c] \in Seq(Datum) /\ toServer[c] # <<>>
    BY DEF SystemTypes, ServerReceives
  <2>2. Tail(toServer[c]) \in Seq(Datum)
    BY <2>1, TailItems
  <2> QED
    BY <1>1, <2>2 DEF SystemTypes
<1>4. id' \in [Clients -> Keys \cup {NoKey}]
  BY <1>1 DEF SystemTypes
<1>5. ASSUME NEW r \in Datum, Answers(c, r) PROVE toClient' \in [Clients -> Seq(Datum)]
  BY <1>5, AppendProperties DEF Answers, SystemTypes
<1>6. /\ client_list' \in [Keys -> Clients \cup {NoConn}]
      /\ channel_list' \in [Channels -> [Keys -> Clients \cup {NoConn}]]
      /\ msg_list' \in Nat
      /\ challenge' \in [Clients -> Nat]
      /\ toClient' \in [Clients -> Seq(Datum)]
  <2> USE DEF SystemTypes
  <2> HIDE DEF d
  <2>1. CASE Challenges(c, d)
    <3>1. challenge[c] + 1 \in Nat
      OBVIOUS
    <3>2. toClient' \in [Clients -> Seq(Datum)]
      <4>1. AskVerify(challenge[c] + 1) \in Datum
        BY <3>1, ReplyTypes
      <4> QED
        BY <2>1, <4>1, <1>5 DEF Challenges
    <3> QED
      BY <2>1, <3>1, <3>2 DEF Challenges
  <2>2. CASE Admits(c, d)
    <3>1. toClient' \in [Clients -> Seq(Datum)]
      BY <2>2, <1>5, ReplyTypes DEF Admits
    <3> QED
      BY <2>2, <3>1 DEF Admits
  <2>3. CASE JoinsChannel(c, d)
    <3>1. toClient' \in [Clients -> Seq(Datum)]
      BY <2>3, <1>5, ReplyTypes DEF JoinsChannel
    <3> QED
      BY <2>3, <3>1 DEF JoinsChannel
  <2>4. CASE Delivers(c, d)
    <3>1. toClient' \in [Clients -> Seq(Datum)]
      BY <2>4, <1>2, DeliveredTo
    <3>2. msg_list' = msg_list + 1 /\ UNCHANGED <<client_list, channel_list, challenge>>
      BY <2>4 DEF Delivers
    <3> QED
      BY <3>1, <3>2
  <2>5. CASE Ignores(c, d)
    BY <2>5 DEF Ignores
  <2>6. CASE Refuses(c, d)
    BY <2>6, <1>5, ReplyTypes DEF Refuses
  <2> QED
    BY <1>1, <2>1, <2>2, <2>3, <2>4, <2>5, <2>6 DEF Handles
<1> QED
  BY <1>1, <1>3, <1>4, <1>6 DEF SystemTypes, clientVars

-----------------------------------------------------------------------------
(* What a client does, in the system's own words. *)

Says(c, d) == toServer' = [toServer EXCEPT ![c] = Append(@, d)]

(* d is what stage st starts with. *)
Opens(c, d, st, n) ==
  /\ Wrote(c, d)
  /\ st = "requestChallenge"  => d.type = "connect"
  /\ st = "signChallenge"     => d.type = "verify" /\ d.msg = n
  /\ st = "joinPublicChannel" => d.type = "join"
  /\ st \in C!MessageStages   => d.type = "msg" /\ queue[c] # <<>> /\ d.msg = Head(queue[c])

(* Some stages start without a word. *)
StartsSilently(c, st) ==
  \/ st \in C!MessageStages /\ queue[c] = <<>>
  \/ st = "signChallenge" /\ Kind[c] = "chat"

(* A stage with the stages to follow it, for a client of c's kind. *)
Fits(c, st, rest) ==
  /\ st \in {"requestChallenge", "signChallenge"} => rest = C!StageCreators(c)
  /\ st \in {"joinPublicChannel", "publicMessage"} => Kind[c] = "public"
  /\ st = "privateMessage" => Kind[c] = "private"

(* c is in stage st from now on, and says what it starts with. *)
EntersStage(c, st, n) ==
  /\ stage' = [stage EXCEPT ![c] = st]
  /\ \/ /\ StartsSilently(c, st)
        /\ UNCHANGED <<toServer, lastSent>>
     \/ \E d : /\ Opens(c, d, st, n) /\ Says(c, d)
               /\ lastSent' = [lastSent EXCEPT ![c] = IF d.type = "msg" THEN d.msg ELSE @]

(* The stages a constructor lists: none for a chat client, and the stage after
   SignChallengeStage for the others. *)
LEMMA Creators ==
  ASSUME NEW c \in Clients
  PROVE  /\ C!StageCreators(c) \in Seq(C!Stages)
         /\ Kind[c] = "chat" => C!StageCreators(c) = <<>>
         /\ Kind[c] = "private" => /\ C!StageCreators(c) # <<>>
                                   /\ Head(C!StageCreators(c)) = "privateMessage"
         /\ Kind[c] = "public" => /\ C!StageCreators(c) # <<>>
                                  /\ Head(C!StageCreators(c)) = "joinPublicChannel"
         /\ Kind[c] \in {"public", "private", "chat"}
<1>1. CASE Kind[c] = "public"
  <2>1. C!StageCreators(c) = <<"joinPublicChannel", "publicMessage">>
    BY <1>1 DEF C!StageCreators
  <2> QED
    BY <1>1, <2>1 DEF C!Stages
<1>2. CASE Kind[c] = "private"
  <2>1. C!StageCreators(c) = <<"privateMessage">>
    BY <1>2 DEF C!StageCreators
  <2> QED
    BY <1>2, <2>1 DEF C!Stages
<1>3. CASE Kind[c] = "chat"
  <2>1. C!StageCreators(c) = <<>>
    BY <1>3 DEF C!StageCreators
  <2> QED
    BY <1>3, <2>1
<1> QED
  BY <1>1, <1>2, <1>3

(* The message a client writes. *)
LEMMA MessageIsWritten ==
  ASSUME NEW c \in Clients, Kind[c] # "chat", NEW n \in Nat
  PROVE  /\ Wrote(c, C!Message(c, n))
         /\ C!Message(c, n).type = "msg" /\ C!Message(c, n).msg = n
<1> DEFINE d == C!Message(c, n)
<1>1. /\ KeyOf[c] \in Keys /\ ChannelOf[c] \in Channels /\ PartnerOf[c] \in Keys
      /\ "msg" \in Types /\ "" \in Texts
  BY DEF Types, Texts
<1>2. CASE Kind[c] = "public"
  <2>1. d = [type |-> "msg", from |-> KeyOf[c], to |-> NoKey,
             cname |-> ChannelOf[c], msg |-> n, text |-> ""]
    BY <1>2 DEF C!Message, C!ChannelMsg, C!MakeDatum
  <2> HIDE DEF d
  <2>2. d \in Datum
    BY <1>1, <2>1 DEF Datum
  <2>3. /\ d.type = "msg" /\ d.from = KeyOf[c] /\ d.to = NoKey
        /\ d.cname = ChannelOf[c] /\ d.msg = n
    BY <2>1
  <2> QED
    BY <1>2, <2>2, <2>3 DEF Wrote, d
<1>3. CASE Kind[c] # "public"
  <2>1. d = [type |-> "msg", from |-> KeyOf[c], to |-> PartnerOf[c],
             cname |-> NoChannel, msg |-> n, text |-> ""]
    BY <1>3 DEF C!Message, C!DirectMsg, C!MakeDatum
  <2> HIDE DEF d
  <2>2. d \in Datum
    BY <1>1, <2>1 DEF Datum
  <2>3. /\ d.type = "msg" /\ d.from = KeyOf[c] /\ d.to = PartnerOf[c]
        /\ d.cname = NoChannel /\ d.msg = n
    BY <2>1
  <2> QED
    BY <1>3, <2>2, <2>3 DEF Wrote, d
<1> QED
  BY <1>2, <1>3

(* sendServerCommand: one datum that fits the stage, or none. *)
LEMMA Command ==
  ASSUME SystemTypes, NEW c \in Clients, NEW st \in C!Stages, NEW rest,
         NEW n \in Nat, Fits(c, st, rest)
  PROVE  LET command == C!sendServerCommand(c, st, rest, n, queue[c]) IN
           \/ command = <<>> /\ StartsSilently(c, st)
           \/ \E d : command = <<d>> /\ Opens(c, d, st, n)
<1> DEFINE command == C!sendServerCommand(c, st, rest, n, queue[c])
<1>1. /\ KeyOf[c] \in Keys /\ ChannelOf[c] \in Channels
      /\ "connect" \in Types /\ "verify" \in Types /\ "join" \in Types /\ "" \in Texts
  BY DEF Types, Texts
<1>2. CASE st = "requestChallenge"
  <2> DEFINE d == [type |-> "connect", from |-> KeyOf[c], to |-> NoKey,
                   cname |-> NoChannel, msg |-> 0, text |-> ""]
  <2>1. command = <<d>>
    BY <1>2 DEF C!sendServerCommand, C!Connect, C!MakeDatum, C!MessageStages
  <2>2. Wrote(c, d) /\ d.type = "connect"
    BY <1>1 DEF Datum, Wrote
  <2> QED
    BY <1>2, <2>1, <2>2 DEF Opens, C!MessageStages
<1>3. CASE st = "signChallenge" /\ rest = <<>>
  <2>1. command = <<>>
    BY <1>3 DEF C!sendServerCommand, C!MessageStages
  <2>2. Kind[c] = "chat"
    BY <1>3, Creators DEF Fits
  <2> QED
    BY <1>3, <2>1, <2>2 DEF StartsSilently
<1>4. CASE st = "signChallenge" /\ rest # <<>>
  <2> DEFINE d == [type |-> "verify", from |-> KeyOf[c], to |-> NoKey,
                   cname |-> NoChannel, msg |-> n, text |-> ""]
  <2>1. command = <<d>>
    BY <1>4 DEF C!sendServerCommand, C!Verify, C!MakeDatum, C!MessageStages
  <2>2. Kind[c] # "chat"
    BY <1>4, Creators DEF Fits
  <2>3. Wrote(c, d) /\ d.type = "verify" /\ d.msg = n
    BY <1>1, <2>2 DEF Datum, Wrote
  <2> QED
    BY <1>4, <2>1, <2>3 DEF Opens, C!MessageStages
<1>5. CASE st = "joinPublicChannel"
  <2> DEFINE d == [type |-> "join", from |-> KeyOf[c], to |-> NoKey,
                   cname |-> ChannelOf[c], msg |-> 0, text |-> ""]
  <2>1. command = <<d>>
    BY <1>5 DEF C!sendServerCommand, C!Join, C!MakeDatum, C!MessageStages
  <2>2. Wrote(c, d) /\ d.type = "join"
    BY <1>1, <1>5 DEF Datum, Wrote, Fits
  <2> QED
    BY <1>5, <2>1, <2>2 DEF Opens, C!MessageStages
<1>6. CASE st \in C!MessageStages /\ queue[c] = <<>>
  <2>1. command = <<>>
    BY <1>6 DEF C!sendServerCommand, C!MessageStages
  <2> QED
    BY <1>6, <2>1 DEF StartsSilently
<1>7. CASE st \in C!MessageStages /\ queue[c] # <<>>
  <2> DEFINE d == C!Message(c, Head(queue[c]))
  <2>1. command = <<d>>
    BY <1>7 DEF C!sendServerCommand, C!MessageStages
  <2>2. Kind[c] # "chat"
    BY <1>7 DEF C!MessageStages, Fits
  <2>3. Head(queue[c]) \in Nat
    BY <1>7, TailItems DEF SystemTypes
  <2>4. Wrote(c, d) /\ d.type = "msg" /\ d.msg = Head(queue[c])
    BY <2>2, <2>3, MessageIsWritten
  <2> HIDE DEF d
  <2> QED
    BY <1>7, <2>1, <2>4 DEF Opens, C!MessageStages
<1> QED
  BY <1>2, <1>3, <1>4, <1>5, <1>6, <1>7 DEF C!Stages, C!MessageStages

(* startStage *)
LEMMA StageStarts ==
  ASSUME SystemTypes, NEW c \in Clients, NEW st \in C!Stages,
         NEW rest \in Seq(C!Stages), NEW n \in Nat, Fits(c, st, rest),
         C!startStage(c, st, rest, n)
  PROVE  /\ EntersStage(c, st, n)
         /\ remaining' = [remaining EXCEPT ![c] = rest]
         /\ challengeSig' = [challengeSig EXCEPT ![c] = n]
         /\ stage' \in [Clients -> C!Stages]
         /\ remaining' \in [Clients -> Seq(C!Stages)]
         /\ challengeSig' \in [Clients -> Nat]
         /\ stageSent' \in [Clients -> Nat]
         /\ lastSent' \in [Clients -> Nat]
         /\ toServer' \in [Clients -> Seq(Datum)]
<1> DEFINE command == C!sendServerCommand(c, st, rest, n, queue[c])
<1>1. /\ stage' = [stage EXCEPT ![c] = st]
      /\ remaining' = [remaining EXCEPT ![c] = rest]
      /\ challengeSig' = [challengeSig EXCEPT ![c] = n]
      /\ stageSent' = [stageSent EXCEPT
                         ![c] = IF st = "publicMessage" THEN Len(command) ELSE 0]
      /\ toServer' = [toServer EXCEPT ![c] = @ \o command]
      /\ lastSent' = [lastSent EXCEPT
                        ![c] = IF command # <<>> /\ command[1].type = "msg"
                               THEN command[1].msg ELSE @]
  BY DEF C!startStage, C!Send
<1>2. toServer[c] \in Seq(Datum)
  BY DEF SystemTypes
<1>3. \/ command = <<>> /\ StartsSilently(c, st)
      \/ \E d : command = <<d>> /\ Opens(c, d, st, n)
  BY Command
<1> HIDE DEF command
<1>4. CASE command = <<>> /\ StartsSilently(c, st)
  <2>1. toServer[c] \o command = toServer[c]
    BY <1>2, <1>4, ConcatEmptySeq
  <2>2. toServer' = toServer /\ lastSent' = lastSent
    BY <1>1, <1>4, <2>1 DEF SystemTypes
  <2>3. stageSent' \in [Clients -> Nat]
    BY <1>1, <1>4 DEF SystemTypes
  <2> QED
    BY <1>1, <1>4, <2>2, <2>3 DEF EntersStage, SystemTypes
<1>5. ASSUME NEW d, command = <<d>>, Opens(c, d, st, n)
      PROVE  /\ EntersStage(c, st, n)
             /\ stageSent' \in [Clients -> Nat]
             /\ lastSent' \in [Clients -> Nat]
             /\ toServer' \in [Clients -> Seq(Datum)]
  <2>1. d \in Datum /\ d.msg \in Nat
    BY <1>5 DEF Opens, Wrote, Datum
  <2>2. toServer[c] \o command = Append(toServer[c], d) /\ Append(toServer[c], d) \in Seq(Datum)
    BY <1>2, <1>5, <2>1, AppendIsConcat, AppendProperties
  <2>3. Len(command) = 1 /\ command[1] = d /\ command # <<>>
    BY <1>5
  <2>4. Says(c, d) /\ toServer' \in [Clients -> Seq(Datum)]
    BY <1>1, <2>2 DEF Says, SystemTypes
  <2>5. /\ lastSent' = [lastSent EXCEPT ![c] = IF d.type = "msg" THEN d.msg ELSE @]
        /\ lastSent' \in [Clients -> Nat]
    BY <1>1, <2>1, <2>3 DEF SystemTypes
  <2>6. stageSent' \in [Clients -> Nat]
    BY <1>1, <2>3 DEF SystemTypes
  <2>7. EntersStage(c, st, n)
    BY <1>1, <1>5, <2>4, <2>5 DEF EntersStage
  <2> QED
    BY <2>4, <2>5, <2>6, <2>7
<1>6. /\ stage' \in [Clients -> C!Stages]
      /\ remaining' \in [Clients -> Seq(C!Stages)]
      /\ challengeSig' \in [Clients -> Nat]
  BY <1>1 DEF SystemTypes
<1> QED
  BY <1>1, <1>3, <1>4, <1>5, <1>6 DEF SystemTypes

(* The stage c goes to, and with which number, when it reads r. *)
Leads(c, r, st, n) ==
  \/ stage[c] = "requestChallenge" /\ r.type = "verify"
     /\ st = "signChallenge" /\ n = r.msg
  \/ stage[c] = "signChallenge" /\ r.type = "success"
     /\ \/ Kind[c] = "public" /\ st = "joinPublicChannel"
        \/ Kind[c] = "private" /\ st = "privateMessage"
  \/ stage[c] = "joinPublicChannel" /\ r.type = "success" /\ st = "publicMessage"
  \/ /\ st = stage[c] /\ n = challengeSig[c]
     /\ stage[c] = "requestChallenge" => r.type # "verify"
     /\ stage[c] \in {"signChallenge", "joinPublicChannel"} => r.type # "success"

(* What a message stage is told. *)
Hears(c, r) ==
  heard' = [heard EXCEPT
              ![c] = IF stage[c] \in C!MessageStages /\ r.type = "msg"
                     THEN Append(@, <<r.from, r.msg>>) ELSE @]

Proceeds(c, r) ==
  /\ r # Success("MESSAGE SENT")
  /\ stage[c] = "privateMessage" => C!Decrypts(c, r)
  /\ \E st \in C!Stages, n \in Nat : Leads(c, r, st, n) /\ EntersStage(c, st, n)
  /\ Hears(c, r)
  /\ UNCHANGED <<queue, sentCount, ackedCount>>

Counts(c, r) ==
  /\ r = Success("MESSAGE SENT")
  /\ ackedCount' = [ackedCount EXCEPT ![c] = @ + 1]
  /\ queue' = [queue EXCEPT ![c] = IF @ = <<>> THEN @ ELSE Tail(@)]
  /\ UNCHANGED <<stage, sentCount, heard, lastSent, toServer>>

Drops(c, r) ==
  /\ r # Success("MESSAGE SENT")
  /\ \/ stage[c] = "requestChallenge" /\ r.type = "verify" /\ r.msg = 0
     \/ stage[c] = "signChallenge" /\ r.type = "success" /\ Kind[c] = "chat"
     \/ stage[c] = "privateMessage"
  /\ UNCHANGED <<stage, queue, sentCount, ackedCount, heard, lastSent, toServer>>

(* The parts of a client's type that a step of its own may change. *)
ClientTypes ==
  /\ stage' \in [Clients -> C!Stages]
  /\ remaining' \in [Clients -> Seq(C!Stages)]
  /\ challengeSig' \in [Clients -> Nat]
  /\ stageSent' \in [Clients -> Nat]
  /\ queue' \in [Clients -> Seq(Nat)]
  /\ sentCount' \in [Clients -> Nat]
  /\ ackedCount' \in [Clients -> Nat]
  /\ heard' \in [Clients -> Seq((Keys \cup {NoKey}) \X Nat)]
  /\ lastSent' \in [Clients -> Nat]
  /\ toServer' \in [Clients -> Seq(Datum)]

(* What is left of the stages fits the stage c is in. *)
StageFits == \A c \in Clients : Fits(c, stage[c], remaining[c])

(* A step that starts a stage, whatever was read. *)
LEMMA StartsTypes ==
  ASSUME SystemTypes, StageFits, NEW c \in Clients, NEW st \in C!Stages,
         NEW rest \in Seq(C!Stages), NEW n \in Nat, Fits(c, st, rest),
         C!startStage(c, st, rest, n),
         UNCHANGED <<queue, sentCount, ackedCount>>,
         heard' \in [Clients -> Seq((Keys \cup {NoKey}) \X Nat)]
  PROVE  EntersStage(c, st, n) /\ ClientTypes /\ StageFits'
<1>1. /\ EntersStage(c, st, n)
      /\ remaining' = [remaining EXCEPT ![c] = rest]
      /\ stage' \in [Clients -> C!Stages]
      /\ remaining' \in [Clients -> Seq(C!Stages)]
      /\ challengeSig' \in [Clients -> Nat]
      /\ stageSent' \in [Clients -> Nat]
      /\ lastSent' \in [Clients -> Nat]
      /\ toServer' \in [Clients -> Seq(Datum)]
  BY StageStarts
<1>2. ClientTypes
  BY <1>1 DEF ClientTypes, SystemTypes
<1>3. stage' = [stage EXCEPT ![c] = st]
  BY <1>1 DEF EntersStage
<1>4. ASSUME NEW x \in Clients PROVE Fits(x, stage'[x], remaining'[x])
  <2>1. CASE x = c
    <3>1. stage'[x] = st /\ remaining'[x] = rest
      BY <1>1, <1>3, <2>1 DEF SystemTypes
    <3> QED
      BY <2>1, <3>1
  <2>2. CASE x # c
    <3>1. stage'[x] = stage[x] /\ remaining'[x] = remaining[x]
      BY <1>1, <1>3, <2>2 DEF SystemTypes
    <3> QED
      BY <3>1 DEF StageFits
  <2> QED
    BY <2>1, <2>2
<1>5. StageFits'
  BY <1>4 DEF StageFits, Fits
<1> QED
  BY <1>1, <1>2, <1>5

(* getConnectionListener *)
LEMMA Listened ==
  ASSUME SystemTypes, StageFits, NEW c \in Clients, NEW r \in Datum,
         C!getConnectionListener(c, r)
  PROVE  /\ Proceeds(c, r) \/ Counts(c, r) \/ Drops(c, r)
         /\ UNCHANGED started /\ ClientTypes /\ StageFits'
<1>1. /\ stage[c] \in C!Stages /\ remaining[c] \in Seq(C!Stages)
      /\ challengeSig[c] \in Nat /\ r.msg \in Nat
      /\ r.from \in Keys \cup {NoKey}
      /\ Fits(c, stage[c], remaining[c])
  BY DEF SystemTypes, StageFits, Datum
<1>2. C!NotAck(r) <=> r # Success("MESSAGE SENT")
  BY SameReplies DEF C!NotAck
<1>3. UNCHANGED heard => heard' \in [Clients -> Seq((Keys \cup {NoKey}) \X Nat)]
  BY DEF SystemTypes
<1>4. stage[c] \notin C!MessageStages /\ UNCHANGED heard => Hears(c, r)
  BY DEF Hears, SystemTypes
<1>5. CASE C!Acknowledged(c, r)
  <2>1. Counts(c, r)
    BY <1>5, SameReplies DEF C!Acknowledged, Counts
  <2>2. ackedCount' \in [Clients -> Nat]
    <3>1. ackedCount[c] + 1 \in Nat
      BY DEF SystemTypes
    <3>2. ackedCount' = [ackedCount EXCEPT ![c] = @ + 1]
      BY <2>1 DEF Counts
    <3> QED
      BY <3>1, <3>2 DEF SystemTypes
  <2>3. queue' \in [Clients -> Seq(Nat)]
    <3>1. queue[c] \in Seq(Nat)
      BY DEF SystemTypes
    <3>2. queue[c] # <<>> => Tail(queue[c]) \in Seq(Nat)
      BY <3>1, TailItems
    <3> QED
      BY <2>1, <3>1, <3>2 DEF Counts, SystemTypes
  <2>4. ClientTypes
    BY <1>5, <2>2, <2>3 DEF C!Acknowledged, ClientTypes, SystemTypes
  <2>5. StageFits'
    BY <1>5 DEF C!Acknowledged, StageFits, Fits
  <2> QED
    BY <1>5, <2>1, <2>4, <2>5 DEF C!Acknowledged
<1>6. CASE C!Challenged(c, r)
  <2>0. CASE r.msg = 0
    <3>1. /\ stage[c] = "requestChallenge" /\ r.type = "verify" /\ C!NotAck(r)
          /\ UNCHANGED <<started, queue, sentCount, ackedCount, heard>>
          /\ UNCHANGED <<stage, remaining, challengeSig, stageSent, lastSent, toServer>>
      BY <1>6, <2>0 DEF C!Challenged
    <3>2. Drops(c, r)
      BY <1>2, <2>0, <3>1 DEF Drops
    <3>3. ClientTypes /\ StageFits'
      BY <3>1 DEF ClientTypes, SystemTypes, StageFits, Fits
    <3> QED
      BY <3>1, <3>2, <3>3
  <2> SUFFICES ASSUME r.msg # 0
               PROVE  /\ Proceeds(c, r) \/ Counts(c, r) \/ Drops(c, r)
                      /\ UNCHANGED started /\ ClientTypes /\ StageFits'
    BY <2>0
  <2>1. /\ stage[c] = "requestChallenge" /\ r.type = "verify"
        /\ C!startStage(c, "signChallenge", remaining[c], r.msg)
        /\ UNCHANGED <<started, queue, sentCount, ackedCount, heard>>
    BY <1>6 DEF C!Challenged
  <2>2. Fits(c, "signChallenge", remaining[c]) /\ "signChallenge" \in C!Stages
    BY <1>1, <2>1 DEF Fits, C!Stages
  <2>3. EntersStage(c, "signChallenge", r.msg) /\ ClientTypes /\ StageFits'
    BY <1>1, <1>3, <2>1, <2>2, StartsTypes
  <2>4. Leads(c, r, "signChallenge", r.msg)
    BY <2>1 DEF Leads
  <2>5. Hears(c, r)
    BY <1>4, <2>1 DEF C!MessageStages
  <2>6. Proceeds(c, r)
    BY <1>1, <1>2, <1>6, <2>1, <2>2, <2>3, <2>4, <2>5 DEF Proceeds, C!Challenged
  <2> QED
    BY <2>1, <2>3, <2>6
<1>7. CASE C!Registers(c, r)
  <2>1. /\ stage[c] = "signChallenge" /\ r.type = "success" /\ C!NotAck(r)
        /\ UNCHANGED <<started, queue, sentCount, ackedCount, heard>>
    BY <1>7 DEF C!Registers
  <2>2. CASE remaining[c] = <<>>
    <3>1. UNCHANGED <<stage, remaining, challengeSig, stageSent, lastSent, toServer>>
      BY <1>7, <2>2 DEF C!Registers
    <3>2. Kind[c] = "chat"
      BY <1>1, <2>1, <2>2, Creators DEF Fits
    <3>3. Drops(c, r)
      BY <1>2, <2>1, <3>1, <3>2 DEF Drops
    <3>4. ClientTypes /\ StageFits'
      BY <2>1, <3>1 DEF ClientTypes, SystemTypes, StageFits, Fits
    <3> QED
      BY <2>1, <3>3, <3>4
  <2>3. CASE remaining[c] # <<>>
    <3> DEFINE st == Head(remaining[c])
    <3>1. C!startStage(c, st, Tail(remaining[c]), challengeSig[c])
      BY <1>7, <2>3 DEF C!Registers
    <3>2. \/ Kind[c] = "public" /\ st = "joinPublicChannel"
          \/ Kind[c] = "private" /\ st = "privateMessage"
      BY <1>1, <2>1, <2>3, Creators DEF Fits
    <3>3. st \in C!Stages /\ Tail(remaining[c]) \in Seq(C!Stages)
      BY <1>1, <2>3, TailItems
    <3> HIDE DEF st
    <3>4. Fits(c, st, Tail(remaining[c]))
      BY <3>2 DEF Fits
    <3>5. EntersStage(c, st, challengeSig[c]) /\ ClientTypes /\ StageFits'
      BY <1>1, <1>3, <2>1, <3>1, <3>3, <3>4, StartsTypes
    <3>6. Leads(c, r, st, challengeSig[c])
      BY <2>1, <3>2 DEF Leads
    <3>7. Hears(c, r)
      BY <1>4, <2>1 DEF C!MessageStages
    <3>8. Proceeds(c, r)
      BY <1>1, <1>2, <2>1, <3>3, <3>5, <3>6, <3>7 DEF Proceeds
    <3> QED
      BY <2>1, <3>5, <3>8
  <2> QED
    BY <2>2, <2>3
<1>8. CASE C!Joins(c, r)
  <2>1. /\ stage[c] = "joinPublicChannel" /\ r.type = "success" /\ C!NotAck(r)
        /\ C!startStage(c, "publicMessage", remaining[c], challengeSig[c])
        /\ UNCHANGED <<started, queue, sentCount, ackedCount, heard>>
    BY <1>8 DEF C!Joins
  <2>2. Fits(c, "publicMessage", remaining[c]) /\ "publicMessage" \in C!Stages
    BY <1>1, <2>1 DEF Fits, C!Stages
  <2>3. EntersStage(c, "publicMessage", challengeSig[c]) /\ ClientTypes /\ StageFits'
    BY <1>1, <1>3, <2>1, <2>2, StartsTypes
  <2>4. Leads(c, r, "publicMessage", challengeSig[c])
    BY <2>1 DEF Leads
  <2>5. Hears(c, r)
    BY <1>4, <2>1 DEF C!MessageStages
  <2>6. Proceeds(c, r)
    BY <1>1, <1>2, <2>1, <2>2, <2>3, <2>4, <2>5 DEF Proceeds
  <2> QED
    BY <2>1, <2>3, <2>6
<1>9. ASSUME C!Again(c), C!NotAck(r), Hears(c, r),
             UNCHANGED <<started, queue, sentCount, ackedCount>>,
             stage[c] = "privateMessage" => C!Decrypts(c, r),
             stage[c] = "requestChallenge" => r.type # "verify",
             stage[c] \in {"signChallenge", "joinPublicChannel"} => r.type # "success"
      PROVE  Proceeds(c, r) /\ ClientTypes /\ StageFits'
  <2>1. C!startStage(c, stage[c], remaining[c], challengeSig[c])
    BY <1>9 DEF C!Again
  <2>2. heard' \in [Clients -> Seq((Keys \cup {NoKey}) \X Nat)]
    <3>1. <<r.from, r.msg>> \in (Keys \cup {NoKey}) \X Nat
      BY <1>1
    <3>2. Append(heard[c], <<r.from, r.msg>>) \in Seq((Keys \cup {NoKey}) \X Nat)
      BY <3>1, AppendProperties DEF SystemTypes
    <3> QED
      BY <1>9, <3>2 DEF Hears, SystemTypes
  <2>3. EntersStage(c, stage[c], challengeSig[c]) /\ ClientTypes /\ StageFits'
    BY <1>1, <1>9, <2>1, <2>2, StartsTypes
  <2>4. Leads(c, r, stage[c], challengeSig[c])
    BY <1>9 DEF Leads
  <2>5. Proceeds(c, r)
    BY <1>1, <1>2, <1>9, <2>3, <2>4 DEF Proceeds
  <2> QED
    BY <2>3, <2>5
<1>10. CASE C!Unexpected(c, r)
  <2>1. /\ C!NotAck(r) /\ C!Again(c)
        /\ UNCHANGED <<started, queue, sentCount, ackedCount, heard>>
        /\ \/ stage[c] = "requestChallenge" /\ r.type # "verify"
           \/ stage[c] \in {"signChallenge", "joinPublicChannel"} /\ r.type # "success"
    BY <1>10 DEF C!Unexpected
  <2>2. Hears(c, r)
    BY <1>4, <2>1 DEF C!MessageStages
  <2> QED
    BY <1>9, <2>1, <2>2
<1>11. CASE C!HearsChannel(c, r)
  <2>1. /\ C!NotAck(r) /\ stage[c] = "publicMessage" /\ C!Again(c) /\ C!Hear(c, r)
        /\ UNCHANGED <<started, queue, sentCount, ackedCount>>
    BY <1>11 DEF C!HearsChannel
  <2>2. Hears(c, r)
    BY <2>1 DEF Hears, C!Hear, C!MessageStages
  <2> QED
    BY <1>9, <2>1, <2>2
<1>12. CASE C!HearsPartner(c, r)
  <2>1. /\ C!NotAck(r) /\ stage[c] = "privateMessage"
        /\ UNCHANGED <<started, queue, sentCount, ackedCount>>
    BY <1>12 DEF C!HearsPartner
  <2>2. CASE C!Decrypts(c, r)
    <3>1. C!Hear(c, r) /\ C!Again(c)
      BY <1>12, <2>2 DEF C!HearsPartner
    <3>2. Hears(c, r)
      BY <2>1, <3>1 DEF Hears, C!Hear, C!MessageStages
    <3> QED
      BY <1>9, <2>1, <2>2, <3>1, <3>2
  <2>3. CASE ~C!Decrypts(c, r)
    <3>1. UNCHANGED <<stage, remaining, challengeSig, stageSent, heard, lastSent,
                      toServer>>
      BY <1>12, <2>3 DEF C!HearsPartner
    <3>2. Drops(c, r)
      BY <1>2, <2>1, <3>1 DEF Drops
    <3>3. ClientTypes /\ StageFits'
      BY <2>1, <3>1 DEF ClientTypes, SystemTypes, StageFits, Fits
    <3> QED
      BY <2>1, <3>2, <3>3
  <2> QED
    BY <2>2, <2>3
<1> QED
  BY <1>5, <1>6, <1>7, <1>8, <1>10, <1>11, <1>12
  DEF C!getConnectionListener, C!Unexpected, C!HearsChannel

Enqueues(c) ==
  /\ sentCount' = [sentCount EXCEPT ![c] = @ + 1]
  /\ queue' = [queue EXCEPT ![c] = Append(@, sentCount[c] + 1)]
  /\ \/ UNCHANGED <<toServer, lastSent>>
     \/ \E d : /\ stage[c] \in C!MessageStages
               /\ Wrote(c, d) /\ d.type = "msg" /\ d.msg = Head(queue'[c])
               /\ Says(c, d) /\ lastSent' = [lastSent EXCEPT ![c] = d.msg]
  /\ UNCHANGED <<stage, ackedCount, heard>>

(* enqueueUserDatum *)
LEMMA Typed ==
  ASSUME SystemTypes, StageFits, NEW c \in Clients, C!enqueueUserDatum(c)
  PROVE  Enqueues(c) /\ UNCHANGED started /\ ClientTypes /\ StageFits'
<1> DEFINE s == sentCount[c] + 1
           q == Append(queue[c], s)
           command == IF C!Triggers(c, q, s) THEN <<C!Message(c, Head(q))>> ELSE <<>>
<1>1. s \in Nat
  BY DEF SystemTypes
<1>2. /\ queue' = [queue EXCEPT ![c] = q]
      /\ sentCount' = [sentCount EXCEPT ![c] = s]
      /\ stageSent' = [stageSent EXCEPT
                         ![c] = IF stage[c] = "publicMessage" THEN @ + Len(command) ELSE @]
      /\ toServer' = [toServer EXCEPT ![c] = @ \o command]
      /\ lastSent' = [lastSent EXCEPT
                        ![c] = IF command # <<>> /\ command[1].type = "msg"
                               THEN command[1].msg ELSE @]
      /\ UNCHANGED <<started, stage, remaining, challengeSig, ackedCount, heard>>
  BY DEF C!enqueueUserDatum, C!Send
<1>3. queue[c] \in Seq(Nat) /\ toServer[c] \in Seq(Datum) /\ stageSent[c] \in Nat
  BY DEF SystemTypes
<1>4. q \in Seq(Nat) /\ q # <<>> /\ Head(q) \in Nat
  <2> HIDE DEF s, command
  <2>1. queue[c] \in Seq(Nat)
    BY <1>3
  <2>2. q \in Seq(Nat) /\ q # <<>>
    BY <1>1, <2>1, AppendProperties
  <2> QED
    BY <2>2, TailItems
<1>5. StageFits'
  BY <1>2 DEF StageFits, Fits
<1>6. queue'[c] = q /\ queue' \in [Clients -> Seq(Nat)] /\ sentCount' \in [Clients -> Nat]
  BY <1>1, <1>2, <1>4 DEF SystemTypes
<1>7. CASE ~C!Triggers(c, q, s)
  <2>1. command = <<>>
    BY <1>7
  <2>2. toServer[c] \o command = toServer[c]
    BY <1>3, <2>1, ConcatEmptySeq
  <2>3. toServer' = toServer /\ lastSent' = lastSent
    BY <1>2, <2>1, <2>2 DEF SystemTypes
  <2>4. stageSent' \in [Clients -> Nat]
    <3>1. Len(command) = 0
      BY <2>1
    <3>2. stageSent[c] + 0 \in Nat
      BY <1>3
    <3> HIDE DEF command
    <3> QED
      BY <1>2, <1>3, <3>1, <3>2 DEF SystemTypes
  <2>5. ClientTypes
    BY <1>2, <1>6, <2>3, <2>4 DEF ClientTypes, SystemTypes
  <2> QED
    BY <1>2, <1>5, <2>3, <2>5 DEF Enqueues
<1>8. CASE C!Triggers(c, q, s)
  <2> DEFINE d == C!Message(c, Head(q))
  <2>1. stage[c] \in C!MessageStages
    BY <1>8 DEF C!Triggers, C!MessageStages
  <2>2. Kind[c] # "chat"
    BY <2>1 DEF StageFits, Fits, C!MessageStages
  <2>3. Wrote(c, d) /\ d.type = "msg" /\ d.msg = Head(q)
    BY <1>4, <2>2, MessageIsWritten
  <2>4. command = <<d>>
    BY <1>8
  <2> HIDE DEF d, command
  <2>5. d \in Datum
    BY <2>3 DEF Wrote
  <2>6. toServer[c] \o command = Append(toServer[c], d) /\ Append(toServer[c], d) \in Seq(Datum)
    BY <1>3, <2>4, <2>5, AppendIsConcat, AppendProperties
  <2>7. Len(command) = 1 /\ command[1] = d /\ command # <<>>
    BY <2>4
  <2>8. Says(c, d) /\ toServer' \in [Clients -> Seq(Datum)]
    BY <1>2, <2>6 DEF Says, SystemTypes
  <2>9. /\ lastSent' = [lastSent EXCEPT ![c] = d.msg]
        /\ lastSent' \in [Clients -> Nat]
    BY <1>2, <1>4, <2>3, <2>7 DEF SystemTypes
  <2>10. stageSent' \in [Clients -> Nat]
    <3>1. stageSent[c] + 1 \in Nat
      BY <1>3
    <3> QED
      BY <1>2, <1>3, <2>7, <3>1 DEF SystemTypes
  <2>11. ClientTypes
    BY <1>2, <1>6, <2>8, <2>9, <2>10 DEF ClientTypes, SystemTypes
  <2>12. Enqueues(c)
    BY <1>2, <1>6, <2>1, <2>3, <2>8, <2>9 DEF Enqueues
  <2> QED
    BY <1>2, <1>5, <2>11, <2>12
<1> QED
  BY <1>7, <1>8

(* start() *)
LEMMA Started ==
  ASSUME SystemTypes, StageFits, NEW c \in Clients, C!start(c)
  PROVE  /\ ~started[c] /\ started' = [started EXCEPT ![c] = TRUE]
         /\ EntersStage(c, stage[c], challengeSig[c])
         /\ UNCHANGED <<queue, sentCount, ackedCount, heard>>
         /\ ClientTypes /\ StageFits'
<1>1. /\ ~started[c] /\ started' = [started EXCEPT ![c] = TRUE]
      /\ C!startStage(c, stage[c], remaining[c], challengeSig[c])
      /\ UNCHANGED <<queue, sentCount, ackedCount, heard>>
  BY DEF C!start, C!Again
<1>2. /\ stage[c] \in C!Stages /\ remaining[c] \in Seq(C!Stages)
      /\ challengeSig[c] \in Nat /\ Fits(c, stage[c], remaining[c])
      /\ heard' \in [Clients -> Seq((Keys \cup {NoKey}) \X Nat)]
  BY <1>1 DEF SystemTypes, StageFits
<1>3. EntersStage(c, stage[c], challengeSig[c]) /\ ClientTypes /\ StageFits'
  BY <1>1, <1>2, StartsTypes
<1> QED
  BY <1>1, <1>3

-----------------------------------------------------------------------------
(* Types and clients *)

Requests == \A c \in Clients : \A d \in ToSet(toServer[c]) : Wrote(c, d)

(* ClientsInv is about the stages and about the requests. *)
LEMMA ClientsParts == ClientsInv <=> StageFits /\ Requests
BY DEF ClientsInv, StageFits, Fits, Requests

(* What is said by c leaves the requests their clients' own. *)
LEMMA OwnRequests ==
  ASSUME SystemTypes, Requests, NEW c \in Clients,
         toServer' = toServer \/ \E d : Wrote(c, d) /\ Says(c, d)
  PROVE  Requests'
<1>1. CASE toServer' = toServer
  BY <1>1 DEF Requests, Wrote
<1>2. ASSUME NEW d, Wrote(c, d), Says(c, d)
      PROVE  Requests'
  <2>1. d \in Datum
    BY <1>2 DEF Wrote
  <2>2. ASSUME NEW x \in Clients, NEW e \in ToSet(toServer'[x])
        PROVE  Wrote(x, e)
    <3>1. toServer[x] \in Seq(Datum)
      BY DEF SystemTypes
    <3>2. CASE x = c
      <4>1. toServer'[x] = Append(toServer[x], d)
        BY <1>2, <3>2 DEF Says, SystemTypes
      <4>2. e \in ToSet(toServer[x]) \cup {d}
        BY <2>1, <2>2, <3>1, <4>1, AppendItems
      <4> QED
        BY <1>2, <3>2, <4>2 DEF Requests
    <3>3. CASE x # c
      <4>1. toServer'[x] = toServer[x]
        BY <1>2, <3>3 DEF Says, SystemTypes
      <4> QED
        BY <2>2, <4>1 DEF Requests
    <3> QED
      BY <3>2, <3>3
  <2> QED
    BY <2>2 DEF Requests, Wrote
<1> QED
  BY <1>1, <1>2

(* Three of the four ways a client's step writes. *)
LEMMA EntersSays ==
  ASSUME NEW c \in Clients, NEW st, NEW n, EntersStage(c, st, n)
  PROVE  toServer' = toServer \/ \E d : Wrote(c, d) /\ Says(c, d)
BY DEF EntersStage, Opens

(* Whatever a client makes of a reply, it writes nothing or one datum of its
   own. *)
LEMMA ListenedSays ==
  ASSUME NEW c \in Clients, NEW r, Proceeds(c, r) \/ Counts(c, r) \/ Drops(c, r)
  PROVE  toServer' = toServer \/ \E d : Wrote(c, d) /\ Says(c, d)
BY EntersSays DEF Proceeds, Counts, Drops

(* What ClientReceives reads. *)
LEMMA ReadTypes ==
  ASSUME SystemTypes, NEW c \in Clients, S!Read(c)
  PROVE  /\ Head(toClient[c]) \in Datum /\ Head(toClient[c]) \in ToSet(toClient[c])
         /\ toClient' = [toClient EXCEPT ![c] = Tail(@)]
         /\ toClient' \in [Clients -> Seq(Datum)]
         /\ UNCHANGED <<up, client_list, channel_list, peer_list, msg_list, conn,
                        id, challenge>>
<1>1. toClient[c] \in Seq(Datum) /\ toClient[c] # <<>>
  BY DEF SystemTypes, S!Read
<1>2. Tail(toClient[c]) \in Seq(Datum)
  BY <1>1, TailItems
<1>3. toClient' = [toClient EXCEPT ![c] = Tail(@)]
  BY DEF S!Read
<1>4. toClient' \in [Clients -> Seq(Datum)]
  BY <1>2, <1>3 DEF SystemTypes
<1> QED
  BY <1>1, <1>3, <1>4, TailItems DEF S!Read, S!tables

(* The base of every proof below: no step leaves the types, or puts a client
   in a stage its constructor did not list. *)
LEMMA TypesStep ==
  ASSUME SystemTypes, ClientsInv, [Next]_vars
  PROVE  SystemTypes' /\ ClientsInv'
<1>1. StageFits /\ Requests
  BY ClientsParts
<1>2. StageFits' /\ Requests' => ClientsInv'
  BY DEF ClientsInv, StageFits, Fits, Requests, Wrote
<1>3. UNCHANGED <<clientVars, toServer>> => ClientsInv'
  BY DEF clientVars, ClientsInv, Wrote
<1>4. ASSUME UNCHANGED serverVars, UNCHANGED started, ClientTypes
      PROVE  SystemTypes'
  BY <1>4 DEF serverVars, ClientTypes, SystemTypes
<1>5. ASSUME NEW c \in Clients, Connects(c) PROVE SystemTypes' /\ ClientsInv'
  BY <1>3, <1>5 DEF Connects, S!onClientConnected, S!tables, clientVars, SystemTypes
<1>6. ASSUME NEW c \in Clients, Starts(c) PROVE SystemTypes' /\ ClientsInv'
  <2>1. C!start(c) /\ UNCHANGED serverVars
    BY <1>6 DEF Starts
  <2>2. /\ started' = [started EXCEPT ![c] = TRUE]
        /\ EntersStage(c, stage[c], challengeSig[c])
        /\ ClientTypes /\ StageFits'
    BY <1>1, <2>1, Started
  <2>3. SystemTypes'
    BY <2>1, <2>2 DEF serverVars, ClientTypes, SystemTypes
  <2> QED
    BY <1>1, <1>2, <2>2, <2>3, EntersSays, OwnRequests
<1>7. ASSUME NEW c \in Clients, UserTypes(c) PROVE SystemTypes' /\ ClientsInv'
  <2>1. C!enqueueUserDatum(c) /\ UNCHANGED serverVars
    BY <1>7 DEF UserTypes
  <2>2. Enqueues(c) /\ UNCHANGED started /\ ClientTypes /\ StageFits'
    BY <1>1, <2>1, Typed
  <2>3. toServer' = toServer \/ \E d : Wrote(c, d) /\ Says(c, d)
    BY <2>2 DEF Enqueues
  <2> QED
    BY <1>1, <1>2, <1>4, <2>1, <2>2, <2>3, OwnRequests
<1>8. ASSUME NEW c \in Clients, ServerReceives(c) PROVE SystemTypes' /\ ClientsInv'
  <2>1. SystemTypes'
    BY <1>8, HandledTypes
  <2>2. toServer' = [toServer EXCEPT ![c] = Tail(@)] /\ UNCHANGED clientVars
    BY <1>8 DEF ServerReceives
  <2>3. StageFits'
    BY <1>1, <2>2 DEF clientVars, StageFits, Fits
  <2>4. ASSUME NEW x \in Clients, NEW d \in ToSet(toServer'[x]) PROVE d \in ToSet(toServer[x])
    <3>1. toServer[c] \in Seq(Datum) /\ toServer[c] # <<>>
      BY <1>8 DEF SystemTypes, ServerReceives
    <3>2. ToSet(Tail(toServer[c])) \subseteq ToSet(toServer[c])
      BY <3>1, TailItems
    <3>3. toServer'[x] = IF x = c THEN Tail(toServer[c]) ELSE toServer[x]
      BY <2>2 DEF SystemTypes
    <3> QED
      BY <2>4, <3>2, <3>3
  <2>5. Requests'
    BY <1>1, <2>4 DEF Requests, Wrote
  <2> QED
    BY <1>2, <2>1, <2>3, <2>5
<1>9. ASSUME NEW c \in Clients, ClientReceives(c) PROVE SystemTypes' /\ ClientsInv'
  <2> DEFINE r == Head(toClient[c])
  <2>1. S!Read(c) /\ C!getConnectionListener(c, r)
    BY <1>9 DEF ClientReceives
  <2>2. /\ r \in Datum
        /\ toClient' \in [Clients -> Seq(Datum)]
        /\ UNCHANGED <<up, client_list, channel_list, peer_list, msg_list, conn,
                       id, challenge>>
    BY <2>1, ReadTypes
  <2> HIDE DEF r
  <2>3. /\ Proceeds(c, r) \/ Counts(c, r) \/ Drops(c, r)
        /\ UNCHANGED started /\ ClientTypes /\ StageFits'
    BY <1>1, <2>1, <2>2, Listened
  <2>4. SystemTypes'
    BY <2>2, <2>3 DEF ClientTypes, SystemTypes
  <2> QED
    BY <1>1, <1>2, <2>3, <2>4, ListenedSays, OwnRequests
<1>10. ASSUME NEW c \in Clients, Breaks(c) PROVE SystemTypes' /\ ClientsInv'
  <2>1. /\ conn' = [conn EXCEPT ![c] = "closed"]
        /\ \/ UNCHANGED <<client_list, channel_list>>
           \/ \E k \in Keys :
                /\ client_list' = [client_list EXCEPT ![k] = NoConn]
                /\ channel_list' = [ch \in Channels |-> [channel_list[ch] EXCEPT ![k] = NoConn]]
        /\ UNCHANGED <<up, peer_list, msg_list, id, challenge, toClient, clientVars, toServer>>
    BY <1>10 DEF Breaks, S!handleClientDisconnect, S!Without
  <2>2. conn' \in [Clients -> {"unused", "open", "closed"}]
    BY <2>1 DEF SystemTypes
  <2>3. /\ client_list' \in [Keys -> Clients \cup {NoConn}]
        /\ channel_list' \in [Channels -> [Keys -> Clients \cup {NoConn}]]
    <3>1. CASE UNCHANGED <<client_list, channel_list>>
      BY <3>1 DEF SystemTypes
    <3>2. ASSUME NEW k \in Keys,
                 client_list' = [client_list EXCEPT ![k] = NoConn],
                 channel_list' = [ch \in Channels |-> [channel_list[ch] EXCEPT ![k] = NoConn]]
          PROVE  /\ client_list' \in [Keys -> Clients \cup {NoConn}]
                 /\ channel_list' \in [Channels -> [Keys -> Clients \cup {NoConn}]]
      <4>1. \A ch \in Channels :
              [channel_list[ch] EXCEPT ![k] = NoConn] \in [Keys -> Clients \cup {NoConn}]
        BY DEF SystemTypes
      <4>2. channel_list' \in [Channels -> [Keys -> Clients \cup {NoConn}]]
        BY <3>2, <4>1
      <4>3. client_list' \in [Keys -> Clients \cup {NoConn}]
        BY <3>2 DEF SystemTypes
      <4> QED
        BY <4>2, <4>3
    <3> QED
      BY <2>1, <3>1, <3>2
  <2>4. SystemTypes'
    BY <2>1, <2>2, <2>3 DEF clientVars, SystemTypes
  <2> QED
    BY <1>3, <2>1, <2>4
<1>11. ASSUME NEW c \in Clients, LosesRequests(c) PROVE SystemTypes' /\ ClientsInv'
  <2>1. toServer' = [toServer EXCEPT ![c] = <<>>] /\ UNCHANGED <<serverVars, clientVars>>
    BY <1>11 DEF LosesRequests
  <2>2. toServer' \in [Clients -> Seq(Datum)]
    BY <2>1, EmptyItems DEF SystemTypes
  <2>3. SystemTypes'
    BY <2>1, <2>2 DEF serverVars, clientVars, SystemTypes
  <2>4. StageFits'
    BY <1>1, <2>1 DEF clientVars, StageFits, Fits
  <2>5. ASSUME NEW x \in Clients PROVE ToSet(toServer'[x]) \subseteq ToSet(toServer[x])
    <3>1. toServer'[x] = IF x = c THEN <<>> ELSE toServer[x]
      BY <2>1 DEF SystemTypes
    <3> QED
      BY <3>1, EmptyItems
  <2>6. Requests'
    BY <1>1, <2>5 DEF Requests, Wrote
  <2> QED
    BY <1>2, <2>3, <2>4, <2>6
<1>12. ASSUME NEW c \in Clients, LosesReplies(c) PROVE SystemTypes' /\ ClientsInv'
  <2>1. /\ toClient' = [toClient EXCEPT ![c] = <<>>]
        /\ UNCHANGED <<up, client_list, channel_list, peer_list, msg_list, conn, id,
                       challenge, clientVars, toServer>>
    BY <1>12 DEF LosesReplies, S!Lose, S!tables
  <2>2. toClient' \in [Clients -> Seq(Datum)]
    BY <2>1, EmptyItems DEF SystemTypes
  <2>3. SystemTypes'
    BY <2>1, <2>2 DEF clientVars, SystemTypes
  <2> QED
    BY <1>3, <2>1, <2>3
<1>13. ASSUME Crashes PROVE SystemTypes' /\ ClientsInv'
  BY <1>3, <1>13
  DEF Crashes, S!Exit, S!Die, S!NoSessions, S!NoMembers, clientVars, SystemTypes
<1>14. ASSUME Restarts PROVE SystemTypes' /\ ClientsInv'
  BY <1>3, <1>14 DEF Restarts, S!Restart, S!tables, clientVars, SystemTypes
<1>15. ASSUME UNCHANGED vars PROVE SystemTypes' /\ ClientsInv'
  BY <1>3, <1>15 DEF vars, serverVars, clientVars, SystemTypes
<1> QED
  BY <1>5, <1>6, <1>7, <1>8, <1>9, <1>10, <1>11, <1>12, <1>13, <1>14, <1>15
  DEF Next

(* Clients begin with the stages of their constructors and nothing written. *)
LEMMA TypesInit == Init => SystemTypes /\ ClientsInv
<1> SUFFICES ASSUME Init PROVE SystemTypes /\ ClientsInv
  OBVIOUS
<1>1. SystemTypes
  BY Creators
  DEF Init, S!Init, S!NoSessions, S!NoMembers, C!Init, C!Stages, SystemTypes
<1>2. ASSUME NEW c \in Clients
      PROVE  /\ stage[c] = "requestChallenge" /\ remaining[c] = C!StageCreators(c)
             /\ toServer[c] = <<>>
  BY DEF Init, C!Init
<1>3. ClientsInv
  BY <1>2, EmptyItems DEF ClientsInv
<1> QED
  BY <1>1, <1>3

(* Every reachable state has the types of the server's tables and of the
   clients' fields, and no client is in a stage that its constructor did not
   list or has written in another's name. *)
THEOREM SystemTypeCorrect == Spec => [](TypeOK /\ ClientsInv)
<1>1. Init => SystemTypes /\ ClientsInv
  BY TypesInit
<1>2. SystemTypes /\ ClientsInv /\ [Next]_vars => (SystemTypes /\ ClientsInv)'
  BY TypesStep
<1>3. SystemTypes /\ ClientsInv => TypeOK /\ ClientsInv
  BY SameTypes
<1> QED
  BY <1>1, <1>2, <1>3, PTL DEF Spec

-----------------------------------------------------------------------------
(* The server's tables *)

(* A connection ends, and with it the entries of the key it spoke for. *)
Leaves(c) ==
  /\ conn[c] = "open"
  /\ conn' = [conn EXCEPT ![c] = "closed"]
  /\ \/ /\ id[c] \in Keys /\ client_list[id[c]] # NoConn
        /\ client_list' = [client_list EXCEPT ![id[c]] = NoConn]
        /\ channel_list' = [ch \in Channels |-> [channel_list[ch] EXCEPT ![id[c]] = NoConn]]
     \/ /\ ~(id[c] \in Keys /\ client_list[id[c]] # NoConn)
        /\ UNCHANGED <<client_list, channel_list>>
  /\ UNCHANGED <<up, peer_list, msg_list, id, challenge, toClient, clientVars, toServer>>

(* handleClientDisconnect clears what the tables hold of the connection. *)
LEMMA Left ==
  ASSUME NEW c \in Clients, Breaks(c)
  PROVE  Leaves(c)
BY DEF Breaks, S!handleClientDisconnect, S!Registered, S!Without, Leaves

(* The process ends, and with it every entry and every open connection. *)
Empties ==
  /\ client_list' = [k \in Keys |-> NoConn]
  /\ channel_list' = [ch \in Channels |-> [k \in Keys |-> NoConn]]
  /\ conn' = [c \in Clients |-> IF conn[c] = "open" THEN "closed" ELSE conn[c]]
  /\ UNCHANGED <<id, challenge, toClient, clientVars, toServer>>

(* The process's exit clears the tables, and closes every connection. *)
LEMMA Emptied == Crashes => Empties
BY DEF Crashes, S!Exit, S!Die, S!NoSessions, S!NoMembers, Empties

(* The other steps leave the tables and the connections' keys alone. *)
LEMMA TablesKept ==
  ASSUME [Next]_vars,
         ~(\E c \in Clients : ServerReceives(c) \/ Breaks(c)), ~Crashes
  PROVE  /\ UNCHANGED <<client_list, channel_list, id>>
         /\ conn' = conn \/ \E c \in Clients : /\ conn[c] = "unused"
                                               /\ conn' = [conn EXCEPT ![c] = "open"]
BY DEF Next, vars, serverVars, Connects, S!onClientConnected, S!tables, Starts, UserTypes,
       ClientReceives, S!Read, LosesRequests, LosesReplies, S!Lose, Restarts, S!Restart

(* A request registers its own connection under its own key, and only a
   registered one in a channel. *)
LEMMA TablesHandled ==
  ASSUME SystemTypes, ClientsInv, TablesInv, NEW c \in Clients, ServerReceives(c)
  PROVE  TablesInv'
<1> DEFINE d == Head(toServer[c])
<1>1. /\ conn[c] = "open" /\ Wrote(c, d) /\ Handles(c, d)
      /\ id' = [id EXCEPT ![c] = KeyOf[c]]
      /\ conn' = conn
  BY Handled
<1> HIDE DEF d
<1>2. KeyOf[c] \in Keys /\ ChannelOf[c] \in Channels
  OBVIOUS
<1>3. \A x \in Clients : id'[x] = IF x = c THEN KeyOf[c] ELSE id[x]
  BY <1>1 DEF SystemTypes
<1>4. \A x \in Clients : id'[x] \in {NoKey, KeyOf[x]}
  BY <1>3 DEF TablesInv
<1>5. \A x \in Clients, k \in Keys : id[x] = k => id'[x] = k
  BY <1>3 DEF TablesInv
<1>6. \/ client_list' = client_list
      \/ /\ Admits(c, d)
         /\ client_list' = [client_list EXCEPT ![KeyOf[c]] = c]
  <2>1. ~Admits(c, d) => client_list' = client_list
    BY <1>1 DEF Handles, Challenges, JoinsChannel, Delivers, Ignores, Refuses
  <2>2. Admits(c, d) => client_list' = [client_list EXCEPT ![KeyOf[c]] = c]
    BY DEF Admits
  <2> QED
    BY <2>1, <2>2
<1>7. \/ channel_list' = channel_list
      \/ /\ JoinsChannel(c, d)
         /\ channel_list' = [channel_list EXCEPT ![ChannelOf[c]][KeyOf[c]] = c]
  BY <1>1 DEF Handles, Challenges, Admits, JoinsChannel, Delivers, Ignores, Refuses
<1>8. ASSUME NEW k \in Keys, client_list'[k] # NoConn
      PROVE  conn'[client_list'[k]] = "open" /\ id'[client_list'[k]] = k
  <2>1. CASE client_list'[k] = client_list[k]
    <3>1. client_list[k] \in Clients
      BY <1>8, <2>1 DEF SystemTypes
    <3> QED
      BY <1>1, <1>5, <1>8, <2>1, <3>1 DEF TablesInv
  <2>2. CASE client_list'[k] # client_list[k]
    <3>1. k = KeyOf[c] /\ client_list'[k] = c
      BY <1>2, <1>6, <2>2 DEF SystemTypes
    <3> QED
      BY <1>1, <1>3, <3>1
  <2> QED
    BY <2>1, <2>2
<1>9. \A k \in Keys : client_list[k] # NoConn => client_list'[k] # NoConn
  BY <1>2, <1>6 DEF SystemTypes
<1>10. ASSUME NEW ch \in Channels, NEW k \in Keys, channel_list'[ch][k] # NoConn
       PROVE  LET m == channel_list'[ch][k] IN
                /\ client_list'[k] # NoConn
                /\ conn'[m] = "open" /\ id'[m] = k
                /\ Kind[m] = "public" /\ ChannelOf[m] = ch
  <2>1. CASE channel_list'[ch][k] = channel_list[ch][k]
    <3>1. channel_list[ch][k] \in Clients
      BY <1>10, <2>1 DEF SystemTypes
    <3> QED
      BY <1>1, <1>5, <1>9, <1>10, <2>1, <3>1 DEF TablesInv
  <2>2. CASE channel_list'[ch][k] # channel_list[ch][k]
    <3>1. JoinsChannel(c, d)
      BY <1>7, <2>2
    <3>2. ch = ChannelOf[c] /\ k = KeyOf[c] /\ channel_list'[ch][k] = c
      BY <1>2, <1>7, <2>2 DEF SystemTypes
    <3>3. Kind[c] = "public" /\ client_list[k] # NoConn
      BY <1>1, <3>1, <3>2 DEF Wrote, JoinsChannel, Registered
    <3> QED
      BY <1>1, <1>3, <1>9, <3>2, <3>3
  <2> QED
    BY <2>1, <2>2
<1> QED
  BY <1>4, <1>8, <1>10 DEF TablesInv

(* A connection that ends leaves no entry behind. *)
LEMMA TablesLeft ==
  ASSUME SystemTypes, TablesInv, NEW c \in Clients, Leaves(c)
  PROVE  TablesInv'
<1>1. id' = id /\ \A x \in Clients : conn'[x] = IF x = c THEN "closed" ELSE conn[x]
  BY DEF Leaves, SystemTypes
<1>2. ASSUME NEW k \in Keys, client_list'[k] # NoConn
      PROVE  client_list'[k] = client_list[k] /\ client_list[k] # c
  BY <1>2 DEF Leaves, SystemTypes, TablesInv
<1>3. ASSUME NEW ch \in Channels, NEW k \in Keys, channel_list'[ch][k] # NoConn
      PROVE  channel_list'[ch][k] = channel_list[ch][k] /\ channel_list[ch][k] # c
             /\ client_list'[k] # NoConn
  <2>1. CASE UNCHANGED <<client_list, channel_list>>
    BY <1>3, <2>1 DEF Leaves, SystemTypes, TablesInv
  <2>2. CASE /\ id[c] \in Keys
             /\ client_list' = [client_list EXCEPT ![id[c]] = NoConn]
             /\ channel_list' = [x \in Channels |-> [channel_list[x] EXCEPT ![id[c]] = NoConn]]
    <3>1. channel_list'[ch] = [channel_list[ch] EXCEPT ![id[c]] = NoConn]
      BY <2>2
    <3>2. k # id[c] /\ channel_list'[ch][k] = channel_list[ch][k]
      BY <1>3, <3>1 DEF SystemTypes
    <3>3. channel_list[ch][k] # c /\ client_list[k] # NoConn
      BY <1>3, <3>2 DEF TablesInv
    <3>4. client_list'[k] = client_list[k]
      BY <2>2, <3>2 DEF SystemTypes
    <3> QED
      BY <3>2, <3>3, <3>4
  <2> QED
    BY <2>1, <2>2 DEF Leaves
<1>4. \A x \in Clients : id'[x] \in {NoKey, KeyOf[x]}
  BY <1>1 DEF TablesInv
<1>5. ASSUME NEW k \in Keys, client_list'[k] # NoConn
      PROVE  conn'[client_list'[k]] = "open" /\ id'[client_list'[k]] = k
  <2>1. client_list[k] \in Clients
    BY <1>2, <1>5 DEF SystemTypes
  <2> QED
    BY <1>1, <1>2, <1>5, <2>1 DEF TablesInv
<1>6. ASSUME NEW ch \in Channels, NEW k \in Keys, channel_list'[ch][k] # NoConn
      PROVE  LET m == channel_list'[ch][k] IN
               /\ client_list'[k] # NoConn
               /\ conn'[m] = "open" /\ id'[m] = k
               /\ Kind[m] = "public" /\ ChannelOf[m] = ch
  <2>1. channel_list[ch][k] \in Clients
    BY <1>3, <1>6 DEF SystemTypes
  <2> QED
    BY <1>1, <1>3, <1>6, <2>1 DEF TablesInv
<1> QED
  BY <1>4, <1>5, <1>6 DEF TablesInv

(* The tables never hold a connection that is closed, or under another's key. *)
LEMMA TablesStep ==
  ASSUME SystemTypes, ClientsInv, TablesInv, [Next]_vars
  PROVE  TablesInv'
<1>1. CASE \E c \in Clients : ServerReceives(c)
  BY <1>1, TablesHandled
<1>2. CASE \E c \in Clients : Breaks(c)
  BY <1>2, Left, TablesLeft
<1>3. CASE Crashes
  <2>1. Empties
    BY <1>3, Emptied
  <2>2. /\ \A k \in Keys : client_list'[k] = NoConn
        /\ \A ch \in Channels, k \in Keys : channel_list'[ch][k] = NoConn
        /\ id' = id
    BY <2>1 DEF Empties
  <2> QED
    BY <2>2 DEF TablesInv
<1>4. ASSUME ~(\E c \in Clients : ServerReceives(c) \/ Breaks(c)), ~Crashes
      PROVE  TablesInv'
  <2>1. /\ UNCHANGED <<client_list, channel_list, id>>
        /\ conn' = conn \/ \E c \in Clients : /\ conn[c] = "unused"
                                              /\ conn' = [conn EXCEPT ![c] = "open"]
    BY <1>4, TablesKept
  <2>2. \A x \in Clients : conn[x] = "open" => conn'[x] = "open"
    BY <2>1 DEF SystemTypes
  <2>3. /\ \A k \in Keys : client_list[k] # NoConn => client_list[k] \in Clients
        /\ \A ch \in Channels, k \in Keys :
             channel_list[ch][k] # NoConn => channel_list[ch][k] \in Clients
    BY DEF SystemTypes
  <2> QED
    BY <2>1, <2>2, <2>3 DEF TablesInv
<1> QED
  BY <1>1, <1>2, <1>3, <1>4

(* The tables begin empty. *)
LEMMA TablesInit == Init => TablesInv
<1> SUFFICES ASSUME Init PROVE TablesInv
  OBVIOUS
<1>1. /\ \A k \in Keys : client_list[k] = NoConn
      /\ \A ch \in Channels, k \in Keys : channel_list[ch][k] = NoConn
      /\ \A c \in Clients : id[c] = NoKey
  BY DEF Init, S!Init, S!NoSessions, S!NoMembers
<1> QED
  BY <1>1 DEF TablesInv

-----------------------------------------------------------------------------
(* The phases of a session *)

(* A client nobody has to do with stays in its phase. *)
LEMMA SamePhase ==
  ASSUME NEW x \in Clients, Phase(x),
         conn'[x] = conn[x], started'[x] = started[x], stage'[x] = stage[x],
         challenge'[x] = challenge[x],
         toServer'[x] = toServer[x], toClient'[x] = toClient[x],
         Registered(x)' <=> Registered(x), InChannel(x)' <=> InChannel(x)
  PROVE  Phase(x)'
BY DEF Phase, Idle, Asks, IsAsked, Signs, Stops, IsRegistered, Chats, Is, Grants

(* A message more for a registered client changes nothing in its phase. *)
LEMMA ToldPhase ==
  ASSUME NEW x \in Clients, Phase(x), NEW d \in Datum, d.type = "msg",
         toClient[x] \in Seq(Datum), Registered(x),
         conn'[x] = conn[x], started'[x] = started[x], stage'[x] = stage[x],
         toServer'[x] = toServer[x], toClient'[x] = Append(toClient[x], d),
         Registered(x)', InChannel(x)' <=> InChannel(x)
  PROVE  Phase(x)'
<1>1. /\ ToSet(toClient'[x]) = ToSet(toClient[x]) \cup {d}
      /\ toClient'[x] # <<>>
      /\ toClient[x] # <<>> => /\ Head(toClient'[x]) = Head(toClient[x])
                               /\ Tail(toClient'[x]) = Append(Tail(toClient[x]), d)
  BY AppendItems
<1>2. toClient[x] # <<>> => ToSet(Tail(toClient'[x])) = ToSet(Tail(toClient[x])) \cup {d}
  <2>1. SUFFICES ASSUME toClient[x] # <<>>
                 PROVE  ToSet(Tail(toClient'[x])) = ToSet(Tail(toClient[x])) \cup {d}
    OBVIOUS
  <2>2. Tail(toClient[x]) \in Seq(Datum)
    BY <2>1, TailItems
  <2>3. ToSet(Append(Tail(toClient[x]), d)) = ToSet(Tail(toClient[x])) \cup {d}
    BY <2>2, AppendSet
  <2>4. Tail(toClient'[x]) = Append(Tail(toClient[x]), d)
    BY <1>1, <2>1
  <2> QED
    BY <2>3, <2>4
<1>3. IsRegistered(x) => IsRegistered(x)'
  BY <1>1, <1>2 DEF IsRegistered, Grants
<1>4. Chats(x) => Chats(x)'
  BY <1>1 DEF Chats, Grants
<1> QED
  BY <1>3, <1>4 DEF Phase

(* What a request of c does to another client: nothing, or it is a message
   and the other is among its receivers. *)
LEMMA Elsewhere ==
  ASSUME OwnKeys, SystemTypes, ClientsInv, TablesInv,
         NEW c \in Clients, ServerReceives(c), NEW x \in Clients, x # c
  PROVE  /\ Registered(x)' <=> Registered(x)
         /\ InChannel(x)' <=> InChannel(x)
         /\ toServer'[x] = toServer[x] /\ challenge'[x] = challenge[x]
         /\ \/ toClient'[x] = toClient[x]
            \/ LET d == Head(toServer[c]) IN
                 /\ d.type = "msg" /\ Delivers(c, d) /\ x \in S!Recipients(c, d)
                 /\ Registered(x) /\ conn[x] = "open"
                 /\ toClient'[x] = Append(toClient[x], d)
<1> DEFINE d == Head(toServer[c])
<1>1. /\ Wrote(c, d) /\ Handles(c, d)
      /\ toServer' = [toServer EXCEPT ![c] = Tail(@)]
  BY Handled
<1> HIDE DEF d
<1>2. KeyOf[c] \in Keys /\ ChannelOf[c] \in Channels /\ KeyOf[x] \in Keys
      /\ ChannelOf[x] \in Channels /\ KeyOf[x] # KeyOf[c]
  BY DEF OwnKeys
<1>3. Registered(x)' <=> Registered(x)
  <2>1. client_list' = client_list \/ client_list' = [client_list EXCEPT ![KeyOf[c]] = c]
    BY <1>1 DEF Handles, Challenges, Admits, JoinsChannel, Delivers, Ignores, Refuses
  <2>2. client_list'[KeyOf[x]] = client_list[KeyOf[x]]
    BY <1>2, <2>1 DEF SystemTypes
  <2> QED
    BY <2>2 DEF Registered
<1>4. InChannel(x)' <=> InChannel(x)
  <2>1. \/ channel_list' = channel_list
        \/ channel_list' = [channel_list EXCEPT ![ChannelOf[c]][KeyOf[c]] = c]
    BY <1>1 DEF Handles, Challenges, Admits, JoinsChannel, Delivers, Ignores, Refuses
  <2>2. channel_list'[ChannelOf[x]][KeyOf[x]] = channel_list[ChannelOf[x]][KeyOf[x]]
    <3>1. CASE channel_list' = [channel_list EXCEPT ![ChannelOf[c]][KeyOf[c]] = c]
      <4>1. channel_list[ChannelOf[x]] \in [Keys -> Clients \cup {NoConn}]
        BY <1>2 DEF SystemTypes
      <4>2. channel_list'[ChannelOf[x]] =
              IF ChannelOf[x] = ChannelOf[c]
              THEN [channel_list[ChannelOf[x]] EXCEPT ![KeyOf[c]] = c]
              ELSE channel_list[ChannelOf[x]]
        BY <1>2, <3>1 DEF SystemTypes
      <4> QED
        BY <1>2, <4>1, <4>2
    <3> QED
      BY <2>1, <3>1
  <2> QED
    BY <2>2 DEF InChannel
<1>5. toServer'[x] = toServer[x]
  BY <1>1 DEF SystemTypes
<1>6. challenge'[x] = challenge[x]
  <2>1. challenge' = challenge \/ challenge' = [challenge EXCEPT ![c] = @ + 1]
    BY <1>1 DEF Handles, Challenges, Admits, JoinsChannel, Delivers, Ignores, Refuses
  <2> QED
    BY <2>1 DEF SystemTypes
<1>7. ASSUME toClient'[x] # toClient[x]
      PROVE  /\ d.type = "msg" /\ Delivers(c, d) /\ x \in S!Recipients(c, d)
             /\ Registered(x) /\ conn[x] = "open"
             /\ toClient'[x] = Append(toClient[x], d)
  <2>1. \A r : ~Answers(c, r)
    BY <1>7 DEF Answers
  <2>2. Delivers(c, d)
    BY <1>1, <1>7, <2>1
    DEF Handles, Challenges, Admits, JoinsChannel, Ignores, Refuses
  <2>3. toClient'[x] = IF x \in S!Recipients(c, d) THEN Append(toClient[x], d)
                       ELSE toClient[x]
    BY <2>2 DEF Delivers
  <2>4. d.type = "msg"
    BY <2>2 DEF Delivers
  <2>5. x \in S!Recipients(c, d)
    BY <1>7, <2>3
  <2> QED
    BY <1>1, <2>2, <2>3, <2>4, <2>5, RecipientsAre
<1> QED
  BY <1>3, <1>4, <1>5, <1>6, <1>7 DEF d

(* A request that follows the phases is not refused. *)
LEMMA NotRefused ==
  ASSUME SystemTypes, ClientsInv, NEW c \in Clients, Phase(c), ServerReceives(c)
  PROVE  ~Refuses(c, Head(toServer[c]))
<1> DEFINE d == Head(toServer[c])
<1>1. /\ conn[c] = "open" /\ d \in ToSet(toServer[c]) /\ Wrote(c, d)
      /\ toServer[c] \in Seq(Datum) /\ toServer[c] # <<>>
  BY Handled DEF SystemTypes, ServerReceives
<1>2. d = toServer[c][1]
  BY <1>1, TailItems
<1> HIDE DEF d
<1>3. CASE Registered(c)
  <2>1. Chats(c)
    BY <1>1, <1>3 DEF Phase, IsRegistered
  <2>2. d.type = "msg" /\ Kind[c] = "public" => stage[c] = "publicMessage"
    BY <1>1, <2>1 DEF Chats, ClientsInv, C!MessageStages
  <2>3. ~Outside(c, d)
    BY <2>1, <2>2 DEF Chats, Outside
  <2> QED
    BY <1>3, <2>3 DEF Refuses, Premature, d
<1>4. CASE ~Registered(c)
  <2>1. Asks(c) \/ Signs(c)
    BY <1>1, <1>4 DEF Phase, Idle, IsAsked, Stops
  <2>2. ~Premature(c, d)
    BY <1>2, <2>1 DEF Asks, Signs, Is, Premature
  <2> QED
    BY <1>4, <2>2 DEF Refuses, Outside, d
<1> QED
  BY <1>3, <1>4

(* The server's side of a client's phases. *)
LEMMA HandledPhase ==
  ASSUME SystemTypes, ClientsInv, NEW c \in Clients, Phase(c), ServerReceives(c)
  PROVE  Phase(c)'
<1> DEFINE d == Head(toServer[c])
<1>1. /\ conn[c] = "open" /\ d \in ToSet(toServer[c]) /\ Wrote(c, d)
      /\ Handles(c, d) /\ ~Refuses(c, d)
      /\ toServer' = [toServer EXCEPT ![c] = Tail(@)]
      /\ UNCHANGED <<conn, clientVars>>
  BY Handled, NotRefused
<1>2. /\ toServer[c] \in Seq(Datum) /\ toServer[c] # <<>> /\ toClient[c] \in Seq(Datum)
  BY DEF SystemTypes, ServerReceives
<1>3. /\ d = toServer[c][1] /\ toServer'[c] = Tail(toServer[c])
      /\ ToSet(toServer'[c]) \subseteq ToSet(toServer[c])
      /\ Len(toServer[c]) = 1 => toServer'[c] = <<>>
  BY <1>1, <1>2, TailItems DEF SystemTypes
<1>4. conn'[c] = conn[c] /\ started'[c] = started[c] /\ stage'[c] = stage[c]
  BY <1>1 DEF clientVars
<1>5. \A r : Answers(c, r) => toClient'[c] = Append(toClient[c], r)
  BY DEF Answers
<1>6. KeyOf[c] \in Keys /\ ChannelOf[c] \in Channels
  OBVIOUS
<1>6a. started[c] = TRUE
  BY <1>1, <1>2 DEF Phase, Idle, SystemTypes
<1> HIDE DEF d
<1>7. CASE ~Registered(c) /\ Asks(c)
  <2>1. d.type = "connect"
    BY <1>3, <1>7 DEF Asks, Is
  <2>2. Challenges(c, d)
    BY <1>1, <1>7, <2>1 DEF Handles, Admits, JoinsChannel, Delivers, Ignores
  <2>3. challenge[c] = 0 /\ challenge'[c] = 1 /\ ~Registered(c)'
    BY <1>7, <2>2 DEF Asks, Challenges, SystemTypes, Registered
  <2>4. toClient'[c] = Append(<<>>, AskVerify(1))
    BY <1>5, <1>7, <2>2, <2>3 DEF Asks, Challenges
  <2>5. Len(toClient'[c]) = 1 /\ toClient'[c][1] = AskVerify(1)
    BY <2>4
  <2>5a. AskVerify(1).type = "verify" /\ AskVerify(1).msg = 1
    BY ReplyTypes
  <2>6. IsAsked(c)'
    BY <1>3, <1>4, <1>7, <2>3, <2>5, <2>5a DEF Asks, Is, IsAsked
  <2> QED
    BY <1>1, <1>4, <1>6a, <2>3, <2>6 DEF Phase
<1>8. CASE ~Registered(c) /\ Signs(c)
  <2>1. d.type = "verify"
    BY <1>3, <1>8 DEF Signs, Is
  <2>2. Admits(c, d) /\ Kind[c] # "chat"
    BY <1>1, <1>8, <2>1 DEF Handles, Challenges, JoinsChannel, Delivers, Ignores, Wrote
  <2>3. Registered(c)'
    BY <1>6, <2>2 DEF Admits, Registered, SystemTypes
  <2> DEFINE r == Success("Connected to Network")
  <2>4. Grants(r)
    BY ReplyTypes
  <2>5. toClient'[c] = Append(<<>>, r)
    BY <1>5, <1>8, <2>2 DEF Signs, Admits
  <2> HIDE DEF r
  <2>6. toClient'[c] # <<>> /\ Head(toClient'[c]) = r /\ Tail(toClient'[c]) = <<>>
    BY <2>5
  <2>7. IsRegistered(c)'
    BY <1>3, <1>4, <1>8, <2>2, <2>4, <2>6, EmptyItems DEF Signs, Is, IsRegistered, Grants
  <2> QED
    BY <1>1, <1>4, <1>6a, <2>3, <2>7 DEF Phase
<1>9. CASE Registered(c) /\ Chats(c)
  <2>1. d.type = "join" \/ (d.type = "msg" /\ stage[c] \in C!MessageStages)
    BY <1>1, <1>9 DEF Chats
  <2>2. /\ stage'[c] \in C!MessageStages \cup {"joinPublicChannel"}
        /\ \A e \in ToSet(toServer'[c]) :
             \/ e.type = "join"
             \/ e.type = "msg" /\ stage'[c] \in C!MessageStages
    BY <1>3, <1>4, <1>9 DEF Chats
  <2>3. CASE JoinsChannel(c, d)
    <3> DEFINE r == Success("Connected to channel")
    <3>1. r \in Datum /\ Grants(r) /\ r.type = "success"
      BY ReplyTypes
    <3>2. Answers(c, r) /\ client_list' = client_list
      BY <2>3 DEF JoinsChannel
    <3> HIDE DEF r
    <3>3. toClient'[c] = Append(toClient[c], r)
      BY <1>5, <3>2
    <3>4. ToSet(toClient'[c]) = ToSet(toClient[c]) \cup {r}
      BY <1>2, <3>1, <3>3, AppendItems
    <3>5. InChannel(c)'
      BY <1>6, <2>3 DEF JoinsChannel, InChannel, SystemTypes
    <3>6. Chats(c)'
      BY <1>4, <1>9, <2>2, <3>1, <3>4, <3>5 DEF Chats, Grants
    <3>7. Registered(c)'
      BY <1>9, <3>2 DEF Registered
    <3> QED
      BY <1>1, <1>4, <1>9, <3>6, <3>7 DEF Phase
  <2>4. CASE Delivers(c, d)
    <3>1. d \in Datum /\ d.type = "msg" /\ stage[c] \in C!MessageStages
      BY <1>1, <2>1, <2>4 DEF Wrote, Delivers
    <3> DEFINE out == IF c \in S!Recipients(c, d) THEN Append(toClient[c], d)
                      ELSE toClient[c]
    <3>2. out \in Seq(Datum) /\ toClient'[c] = Append(out, Success("MESSAGE SENT"))
      BY <2>4, <3>1, DeliveredTo
    <3>3. ToSet(out) \subseteq ToSet(toClient[c]) \cup {d}
      BY <1>2, <3>1, AppendItems
    <3> HIDE DEF out
    <3>4. ToSet(toClient'[c]) = ToSet(out) \cup {Success("MESSAGE SENT")}
      <4> DEFINE ack == Success("MESSAGE SENT")
      <4>1. ack \in Datum
        BY ReplyTypes
      <4>2. toClient'[c] = Append(out, ack)
        BY <3>2
      <4> HIDE DEF ack
      <4>3. ToSet(Append(out, ack)) = ToSet(out) \cup {ack}
        BY <3>2, <4>1, AppendSet
      <4>4. ToSet(toClient'[c]) = ToSet(out) \cup {ack}
        BY <4>2, <4>3
      <4> QED
        BY <4>4 DEF ack
    <3>5. \A e \in ToSet(toClient'[c]) : e.type = "msg" \/ e.type = "success"
      BY <1>9, <3>1, <3>3, <3>4, ReplyTypes DEF Chats
    <3>6. UNCHANGED <<client_list, channel_list>>
      BY <2>4 DEF Delivers
    <3>7. stage[c] # "joinPublicChannel"
      BY <3>1 DEF C!MessageStages
    <3>8. Chats(c)'
      BY <1>4, <1>9, <2>2, <3>5, <3>6, <3>7 DEF Chats, InChannel
    <3>9. Registered(c)'
      BY <1>9, <3>6 DEF Registered
    <3> QED
      BY <1>1, <1>4, <1>9, <3>8, <3>9 DEF Phase
  <2> QED
    BY <1>1, <1>9, <2>1, <2>3, <2>4 DEF Handles, Challenges, Admits, Ignores
<1> QED
  BY <1>1, <1>2, <1>7, <1>8, <1>9 DEF Phase, Idle, IsAsked, Stops, IsRegistered

(* A datum is written behind what was there, on its author's connection. *)
LEMMA Said ==
  ASSUME SystemTypes, NEW c \in Clients, NEW d, Says(c, d)
  PROVE  /\ toServer'[c] = Append(toServer[c], d)
         /\ \A x \in Clients : x # c => toServer'[x] = toServer[x]
BY DEF Says, SystemTypes

(* What a stage's start leaves on the connection. *)
LEMMA Entered ==
  ASSUME SystemTypes, NEW c \in Clients, NEW st, NEW n, EntersStage(c, st, n)
  PROVE  /\ stage'[c] = st
         /\ \A x \in Clients : x # c => stage'[x] = stage[x] /\ toServer'[x] = toServer[x]
         /\ \/ StartsSilently(c, st) /\ toServer'[c] = toServer[c]
            \/ \E d \in Datum : /\ Opens(c, d, st, n)
                                /\ toServer'[c] = Append(toServer[c], d)
<1>1. stage' = [stage EXCEPT ![c] = st]
  BY DEF EntersStage
<1>2. CASE StartsSilently(c, st) /\ toServer' = toServer
  BY <1>1, <1>2 DEF SystemTypes
<1>3. ASSUME NEW d, Opens(c, d, st, n), Says(c, d)
      PROVE  /\ \A x \in Clients : x # c => toServer'[x] = toServer[x]
             /\ \E e \in Datum : Opens(c, e, st, n) /\ toServer'[c] = Append(toServer[c], e)
  <2>1. d \in Datum
    BY <1>3 DEF Opens, Wrote
  <2> QED
    BY <1>3, <2>1, Said
<1>4. /\ stage'[c] = st
      /\ \A x \in Clients : x # c => stage'[x] = stage[x]
  BY <1>1 DEF SystemTypes
<1> QED
  BY <1>2, <1>3, <1>4 DEF EntersStage

(* The first command, on an empty connection. *)
LEMMA StartedPhase ==
  ASSUME SystemTypes, ClientsInv, NEW c \in Clients, Phase(c), Starts(c)
  PROVE  Phase(c)'
<1>1. /\ C!start(c) /\ conn[c] # "unused" /\ UNCHANGED serverVars
  BY DEF Starts
<1>2. StageFits
  BY ClientsParts
<1>3. ~started[c] /\ EntersStage(c, stage[c], challengeSig[c])
  BY <1>1, <1>2, Started
<1>4. UNCHANGED <<client_list, conn, challenge, toClient>>
  BY <1>1 DEF serverVars
<1>5. CASE conn[c] = "closed"
  BY <1>4, <1>5 DEF Phase
<1>6. CASE conn[c] # "closed"
  <2>1. conn[c] = "open" /\ Idle(c) /\ ~Registered(c)
    BY <1>1, <1>3, <1>6 DEF Phase, SystemTypes
  <2>2. ~StartsSilently(c, stage[c])
    BY <2>1 DEF StartsSilently, Idle, C!MessageStages
  <2>3. PICK d \in Datum : /\ Opens(c, d, stage[c], challengeSig[c])
                           /\ toServer'[c] = Append(<<>>, d)
    BY <1>3, <2>1, <2>2, Entered DEF Idle
  <2>4. d.type = "connect"
    BY <2>1, <2>3 DEF Opens, Idle
  <2>5. Len(toServer'[c]) = 1 /\ toServer'[c][1] = d
    BY <2>3
  <2>6. stage'[c] = stage[c]
    BY <1>3, Entered
  <2>7. Asks(c)'
    BY <1>4, <2>1, <2>4, <2>5, <2>6 DEF Idle, Asks, Is
  <2>8. started'[c] = TRUE
    <3>1. started' = [started EXCEPT ![c] = TRUE]
      BY <1>1, <1>2, Started
    <3> QED
      BY <3>1 DEF SystemTypes
  <2> QED
    BY <1>4, <2>1, <2>7, <2>8 DEF Phase, Registered
<1> QED
  BY <1>5, <1>6

(* A message more from a client that may send them. *)
LEMMA TypedPhase ==
  ASSUME SystemTypes, ClientsInv, NEW c \in Clients, Phase(c), UserTypes(c)
  PROVE  Phase(c)'
<1>1. Enqueues(c) /\ UNCHANGED started /\ UNCHANGED serverVars
  BY ClientsParts, Typed DEF UserTypes
<1>2. /\ UNCHANGED <<client_list, channel_list, conn, challenge, toClient, stage>>
  BY <1>1 DEF serverVars, Enqueues
<1>3. CASE toServer' = toServer
  BY <1>1, <1>2, <1>3, SamePhase DEF Registered, InChannel
<1>4. ASSUME NEW d, stage[c] \in C!MessageStages, Wrote(c, d), d.type = "msg", Says(c, d)
      PROVE  Phase(c)'
  <2>1. CASE conn[c] = "closed"
    BY <1>2, <2>1 DEF Phase
  <2>2. CASE conn[c] # "closed"
    <3>1. Chats(c) /\ Registered(c) /\ started[c] /\ conn[c] = "open"
      BY <1>4, <2>2 DEF Phase, Idle, Asks, IsAsked, Signs, Stops, IsRegistered, C!MessageStages
    <3>2. d \in Datum /\ toServer[c] \in Seq(Datum)
      BY <1>4 DEF Wrote, SystemTypes
    <3>3. toServer'[c] = Append(toServer[c], d)
      BY <1>4, Said
    <3>4. ToSet(toServer'[c]) = ToSet(toServer[c]) \cup {d}
      BY <3>2, <3>3, AppendSet
    <3>5. Chats(c)'
      BY <1>2, <1>4, <3>1, <3>4 DEF Chats, Grants, InChannel
    <3> QED
      BY <1>1, <1>2, <3>1, <3>5 DEF Phase, Registered
  <2> QED
    BY <2>1, <2>2
<1> QED
  BY <1>1, <1>3, <1>4 DEF Enqueues

(* The client's side of its phases. *)
LEMMA ReceivedPhase ==
  ASSUME SystemTypes, ClientsInv, NEW c \in Clients, Phase(c), ClientReceives(c)
  PROVE  Phase(c)'
<1> DEFINE r == Head(toClient[c])
<1>1. S!Read(c) /\ C!getConnectionListener(c, r)
  BY DEF ClientReceives
<1>2. /\ r \in Datum /\ r \in ToSet(toClient[c])
      /\ toClient' = [toClient EXCEPT ![c] = Tail(@)]
      /\ UNCHANGED <<client_list, channel_list, conn, challenge>>
      /\ toClient[c] # <<>> /\ toClient[c] \in Seq(Datum) /\ toServer[c] \in Seq(Datum)
  BY <1>1, ReadTypes DEF S!Read, SystemTypes
<1>3. /\ r = toClient[c][1]
      /\ toClient'[c] = Tail(toClient[c])
      /\ ToSet(toClient'[c]) \subseteq ToSet(toClient[c])
      /\ Len(toClient[c]) = 1 => toClient'[c] = <<>>
  BY <1>2, TailItems DEF SystemTypes
<1> HIDE DEF r
<1>4. Proceeds(c, r) \/ Counts(c, r) \/ Drops(c, r)
  BY <1>1, <1>2, ClientsParts, Listened
<1>5. UNCHANGED started
  BY <1>1, <1>2, ClientsParts, Listened
<1>6. (Registered(c)' <=> Registered(c)) /\ (InChannel(c)' <=> InChannel(c))
  BY <1>2 DEF Registered, InChannel
<1>7. CASE conn[c] = "closed"
  BY <1>2, <1>7 DEF Phase
<1>8. CASE conn[c] # "closed" /\ ~Registered(c)
  <2>1. IsAsked(c) /\ started[c] /\ conn[c] = "open"
    BY <1>2, <1>8 DEF Phase, Idle, Asks, Signs, Stops
  <2>2. r.type = "verify" /\ r.msg = 1 /\ toClient'[c] = <<>>
    BY <1>3, <2>1 DEF IsAsked, Is
  <2>3. Proceeds(c, r)
    <3>1. r.msg # 0
      BY <2>2
    <3>2. ~Drops(c, r)
      BY <2>1, <3>1 DEF Drops, IsAsked
    <3>3. ~Counts(c, r)
      BY <2>2, ReplyTypes DEF Counts
    <3> QED
      BY <1>4, <3>2, <3>3
  <2>4. EntersStage(c, "signChallenge", 1)
    BY <2>1, <2>2, <2>3 DEF Proceeds, Leads, IsAsked
  <2>5. stage'[c] = "signChallenge"
    BY <2>4, Entered
  <2>6. CASE StartsSilently(c, "signChallenge") /\ toServer'[c] = toServer[c]
    <3>1. Kind[c] = "chat"
      BY <2>6 DEF StartsSilently, C!MessageStages
    <3>2. Stops(c)'
      BY <1>2, <2>1, <2>2, <2>5, <2>6, <3>1 DEF IsAsked, Stops
    <3> QED
      BY <1>2, <1>5, <1>6, <1>8, <2>1, <3>2 DEF Phase
  <2>7. ASSUME NEW d \in Datum, Opens(c, d, "signChallenge", 1),
               toServer'[c] = Append(toServer[c], d)
        PROVE  Phase(c)'
    <3>1. toServer'[c] = Append(<<>>, d) /\ d.type = "verify" /\ d.msg = 1
      BY <2>1, <2>7 DEF IsAsked, Opens
    <3>2. Len(toServer'[c]) = 1 /\ toServer'[c][1] = d
      BY <3>1
    <3>3. challenge'[c] = 1
      BY <1>2, <2>1 DEF IsAsked
    <3>4. Signs(c)'
      BY <2>2, <2>5, <3>1, <3>2, <3>3 DEF Signs, Is
    <3> QED
      BY <1>2, <1>5, <1>6, <1>8, <2>1, <3>4 DEF Phase
  <2> QED
    BY <2>4, <2>6, <2>7, Entered
<1>9. CASE conn[c] # "closed" /\ Registered(c) /\ IsRegistered(c)
  <2>1. r.type = "success" /\ r # Success("MESSAGE SENT")
        /\ \A e \in ToSet(toClient'[c]) : e.type = "msg"
    <3>1. Grants(r) /\ \A e \in ToSet(toClient'[c]) : e.type = "msg"
      BY <1>3, <1>9 DEF IsRegistered, r
    <3>2. ~Grants(Success("MESSAGE SENT"))
      BY DEF Grants, Success, MakeDatum
    <3> QED
      BY <3>1, <3>2 DEF Grants
  <2>2. Proceeds(c, r)
    BY <1>4, <1>9, <2>1 DEF Counts, Drops, IsRegistered
  <2>3. PICK st \in C!Stages, n \in Nat : Leads(c, r, st, n) /\ EntersStage(c, st, n)
    BY <2>2 DEF Proceeds
  <2>4. \/ Kind[c] = "public" /\ st = "joinPublicChannel"
        \/ Kind[c] = "private" /\ st = "privateMessage"
    BY <1>9, <2>1, <2>3 DEF Leads, IsRegistered
  <2>5. stage'[c] = st /\ st \in C!MessageStages \cup {"joinPublicChannel"}
    BY <2>3, <2>4, Entered DEF C!MessageStages
  <2>6. \A d \in ToSet(toServer'[c]) :
          \/ d.type = "join"
          \/ d.type = "msg" /\ st \in C!MessageStages
    <3>1. CASE toServer'[c] = toServer[c]
      BY <1>9, <3>1, EmptyItems DEF IsRegistered
    <3>2. ASSUME NEW d \in Datum, Opens(c, d, st, n), toServer'[c] = Append(toServer[c], d)
          PROVE  /\ ToSet(toServer'[c]) = {d}
                 /\ d.type = "join" \/ (d.type = "msg" /\ st \in C!MessageStages)
      <4>1. ToSet(toServer'[c]) = ToSet(toServer[c]) \cup {d}
        BY <1>2, <3>2, AppendSet
      <4>2. ToSet(toServer[c]) = {}
        BY <1>9, EmptyItems DEF IsRegistered
      <4> QED
        BY <2>5, <3>2, <4>1, <4>2 DEF Opens
    <3> QED
      BY <2>3, <3>1, <3>2, Entered
  <2>7. st # "publicMessage"
    BY <2>4
  <2>8. Chats(c)'
    BY <2>1, <2>5, <2>6, <2>7 DEF Chats, Grants
  <2> QED
    BY <1>2, <1>5, <1>6, <1>9, <2>8 DEF Phase
<1>10. CASE conn[c] # "closed" /\ Registered(c) /\ Chats(c)
  <2>1. CASE stage'[c] = stage[c] /\ toServer'[c] = toServer[c]
    <3>1. Chats(c)'
      BY <1>3, <1>6, <1>10, <2>1 DEF Chats, Grants
    <3> QED
      BY <1>2, <1>5, <1>6, <1>10, <3>1 DEF Phase
  <2>2. CASE Proceeds(c, r)
    <3>1. PICK st \in C!Stages, n \in Nat : Leads(c, r, st, n) /\ EntersStage(c, st, n)
      BY <2>2 DEF Proceeds
    <3>2. stage'[c] = st
      BY <3>1, Entered
    <3>3. \/ /\ stage[c] = "joinPublicChannel" /\ st = "publicMessage"
             /\ InChannel(c)
          \/ st = stage[c]
      BY <1>2, <1>10, <3>1 DEF Leads, Chats, C!MessageStages
    <3>4. st \in C!MessageStages \cup {"joinPublicChannel"}
          /\ (stage[c] \in C!MessageStages => st \in C!MessageStages)
      BY <1>10, <3>3 DEF Chats, C!MessageStages
    <3>5. ASSUME NEW d \in Datum, Opens(c, d, st, n)
          PROVE  d.type = "join" \/ (d.type = "msg" /\ st \in C!MessageStages)
      BY <3>4, <3>5 DEF Opens
    <3>6. \/ toServer'[c] = toServer[c]
          \/ \E d \in Datum : /\ Opens(c, d, st, n)
                              /\ ToSet(toServer'[c]) = ToSet(toServer[c]) \cup {d}
      <4>1. ASSUME NEW d \in Datum, toServer'[c] = Append(toServer[c], d)
            PROVE  ToSet(toServer'[c]) = ToSet(toServer[c]) \cup {d}
        BY <1>2, <4>1, AppendSet
      <4>2. \/ toServer'[c] = toServer[c]
            \/ \E d \in Datum : /\ Opens(c, d, st, n)
                                /\ toServer'[c] = Append(toServer[c], d)
        BY <3>1, Entered
      <4> QED
        BY <4>1, <4>2
    <3>7. \A e \in ToSet(toServer'[c]) :
            e.type = "join" \/ (e.type = "msg" /\ st \in C!MessageStages)
      BY <1>10, <3>4, <3>5, <3>6 DEF Chats
    <3>8. Chats(c)'
      BY <1>3, <1>6, <1>10, <3>2, <3>3, <3>4, <3>7 DEF Chats, Grants, C!MessageStages
    <3> QED
      BY <1>2, <1>5, <1>6, <1>10, <3>8 DEF Phase
  <2> QED
    BY <1>4, <2>1, <2>2 DEF Counts, Drops
<1> QED
  BY <1>7, <1>8, <1>9, <1>10 DEF Phase

(* The steps of a client leave the others where they are. *)
LEMMA OthersKept ==
  ASSUME SystemTypes, ClientsInv, NEW c \in Clients, NEW x \in Clients, x # c,
         Starts(c) \/ UserTypes(c) \/ ClientReceives(c)
  PROVE  /\ conn'[x] = conn[x] /\ started'[x] = started[x] /\ stage'[x] = stage[x]
         /\ challenge'[x] = challenge[x] /\ toServer'[x] = toServer[x]
         /\ toClient'[x] = toClient[x]
         /\ Registered(x)' <=> Registered(x)
         /\ InChannel(x)' <=> InChannel(x)
<1>1. StageFits
  BY ClientsParts
<1>2. ASSUME NEW st, NEW n, EntersStage(c, st, n)
      PROVE  stage'[x] = stage[x] /\ toServer'[x] = toServer[x]
  BY <1>2, Entered
<1>3. CASE Starts(c)
  <2>1. C!start(c) /\ UNCHANGED serverVars
    BY <1>3 DEF Starts
  <2>2. started' = [started EXCEPT ![c] = TRUE] /\ EntersStage(c, stage[c], challengeSig[c])
    BY <1>1, <2>1, Started
  <2>3. started'[x] = started[x]
    BY <2>2 DEF SystemTypes
  <2> QED
    BY <1>2, <2>1, <2>2, <2>3 DEF serverVars, Registered, InChannel
<1>4. CASE UserTypes(c)
  <2>1. Enqueues(c) /\ UNCHANGED started /\ UNCHANGED serverVars
    BY <1>1, <1>4, Typed DEF UserTypes
  <2>2. toServer'[x] = toServer[x] /\ stage'[x] = stage[x]
    BY <2>1, Said DEF Enqueues
  <2> QED
    BY <2>1, <2>2 DEF serverVars, Registered, InChannel
<1>5. CASE ClientReceives(c)
  <2> DEFINE r == Head(toClient[c])
  <2>1. S!Read(c) /\ C!getConnectionListener(c, r)
    BY <1>5 DEF ClientReceives
  <2>2. /\ r \in Datum /\ toClient' = [toClient EXCEPT ![c] = Tail(@)]
        /\ UNCHANGED <<client_list, channel_list, conn, challenge>>
    BY <2>1, ReadTypes
  <2>3. toClient'[x] = toClient[x]
    BY <2>2 DEF SystemTypes
  <2> HIDE DEF r
  <2>4. (Proceeds(c, r) \/ Counts(c, r) \/ Drops(c, r)) /\ UNCHANGED started
    BY <1>1, <2>1, <2>2, Listened
  <2>5. stage'[x] = stage[x] /\ toServer'[x] = toServer[x]
    BY <1>2, <2>4 DEF Proceeds, Counts, Drops
  <2> QED
    BY <2>2, <2>3, <2>4, <2>5 DEF Registered, InChannel
<1> QED
  BY <1>3, <1>4, <1>5

(* A session goes from phase to phase: every request finds the server in the
   phase it was written for. *)
LEMMA PhasesStep ==
  ASSUME OwnKeys, SystemTypes, ClientsInv, TablesInv, SessionPhases, [Next]_vars
  PROVE  SessionPhases'
<1> SUFFICES ASSUME NEW x \in Clients PROVE Phase(x)'
  BY DEF SessionPhases
<1>1. Phase(x)
  BY DEF SessionPhases
<1>2. ASSUME NEW c \in Clients, Connects(c) PROVE Phase(x)'
  <2>1. /\ conn[c] = "unused" /\ conn' = [conn EXCEPT ![c] = "open"]
        /\ UNCHANGED <<client_list, channel_list, challenge, toClient, clientVars, toServer>>
    BY <1>2 DEF Connects, S!onClientConnected, S!tables
  <2>2. CASE x = c
    <3>1. ~started[x] /\ ~Registered(x) /\ Idle(x)
      BY <1>1, <2>1, <2>2 DEF Phase
    <3>2. conn'[x] = "open"
      BY <2>1, <2>2 DEF SystemTypes
    <3> QED
      BY <2>1, <3>1, <3>2 DEF clientVars, Phase, Idle, Registered
  <2>3. CASE x # c
    <3>1. conn'[x] = conn[x]
      BY <2>1, <2>3 DEF SystemTypes
    <3> QED
      BY <1>1, <2>1, <3>1, SamePhase DEF clientVars, Registered, InChannel
  <2> QED
    BY <2>2, <2>3
<1>3. ASSUME NEW c \in Clients, Starts(c) \/ UserTypes(c) \/ ClientReceives(c)
      PROVE  Phase(x)'
  BY <1>1, <1>3, StartedPhase, TypedPhase, ReceivedPhase, OthersKept, SamePhase
<1>4. ASSUME NEW c \in Clients, ServerReceives(c) PROVE Phase(x)'
  <2>1. CASE x = c
    BY <1>1, <1>4, <2>1, HandledPhase
  <2>2. CASE x # c
    <3> DEFINE d == Head(toServer[c])
    <3>1. UNCHANGED <<conn, clientVars>> /\ Wrote(c, d)
      BY <1>4, Handled
    <3>2. /\ Registered(x)' <=> Registered(x)
          /\ InChannel(x)' <=> InChannel(x)
          /\ toServer'[x] = toServer[x] /\ challenge'[x] = challenge[x]
          /\ \/ toClient'[x] = toClient[x]
             \/ /\ d.type = "msg" /\ Registered(x)
                /\ toClient'[x] = Append(toClient[x], d)
      BY <1>4, <2>2, Elsewhere
    <3>3. d \in Datum /\ toClient[x] \in Seq(Datum)
      BY <3>1 DEF Wrote, SystemTypes
    <3>4. conn'[x] = conn[x] /\ started'[x] = started[x] /\ stage'[x] = stage[x]
      BY <3>1 DEF clientVars
    <3> HIDE DEF d
    <3>5. CASE toClient'[x] = toClient[x]
      BY <1>1, <3>2, <3>4, <3>5, SamePhase
    <3>6. CASE /\ d.type = "msg" /\ Registered(x)
               /\ toClient'[x] = Append(toClient[x], d)
      BY <1>1, <3>2, <3>3, <3>4, <3>6, ToldPhase
    <3> QED
      BY <3>2, <3>5, <3>6
  <2> QED
    BY <2>1, <2>2
<1>5. ASSUME NEW c \in Clients, Breaks(c) PROVE Phase(x)'
  <2>1. Leaves(c)
    BY <1>5, Left
  <2>2. CASE x = c
    BY <2>1, <2>2 DEF Leaves, SystemTypes, Phase
  <2>3. CASE x # c
    <3>1. conn'[x] = conn[x] /\ UNCHANGED <<challenge, toClient, clientVars, toServer>>
      BY <2>1, <2>3 DEF Leaves, SystemTypes
    <3>2. KeyOf[x] \in Keys /\ ChannelOf[x] \in Channels /\ KeyOf[x] # id[c]
      BY <2>3 DEF TablesInv, OwnKeys
    <3>3. /\ client_list'[KeyOf[x]] = client_list[KeyOf[x]]
          /\ channel_list'[ChannelOf[x]][KeyOf[x]] = channel_list[ChannelOf[x]][KeyOf[x]]
      <4>1. channel_list[ChannelOf[x]] \in [Keys -> Clients \cup {NoConn}]
        BY <3>2 DEF SystemTypes
      <4>2. CASE UNCHANGED <<client_list, channel_list>>
        BY <4>2
      <4>3. CASE /\ client_list' = [client_list EXCEPT ![id[c]] = NoConn]
                 /\ channel_list' = [ch \in Channels |->
                                       [channel_list[ch] EXCEPT ![id[c]] = NoConn]]
        <5>1. channel_list'[ChannelOf[x]] = [channel_list[ChannelOf[x]] EXCEPT ![id[c]] = NoConn]
          BY <3>2, <4>3
        <5>2. channel_list'[ChannelOf[x]][KeyOf[x]] = channel_list[ChannelOf[x]][KeyOf[x]]
          BY <3>2, <4>1, <5>1
        <5>3. client_list'[KeyOf[x]] = client_list[KeyOf[x]]
          BY <3>2, <4>3 DEF SystemTypes
        <5> QED
          BY <5>2, <5>3
      <4> QED
        BY <2>1, <4>2, <4>3 DEF Leaves
    <3> QED
      BY <1>1, <3>1, <3>3, SamePhase DEF clientVars, Registered, InChannel
  <2> QED
    BY <2>2, <2>3
<1>6. ASSUME NEW c \in Clients, LosesRequests(c) \/ LosesReplies(c) PROVE Phase(x)'
  <2>1. /\ conn[c] = "closed"
        /\ toServer' = toServer \/ toServer' = [toServer EXCEPT ![c] = <<>>]
        /\ toClient' = toClient \/ toClient' = [toClient EXCEPT ![c] = <<>>]
        /\ UNCHANGED <<client_list, channel_list, conn, challenge, clientVars>>
    BY <1>6 DEF LosesRequests, LosesReplies, S!Lose, S!tables, serverVars
  <2>2. CASE x = c
    BY <2>1, <2>2 DEF Phase
  <2>3. CASE x # c
    <3>1. toServer'[x] = toServer[x] /\ toClient'[x] = toClient[x]
      BY <2>1, <2>3 DEF SystemTypes
    <3> QED
      BY <1>1, <2>1, <3>1, SamePhase DEF clientVars, Registered, InChannel
  <2> QED
    BY <2>2, <2>3
<1>7. ASSUME Crashes PROVE Phase(x)'
  <2>1. Empties
    BY <1>7, Emptied
  <2>2. CASE conn[x] = "unused"
    <3>1. ~started[x] /\ Idle(x) /\ ~Registered(x)'
      BY <1>1, <2>1, <2>2 DEF Phase, Registered, Empties
    <3> QED
      BY <2>1, <2>2, <3>1 DEF Phase, Idle, Empties, clientVars
  <2>3. CASE conn[x] # "unused"
    <3>1. conn'[x] = "closed"
      BY <2>1, <2>3 DEF Empties, SystemTypes
    <3> QED
      BY <3>1 DEF Phase
  <2> QED
    BY <2>2, <2>3
<1>8. ASSUME Restarts \/ UNCHANGED vars PROVE Phase(x)'
  <2>1. UNCHANGED <<client_list, channel_list, conn, challenge, toClient, clientVars, toServer>>
    BY <1>8 DEF Restarts, S!Restart, S!tables, vars, serverVars
  <2> QED
    BY <1>1, <2>1, SamePhase DEF clientVars, Registered, InChannel
<1> QED
  BY <1>2, <1>3, <1>4, <1>5, <1>6, <1>7, <1>8 DEF Next

(* Every session begins idle. *)
LEMMA PhasesInit == Init => SessionPhases
<1> SUFFICES ASSUME Init, NEW c \in Clients PROVE Phase(c)
  BY DEF SessionPhases
<1>1. /\ conn[c] = "unused" /\ started[c] = FALSE /\ stage[c] = "requestChallenge"
      /\ challenge[c] = 0 /\ toClient[c] = <<>> /\ toServer[c] = <<>>
      /\ client_list[KeyOf[c]] = NoConn
  BY DEF Init, S!Init, S!NoSessions, C!Init
<1> QED
  BY <1>1 DEF Phase, Idle, Registered

(* No reply of any step is an error. *)
LEMMA ErrorsStep ==
  ASSUME SystemTypes, ClientsInv, SessionPhases, NoErrors, [Next]_vars
  PROVE  NoErrors'
<1> SUFFICES ASSUME NEW x \in Clients, NEW r \in ToSet(toClient'[x])
             PROVE  r.type # "error"
  BY DEF NoErrors
<1>1. ToSet(toClient'[x]) \subseteq ToSet(toClient[x]) => r.type # "error"
  BY DEF NoErrors
<1>2. toClient[x] \in Seq(Datum)
  BY DEF SystemTypes
<1>3. ASSUME NEW c \in Clients, ServerReceives(c) PROVE r.type # "error"
  <2> DEFINE d == Head(toServer[c])
  <2>1. Wrote(c, d) /\ Handles(c, d) /\ ~Refuses(c, d)
    BY <1>3, Handled, NotRefused DEF SessionPhases
  <2> HIDE DEF d
  <2>2. d \in Datum /\ d.type # "error"
    BY <2>1 DEF Wrote
  <2>3. ASSUME NEW e \in Datum, e.type # "error", Answers(c, e)
        PROVE  r.type # "error"
    <3>1. toClient'[x] = IF x = c THEN Append(toClient[x], e) ELSE toClient[x]
      BY <2>3 DEF Answers
    <3>2. ToSet(Append(toClient[x], e)) = ToSet(toClient[x]) \cup {e}
      BY <1>2, <2>3, AppendSet
    <3> QED
      BY <1>1, <2>3, <3>1, <3>2 DEF NoErrors
  <2>4. CASE Challenges(c, d)
    <3>1. challenge[c] + 1 \in Nat
      <4>1. challenge[c] \in Nat
        BY DEF SystemTypes
      <4> QED
        BY <4>1
    <3>2. /\ AskVerify(challenge[c] + 1) \in Datum
          /\ AskVerify(challenge[c] + 1).type = "verify"
      BY <3>1, ReplyTypes
    <3> QED
      BY <2>3, <2>4, <3>2 DEF Challenges
  <2>5. CASE Admits(c, d)
    <3>1. /\ Success("Connected to Network") \in Datum
          /\ Success("Connected to Network").type = "success"
      BY ReplyTypes
    <3> QED
      BY <2>3, <2>5, <3>1 DEF Admits
  <2>6. CASE JoinsChannel(c, d)
    <3>1. /\ Success("Connected to channel") \in Datum
          /\ Success("Connected to channel").type = "success"
      BY ReplyTypes
    <3> QED
      BY <2>3, <2>6, <3>1 DEF JoinsChannel
  <2>7. CASE Delivers(c, d)
    <3> DEFINE out == IF x \in S!Recipients(c, d) THEN Append(toClient[x], d)
                      ELSE toClient[x]
               ack == Success("MESSAGE SENT")
    <3>1. out \in Seq(Datum) /\ toClient'[x] = IF x = c THEN Append(out, ack) ELSE out
      BY <2>2, <2>7, DeliveredTo
    <3>2. ToSet(out) \subseteq ToSet(toClient[x]) \cup {d}
      <4>1. ToSet(Append(toClient[x], d)) = ToSet(toClient[x]) \cup {d}
        BY <1>2, <2>2, AppendSet
      <4> QED
        BY <4>1
    <3>3. ack \in Datum /\ ack.type = "success"
      BY ReplyTypes
    <3> HIDE DEF out, ack
    <3>4. ToSet(Append(out, ack)) = ToSet(out) \cup {ack}
      BY <3>1, <3>3, AppendSet
    <3>5. r \in ToSet(toClient[x]) \cup {d, ack}
      BY <3>1, <3>2, <3>4
    <3> QED
      BY <2>2, <3>3, <3>5 DEF NoErrors
  <2>8. CASE Ignores(c, d)
    BY <1>1, <2>8 DEF Ignores
  <2> QED
    BY <2>1, <2>4, <2>5, <2>6, <2>7, <2>8 DEF Handles
<1>4. ASSUME NEW c \in Clients, ClientReceives(c) PROVE r.type # "error"
  <2>1. /\ toClient' = [toClient EXCEPT ![c] = Tail(@)] /\ toClient[c] # <<>>
    BY <1>4 DEF ClientReceives, S!Read
  <2>2. toClient'[x] = IF x = c THEN Tail(toClient[x]) ELSE toClient[x]
    BY <2>1 DEF SystemTypes
  <2>3. toClient[x] # <<>> => ToSet(Tail(toClient[x])) \subseteq ToSet(toClient[x])
    BY <1>2, TailItems
  <2> QED
    BY <1>1, <2>1, <2>2, <2>3
<1>5. ASSUME NEW c \in Clients, LosesReplies(c) PROVE r.type # "error"
  <2>1. toClient'[x] = IF x = c THEN <<>> ELSE toClient[x]
    BY <1>5 DEF LosesReplies, S!Lose, SystemTypes
  <2> QED
    BY <1>1, <2>1, EmptyItems
<1>6. ASSUME ~(\E c \in Clients : ServerReceives(c) \/ ClientReceives(c) \/ LosesReplies(c))
      PROVE  toClient' = toClient
  BY <1>6 DEF Next, vars, serverVars, Connects, S!onClientConnected, Starts, UserTypes,
              Breaks, S!handleClientDisconnect, LosesRequests,
              Crashes, S!Exit, S!Die, Restarts, S!Restart
<1> QED
  BY <1>1, <1>3, <1>4, <1>5, <1>6

(* Everything that follows rests on this invariant. *)
SystemInv == SystemTypes /\ ClientsInv /\ TablesInv /\ SessionPhases /\ NoErrors

(* The inductive invariant of sessions: types, stages, tables and phases hold
   together in every reachable state. *)
LEMMA SystemInvariant ==
  ASSUME OwnKeys
  PROVE  Spec => []SystemInv
<1>1. Init => SystemInv
  <2>1. Init => NoErrors
    BY EmptyItems DEF Init, S!Init, NoErrors
  <2> QED
    BY <2>1, TypesInit, TablesInit, PhasesInit DEF SystemInv
<1>2. SystemInv /\ [Next]_vars => SystemInv'
  BY TypesStep, TablesStep, PhasesStep, ErrorsStep DEF SystemInv
<1> QED
  BY <1>1, <1>2, PTL DEF Spec

(* When every client has a key of its own, a session is in one of its phases:
   before the registration one datum of the handshake is on its way, and after
   it only what the client's stage allows is asked for and answered. *)
THEOREM SessionsFollowPhases ==
  ASSUME OwnKeys
  PROVE  Spec => []SessionPhases
<1>1. SystemInv => SessionPhases
  BY DEF SystemInv
<1> QED
  BY <1>1, SystemInvariant, PTL

(* When every client has a key of its own, the server's tables agree with the
   stage of each client whose connection lives: no order of requests,
   replies, messages and ends of other connections has a client believe in a
   registration or a membership the server does not have. *)
THEOREM StagesMatchSessions ==
  ASSUME OwnKeys
  PROVE  Spec => []StageMatchesSession
<1>1. SystemInv => StageMatchesSession
  <2> SUFFICES ASSUME SystemInv, NEW c \in Clients, Connected(c)
               PROVE  /\ stage[c] \in C!MessageStages \cup {"joinPublicChannel"}
                           => client_list[KeyOf[c]] = c
                      /\ stage[c] = "publicMessage" => channel_list[ChannelOf[c]][KeyOf[c]] = c
    BY DEF StageMatchesSession
  <2>1. KeyOf[c] \in Keys /\ ChannelOf[c] \in Channels /\ Phase(c) /\ conn[c] = "open"
    BY DEF SystemInv, SessionPhases, Connected
  <2>2. CASE stage[c] \in C!MessageStages \cup {"joinPublicChannel"}
    <3>1. Registered(c) /\ Chats(c)
      BY <2>1, <2>2
      DEF Phase, Idle, Asks, IsAsked, Signs, Stops, IsRegistered, C!MessageStages
    <3>2. client_list[KeyOf[c]] = c
      BY <2>1, <3>1 DEF SystemInv, SystemTypes, TablesInv, Registered, OwnKeys
    <3>3. stage[c] = "publicMessage" => channel_list[ChannelOf[c]][KeyOf[c]] = c
      BY <2>1, <3>1 DEF SystemInv, SystemTypes, TablesInv, Chats, InChannel, OwnKeys
    <3> QED
      BY <3>2, <3>3
  <2> QED
    BY <2>2 DEF C!MessageStages
<1> QED
  BY <1>1, SystemInvariant, PTL

(* When every client has a key of its own, a client that follows its stages
   is never refused, and no error is ever on its way to one: not even while
   connections break, the process crashes and others use the same channel. *)
THEOREM NobodyIsRefused ==
  ASSUME OwnKeys
  PROVE  Spec => []NothingRefused
<1>1. SystemInv => NothingRefused
  <2>1. ASSUME SystemInv, NEW c \in Clients, NEW i \in 1..Len(toClient[c])
        PROVE  toClient[c][i].type # "error"
    <3>1. toClient[c] \in Seq(Datum)
      BY <2>1 DEF SystemInv, SystemTypes
    <3>2. toClient[c][i] \in ToSet(toClient[c])
      BY <3>1 DEF ToSet
    <3> QED
      BY <2>1, <3>2 DEF SystemInv, NoErrors
  <2> QED
    BY <2>1 DEF NothingRefused
<1> QED
  BY <1>1, SystemInvariant, PTL

-----------------------------------------------------------------------------
(* The news of a stage and the messages it lets through *)

(* A client in a message stage has had its news. *)
LEMMA NewsWasRead ==
  ASSUME NEW x \in Clients, stage[x] \in C!MessageStages
  PROVE  NewsIsFirst(x)
BY DEF NewsIsFirst, C!MessageStages

(* The news of a client that nothing happens to comes first as before. *)
LEMMA SameNews ==
  ASSUME NEW x \in Clients, NewsIsFirst(x),
         stage'[x] = stage[x], toClient'[x] = toClient[x],
         conn'[x] # "closed" => conn[x] # "closed",
         InChannel(x)' => InChannel(x)
  PROVE  NewsIsFirst(x)'
BY DEF NewsIsFirst, Grants

(* Members are registered. *)
LEMMA MembersRegister ==
  ASSUME TablesInv, NEW x \in Clients, InChannel(x)
  PROVE  Registered(x)
<1>1. KeyOf[x] \in Keys /\ ChannelOf[x] \in Channels
  OBVIOUS
<1> QED
  BY <1>1 DEF TablesInv, InChannel, Registered

(* What the server writes to the author of a request. *)
LEMMA NewsHandled ==
  ASSUME SystemInv, NEW c \in Clients, NewsIsFirst(c), ServerReceives(c)
  PROVE  NewsIsFirst(c)'
<1> DEFINE d == Head(toServer[c])
<1>1. /\ conn[c] = "open" /\ d \in ToSet(toServer[c]) /\ Wrote(c, d)
      /\ Handles(c, d) /\ ~Refuses(c, d)
      /\ conn' = conn /\ stage' = stage
  BY Handled, NotRefused DEF SystemInv, SessionPhases, clientVars
<1>2. /\ toServer[c] \in Seq(Datum) /\ toServer[c] # <<>> /\ toClient[c] \in Seq(Datum)
  BY DEF SystemInv, SystemTypes, ServerReceives
<1>3. d = toServer[c][1]
  BY <1>2, TailItems
<1>4. \A r : Answers(c, r) => toClient'[c] = Append(toClient[c], r)
  BY DEF Answers
<1>5. Phase(c)
  BY DEF SystemInv, SessionPhases
<1> HIDE DEF d
<1>6. CASE ~Registered(c)
  <2>1. ~InChannel(c)
    BY <1>6, MembersRegister DEF SystemInv
  <2>2. CASE Asks(c)
    <3>1. d.type = "connect"
      BY <1>3, <2>2 DEF Asks, Is
    <3>2. Challenges(c, d)
      BY <1>1, <1>6, <3>1 DEF Handles, Admits, JoinsChannel, Delivers, Ignores
    <3>3. toClient'[c] = Append(<<>>, AskVerify(challenge[c] + 1))
      BY <1>4, <2>2, <3>2 DEF Challenges, Asks
    <3>4. AskVerify(challenge[c] + 1).type = "verify"
      BY DEF AskVerify, MakeDatum
    <3> DEFINE v == AskVerify(challenge[c] + 1)
    <3> HIDE DEF v
    <3>5. Len(toClient'[c]) = 1 /\ Head(toClient'[c]) = v
      BY <3>3 DEF v
    <3>6. ~InChannel(c)' /\ stage'[c] = "requestChallenge"
      BY <1>1, <2>1, <2>2, <3>2 DEF Challenges, InChannel, Asks
    <3> QED
      BY <3>4, <3>5, <3>6 DEF NewsIsFirst, v
  <2>3. CASE Signs(c)
    <3>1. d.type = "verify"
      BY <1>3, <2>3 DEF Signs, Is
    <3>2. Admits(c, d) /\ Kind[c] # "chat"
      BY <1>1, <1>6, <3>1 DEF Handles, Challenges, JoinsChannel, Delivers, Ignores, Wrote
    <3> DEFINE r == Success("Connected to Network")
    <3>3. Grants(r)
      BY ReplyTypes
    <3>4. toClient'[c] = Append(<<>>, r)
      BY <1>4, <2>3, <3>2 DEF Admits, Signs
    <3> HIDE DEF r
    <3>5. Len(toClient'[c]) = 1 /\ Head(toClient'[c]) = r
      BY <3>4
    <3>6. ~InChannel(c)' /\ stage'[c] = "signChallenge"
      BY <1>1, <2>1, <2>3, <3>2 DEF Admits, InChannel, Signs
    <3> QED
      BY <3>2, <3>3, <3>5, <3>6 DEF NewsIsFirst, Grants
  <2> QED
    BY <1>1, <1>2, <1>5, <1>6, <2>2, <2>3 DEF Phase, Idle, IsAsked, Stops
<1>7. CASE Registered(c)
  <2>1. Chats(c)
    BY <1>1, <1>2, <1>5, <1>7 DEF Phase, IsRegistered
  <2>2. CASE stage[c] \in C!MessageStages
    BY <1>1, <2>2 DEF NewsIsFirst, C!MessageStages
  <2>3. CASE stage[c] = "joinPublicChannel"
    <3>1. d.type = "join"
      BY <1>1, <2>1, <2>3 DEF Chats, C!MessageStages
    <3>2. JoinsChannel(c, d)
      BY <1>1, <1>7, <3>1 DEF Handles, Challenges, Admits, Delivers, Ignores
    <3> DEFINE r == Success("Connected to channel")
    <3>3. r \in Datum /\ Grants(r)
      BY ReplyTypes
    <3>4. toClient'[c] = Append(toClient[c], r)
      BY <1>4, <3>2 DEF JoinsChannel
    <3> HIDE DEF r
    <3>5. /\ toClient'[c] # <<>>
          /\ toClient[c] # <<>> => Head(toClient'[c]) = Head(toClient[c])
          /\ toClient[c] = <<>> => Head(toClient'[c]) = r
      BY <1>2, <3>3, <3>4, AppendItems
    <3>6. Grants(Head(toClient'[c]))
      BY <2>3, <3>3, <3>5 DEF NewsIsFirst
    <3>7. stage'[c] = "joinPublicChannel"
      BY <1>1, <2>3
    <3> QED
      BY <3>5, <3>6, <3>7 DEF NewsIsFirst, Grants
  <2> QED
    BY <2>1, <2>2, <2>3 DEF Chats
<1> QED
  BY <1>6, <1>7

(* A message that somebody else's request puts behind the news. *)
LEMMA NewsElsewhere ==
  ASSUME OwnKeys, NoStrays, SystemInv, NEW c \in Clients, ServerReceives(c),
         NEW x \in Clients, x # c, NewsIsFirst(x)
  PROVE  NewsIsFirst(x)'
<1> DEFINE d == Head(toServer[c])
<1>1. /\ Wrote(c, d) /\ conn' = conn /\ stage' = stage
  BY Handled DEF SystemInv, clientVars
<1>2. /\ InChannel(x)' <=> InChannel(x)
      /\ \/ toClient'[x] = toClient[x]
         \/ /\ d.type = "msg" /\ Delivers(c, d) /\ x \in S!Recipients(c, d)
            /\ Registered(x) /\ conn[x] = "open"
            /\ toClient'[x] = Append(toClient[x], d)
  BY Elsewhere DEF SystemInv
<1> HIDE DEF d
<1>3. CASE toClient'[x] = toClient[x]
  BY <1>1, <1>2, <1>3, SameNews
<1>4. CASE /\ d.type = "msg" /\ x \in S!Recipients(c, d)
           /\ Registered(x) /\ conn[x] = "open"
           /\ toClient'[x] = Append(toClient[x], d)
  <2>1. IF Kind[c] = "public" THEN Kind[x] = "public" /\ InChannel(x)
        ELSE KeyOf[x] = PartnerOf[c]
    BY <1>1, <1>4, RecipientsAre DEF SystemInv
  <2>2. Kind[c] # "public" => Kind[x] # "public"
    BY <1>1, <1>4, <2>1 DEF Wrote, NoStrays
  <2>3. d \in Datum /\ toClient[x] \in Seq(Datum)
    BY <1>1 DEF Wrote, SystemInv, SystemTypes
  <2>4. toClient'[x] # <<>> /\ (toClient[x] # <<>> => Head(toClient'[x]) = Head(toClient[x]))
    BY <1>4, <2>3, AppendItems
  <2>5. IsRegistered(x) \/ Chats(x)
    BY <1>4 DEF SystemInv, SessionPhases, Phase
  <2>6. CASE stage[x] \in C!MessageStages
    BY <1>1, <2>6 DEF NewsIsFirst, C!MessageStages
  <2>7. CASE stage[x] = "joinPublicChannel"
    <3>1. InChannel(x)
      BY <2>1, <2>2, <2>7 DEF SystemInv, ClientsInv
    <3>2. toClient[x] # <<>> /\ Grants(Head(toClient[x]))
      BY <1>4, <2>7, <3>1 DEF NewsIsFirst
    <3>3. stage'[x] = "joinPublicChannel" /\ Grants(Head(toClient'[x]))
      BY <1>1, <2>4, <2>7, <3>2
    <3> QED
      BY <2>4, <3>3 DEF NewsIsFirst, Grants
  <2>8. CASE stage[x] = "signChallenge"
    <3>1. IsRegistered(x)
      BY <2>5, <2>8 DEF Chats, C!MessageStages
    <3>2. ~InChannel(x)
      BY <1>4, <2>8 DEF NewsIsFirst
    <3>3. Kind[x] # "public" /\ Kind[x] # "chat"
      BY <2>1, <2>2, <3>1, <3>2 DEF IsRegistered
    <3>4. Grants(Head(toClient'[x]))
      BY <2>4, <3>1 DEF IsRegistered
    <3>5. stage'[x] = "signChallenge" /\ ~InChannel(x)'
      BY <1>1, <1>2, <2>8, <3>2
    <3> QED
      BY <3>3, <3>4, <3>5 DEF NewsIsFirst, Grants
  <2> QED
    BY <2>5, <2>6, <2>7, <2>8 DEF IsRegistered, Chats
<1> QED
  BY <1>2, <1>3, <1>4

(* Reading the news takes a client to the next stage. *)
LEMMA NewsReceived ==
  ASSUME SystemInv, NEW c \in Clients, NewsIsFirst(c), ClientReceives(c)
  PROVE  NewsIsFirst(c)'
<1> DEFINE r == Head(toClient[c])
<1>1. S!Read(c) /\ C!getConnectionListener(c, r)
  BY DEF ClientReceives
<1>2. /\ r \in Datum
      /\ toClient' = [toClient EXCEPT ![c] = Tail(@)]
      /\ UNCHANGED <<client_list, channel_list, conn, challenge>>
      /\ toClient[c] # <<>> /\ toClient[c] \in Seq(Datum)
      /\ stage[c] \in C!Stages
  BY <1>1, ReadTypes DEF S!Read, SystemInv, SystemTypes
<1>3. /\ toClient'[c] = Tail(toClient[c])
      /\ Len(toClient[c]) = 1 => toClient'[c] = <<>>
  BY <1>2, TailItems DEF SystemInv, SystemTypes
<1>4. ~Grants(Success("MESSAGE SENT")) /\ Success("MESSAGE SENT").type = "success"
  BY DEF Grants, Success, MakeDatum
<1>5. InChannel(c)' <=> InChannel(c)
  BY <1>2 DEF InChannel
<1>6. Proceeds(c, r) \/ Counts(c, r) \/ Drops(c, r)
  BY <1>1, <1>2, ClientsParts, Listened DEF SystemInv
<1>7. CASE stage[c] \in C!MessageStages
  <2>1. stage'[c] = stage[c]
    <3>1. CASE Proceeds(c, r)
      <4>1. PICK st \in C!Stages, n \in Nat : Leads(c, r, st, n) /\ EntersStage(c, st, n)
        BY <3>1 DEF Proceeds
      <4>2. st = stage[c]
        BY <1>7, <4>1 DEF Leads, C!MessageStages
      <4> QED
        BY <4>1, <4>2, Entered DEF SystemInv
    <3>2. CASE Counts(c, r) \/ Drops(c, r)
      BY <3>2 DEF Counts, Drops
    <3> QED
      BY <1>6, <3>1, <3>2
  <2> QED
    BY <1>7, <2>1 DEF NewsIsFirst, C!MessageStages
<1>8. CASE stage[c] = "requestChallenge"
  <2>1. r.type = "verify" /\ toClient'[c] = <<>>
    BY <1>2, <1>3, <1>8 DEF NewsIsFirst, r
  <2> HIDE DEF r
  <2>0. CASE Drops(c, r)
    <3>1. stage'[c] = "requestChallenge"
      BY <1>8, <2>0 DEF Drops
    <3> QED
      BY <2>1, <3>1 DEF NewsIsFirst
  <2>2. CASE Proceeds(c, r)
    <3>1. PICK n \in Nat : EntersStage(c, "signChallenge", n)
      BY <1>8, <2>1, <2>2 DEF Proceeds, Leads
    <3>2. stage'[c] = "signChallenge"
      BY <3>1, Entered DEF SystemInv
    <3>3. conn[c] # "closed" => ~InChannel(c)
      <4>1. Phase(c) /\ (InChannel(c) => Registered(c))
        BY MembersRegister DEF SystemInv, SessionPhases
      <4> QED
        BY <1>8, <4>1 DEF Phase, IsRegistered, Chats, C!MessageStages
    <3> QED
      BY <1>2, <1>5, <2>1, <3>2, <3>3 DEF NewsIsFirst
  <2>3. ~Counts(c, r)
    BY <1>4, <2>1 DEF Counts
  <2> QED
    BY <1>6, <2>0, <2>2, <2>3
<1>9. CASE stage[c] \in {"signChallenge", "joinPublicChannel"}
  <2>1. Grants(r)
    BY <1>2, <1>9 DEF NewsIsFirst
  <2>2. stage[c] = "signChallenge" =>
          /\ Kind[c] # "chat" /\ (Kind[c] = "public" => toClient'[c] = <<>>)
          /\ conn[c] # "closed" => ~InChannel(c)
    BY <1>2, <1>3 DEF NewsIsFirst
  <2> HIDE DEF r
  <2>3. Proceeds(c, r) /\ r.type = "success"
    BY <1>4, <1>6, <1>9, <2>1, <2>2 DEF Grants, Counts, Drops
  <2>4. PICK st \in C!Stages, n \in Nat : Leads(c, r, st, n) /\ EntersStage(c, st, n)
    BY <2>3 DEF Proceeds
  <2>5. stage'[c] = st
    BY <2>4, Entered DEF SystemInv
  <2>6. CASE st \in C!MessageStages
    BY <2>5, <2>6 DEF NewsIsFirst, C!MessageStages
  <2>7. CASE st \notin C!MessageStages
    <3>1. stage[c] = "signChallenge" /\ Kind[c] = "public" /\ st = "joinPublicChannel"
      BY <1>9, <2>3, <2>4, <2>7 DEF Leads, C!MessageStages
    <3>2. toClient'[c] = <<>> /\ (conn'[c] # "closed" => ~InChannel(c)')
      BY <1>2, <1>5, <2>2, <3>1
    <3>3. stage'[c] = "joinPublicChannel"
      BY <2>5, <3>1
    <3> QED
      BY <3>2, <3>3 DEF NewsIsFirst
  <2> QED
    BY <2>6, <2>7
<1> QED
  BY <1>2, <1>7, <1>8, <1>9 DEF C!Stages, C!MessageStages

(* No message gets before the news of the stage that lets it through. *)
LEMMA NewsStep ==
  ASSUME OwnKeys, NoStrays, SystemInv, NewsComesFirst, [Next]_vars
  PROVE  NewsComesFirst'
<1> SUFFICES ASSUME NEW x \in Clients PROVE NewsIsFirst(x)'
  BY DEF NewsComesFirst
<1>1. NewsIsFirst(x) /\ SystemTypes /\ TablesInv /\ ClientsInv
  BY DEF NewsComesFirst, SystemInv
<1>2. ASSUME NEW c \in Clients, Connects(c) PROVE NewsIsFirst(x)'
  <2>1. /\ conn[c] = "unused" /\ conn' = [conn EXCEPT ![c] = "open"]
        /\ UNCHANGED <<channel_list, toClient, clientVars>>
    BY <1>2 DEF Connects, S!onClientConnected, S!tables
  <2>2. conn'[x] # "closed" => conn[x] # "closed"
    BY <1>1, <2>1 DEF SystemTypes
  <2> QED
    BY <1>1, <2>1, <2>2, SameNews DEF clientVars, InChannel
<1>3. ASSUME NEW c \in Clients, Starts(c) \/ UserTypes(c) \/ ClientReceives(c)
      PROVE  NewsIsFirst(x)'
  <2>1. CASE x # c
    <3>1. /\ conn'[x] = conn[x] /\ stage'[x] = stage[x] /\ toClient'[x] = toClient[x]
          /\ InChannel(x)' <=> InChannel(x)
      BY <1>1, <1>3, <2>1, OthersKept
    <3> QED
      BY <1>1, <3>1, SameNews
  <2>2. CASE x = c /\ ClientReceives(c)
    BY <1>1, <2>2, NewsReceived
  <2>3. CASE x = c /\ (Starts(c) \/ UserTypes(c))
    <3>1. UNCHANGED <<channel_list, conn, toClient>>
      BY <2>3 DEF Starts, UserTypes, serverVars
    <3>2. stage'[x] = stage[x]
      <4>1. StageFits
        BY <1>1, ClientsParts
      <4>2. Starts(c) => EntersStage(c, stage[c], challengeSig[c])
        BY <1>1, <4>1, Started DEF Starts
      <4>3. UserTypes(c) => Enqueues(c)
        BY <1>1, <4>1, Typed DEF UserTypes
      <4> QED
        BY <1>1, <2>3, <4>2, <4>3, Entered DEF Enqueues
    <3> QED
      BY <1>1, <3>1, <3>2, SameNews DEF InChannel
  <2> QED
    BY <1>3, <2>1, <2>2, <2>3
<1>4. ASSUME NEW c \in Clients, ServerReceives(c) PROVE NewsIsFirst(x)'
  BY <1>1, <1>4, NewsHandled, NewsElsewhere
<1>5. ASSUME NEW c \in Clients, Breaks(c) PROVE NewsIsFirst(x)'
  <2>1. Leaves(c)
    BY <1>5, Left
  <2>2. conn'[x] # "closed" => conn[x] # "closed"
    BY <1>1, <2>1 DEF Leaves, SystemTypes
  <2>3. InChannel(x)' => InChannel(x)
    <3>1. KeyOf[x] \in Keys /\ ChannelOf[x] \in Channels
      OBVIOUS
    <3>2. channel_list[ChannelOf[x]] \in [Keys -> Clients \cup {NoConn}]
      BY <1>1, <3>1 DEF SystemTypes
    <3>3. CASE channel_list' = channel_list
      BY <3>3 DEF InChannel
    <3>4. CASE channel_list' = [ch \in Channels |-> [channel_list[ch] EXCEPT ![id[c]] = NoConn]]
      <4>1. channel_list'[ChannelOf[x]] = [channel_list[ChannelOf[x]] EXCEPT ![id[c]] = NoConn]
        BY <3>1, <3>4
      <4>2. \/ channel_list'[ChannelOf[x]][KeyOf[x]] = channel_list[ChannelOf[x]][KeyOf[x]]
            \/ channel_list'[ChannelOf[x]][KeyOf[x]] = NoConn
        BY <3>1, <3>2, <4>1
      <4> QED
        BY <4>2 DEF InChannel
    <3> QED
      BY <2>1, <3>3, <3>4 DEF Leaves
  <2> QED
    BY <1>1, <2>1, <2>2, <2>3, SameNews DEF Leaves, clientVars
<1>6. ASSUME NEW c \in Clients, LosesRequests(c) PROVE NewsIsFirst(x)'
  BY <1>1, <1>6, SameNews DEF LosesRequests, serverVars, clientVars, InChannel
<1>7. ASSUME NEW c \in Clients, LosesReplies(c) PROVE NewsIsFirst(x)'
  <2>1. /\ conn[c] = "closed" /\ toClient' = [toClient EXCEPT ![c] = <<>>]
        /\ UNCHANGED <<channel_list, conn, clientVars>>
    BY <1>7 DEF LosesReplies, S!Lose, S!tables
  <2>2. CASE x = c
    <3>1. toClient'[x] = <<>> /\ conn'[x] = "closed"
      BY <1>1, <2>1, <2>2 DEF SystemTypes
    <3> QED
      BY <3>1 DEF NewsIsFirst
  <2>3. CASE x # c
    <3>1. toClient'[x] = toClient[x]
      BY <1>1, <2>1, <2>3 DEF SystemTypes
    <3> QED
      BY <1>1, <2>1, <3>1, SameNews DEF clientVars, InChannel
  <2> QED
    BY <2>2, <2>3
<1>8. ASSUME Crashes PROVE NewsIsFirst(x)'
  <2>1. Empties
    BY <1>8, Emptied
  <2>2. ~InChannel(x)' /\ (conn'[x] # "closed" => conn[x] # "closed")
    BY <1>1, <2>1 DEF Empties, InChannel, SystemTypes
  <2> QED
    BY <1>1, <2>1, <2>2, SameNews DEF Empties, clientVars
<1>9. ASSUME Restarts \/ UNCHANGED vars PROVE NewsIsFirst(x)'
  <2>1. UNCHANGED <<channel_list, conn, toClient, clientVars>>
    BY <1>9 DEF Restarts, S!Restart, S!tables, vars, serverVars
  <2> QED
    BY <1>1, <2>1, SameNews DEF clientVars, InChannel
<1> QED
  BY <1>2, <1>3, <1>4, <1>5, <1>6, <1>7, <1>8, <1>9 DEF Next

(* Nothing is on its way to anyone at the start. *)
LEMMA NewsInit == Init => NewsComesFirst
<1> SUFFICES ASSUME Init, NEW c \in Clients PROVE NewsIsFirst(c)
  BY DEF NewsComesFirst
<1>1. /\ stage[c] = "requestChallenge" /\ toClient[c] = <<>>
      /\ channel_list[ChannelOf[c]][KeyOf[c]] = NoConn
  BY DEF Init, S!Init, S!NoSessions, S!NoMembers, C!Init
<1> QED
  BY <1>1 DEF NewsIsFirst, InChannel

(* When every client has a key of its own and no private client writes to a
   public one, the reply that lets a stage pass is read before the messages
   that follow it, also out of a connection that has closed. *)
THEOREM NewsIsReadFirst ==
  ASSUME OwnKeys, NoStrays
  PROVE  Spec => []NewsComesFirst
<1>1. Init => NewsComesFirst
  BY NewsInit
<1>2. SystemInv /\ NewsComesFirst /\ [Next]_vars => NewsComesFirst'
  BY NewsStep
<1> QED
  BY <1>1, <1>2, SystemInvariant, PTL DEF Spec

(* When every client has a key of its own and no private client writes to a
   public one, a client reads the reply to its join before any message of
   its channel: JoinChannelStage, which takes a message for an unexpected
   reply and joins again, never sees one, whatever others say meanwhile. *)
THEOREM NewsBeforeMessages ==
  ASSUME OwnKeys, NoStrays
  PROVE  Spec => []NothingHeardBeforeJoining
<1>1. SystemInv /\ NewsComesFirst => NothingHeardBeforeJoining
  <2>1. ASSUME SystemInv, NewsComesFirst, NEW c \in Clients,
               toClient[c] # <<>>, toClient[c][1].type = "msg"
        PROVE  stage[c] \in C!MessageStages
    <3>1. Head(toClient[c]) = toClient[c][1] /\ stage[c] \in C!Stages
      BY <2>1, TailItems DEF SystemInv, SystemTypes
    <3>2. NewsIsFirst(c)
      BY <2>1 DEF NewsComesFirst
    <3>3. ~Grants(toClient[c][1])
      BY <2>1 DEF Grants
    <3> QED
      BY <2>1, <3>1, <3>2, <3>3 DEF NewsIsFirst, C!Stages, C!MessageStages
  <2> QED
    BY <2>1 DEF NothingHeardBeforeJoining
<1> QED
  BY <1>1, SystemInvariant, NewsIsReadFirst, PTL

=============================================================================

----------------------------- MODULE ChatSystem -----------------------------
(***************************************************************************)
(* Clients (DarkClient), one server (ChatServer) without peers, and the    *)
(* WebSocket between each client and the server: a FIFO each way, which    *)
(* may break.  A client has one connection in its life: nothing in the     *)
(* library reconnects.                                                     *)
(***************************************************************************)
EXTENDS Wire, Sequences, FiniteSetsExt, SequencesExt

CONSTANTS
  Clients, KeyOf, Kind, ChannelOf, PartnerOf, FlushLimit,   \* see DarkClient
  NoConn,       \* an absent entry of client_list or of a channel
  Typists,      \* the clients whose users type; the others listen
  MaxMessages,  \* bound: messages a user types
  MaxQueue      \* bound: messages waiting in a queue when a user types; with 1
                \* users wait until their last message is acknowledged

VARIABLES
  up, client_list, channel_list, peer_list, msg_list, conn, id, challenge,
  toClient,
  started, stage, remaining, challengeSig, stageSent, queue, sentCount,
  ackedCount, heard, lastSent, toServer

ASSUME SystemAssumption ==
  /\ NoConn \notin Clients
  /\ KeyOf \in [Clients -> Keys]
  /\ Kind \in [Clients -> {"public", "private", "chat"}]
  /\ ChannelOf \in [Clients -> Channels]
  /\ PartnerOf \in [Clients -> Keys]
  /\ FlushLimit \in Nat \ {0}
  /\ Typists \subseteq Clients
  /\ {MaxMessages, MaxQueue} \subseteq Nat

S == INSTANCE ChatServer WITH
       Conns <- Clients, Peers <- {},
       MaxChallenge <- 0, MaxStored <- 0, MaxOutbox <- 0

C == INSTANCE DarkClient

Conversation == INSTANCE Conversation WITH typed <- sentCount

serverVars == <<up, client_list, channel_list, peer_list, msg_list, conn, id,
                challenge, toClient>>
clientVars == <<started, stage, remaining, challengeSig, stageSent, queue,
                sentCount, ackedCount, heard, lastSent>>
vars == <<serverVars, clientVars, toServer>>

TypeOK == S!TypeOK /\ C!TypeOK

Init == S!Init /\ C!Init

-----------------------------------------------------------------------------
(* The WebSocket of c opens, first for the server. *)
Connects(c) ==
  /\ S!onClientConnected(c)
  /\ UNCHANGED <<clientVars, toServer>>

Starts(c) ==
  /\ conn[c] # "unused"
  /\ C!start(c)
  /\ UNCHANGED serverVars

UserTypes(c) ==
  /\ c \in Typists
  /\ sentCount[c] < MaxMessages
  /\ Len(queue[c]) < MaxQueue
  /\ C!enqueueUserDatum(c)
  /\ UNCHANGED serverVars

ServerReceives(c) ==
  /\ toServer[c] # <<>>
  /\ S!handleClientData(c, Head(toServer[c]))
  /\ toServer' = [toServer EXCEPT ![c] = Tail(@)]
  /\ UNCHANGED clientVars

ClientReceives(c) ==
  /\ S!Read(c)
  /\ C!getConnectionListener(c, Head(toClient[c]))

(* The connection breaks, or the user leaves.  The client library is told
   nothing; what it sends from now on goes nowhere. *)
Breaks(c) ==
  /\ S!handleClientDisconnect(c)
  /\ UNCHANGED <<clientVars, toServer>>

LosesRequests(c) ==
  /\ conn[c] = "closed"
  /\ toServer[c] # <<>>
  /\ toServer' = [toServer EXCEPT ![c] = <<>>]
  /\ UNCHANGED <<serverVars, clientVars>>

LosesReplies(c) ==
  /\ S!Lose(c)
  /\ UNCHANGED <<clientVars, toServer>>

Crashes ==
  /\ S!Exit
  /\ UNCHANGED <<clientVars, toServer>>

Restarts ==
  /\ S!Restart
  /\ UNCHANGED <<clientVars, toServer>>

Next ==
  \/ \E c \in Clients : Connects(c)
  \/ \E c \in Clients : Starts(c)
  \/ \E c \in Clients : UserTypes(c)
  \/ \E c \in Clients : ServerReceives(c)
  \/ \E c \in Clients : ClientReceives(c)
  \/ \E c \in Clients : Breaks(c)
  \/ \E c \in Clients : LosesRequests(c)
  \/ \E c \in Clients : LosesReplies(c)
  \/ Crashes
  \/ Restarts

Spec == Init /\ [][Next]_vars

(* Node runs a handler for every event that is ready, and a socket delivers
   what is written to it while it is open.  No user has to type, nothing has
   to break, and nobody has to start the server again. *)
Fairness ==
  \A c \in Clients :
    /\ WF_vars(Connects(c))
    /\ WF_vars(Starts(c))
    /\ WF_vars(ServerReceives(c))
    /\ WF_vars(ClientReceives(c))

FairSpec == Spec /\ Fairness

-----------------------------------------------------------------------------
(* Correctness, of clients with a key each *)

Connected(c) == started[c] /\ conn[c] = "open"

(* The server's tables say what the client's stage says: a client past
   SignChallengeStage has its own connection registered, one past
   JoinChannelStage is in its channel with it. *)
StageMatchesSession ==
  \A c \in Clients : Connected(c) =>
    /\ stage[c] \in C!MessageStages \cup {"joinPublicChannel"}
         => client_list[KeyOf[c]] = c
    /\ stage[c] = "publicMessage" => channel_list[ChannelOf[c]][KeyOf[c]] = c

(* A client that follows its stages is never refused: no request of a client
   gets an error, whatever the interleaving of requests, replies and
   messages. *)
NothingRefused ==
  \A c \in Clients : \A i \in 1..Len(toClient[c]) : toClient[c][i].type # "error"

(* What is heard from one author is heard in the order it was typed: the head
   of the queue is sent again and again, but nothing overtakes it. *)
HeardInOrder ==
  \A c \in Clients : \A j \in 1..Len(heard[c]) : \A i \in 1..j :
    heard[c][i][1] = heard[c][j][1] => heard[c][i][2] <= heard[c][j][2]

(* Nobody in a channel hears their own messages. *)
NoEcho ==
  \A c \in Clients : \A i \in 1..Len(heard[c]) : heard[c][i][1] # KeyOf[c]

(* No message reaches a public client before the reply to its join, where
   JoinChannelStage would drop it: the server enters a member and replies in
   one step. *)
NothingHeardBeforeJoining ==
  \A c \in Clients :
    toClient[c] # <<>> /\ toClient[c][1].type = "msg"
      => stage[c] \in C!MessageStages

AcksIn(ds) == {i \in 1..Len(ds) : ds[i] = Success("MESSAGE SENT")}

(* The acknowledgements c has been given: counted by it, or on their way. *)
AcksTo(c) == ackedCount[c] + Cardinality(AcksIn(toClient[c]))

AllAcks == UNION {{c} \X (1..AcksTo(c)) : c \in Clients}

(* The server acknowledges each message it accepts once, to its author: what
   it accepted is what clients counted and what is on its way to them. *)
EveryMessageIsAcknowledgedOnce ==
  (\A c \in Clients : conn[c] # "closed") => msg_list = Cardinality(AllAcks)

(* Where the items of X are in s, and how many. *)
Places(s, X)      == {i \in 1..Len(s) : s[i] \in X}
Occurrences(s, X) == Cardinality(Places(s, X))

(* a's message n as a datum: to a channel or a partner. *)
Messages(a, n) == {d \in Datum : d.type = "msg" /\ d.from = KeyOf[a] /\ d.msg = n}

(* The copies of a's message n that are on their way to the server, on their
   way from it to c, or heard by c. *)
Copies(a, c, n) ==
  Occurrences(toServer[a], Messages(a, n)) + Occurrences(toClient[c], Messages(a, n))
  + Occurrences(heard[c], {<<KeyOf[a], n>>})

(* In this step a writes its message n to its connection. *)
Writes(a, n) ==
  Len(toServer'[a]) > Len(toServer[a]) /\ Last(toServer'[a]) \in Messages(a, n)

(* Nothing but its author makes a copy of a message: the server takes a datum
   to each recipient once, a client gives it to its listeners once, and what
   is lost on the way stays lost.  Nobody hears a message more often than its
   author wrote it. *)
NothingIsMultiplied ==
  [][\A a, c \in Clients, n \in 1..MaxMessages :
       Copies(a, c, n)' <= Copies(a, c, n) + (IF Writes(a, n) THEN 1 ELSE 0)]_vars

(* The users' view: what is heard was typed by someone who can be heard there,
   and one author's messages are heard in the order of their typing. *)
ConversationSpec == Conversation!Spec

-----------------------------------------------------------------------------
(* Why it is correct: the invariants the proofs rest on *)

OwnKeys == \A c, e \in Clients : KeyOf[c] = KeyOf[e] => c = e

(* d may be written by c: it speaks for c's key, to the channel or the
   partner c was made for. *)
Wrote(c, d) ==
  /\ d \in Datum
  /\ d.from = KeyOf[c]
  /\ d.type \in {"connect", "verify", "join", "msg"}
  /\ Kind[c] = "chat" => d.type = "connect"
  /\ d.type = "join" => Kind[c] = "public" /\ d.cname = ChannelOf[c]
  /\ d.type = "msg" =>
       IF Kind[c] = "public" THEN d.to = NoKey /\ d.cname = ChannelOf[c]
       ELSE d.to = PartnerOf[c] /\ d.cname = NoChannel

(* A client is in a stage its constructor listed, and what it has written is
   its own. *)
ClientsInv ==
  \A c \in Clients :
    /\ stage[c] \in {"requestChallenge", "signChallenge"}
         => remaining[c] = C!StageCreators(c)
    /\ stage[c] \in {"joinPublicChannel", "publicMessage"} => Kind[c] = "public"
    /\ stage[c] = "privateMessage" => Kind[c] = "private"
    /\ \A d \in ToSet(toServer[c]) : Wrote(c, d)

(* The tables hold open connections under their own keys, and a channel those
   that were made for it. *)
TablesInv ==
  /\ \A c \in Clients : id[c] \in {NoKey, KeyOf[c]}
  /\ \A k \in Keys : client_list[k] # NoConn =>
       conn[client_list[k]] = "open" /\ id[client_list[k]] = k
  /\ \A ch \in Channels, k \in Keys : channel_list[ch][k] # NoConn =>
       LET m == channel_list[ch][k] IN
         /\ client_list[k] # NoConn
         /\ conn[m] = "open" /\ id[m] = k
         /\ Kind[m] = "public" /\ ChannelOf[m] = ch

Registered(c) == client_list[KeyOf[c]] # NoConn
InChannel(c)  == channel_list[ChannelOf[c]][KeyOf[c]] # NoConn

Is(s, type) == Len(s) = 1 /\ s[1].type = type

(* r says that a stage is done, which an acknowledgement does not. *)
Grants(r) == r.type = "success" /\ r.text # "MESSAGE SENT"

(* Before its registration a client and the server take turns: one datum is
   on its way, or none before the start and for a client without stages. *)
Idle(c) ==
  /\ ~started[c] /\ stage[c] = "requestChallenge" /\ challenge[c] = 0
  /\ toServer[c] = <<>> /\ toClient[c] = <<>>

Asks(c) ==
  /\ stage[c] = "requestChallenge" /\ challenge[c] = 0
  /\ Is(toServer[c], "connect") /\ toClient[c] = <<>>

IsAsked(c) ==
  /\ stage[c] = "requestChallenge" /\ challenge[c] = 1
  /\ toServer[c] = <<>> /\ Is(toClient[c], "verify") /\ toClient[c][1].msg = 1

Signs(c) ==
  /\ stage[c] = "signChallenge" /\ challenge[c] = 1
  /\ Is(toServer[c], "verify") /\ toServer[c][1].msg = 1 /\ toClient[c] = <<>>

Stops(c) ==
  /\ stage[c] = "signChallenge" /\ Kind[c] = "chat"
  /\ toServer[c] = <<>> /\ toClient[c] = <<>>

(* Registered, and not told yet: messages may follow the news. *)
IsRegistered(c) ==
  /\ stage[c] = "signChallenge" /\ Kind[c] # "chat"
  /\ toServer[c] = <<>>
  /\ toClient[c] # <<>> /\ Grants(Head(toClient[c]))
  /\ \A r \in ToSet(Tail(toClient[c])) : r.type = "msg"

(* From then on requests and answers cross; a client asks for what its stage
   allows, and a "success" it takes for the join comes after it. *)
Chats(c) ==
  /\ stage[c] \in C!MessageStages \cup {"joinPublicChannel"}
  /\ \A d \in ToSet(toServer[c]) :
       \/ d.type = "join"
       \/ d.type = "msg" /\ stage[c] \in C!MessageStages
  /\ \A r \in ToSet(toClient[c]) : r.type = "msg" \/ r.type = "success"
  /\ stage[c] = "joinPublicChannel" =>
       \A r \in ToSet(toClient[c]) : r.type = "success" => Grants(r) /\ InChannel(c)
  /\ stage[c] = "publicMessage" => InChannel(c)

Phase(c) ==
  conn[c] # "closed" =>
    /\ started[c] => conn[c] = "open"
    /\ IF Registered(c) THEN started[c] /\ (IsRegistered(c) \/ Chats(c))
       ELSE Idle(c) \/ (started[c] /\ (Asks(c) \/ IsAsked(c) \/ Signs(c) \/ Stops(c)))

SessionPhases == \A c \in Clients : Phase(c)

NoErrors == \A c \in Clients : \A r \in ToSet(toClient[c]) : r.type # "error"

(* No private client writes to a public one. *)
NoStrays ==
  \A p, c \in Clients :
    Kind[p] = "private" /\ Kind[c] = "public" => PartnerOf[p] # KeyOf[c]

(* The news of a stage is read before the messages it lets through, also
   when the connection is long closed. *)
NewsIsFirst(c) ==
  /\ toClient[c] # <<>> /\ stage[c] = "requestChallenge"
       => Len(toClient[c]) = 1 /\ Head(toClient[c]).type = "verify"
  /\ toClient[c] # <<>> /\ stage[c] \in {"signChallenge", "joinPublicChannel"}
       => Grants(Head(toClient[c]))
  /\ toClient[c] # <<>> /\ stage[c] = "signChallenge"
       => Kind[c] # "chat" /\ (Kind[c] = "public" => Len(toClient[c]) = 1)
  /\ conn[c] # "closed" /\ InChannel(c)
       => /\ stage[c] # "signChallenge"
          /\ stage[c] = "joinPublicChannel" => toClient[c] # <<>>

NewsComesFirst == \A c \in Clients : NewsIsFirst(c)

(* The queue holds the latest messages typed, in the order of their typing. *)
QueueInv ==
  \A a \in Clients :
    /\ Len(queue[a]) <= sentCount[a]
    /\ \A i \in 1..Len(queue[a]) : queue[a][i] + Len(queue[a]) = sentCount[a] + i

(* a's message n is, or was, at the head of a's queue. *)
WasFirst(a, n) == n \in 1..sentCount[a] /\ n + Len(queue[a]) <= sentCount[a] + 1

(* a's messages, by where they have got to: written, on their way to c,
   and heard by c. *)
Written(a)   == {d.msg : d \in {e \in ToSet(toServer[a]) : e.type = "msg"}}
Coming(a, c) == {d.msg : d \in {e \in ToSet(toClient[c]) :
                                  e.type = "msg" /\ e.from = KeyOf[a]}}
Told(a, c)   == {h[2] : h \in {m \in ToSet(heard[c]) : m[1] = KeyOf[a]}}

NoneAfter(M, N) == \A m \in M, n \in N : m <= n

(* The messages of each author in s are in order. *)
InOrder(s) ==
  \A i, j \in 1..Len(s) :
    /\ i < j
    /\ s[i].type = "msg" /\ s[j].type = "msg" /\ s[i].from = s[j].from
    => s[i].msg <= s[j].msg

(* The server takes a's message to c. *)
IsSentTo(a, c) ==
  IF Kind[a] = "public" THEN Conversation!Reaches(a, c) ELSE PartnerOf[a] = KeyOf[c]

(* Nothing of a's overtakes anything else of a's on its way to c. *)
Ordered(a, c) ==
  /\ \A n \in Coming(a, c) \cup Told(a, c) : WasFirst(a, n)
  /\ NoneAfter(Told(a, c), Coming(a, c))
  /\ NoneAfter(Told(a, c) \cup Coming(a, c), Written(a))

(* What comes to c, and what c has heard, is by someone whose messages go to
   c. *)
Authors(c) ==
  /\ \A d \in ToSet(toClient[c]) :
       d.type = "msg" => \E a \in Clients : Wrote(a, d) /\ IsSentTo(a, c)
  /\ \A h \in ToSet(heard[c]) :
       \E a \in Clients : h[1] = KeyOf[a] /\ Conversation!Reaches(a, c)

DeliveryInv ==
  /\ \A c \in Clients : InOrder(toServer[c]) /\ InOrder(toClient[c]) /\ Authors(c)
  /\ \A a \in Clients : \A n \in Written(a) : WasFirst(a, n)
  /\ \A a, c \in Clients : Ordered(a, c)
  /\ HeardInOrder

(* The sum of the acknowledgements is one of finitely many, and a connection
   that is to come has had none. *)
AcksInv ==
  /\ \A c \in Clients : conn[c] = "unused" => toClient[c] = <<>> /\ ackedCount[c] = 0
  /\ (\A c \in Clients : conn[c] # "closed") => IsFiniteSet(AllAcks)
  /\ EveryMessageIsAcknowledgedOnce

-----------------------------------------------------------------------------
(* Liveness *)

(* A client that starts gets to send messages, unless its connection ends. *)
StartedClientsGetToChat ==
  \A c \in Clients :
    started[c] ~> (stage[c] \in C!MessageStages \/ conn[c] = "closed")

(* Two private clients that have registered: every message typed from then on
   is heard by the partner, unless a connection ends. *)
TypedMessagesAreHeard ==
  \A c, p \in Clients : PartnerOf[c] = KeyOf[p] => \A n \in 1..MaxMessages :
    [](/\ stage[c] = "privateMessage" /\ stage[p] = "privateMessage"
       /\ sentCount[c] < n
       => [](sentCount[c] >= n =>
               <>(\/ <<KeyOf[c], n>> \in ToSet(heard[p])
                  \/ conn[c] = "closed" \/ conn[p] = "closed")))

-----------------------------------------------------------------------------
(* What the code's comments say and the code does not do. *)

(* client.ts:241: an acknowledgement is for the first message of the queue.
   Then what was taken off a queue was sent. *)
AcknowledgedWasSent ==
  \A c \in Clients : sentCount[c] - Len(queue[c]) <= lastSent[c]

(* privClient.ts:81: a queue is processed when the client is not already in
   the middle of sending.  Then a partner hears a message once. *)
HeardOnce ==
  \A c \in Clients : \A i, j \in 1..Len(heard[c]) :
    heard[c][i] = heard[c][j] => i = j

(* pubClient.ts:130: a queue that has reached the flush limit is sent. *)
FullQueuesAreSent ==
  \A c \in Clients :
    stage[c] = "publicMessage" /\ Len(queue[c]) >= FlushLimit
      ~> Len(queue[c]) < FlushLimit \/ conn[c] = "closed"
=============================================================================

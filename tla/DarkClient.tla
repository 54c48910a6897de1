----------------------------- MODULE DarkClient -----------------------------
(***************************************************************************)
(* The client library (packages/client/src): a client walks through the    *)
(* stages that register it, and then sends the head of its message queue   *)
(* and takes what the server sends.                                        *)
(*                                                                         *)
(* A Stage sends one command when it starts and turns each datum it is     *)
(* given into the builder of the next stage; the client then starts that   *)
(* stage.  The clients here talk through WebSockets: one datum per frame,  *)
(* and every handler runs to its end.  What an application's listeners may *)
(* do in the middle of a handler is the subject of ListeningClient.        *)
(***************************************************************************)
EXTENDS Wire, Sequences

CONSTANTS
  Clients,
  KeyOf,       \* a client's key pair, by its public key
  Kind,        \* "public": PublicChannelClient, "private":
               \* PrivateChannelClient, "chat": ChatClient
  ChannelOf,   \* the channel of a public client
  PartnerOf,   \* the counterParty of a private client
  FlushLimit   \* flushLimit: how long a queue is before it is processed

Kinds == {"public", "private", "chat"}

ASSUME ClientAssumption ==
  /\ KeyOf \in [Clients -> Keys]
  /\ Kind \in [Clients -> Kinds]
  /\ ChannelOf \in [Clients -> Channels]
  /\ PartnerOf \in [Clients -> Keys]
  /\ FlushLimit \in Nat \ {0}

VARIABLES
  started,     \* the connection manager was started
  stage,       \* the name of the builder's stage
  remaining,   \* remainingStageCreators, by the names of their stages
  challengeSig,\* the challenge that SignChallengeStage has signed, or 0
  stageSent,   \* sentCount of the current PublicMessageStage
  queue,       \* messageQueue, by the ordinals of the messages
  sentCount,   \* messages enqueued, the client's own sentCount
  ackedCount,  \* acknowledgements received
  heard,       \* history: the messages <<author, ordinal>> given to listeners
  lastSent,    \* history: the latest message written to the connection
  toServer     \* what was written to the connection and not yet handled

clientVars == <<started, stage, remaining, challengeSig, stageSent, queue,
                sentCount, ackedCount, heard, lastSent>>

Stages == {"requestChallenge", "signChallenge", "joinPublicChannel",
           "publicMessage", "privateMessage"}

MessageStages == {"publicMessage", "privateMessage"}

TypeOK ==
  /\ started \in [Clients -> BOOLEAN]
  /\ stage \in [Clients -> Stages]
  /\ remaining \in [Clients -> Seq(Stages)]
  /\ challengeSig \in [Clients -> Nat]
  /\ stageSent \in [Clients -> Nat]
  /\ queue \in [Clients -> Seq(Nat)]
  /\ sentCount \in [Clients -> Nat]
  /\ ackedCount \in [Clients -> Nat]
  /\ heard \in [Clients -> Seq((Keys \cup {NoKey}) \X Nat)]
  /\ lastSent \in [Clients -> Nat]
  /\ toServer \in [Clients -> Seq(Datum)]

(* The stages after the first, as the constructors list them. *)
StageCreators(c) ==
  CASE Kind[c] = "public"  -> <<"joinPublicChannel", "publicMessage">>
    [] Kind[c] = "private" -> <<"privateMessage">>
    [] Kind[c] = "chat"    -> <<>>

Init ==
  /\ started = [c \in Clients |-> FALSE]
  /\ stage = [c \in Clients |-> "requestChallenge"]
  /\ remaining = [c \in Clients |-> StageCreators(c)]
  /\ challengeSig = [c \in Clients |-> 0]
  /\ stageSent = [c \in Clients |-> 0]
  /\ queue = [c \in Clients |-> <<>>]
  /\ sentCount = [c \in Clients |-> 0]
  /\ ackedCount = [c \in Clients |-> 0]
  /\ heard = [c \in Clients |-> <<>>]
  /\ lastSent = [c \in Clients |-> 0]
  /\ toServer = [c \in Clients |-> <<>>]

-----------------------------------------------------------------------------
(* Stages *)

(* The datum in which c sends message n. *)
Message(c, n) ==
  IF Kind[c] = "public"
  THEN ChannelMsg(KeyOf[c], ChannelOf[c], n)
  ELSE DirectMsg(KeyOf[c], PartnerOf[c], n)

(* sendServerCommand of stage st: no datum or one.  A message stage sends the
   head of the queue; SignChallengeStage first asserts that a stage remains. *)
sendServerCommand(c, st, rest, n, q) ==
  CASE st = "requestChallenge"  -> <<Connect(KeyOf[c])>>
    [] st = "signChallenge"     -> IF rest = <<>> THEN <<>>
                                   ELSE <<Verify(KeyOf[c], n)>>
    [] st = "joinPublicChannel" -> <<Join(KeyOf[c], ChannelOf[c])>>
    [] st \in MessageStages     -> IF q = <<>> THEN <<>>
                                   ELSE <<Message(c, Head(q))>>

(* The connection takes the datums ds, none or one. *)
Send(c, ds) ==
  /\ toServer' = [toServer EXCEPT ![c] = @ \o ds]
  /\ lastSent' = [lastSent EXCEPT
                    ![c] = IF ds # <<>> /\ ds[1].type = "msg" THEN ds[1].msg ELSE @]

(* The client takes the stage st, with the stages rest to follow, and starts
   it.  A PublicMessageStage counts from 0 and sends at once if it can. *)
startStage(c, st, rest, n) ==
  LET command == sendServerCommand(c, st, rest, n, queue[c]) IN
    /\ stage' = [stage EXCEPT ![c] = st]
    /\ remaining' = [remaining EXCEPT ![c] = rest]
    /\ challengeSig' = [challengeSig EXCEPT ![c] = n]
    /\ stageSent' = [stageSent EXCEPT
                       ![c] = IF st = "publicMessage" THEN Len(command) ELSE 0]
    /\ Send(c, command)

(* The stage's parseReplyToNextBuilder returns its own builder, or one for
   the same stage: its command is sent again. *)
Again(c) == startStage(c, stage[c], remaining[c], challengeSig[c])

-----------------------------------------------------------------------------
(* The client's operations *)

(* start(), once the socket is open. *)
start(c) ==
  /\ ~started[c]
  /\ started' = [started EXCEPT ![c] = TRUE]
  /\ Again(c)
  /\ UNCHANGED <<queue, sentCount, ackedCount, heard>>

(* A slip: > for >=. *)
TriggersLate(c, q, s) ==
  /\ Len(q) > FlushLimit
  /\ \/ stage[c] = "publicMessage" /\ stageSent[c] = 0
     \/ stage[c] = "privateMessage" /\ s >= ackedCount[c]

(* triggerQueueProcessing with the queue q, after the s-th enqueue.  The
   ackedCount of a PublicMessageStage is never changed: it is 0. *)
Triggers(c, q, s) ==
  /\ Len(q) >= FlushLimit
  /\ \/ stage[c] = "publicMessage" /\ stageSent[c] = 0
     \/ stage[c] = "privateMessage" /\ s >= ackedCount[c]

(* A slip: the message is put in front of the queue. *)
EnqueueInFront(c) ==
  LET s == sentCount[c] + 1
      q == <<s>> \o queue[c]
      command == IF Triggers(c, q, s) THEN <<Message(c, Head(q))>> ELSE <<>>
  IN /\ queue' = [queue EXCEPT ![c] = q]
     /\ sentCount' = [sentCount EXCEPT ![c] = s]
     /\ stageSent' = [stageSent EXCEPT
                        ![c] = IF stage[c] = "publicMessage"
                               THEN @ + Len(command) ELSE @]
     /\ Send(c, command)
     /\ UNCHANGED <<started, stage, remaining, challengeSig, ackedCount, heard>>

enqueueUserDatum(c) ==
  LET s == sentCount[c] + 1
      q == Append(queue[c], s)
      command == IF Triggers(c, q, s) THEN <<Message(c, Head(q))>> ELSE <<>>
  IN /\ queue' = [queue EXCEPT ![c] = q]
     /\ sentCount' = [sentCount EXCEPT ![c] = s]
     /\ stageSent' = [stageSent EXCEPT
                        ![c] = IF stage[c] = "publicMessage"
                               THEN @ + Len(command) ELSE @]
     /\ Send(c, command)
     /\ UNCHANGED <<started, stage, remaining, challengeSig, ackedCount, heard>>

-----------------------------------------------------------------------------
(* The connection listener: one action per branch of getConnectionListener
   and of the stages' parseReplyToNextBuilder. *)

(* What a listener is told of: a message that reached a message stage. *)
Hear(c, d) ==
  heard' = [heard EXCEPT ![c] = IF d.type = "msg" THEN Append(@, <<d.from, d.msg>>)
                                ELSE @]

(* A slip: the counter is taken for one of messages in flight. *)
AcknowledgedCountsDown(c, d) ==
  /\ d = Success("MESSAGE SENT")
  /\ ackedCount' = [ackedCount EXCEPT ![c] = @ - 1]
  /\ queue' = [queue EXCEPT ![c] = IF @ = <<>> THEN @ ELSE Tail(@)]
  /\ UNCHANGED <<started, stage, remaining, challengeSig, stageSent, sentCount,
                 heard, lastSent, toServer>>

(* A slip: an acknowledgement that finds the queue empty is not counted. *)
AcknowledgedIfWaiting(c, d) ==
  /\ d = Success("MESSAGE SENT")
  /\ ackedCount' = [ackedCount EXCEPT ![c] = IF queue[c] = <<>> THEN @ ELSE @ + 1]
  /\ queue' = [queue EXCEPT ![c] = IF @ = <<>> THEN @ ELSE Tail(@)]
  /\ UNCHANGED <<started, stage, remaining, challengeSig, stageSent, sentCount,
                 heard, lastSent, toServer>>

(* A slip: every "success" acknowledges a message. *)
AnySuccessAcknowledges(c, d) ==
  /\ d.type = "success"
  /\ ackedCount' = [ackedCount EXCEPT ![c] = @ + 1]
  /\ queue' = [queue EXCEPT ![c] = IF @ = <<>> THEN @ ELSE Tail(@)]
  /\ UNCHANGED <<started, stage, remaining, challengeSig, stageSent, sentCount,
                 heard, lastSent, toServer>>

(* A slip: the acknowledgement clears the queue. *)
AcknowledgedClears(c, d) ==
  /\ d = Success("MESSAGE SENT")
  /\ ackedCount' = [ackedCount EXCEPT ![c] = @ + 1]
  /\ queue' = [queue EXCEPT ![c] = <<>>]
  /\ UNCHANGED <<started, stage, remaining, challengeSig, stageSent, sentCount,
                 heard, lastSent, toServer>>

(* A slip: the next message is sent before the first is off the queue. *)
AcknowledgedSendsOn(c, d) ==
  /\ d = Success("MESSAGE SENT")
  /\ ackedCount' = [ackedCount EXCEPT ![c] = @ + 1]
  /\ Again(c)
  /\ queue' = [queue EXCEPT ![c] = IF @ = <<>> THEN @ ELSE Tail(@)]
  /\ UNCHANGED <<started, sentCount, heard>>

(* "MESSAGE SENT" takes the first message off the queue, in any stage. *)
Acknowledged(c, d) ==
  /\ d = Success("MESSAGE SENT")
  /\ ackedCount' = [ackedCount EXCEPT ![c] = @ + 1]
  /\ queue' = [queue EXCEPT ![c] = IF @ = <<>> THEN @ ELSE Tail(@)]
  /\ UNCHANGED <<started, stage, remaining, challengeSig, stageSent, sentCount,
                 heard, lastSent, toServer>>

NotAck(d) == d # Success("MESSAGE SENT")

(* A slip: the new stage is not started. *)
ChallengedNotStarted(c, d) ==
  /\ NotAck(d) /\ stage[c] = "requestChallenge"
  /\ d.type = "verify"
  /\ stage' = [stage EXCEPT ![c] = "signChallenge"]
  /\ challengeSig' = [challengeSig EXCEPT ![c] = d.msg]
  /\ UNCHANGED <<started, remaining, stageSent, queue, sentCount, ackedCount,
                 heard, lastSent, toServer>>

(* RequestChallengeStage: sign the challenge.  One without a msg makes the
   parser throw, and nothing changes. *)
Challenged(c, d) ==
  /\ NotAck(d) /\ stage[c] = "requestChallenge"
  /\ d.type = "verify"
  /\ IF d.msg = 0
     THEN UNCHANGED <<stage, remaining, challengeSig, stageSent, lastSent, toServer>>
     ELSE startStage(c, "signChallenge", remaining[c], d.msg)
  /\ UNCHANGED <<started, queue, sentCount, ackedCount, heard>>

(* A slip: the remaining stages are taken from the end. *)
RegistersForTheLast(c, d) ==
  /\ NotAck(d) /\ stage[c] = "signChallenge"
  /\ d.type = "success"
  /\ IF remaining[c] = <<>>
     THEN UNCHANGED <<stage, remaining, challengeSig, stageSent, lastSent, toServer>>
     ELSE startStage(c, remaining[c][Len(remaining[c])],
                     SubSeq(remaining[c], 1, Len(remaining[c]) - 1), challengeSig[c])
  /\ UNCHANGED <<started, queue, sentCount, ackedCount, heard>>

(* SignChallengeStage: registered; on to the next of the remaining stages.
   With none the builder's assertion throws and nothing changes. *)
Registers(c, d) ==
  /\ NotAck(d) /\ stage[c] = "signChallenge"
  /\ d.type = "success"
  /\ IF remaining[c] = <<>>
     THEN UNCHANGED <<stage, remaining, challengeSig, stageSent, lastSent, toServer>>
     ELSE startStage(c, Head(remaining[c]), Tail(remaining[c]), challengeSig[c])
  /\ UNCHANGED <<started, queue, sentCount, ackedCount, heard>>

(* A slip: the reply is taken for the success it should be. *)
JoinsWhateverComes(c, d) ==
  /\ NotAck(d) /\ stage[c] = "joinPublicChannel"
  /\ startStage(c, "publicMessage", remaining[c], challengeSig[c])
  /\ UNCHANGED <<started, queue, sentCount, ackedCount, heard>>

(* JoinChannelStage: joined.  It makes the next stage itself. *)
Joins(c, d) ==
  /\ NotAck(d) /\ stage[c] = "joinPublicChannel"
  /\ d.type = "success"
  /\ startStage(c, "publicMessage", remaining[c], challengeSig[c])
  /\ UNCHANGED <<started, queue, sentCount, ackedCount, heard>>

(* These three stages answer anything else by sending their command again. *)
Unexpected(c, d) ==
  /\ NotAck(d)
  /\ \/ stage[c] = "requestChallenge" /\ d.type # "verify"
     \/ stage[c] \in {"signChallenge", "joinPublicChannel"} /\ d.type # "success"
  /\ Again(c)
  /\ UNCHANGED <<started, queue, sentCount, ackedCount, heard>>

(* PublicMessageStage takes every datum, and a fresh stage starts. *)
HearsChannel(c, d) ==
  /\ NotAck(d) /\ stage[c] = "publicMessage"
  /\ Hear(c, d)
  /\ Again(c)
  /\ UNCHANGED <<started, queue, sentCount, ackedCount>>

(* A datum decrypts with the key c shares with its partner. *)
Decrypts(c, d) ==
  d.type = "msg" /\ {d.from, d.to} = {KeyOf[c], PartnerOf[c]}

(* PrivateMessageStage: what does not decrypt makes the parser throw, and
   nothing changes. *)
HearsPartner(c, d) ==
  /\ NotAck(d) /\ stage[c] = "privateMessage"
  /\ IF Decrypts(c, d)
     THEN Hear(c, d) /\ Again(c)
     ELSE UNCHANGED <<stage, remaining, challengeSig, stageSent, heard, lastSent,
                      toServer>>
  /\ UNCHANGED <<started, queue, sentCount, ackedCount>>

getConnectionListener(c, d) ==
  \/ Acknowledged(c, d)
  \/ Challenged(c, d)
  \/ Registers(c, d)
  \/ Joins(c, d)
  \/ Unexpected(c, d)
  \/ HearsChannel(c, d)
  \/ HearsPartner(c, d)
=============================================================================

-------------------------- MODULE DarkClientProofs --------------------------
(***************************************************************************)
(* What is proved of the clients, whatever their number, their kinds, the  *)
(* server they talk to and the length of their conversations.              *)
(***************************************************************************)
EXTENDS AnsweredClient, SequenceTheorems, FiniteSetTheorems, TLAPS

USE WireAssumption, ClientAssumption, AnswersAssumption

-----------------------------------------------------------------------------
(* Commands *)

(* The strings the datums are made of. *)
LEMMA Strings ==
  /\ "connect" \in Types /\ "verify" \in Types
  /\ "join" \in Types /\ "msg" \in Types /\ "" \in Texts
BY DEF Types, Texts

RequestTypes == {"connect", "verify", "join", "msg"}

(* d is what a client in stage st may write when its queue is q. *)
Speaks(d, st, q) ==
  /\ d \in Datum
  /\ d.type \in RequestTypes
  /\ d.type = Request(st)
  /\ d.type = "msg" => q # <<>> /\ d.msg = Head(q)

(* A message is spoken in a message stage. *)
LEMMA MessageSpeaks ==
  ASSUME NEW c \in Clients, NEW st \in MessageStages, NEW q \in Seq(Nat), q # <<>>
  PROVE  Speaks(Message(c, Head(q)), st, q) /\ Message(c, Head(q)).type = "msg"
<1> DEFINE d == Message(c, Head(q))
<1>1. Head(q) \in Nat
  BY HeadTailProperties
<1>2. KeyOf[c] \in Keys /\ ChannelOf[c] \in Channels /\ PartnerOf[c] \in Keys
  OBVIOUS
<1>3. d \in Datum
  BY <1>1, <1>2, Strings DEF Message, ChannelMsg, DirectMsg, MakeDatum, Datum
<1>4. d.type = "msg" /\ d.msg = Head(q)
  BY DEF Message, ChannelMsg, DirectMsg, MakeDatum
<1>5. Request(st) = "msg"
  BY DEF Request, MessageStages
<1> QED
  BY <1>3, <1>4, <1>5 DEF Speaks, RequestTypes

(* A stage that starts speaks once, or not at all. *)
LEMMA CommandSpeaks ==
  ASSUME NEW c \in Clients, NEW st \in Stages, NEW rest, NEW n \in Nat,
         NEW q \in Seq(Nat)
  PROVE  \/ /\ sendServerCommand(c, st, rest, n, q) = <<>>
            /\ \/ st \in MessageStages
               \/ st = "signChallenge" /\ rest = <<>>
         \/ \E d : /\ sendServerCommand(c, st, rest, n, q) = <<d>>
                   /\ Speaks(d, st, q)
<1>0. KeyOf[c] \in Keys /\ ChannelOf[c] \in Channels
  OBVIOUS
<1>1. CASE st = "requestChallenge"
  <2>1. sendServerCommand(c, st, rest, n, q) = <<Connect(KeyOf[c])>>
    BY <1>1 DEF sendServerCommand, MessageStages
  <2>2. Connect(KeyOf[c]) \in Datum /\ Connect(KeyOf[c]).type = "connect"
    BY <1>0, Strings DEF Connect, MakeDatum, Datum
  <2>3. Request(st) = "connect"
    BY <1>1 DEF Request, MessageStages
  <2> QED
    BY <2>1, <2>2, <2>3 DEF Speaks, RequestTypes
<1>2. CASE st = "signChallenge"
  <2>1. sendServerCommand(c, st, rest, n, q)
          = IF rest = <<>> THEN <<>> ELSE <<Verify(KeyOf[c], n)>>
    BY <1>2 DEF sendServerCommand, MessageStages
  <2>2. Verify(KeyOf[c], n) \in Datum /\ Verify(KeyOf[c], n).type = "verify"
    BY <1>0, Strings DEF Verify, MakeDatum, Datum
  <2>3. Request(st) = "verify"
    BY <1>2 DEF Request, MessageStages
  <2> QED
    BY <1>2, <2>1, <2>2, <2>3 DEF Speaks, RequestTypes
<1>3. CASE st = "joinPublicChannel"
  <2>1. sendServerCommand(c, st, rest, n, q) = <<Join(KeyOf[c], ChannelOf[c])>>
    BY <1>3 DEF sendServerCommand, MessageStages
  <2>2. /\ Join(KeyOf[c], ChannelOf[c]) \in Datum
        /\ Join(KeyOf[c], ChannelOf[c]).type = "join"
    BY <1>0, Strings DEF Join, MakeDatum, Datum
  <2>3. Request(st) = "join"
    BY <1>3 DEF Request, MessageStages
  <2> QED
    BY <2>1, <2>2, <2>3 DEF Speaks, RequestTypes
<1>4. CASE st \in MessageStages
  <2>1. sendServerCommand(c, st, rest, n, q)
          = IF q = <<>> THEN <<>> ELSE <<Message(c, Head(q))>>
    BY <1>4 DEF sendServerCommand, MessageStages
  <2> QED
    BY <1>4, <2>1, MessageSpeaks
<1> QED
  BY <1>1, <1>2, <1>3, <1>4 DEF Stages, MessageStages

-----------------------------------------------------------------------------
(* The shape of a step: what one client writes, and how its stage and its
   queue move. *)

(* c writes one datum d that fits its new stage and queue, or nothing: it does
   so only in the stages that may be silent, or when it starts none. *)
WritesOnce(c) ==
  \/ /\ UNCHANGED toServer
     /\ \/ ~Awaits(c)'
        \/ stage'[c] = stage[c] /\ started'[c] = started[c]
  \/ \E d : /\ toServer' = [toServer EXCEPT ![c] = Append(@, d)]
            /\ Speaks(d, stage'[c], queue'[c])

(* The stages of c follow one another. *)
Follows(c, st, next) ==
  \/ next = st
  \/ st = "requestChallenge" /\ next = "signChallenge"
  \/ st = "signChallenge" /\ Kind[c] = "public" /\ next = "joinPublicChannel"
  \/ st = "signChallenge" /\ Kind[c] = "private" /\ next = "privateMessage"
  \/ st = "joinPublicChannel" /\ Kind[c] = "public" /\ next = "publicMessage"

StageAdvances(c) ==
  /\ stage' = [stage EXCEPT ![c] = stage'[c]]
  /\ stage'[c] \in Stages
  /\ Follows(c, stage[c], stage'[c])
  /\ stage'[c] # stage[c] => started[c]

QueueKept == UNCHANGED <<queue, sentCount, ackedCount>>

Typed(c) ==
  /\ sentCount' = [sentCount EXCEPT ![c] = @ + 1]
  /\ queue' = [queue EXCEPT ![c] = Append(@, sentCount[c] + 1)]
  /\ UNCHANGED ackedCount

Popped(c) ==
  /\ ackedCount' = [ackedCount EXCEPT ![c] = @ + 1]
  /\ queue' = [queue EXCEPT ![c] = IF @ = <<>> THEN @ ELSE Tail(@)]
  /\ UNCHANGED <<sentCount, toServer>>

Shape(c) ==
  /\ WritesOnce(c)
  /\ StageAdvances(c)
  /\ started' = [started EXCEPT ![c] = started'[c]]
  /\ QueueKept \/ Typed(c) \/ Popped(c)
  /\ TypeOK'
  /\ StagesFitKind'

(* The first of the stages that remain, and the rest of them. *)
LEMMA Creators ==
  ASSUME NEW c \in Clients
  PROVE  /\ StageCreators(c) \in Seq(Stages)
         /\ StageCreators(c) = <<>> => Kind[c] = "chat"
         /\ StageCreators(c) # <<>> =>
              /\ \/ Kind[c] = "public" /\ Head(StageCreators(c)) = "joinPublicChannel"
                 \/ Kind[c] = "private" /\ Head(StageCreators(c)) = "privateMessage"
              /\ Tail(StageCreators(c)) \in Seq(Stages)
<1>1. CASE Kind[c] = "public"
  <2>1. StageCreators(c) = <<"joinPublicChannel", "publicMessage">>
    BY <1>1 DEF StageCreators
  <2>2. Tail(StageCreators(c)) = <<"publicMessage">>
    BY <2>1
  <2> QED
    BY <1>1, <2>1, <2>2 DEF Stages
<1>2. CASE Kind[c] = "private"
  <2>1. StageCreators(c) = <<"privateMessage">>
    BY <1>2 DEF StageCreators
  <2>2. Tail(StageCreators(c)) = <<>>
    BY <2>1
  <2> QED
    BY <1>2, <2>1, <2>2 DEF Stages
<1>3. CASE Kind[c] = "chat"
  BY <1>3 DEF StageCreators
<1> QED
  BY <1>1, <1>2, <1>3 DEF Kinds

(* Starting the current stage or the one that follows it. *)
LEMMA StartShape ==
  ASSUME TypeOK, StagesFitKind, NEW c \in Clients, NEW st \in Stages,
         NEW rest \in Seq(Stages), NEW n \in Nat,
         startStage(c, st, rest, n),
         Follows(c, stage[c], st), st # stage[c] => started[c],
         FitsKind(c, st, rest),
         UNCHANGED <<queue, sentCount, ackedCount>>,
         started' = [started EXCEPT ![c] = started'[c]],
         started' \in [Clients -> BOOLEAN],
         heard' \in [Clients -> Seq((Keys \cup {NoKey}) \X Nat)]
  PROVE  Shape(c)
<1> DEFINE cmd == sendServerCommand(c, st, rest, n, queue[c])
<1>1. /\ stage' = [stage EXCEPT ![c] = st]
      /\ remaining' = [remaining EXCEPT ![c] = rest]
      /\ challengeSig' = [challengeSig EXCEPT ![c] = n]
      /\ stageSent' = [stageSent EXCEPT
                         ![c] = IF st = "publicMessage" THEN Len(cmd) ELSE 0]
      /\ toServer' = [toServer EXCEPT ![c] = @ \o cmd]
      /\ lastSent' = [lastSent EXCEPT
                        ![c] = IF cmd # <<>> /\ cmd[1].type = "msg"
                               THEN cmd[1].msg ELSE @]
  BY DEF startStage, Send
<1>2. \/ /\ cmd = <<>>
         /\ st \in MessageStages \/ (st = "signChallenge" /\ rest = <<>>)
      \/ \E d : cmd = <<d>> /\ Speaks(d, st, queue[c])
  <2>1. queue[c] \in Seq(Nat)
    BY DEF TypeOK
  <2> QED
    BY <2>1, CommandSpeaks
<1>3. stage'[c] = st /\ queue'[c] = queue[c] /\ toServer[c] \in Seq(Datum)
  BY <1>1 DEF TypeOK
<1>3a. StagesFitKind'
  <2>1. ASSUME NEW x \in Clients PROVE FitsKind(x, stage'[x], remaining'[x])
    <3>1. CASE x = c
      BY <1>1, <3>1 DEF TypeOK
    <3>2. CASE x # c
      <4>1. stage'[x] = stage[x] /\ remaining'[x] = remaining[x]
        BY <1>1, <3>2 DEF TypeOK
      <4> QED
        BY <4>1 DEF StagesFitKind
    <3> QED
      BY <3>1, <3>2
  <2> QED
    BY <2>1 DEF StagesFitKind, FitsKind, StageCreators
<1>3b. StageAdvances(c) /\ QueueKept
  BY <1>1, <1>3 DEF StageAdvances, QueueKept
<1>4. CASE /\ cmd = <<>>
           /\ st \in MessageStages \/ (st = "signChallenge" /\ rest = <<>>)
  <2>1. toServer' = toServer
    BY <1>1, <1>3, <1>4, ConcatEmptySeq DEF TypeOK
  <2>2. stageSent' \in [Clients -> Nat] /\ lastSent' \in [Clients -> Nat]
    BY <1>1, <1>4 DEF TypeOK
  <2>3. TypeOK'
    BY <1>1, <2>1, <2>2 DEF TypeOK
  <2>4. ~Awaits(c)'
    <3>1. st = "signChallenge" /\ rest = <<>> => Kind[c] = "chat"
      BY Creators DEF FitsKind
    <3> QED
      BY <1>3, <1>4, <3>1 DEF Awaits
  <2>5. WritesOnce(c)
    BY <2>1, <2>4 DEF WritesOnce
  <2> QED
    BY <1>3a, <1>3b, <2>3, <2>5 DEF Shape
<1>5. ASSUME NEW d, cmd = <<d>>, Speaks(d, st, queue[c])
      PROVE  Shape(c)
  <2>1. d \in Datum
    BY <1>5 DEF Speaks
  <2>0. Append(toServer[c], d) = toServer[c] \o <<d>>
    BY <1>3, <2>1, AppendIsConcat
  <2>2. toServer' = [toServer EXCEPT ![c] = Append(@, d)]
    BY <1>1, <1>5, <2>0
  <2>3. toServer' \in [Clients -> Seq(Datum)]
    BY <2>1, <2>2, AppendProperties DEF TypeOK
  <2>4. Len(cmd) = 1 /\ cmd[1] = d /\ d.msg \in Nat
    BY <1>5, <2>1 DEF Datum
  <2>5. stageSent' \in [Clients -> Nat] /\ lastSent' \in [Clients -> Nat]
    BY <1>1, <2>4 DEF TypeOK
  <2>6. WritesOnce(c)
    BY <1>3, <1>5, <2>2 DEF WritesOnce
  <2>7. TypeOK'
    BY <1>1, <2>3, <2>5 DEF TypeOK
  <2> QED
    BY <1>3a, <1>3b, <2>6, <2>7 DEF Shape
<1> QED
  BY <1>2, <1>4, <1>5

(* Starting the current stage again. *)
LEMMA AgainShape ==
  ASSUME TypeOK, StagesFitKind, NEW c \in Clients, Again(c),
         UNCHANGED <<queue, sentCount, ackedCount>>,
         started' = [started EXCEPT ![c] = started'[c]],
         started' \in [Clients -> BOOLEAN],
         heard' \in [Clients -> Seq((Keys \cup {NoKey}) \X Nat)]
  PROVE  Shape(c)
<1>1. /\ stage[c] \in Stages /\ remaining[c] \in Seq(Stages)
      /\ challengeSig[c] \in Nat
  BY DEF TypeOK
<1>2. Follows(c, stage[c], stage[c]) /\ FitsKind(c, stage[c], remaining[c])
  BY DEF Follows, StagesFitKind
<1> QED
  BY <1>1, <1>2, StartShape DEF Again

(* A datum that is dropped. *)
LEMMA DroppedShape ==
  ASSUME TypeOK, StagesFitKind, NEW c \in Clients, UNCHANGED vars
  PROVE  Shape(c)
<1>1. TypeOK' /\ StagesFitKind'
  BY DEF TypeOK, StagesFitKind, FitsKind, vars, clientVars
<1>2. WritesOnce(c) /\ StageAdvances(c) /\ QueueKept
  BY DEF WritesOnce, StageAdvances, Follows, QueueKept, TypeOK, vars, clientVars
<1>3. started' = [started EXCEPT ![c] = started'[c]]
  BY DEF TypeOK, vars, clientVars
<1> QED
  BY <1>1, <1>2, <1>3 DEF Shape

(* The user types. *)
LEMMA EnqueueShape ==
  ASSUME TypeOK, StagesFitKind, NEW c \in Clients, enqueueUserDatum(c)
  PROVE  Shape(c)
<1> DEFINE s == sentCount[c] + 1
           q == Append(queue[c], s)
           d == Message(c, Head(q))
           cmd == IF Triggers(c, q, s) THEN <<d>> ELSE <<>>
<1>1. /\ queue' = [queue EXCEPT ![c] = q]
      /\ sentCount' = [sentCount EXCEPT ![c] = s]
      /\ stageSent' = [stageSent EXCEPT
                         ![c] = IF stage[c] = "publicMessage"
                                THEN @ + Len(cmd) ELSE @]
      /\ toServer' = [toServer EXCEPT ![c] = @ \o cmd]
      /\ lastSent' = [lastSent EXCEPT
                        ![c] = IF cmd # <<>> /\ cmd[1].type = "msg"
                               THEN cmd[1].msg ELSE @]
      /\ UNCHANGED <<started, stage, remaining, challengeSig, ackedCount, heard>>
  BY DEF enqueueUserDatum, Send
<1>2. s \in Nat /\ q \in Seq(Nat) /\ q # <<>>
  <2>1. s \in Nat /\ queue[c] \in Seq(Nat)
    BY DEF TypeOK
  <2> HIDE DEF s
  <2> QED
    BY <2>1, AppendProperties
<1>3. /\ StageAdvances(c) /\ StagesFitKind'
      /\ started' = [started EXCEPT ![c] = started'[c]]
  BY <1>1 DEF StageAdvances, Follows, StagesFitKind, FitsKind, TypeOK
<1>4. Typed(c)
  BY <1>1 DEF Typed
<1>5. queue'[c] = q /\ stage'[c] = stage[c] /\ toServer[c] \in Seq(Datum)
  BY <1>1 DEF TypeOK
<1>6. queue' \in [Clients -> Seq(Nat)] /\ sentCount' \in [Clients -> Nat]
  <2>1. \A x \in Clients : queue[x] \in Seq(Nat)
    BY DEF TypeOK
  <2> HIDE DEF q, s
  <2> QED
    BY <1>1, <1>2, <2>1 DEF TypeOK
<1>7. CASE ~Triggers(c, q, s)
  <2>1. cmd = <<>>
    BY <1>7
  <2>2. toServer' = toServer
    BY <1>1, <1>5, <2>1, ConcatEmptySeq DEF TypeOK
  <2>3. stageSent' \in [Clients -> Nat] /\ lastSent' \in [Clients -> Nat]
    BY <1>1, <2>1 DEF TypeOK
  <2>4. TypeOK'
    BY <1>1, <1>6, <2>2, <2>3 DEF TypeOK
  <2> QED
    BY <1>1, <1>3, <1>4, <1>5, <2>2, <2>4 DEF Shape, WritesOnce
<1>8. CASE Triggers(c, q, s)
  <2>1. cmd = <<d>>
    BY <1>8
  <2>2. stage[c] \in MessageStages
    BY <1>8 DEF Triggers, MessageStages
  <2>3. Speaks(d, stage[c], q)
    BY <1>2, <2>2, MessageSpeaks
  <2>4. d \in Datum
    BY <2>3 DEF Speaks
  <2>5. Append(toServer[c], d) = toServer[c] \o <<d>>
    BY <1>5, <2>4, AppendIsConcat
  <2>6. toServer' = [toServer EXCEPT ![c] = Append(@, d)]
    BY <1>1, <2>1, <2>5
  <2>7. toServer' \in [Clients -> Seq(Datum)]
    BY <2>4, <2>6, AppendProperties DEF TypeOK
  <2>8. Len(cmd) = 1 /\ cmd[1] = d /\ d.msg \in Nat
    <3> HIDE DEF cmd, d
    <3> QED
      BY <2>1, <2>4 DEF Datum
  <2>9. stageSent' \in [Clients -> Nat] /\ lastSent' \in [Clients -> Nat]
    <3> HIDE DEF cmd, d
    <3> QED
      BY <1>1, <2>8 DEF TypeOK
  <2>10. TypeOK'
    BY <1>1, <1>6, <2>7, <2>9 DEF TypeOK
  <2>11. WritesOnce(c)
    BY <1>5, <2>3, <2>6 DEF WritesOnce
  <2> QED
    BY <1>3, <1>4, <2>10, <2>11 DEF Shape
<1> QED
  BY <1>7, <1>8

(* Every branch of the connection listener. *)
LEMMA ListenerShape ==
  ASSUME TypeOK, StagesFitKind, NEW c \in Clients, NEW d \in Datum,
         started[c], getConnectionListener(c, d)
  PROVE  Shape(c)
<1>1. /\ d.msg \in Nat /\ d.from \in Keys \cup {NoKey}
      /\ started \in [Clients -> BOOLEAN]
      /\ heard \in [Clients -> Seq((Keys \cup {NoKey}) \X Nat)]
  BY DEF Datum, TypeOK
<1>1a. UNCHANGED started => started' = [started EXCEPT ![c] = started'[c]]
  BY <1>1
<1>2. Hear(c, d) => heard' \in [Clients -> Seq((Keys \cup {NoKey}) \X Nat)]
  <2>1. <<d.from, d.msg>> \in (Keys \cup {NoKey}) \X Nat
    BY <1>1
  <2>2. Append(heard[c], <<d.from, d.msg>>) \in Seq((Keys \cup {NoKey}) \X Nat)
    BY <1>1, <2>1, AppendProperties
  <2> QED
    BY <1>1, <2>2 DEF Hear
<1>3. CASE Acknowledged(c, d)
  <2>1. Popped(c)
    BY <1>3 DEF Acknowledged, Popped
  <2>2. queue' \in [Clients -> Seq(Nat)]
    <3>1. queue[c] # <<>> => Tail(queue[c]) \in Seq(Nat)
      BY HeadTailProperties DEF TypeOK
    <3> QED
      BY <2>1, <3>1 DEF Popped, TypeOK
  <2>3. ackedCount' \in [Clients -> Nat]
    BY <2>1 DEF Popped, TypeOK
  <2>4. TypeOK' /\ StagesFitKind'
    BY <1>3, <2>2, <2>3 DEF Acknowledged, TypeOK, StagesFitKind, FitsKind
  <2>6. /\ WritesOnce(c) /\ StageAdvances(c)
        /\ started' = [started EXCEPT ![c] = started'[c]]
    BY <1>3 DEF Acknowledged, WritesOnce, StageAdvances, Follows, TypeOK
  <2> QED
    BY <2>1, <2>4, <2>6 DEF Shape
<1>4. CASE Challenged(c, d)
  <2>0. CASE d.msg = 0
    BY <1>4, <2>0, DroppedShape DEF Challenged, vars, clientVars
  <2> SUFFICES ASSUME d.msg # 0 PROVE Shape(c)
    BY <2>0
  <2>1. /\ startStage(c, "signChallenge", remaining[c], d.msg)
        /\ stage[c] = "requestChallenge"
        /\ UNCHANGED <<started, queue, sentCount, ackedCount, heard>>
    BY <1>4 DEF Challenged
  <2>2. Follows(c, stage[c], "signChallenge")
    BY <2>1 DEF Follows
  <2>3. remaining[c] \in Seq(Stages) /\ FitsKind(c, "signChallenge", remaining[c])
    BY <2>1 DEF TypeOK, StagesFitKind, FitsKind
  <2>4. "signChallenge" \in Stages
    BY DEF Stages
  <2> QED
    BY <1>1, <1>1a, <2>1, <2>2, <2>3, <2>4, StartShape
<1>5. CASE Registers(c, d)
  <2>1. /\ stage[c] = "signChallenge"
        /\ UNCHANGED <<started, queue, sentCount, ackedCount, heard>>
    BY <1>5 DEF Registers
  <2>2. CASE remaining[c] = <<>>
    BY <1>5, <2>2, DroppedShape DEF Registers, vars, clientVars
  <2>3. CASE remaining[c] # <<>>
    <3> DEFINE st == Head(remaining[c])
    <3>1. startStage(c, st, Tail(remaining[c]), challengeSig[c])
      BY <1>5, <2>3 DEF Registers
    <3>2. remaining[c] = StageCreators(c)
      BY <2>1 DEF StagesFitKind, FitsKind
    <3>3. /\ \/ Kind[c] = "public" /\ st = "joinPublicChannel"
             \/ Kind[c] = "private" /\ st = "privateMessage"
          /\ Tail(remaining[c]) \in Seq(Stages)
      BY <2>3, <3>2, Creators
    <3>4. Follows(c, stage[c], st)
      BY <2>1, <3>3 DEF Follows
    <3>5. FitsKind(c, st, Tail(remaining[c]))
      BY <3>3 DEF FitsKind
    <3>6. st \in Stages /\ challengeSig[c] \in Nat
      BY <3>3 DEF TypeOK, Stages
    <3> QED
      BY <1>1, <1>1a, <2>1, <3>1, <3>3, <3>4, <3>5, <3>6, StartShape
  <2> QED
    BY <2>2, <2>3
<1>6. CASE Joins(c, d)
  <2>1. /\ startStage(c, "publicMessage", remaining[c], challengeSig[c])
        /\ stage[c] = "joinPublicChannel"
        /\ UNCHANGED <<started, queue, sentCount, ackedCount, heard>>
    BY <1>6 DEF Joins
  <2>2. Kind[c] = "public"
    BY <2>1 DEF StagesFitKind, FitsKind
  <2>3. /\ Follows(c, stage[c], "publicMessage")
        /\ FitsKind(c, "publicMessage", remaining[c])
    BY <2>1, <2>2 DEF Follows, FitsKind
  <2>4. /\ "publicMessage" \in Stages /\ challengeSig[c] \in Nat
        /\ remaining[c] \in Seq(Stages)
    BY DEF TypeOK, Stages
  <2> QED
    BY <1>1, <1>1a, <2>1, <2>3, <2>4, StartShape
<1>7. CASE Unexpected(c, d)
  BY <1>1, <1>1a, <1>7, AgainShape DEF Unexpected
<1>8. CASE HearsChannel(c, d)
  BY <1>1, <1>1a, <1>2, <1>8, AgainShape DEF HearsChannel
<1>9. CASE HearsPartner(c, d)
  <2>1. CASE Decrypts(c, d)
    BY <1>1, <1>1a, <1>2, <1>9, <2>1, AgainShape DEF HearsPartner
  <2>2. CASE ~Decrypts(c, d)
    BY <1>9, <2>2, DroppedShape DEF HearsPartner, vars, clientVars
  <2> QED
    BY <2>1, <2>2
<1> QED
  BY <1>3, <1>4, <1>5, <1>6, <1>7, <1>8, <1>9 DEF getConnectionListener

(* Every step has the shape. *)
LEMMA StepShape ==
  ASSUME TypeOK, StagesFitKind, Next
  PROVE  \E c \in Clients : Shape(c)
<1>1. CASE \E c \in Clients : start(c)
  <2>1. PICK c \in Clients : start(c)
    BY <1>1
  <2>2. /\ Again(c)
        /\ UNCHANGED <<queue, sentCount, ackedCount, heard>>
        /\ started' = [started EXCEPT ![c] = TRUE]
    BY <2>1 DEF start
  <2>3. /\ started' \in [Clients -> BOOLEAN]
        /\ heard' \in [Clients -> Seq((Keys \cup {NoKey}) \X Nat)]
        /\ started' = [started EXCEPT ![c] = started'[c]]
    BY <2>2 DEF TypeOK
  <2> QED
    BY <2>2, <2>3, AgainShape
<1>2. CASE \E c \in Clients : UserTypes(c)
  BY <1>2, EnqueueShape DEF UserTypes
<1>3. CASE \E c \in Clients : \E d \in Answers : ServerSends(c, d)
  BY <1>3, ListenerShape DEF ServerSends
<1> QED
  BY <1>1, <1>2, <1>3 DEF Next

-----------------------------------------------------------------------------
(* Type correctness *)

(* The initial states are well typed. *)
LEMMA TypeInit == Init => TypeOK /\ StagesFitKind
<1>1. \A c \in Clients : StageCreators(c) \in Seq(Stages)
  BY Creators
<1> QED
  BY <1>1, EmptySeq DEF Init, TypeOK, StagesFitKind, FitsKind, Stages

(* Every step keeps the types. *)
LEMMA TypeStep == TypeOK /\ StagesFitKind /\ [Next]_vars => TypeOK' /\ StagesFitKind'
<1>1. ASSUME TypeOK, StagesFitKind, Next PROVE TypeOK' /\ StagesFitKind'
  BY <1>1, StepShape DEF Shape
<1>2. ASSUME TypeOK, StagesFitKind, UNCHANGED vars PROVE TypeOK' /\ StagesFitKind'
  BY <1>2 DEF TypeOK, StagesFitKind, FitsKind, vars, clientVars
<1> QED
  BY <1>1, <1>2

(* The variables of the clients keep their types: stages are started with
   well-formed commands and queues, whatever the server answers. *)
THEOREM ClientTypeCorrect == Spec => []TypeOK
<1> QED
  BY TypeInit, TypeStep, PTL DEF Spec

-----------------------------------------------------------------------------
(* Stages *)

(* What is written in one step, after what was written before. *)
LEMMA NewlyWritten ==
  ASSUME TypeOK, NEW c \in Clients, WritesOnce(c), NEW x \in Clients
  PROVE  \/ toServer'[x] = toServer[x]
         \/ /\ x = c
            /\ Len(toServer'[c]) = Len(toServer[c]) + 1
            /\ \A i \in 1..Len(toServer[c]) : toServer'[c][i] = toServer[c][i]
            /\ Speaks(toServer'[c][Len(toServer'[c])], stage'[c], queue'[c])
<1>1. CASE UNCHANGED toServer
  BY <1>1
<1>2. ASSUME NEW d, toServer' = [toServer EXCEPT ![c] = Append(@, d)],
             Speaks(d, stage'[c], queue'[c]), x = c
      PROVE  /\ Len(toServer'[c]) = Len(toServer[c]) + 1
             /\ \A i \in 1..Len(toServer[c]) : toServer'[c][i] = toServer[c][i]
             /\ toServer'[c][Len(toServer'[c])] = d
  <2>1. d \in Datum /\ toServer[c] \in Seq(Datum)
    BY <1>2 DEF Speaks, TypeOK
  <2>2. toServer'[c] = Append(toServer[c], d)
    BY <1>2 DEF TypeOK
  <2> QED
    BY <2>1, <2>2, AppendProperties
<1>3. ASSUME NEW d, toServer' = [toServer EXCEPT ![c] = Append(@, d)], x # c
      PROVE  toServer'[x] = toServer[x]
  BY <1>3 DEF TypeOK
<1> QED
  BY <1>1, <1>2, <1>3 DEF WritesOnce

(* The ranks of the stages are those of their requests. *)
LEMMA Ranks ==
  /\ \A type \in RequestTypes : Rank(type) \in Nat
  /\ \A st \in Stages : Request(st) \in RequestTypes /\ StageRank(st) \in Nat
  /\ Request("requestChallenge") = "connect"
<1>1. \A type \in RequestTypes : Rank(type) \in Nat
  BY DEF RequestTypes, Rank
<1>2. \A st \in Stages : Request(st) \in RequestTypes
  BY DEF Request, RequestTypes, Stages, MessageStages
<1>3. Request("requestChallenge") = "connect"
  BY DEF Request, MessageStages
<1> QED
  BY <1>1, <1>2, <1>3 DEF StageRank

(* A stage is followed by one whose request comes next. *)
LEMMA Following ==
  ASSUME NEW c \in Clients, NEW st \in Stages, NEW next \in Stages,
         Follows(c, st, next)
  PROVE  /\ StageRank(st) <= StageRank(next)
         /\ next # st =>
              /\ Preceding(c, Request(next)) = Request(st)
              /\ st \notin MessageStages /\ next # "requestChallenge"
              /\ ~(Kind[c] = "chat" /\ st = "signChallenge")
<1>1. /\ Rank("connect") = 1 /\ Rank("verify") = 2
      /\ Rank("join") = 3 /\ Rank("msg") = 4
  BY DEF Rank
<1>2. /\ Request("requestChallenge") = "connect" /\ Request("signChallenge") = "verify"
      /\ Request("joinPublicChannel") = "join"
      /\ Request("publicMessage") = "msg" /\ Request("privateMessage") = "msg"
  BY DEF Request, MessageStages
<1>3. StageRank(st) \in Nat
  BY Ranks
<1>4. CASE next = st
  BY <1>3, <1>4
<1>5. CASE st = "requestChallenge" /\ next = "signChallenge"
  BY <1>1, <1>2, <1>5 DEF StageRank, Preceding, MessageStages
<1>6. CASE st = "signChallenge" /\ Kind[c] = "public" /\ next = "joinPublicChannel"
  BY <1>1, <1>2, <1>6 DEF StageRank, Preceding, MessageStages
<1>7. CASE st = "signChallenge" /\ Kind[c] = "private" /\ next = "privateMessage"
  BY <1>1, <1>2, <1>7 DEF StageRank, Preceding, MessageStages
<1>8. CASE st = "joinPublicChannel" /\ Kind[c] = "public" /\ next = "publicMessage"
  BY <1>1, <1>2, <1>8 DEF StageRank, Preceding, MessageStages
<1> QED
  BY <1>4, <1>5, <1>6, <1>7, <1>8 DEF Follows

(* The request before that of a stage was written, before the step and after
   it. *)
LEMMA PrecedingWritten ==
  ASSUME TypeOK, StagesInv, NEW c \in Clients, Shape(c), NEW x \in Clients,
         stage'[x] # "requestChallenge"
  PROVE  Wrote(x, Preceding(x, Request(stage'[x])))
<1>1. /\ StageAdvances(c) /\ stage[x] \in Stages /\ stage'[x] \in Stages
      /\ toServer[x] \in Seq(Datum)
  BY DEF Shape, TypeOK
<1>2. CASE stage'[x] = stage[x]
  BY <1>2 DEF StagesInv, InTurn
<1>3. CASE stage'[x] # stage[x]
  <2>1. x = c
    BY <1>1, <1>3 DEF StageAdvances, TypeOK
  <2>2. Awaits(x) /\ Preceding(x, Request(stage'[x])) = Request(stage[x])
    BY <1>1, <1>3, <2>1, Following DEF StageAdvances, Awaits
  <2>3. /\ toServer[x] # <<>>
        /\ toServer[x][Len(toServer[x])].type = Request(stage[x])
    BY <2>2 DEF StagesInv, InTurn
  <2>4. Len(toServer[x]) \in 1..Len(toServer[x])
    BY <1>1, <2>3, LenProperties, EmptySeq
  <2> QED
    BY <2>2, <2>3, <2>4 DEF Wrote
<1> QED
  BY <1>2, <1>3

(* Every step keeps what was written in the order of the stages. *)
LEMMA StagesStep == TypeOK /\ StagesInv /\ [Next]_vars => StagesInv'
<1> SUFFICES ASSUME TypeOK, StagesInv, Next PROVE StagesInv'
  BY DEF StagesInv, StagesAdvance, StagesFitKind, FitsKind, InTurn, Awaits, Wrote, vars,
         clientVars
<1>1. StagesFitKind
  BY DEF StagesInv
<1>2. PICK c \in Clients : Shape(c)
  BY <1>1, StepShape
<1>3. /\ TypeOK' /\ StagesFitKind' /\ WritesOnce(c) /\ StageAdvances(c)
      /\ started' = [started EXCEPT ![c] = started'[c]]
  BY <1>2 DEF Shape
<1>4. ASSUME NEW x \in Clients
      PROVE  /\ stage[x] \in Stages /\ stage'[x] \in Stages
             /\ StageRank(stage[x]) \in Nat /\ StageRank(stage'[x]) \in Nat
  BY <1>3, <1>4, Ranks DEF TypeOK
<1>5. ASSUME NEW x \in Clients
      PROVE  /\ StageRank(stage[x]) <= StageRank(stage'[x])
             /\ x # c => stage'[x] = stage[x] /\ started'[x] = started[x]
  <2>1. CASE x = c
    BY <1>3, <1>4, <2>1, Following DEF StageAdvances
  <2>2. CASE x # c
    <3>1. stage'[x] = stage[x] /\ started'[x] = started[x]
      BY <1>3, <2>2 DEF StageAdvances, TypeOK
    <3> QED
      BY <1>4, <2>2, <3>1
  <2> QED
    BY <2>1, <2>2
<1>6. \A type \in RequestTypes : Rank(type) \in Nat
  BY Ranks
<1>7. ASSUME NEW x \in Clients
      PROVE  /\ \A i \in 1..Len(toServer'[x]) :
                  /\ toServer'[x][i].type \in RequestTypes
                  /\ Rank(toServer'[x][i].type) <= StageRank(stage'[x])
             /\ \A j \in 1..Len(toServer'[x]) :
                  /\ \A i \in 1..j :
                       Rank(toServer'[x][i].type) <= Rank(toServer'[x][j].type)
                  /\ toServer'[x][j].type # "connect" =>
                       \E i \in 1..(j - 1) :
                         toServer'[x][i].type = Preceding(x, toServer'[x][j].type)
             /\ stage'[x] # "requestChallenge" =>
                  \E i \in 1..Len(toServer'[x]) :
                    toServer'[x][i].type = Preceding(x, Request(stage'[x]))
             /\ Awaits(x)' =>
                  /\ toServer'[x] # <<>>
                  /\ toServer'[x][Len(toServer'[x])].type = Request(stage'[x])
  <2>1. \A i \in 1..Len(toServer[x]) :
          /\ toServer[x][i].type \in RequestTypes
          /\ Rank(toServer[x][i].type) <= StageRank(stage[x])
    BY DEF StagesInv, InTurn, RequestTypes
  <2>2. \A j \in 1..Len(toServer[x]) :
          /\ \A i \in 1..j : Rank(toServer[x][i].type) <= Rank(toServer[x][j].type)
          /\ toServer[x][j].type # "connect" =>
               \E i \in 1..(j - 1) :
                 toServer[x][i].type = Preceding(x, toServer[x][j].type)
    BY DEF StagesInv, StagesAdvance
  <2>3. \A i \in 1..Len(toServer[x]) :
          Rank(toServer[x][i].type) <= StageRank(stage'[x])
    BY <1>4, <1>5, <1>6, <2>1
  <2>4. Len(toServer[x]) \in Nat
    BY LenProperties DEF TypeOK
  <2>5. stage'[x] # "requestChallenge"
          => Wrote(x, Preceding(x, Request(stage'[x])))
    BY <1>2, PrecedingWritten
  <2>6. Awaits(x) =>
          /\ toServer[x] # <<>>
          /\ toServer[x][Len(toServer[x])].type = Request(stage[x])
    BY DEF StagesInv, InTurn
  <2>7. CASE toServer'[x] = toServer[x] /\ (Awaits(x)' => Awaits(x) /\ stage'[x] = stage[x])
    <3>1. stage'[x] # "requestChallenge" =>
            \E i \in 1..Len(toServer'[x]) :
              toServer'[x][i].type = Preceding(x, Request(stage'[x]))
      BY <2>5, <2>7 DEF Wrote, Preceding
    <3>2. Awaits(x)' =>
            /\ toServer'[x] # <<>>
            /\ toServer'[x][Len(toServer'[x])].type = Request(stage'[x])
      BY <2>6, <2>7
    <3> QED
      BY <2>1, <2>2, <2>3, <2>7, <3>1, <3>2
  <2>8. CASE /\ x = c
             /\ Len(toServer'[c]) = Len(toServer[c]) + 1
             /\ \A i \in 1..Len(toServer[c]) : toServer'[c][i] = toServer[c][i]
             /\ Speaks(toServer'[c][Len(toServer'[c])], stage'[c], queue'[c])
    <3> DEFINE n == Len(toServer[x])
    <3>1. /\ toServer'[x][n + 1].type \in RequestTypes
          /\ toServer'[x][n + 1].type = Request(stage'[x])
          /\ Rank(toServer'[x][n + 1].type) = StageRank(stage'[x])
      BY <2>8 DEF Speaks, StageRank
    <3>2. \A i \in 1..n : toServer'[x][i] = toServer[x][i]
      BY <2>8
    <3>3. \A i \in 1..(n + 1) : i \in 1..n \/ i = n + 1
      BY <2>4
    <3>4. \A i \in 1..(n + 1) :
            /\ toServer'[x][i].type \in RequestTypes
            /\ Rank(toServer'[x][i].type) <= StageRank(stage'[x])
      <4> TAKE i \in 1..(n + 1)
      <4>1. CASE i \in 1..n
        BY <2>1, <2>3, <3>2, <4>1
      <4>2. CASE i = n + 1
        BY <1>4, <3>1, <4>2
      <4> QED
        BY <3>3, <4>1, <4>2
    <3>5. \A j \in 1..(n + 1) : \A i \in 1..j :
            Rank(toServer'[x][i].type) <= Rank(toServer'[x][j].type)
      <4> TAKE j \in 1..(n + 1)
      <4> TAKE i \in 1..j
      <4>1. CASE j \in 1..n
        <5>1. i \in 1..n
          BY <2>4, <4>1
        <5> QED
          BY <2>2, <3>2, <4>1, <5>1
      <4>2. CASE j = n + 1
        <5>1. i \in 1..(n + 1)
          BY <4>2
        <5> QED
          BY <3>1, <3>4, <4>2, <5>1
      <4> QED
        BY <3>3, <4>1, <4>2
    <3>6. stage'[x] # "requestChallenge" =>
            \E i \in 1..n : toServer'[x][i].type = Preceding(x, Request(stage'[x]))
      BY <2>5, <3>2 DEF Wrote
    <3>7. \A j \in 1..(n + 1) : toServer'[x][j].type # "connect" =>
            \E i \in 1..(j - 1) :
              toServer'[x][i].type = Preceding(x, toServer'[x][j].type)
      <4> SUFFICES ASSUME NEW j \in 1..(n + 1), toServer'[x][j].type # "connect"
                   PROVE  \E i \in 1..(j - 1) :
                            toServer'[x][i].type = Preceding(x, toServer'[x][j].type)
        OBVIOUS
      <4>1. CASE j \in 1..n
        <5>1. toServer'[x][j] = toServer[x][j]
          BY <3>2, <4>1
        <5>2. PICK i \in 1..(j - 1) :
                toServer[x][i].type = Preceding(x, toServer[x][j].type)
          BY <2>2, <4>1, <5>1
        <5>3. i \in 1..n
          BY <2>4, <4>1
        <5>4. toServer'[x][i] = toServer[x][i]
          BY <3>2, <5>3
        <5> QED
          BY <5>1, <5>2, <5>4
      <4>2. CASE j = n + 1
        <5>1. stage'[x] # "requestChallenge"
          BY <3>1, <4>2, Ranks
        <5>2. \E i \in 1..n : toServer'[x][i].type = Preceding(x, toServer'[x][j].type)
          BY <3>1, <3>6, <4>2, <5>1
        <5>3. 1..n = 1..(j - 1)
          BY <2>4, <4>2
        <5> QED
          BY <5>2, <5>3
      <4> QED
        BY <3>3, <4>1, <4>2
    <3>8. stage'[x] # "requestChallenge" =>
            \E i \in 1..Len(toServer'[x]) :
              toServer'[x][i].type = Preceding(x, Request(stage'[x]))
      <4>1. 1..n \subseteq 1..Len(toServer'[x])
        BY <2>4, <2>8
      <4> QED
        BY <3>6, <4>1 DEF Wrote, Preceding
    <3>9. toServer'[x] # <<>> /\ toServer'[x][Len(toServer'[x])].type = Request(stage'[x])
      <4>1. Len(toServer'[x]) = n + 1 /\ n + 1 # 0
        BY <2>4, <2>8
      <4>2. toServer'[x] # <<>>
        BY <4>1, EmptySeq
      <4> QED
        BY <3>1, <4>1, <4>2
    <3>10. Len(toServer'[x]) = n + 1
      BY <2>8
    <3> HIDE DEF n
    <3> QED
      BY <3>4, <3>5, <3>7, <3>8, <3>9, <3>10
  <2>9. \/ toServer'[x] = toServer[x] /\ (Awaits(x)' => Awaits(x) /\ stage'[x] = stage[x])
        \/ /\ x = c
           /\ Len(toServer'[c]) = Len(toServer[c]) + 1
           /\ \A i \in 1..Len(toServer[c]) : toServer'[c][i] = toServer[c][i]
           /\ Speaks(toServer'[c][Len(toServer'[c])], stage'[c], queue'[c])
    <3>1. CASE x # c
      <4>1. toServer'[x] = toServer[x]
        BY <1>3, <3>1 DEF WritesOnce, TypeOK
      <4> QED
        BY <1>5, <3>1, <4>1 DEF Awaits
    <3>2. CASE x = c /\ UNCHANGED toServer /\ ~Awaits(c)'
      BY <3>2
    <3>3. CASE x = c /\ UNCHANGED toServer /\ stage'[c] = stage[c] /\ started'[c] = started[c]
      BY <3>3 DEF Awaits
    <3>4. ASSUME x = c, NEW d, toServer' = [toServer EXCEPT ![c] = Append(@, d)],
                 Speaks(d, stage'[c], queue'[c])
          PROVE  /\ Len(toServer'[c]) = Len(toServer[c]) + 1
                 /\ \A i \in 1..Len(toServer[c]) : toServer'[c][i] = toServer[c][i]
                 /\ Speaks(toServer'[c][Len(toServer'[c])], stage'[c], queue'[c])
      <4>1. d \in Datum /\ toServer[c] \in Seq(Datum)
        BY <3>4 DEF Speaks, TypeOK
      <4>2. toServer'[c] = Append(toServer[c], d)
        BY <3>4 DEF TypeOK
      <4>3. toServer'[c][Len(toServer'[c])] = d
        BY <4>1, <4>2, AppendProperties
      <4> QED
        BY <3>4, <4>1, <4>2, <4>3, AppendProperties
    <3> QED
      BY <1>3, <3>1, <3>2, <3>3, <3>4 DEF WritesOnce
  <2> HIDE DEF Speaks
  <2> QED
    BY <2>7, <2>8, <2>9
<1>8. StagesAdvance'
  BY <1>7 DEF StagesAdvance, Preceding
<1>9. ASSUME NEW x \in Clients PROVE InTurn(x)'
  BY <1>7 DEF InTurn, Wrote, Preceding, RequestTypes
<1> QED
  BY <1>3, <1>8, <1>9 DEF StagesInv

(* At first no stage was left and nothing was written. *)
LEMMA StagesInit == Init => StagesInv
BY TypeInit, EmptySeq DEF Init, StagesInv, StagesAdvance, InTurn, Awaits

(* A client neither skips a step of its session nor goes back to an earlier
   one, whatever the server sends. *)
THEOREM StagesTakeTurns == Spec => []StagesAdvance
<1>1. StagesInv => StagesAdvance
  BY DEF StagesInv
<1> QED
  BY <1>1, StagesInit, StagesStep, ClientTypeCorrect, PTL DEF Spec

-----------------------------------------------------------------------------
(* Answers *)

(* A client changes its stage only upon the answer to the stage's request. *)
LEMMA ChangesOnAnswer ==
  ASSUME TypeOK, NEW c \in Clients, NEW d \in Datum, getConnectionListener(c, d),
         stage'[c] # stage[c]
  PROVE  Satisfies(Request(stage[c]), d)
<1>1. ~Acknowledged(c, d)
  BY DEF Acknowledged
<1>2. ~Again(c)
  BY DEF Again, startStage, TypeOK
<1>3. ~Unexpected(c, d) /\ ~HearsChannel(c, d) /\ ~HearsPartner(c, d)
  BY <1>2 DEF Unexpected, HearsChannel, HearsPartner
<1>4. CASE Challenged(c, d)
  BY <1>4, Ranks DEF Challenged, Satisfies
<1>5. CASE Registers(c, d)
  BY <1>5 DEF Registers, Satisfies, Request, MessageStages
<1>6. CASE Joins(c, d)
  BY <1>6 DEF Joins, Satisfies, Request, MessageStages
<1> QED
  BY <1>1, <1>3, <1>4, <1>5, <1>6 DEF getConnectionListener

AnsweredTypeOK == answered \in [Clients -> SUBSET Types]

(* What was answered is kept, and the stage is left only once its request is
   among it. *)
LEMMA AnsweredGrows ==
  ASSUME TypeOK, StagesInv, AnsweredTypeOK, AnsweredNext
  PROVE  /\ AnsweredTypeOK'
         /\ \A x \in Clients :
              /\ answered[x] \subseteq answered'[x]
              /\ stage'[x] # stage[x] => Request(stage[x]) \in answered'[x]
<1>1. ASSUME UNCHANGED <<answered, stage>>
      PROVE  /\ AnsweredTypeOK'
             /\ \A x \in Clients :
                  /\ answered[x] \subseteq answered'[x]
                  /\ stage'[x] # stage[x] => Request(stage[x]) \in answered'[x]
  BY <1>1 DEF AnsweredTypeOK
<1>2. ASSUME NEW c \in Clients, start(c), UNCHANGED answered
      PROVE  UNCHANGED stage
  BY <1>2 DEF start, Again, startStage, TypeOK
<1>3. ASSUME NEW c \in Clients, UserTypes(c), UNCHANGED answered
      PROVE  UNCHANGED stage
  BY <1>3 DEF UserTypes, enqueueUserDatum
<1>4. ASSUME NEW c \in Clients, NEW d \in Answers, ServerSends(c, d), Remembers(c, d)
      PROVE  /\ AnsweredTypeOK'
             /\ \A x \in Clients :
                  /\ answered[x] \subseteq answered'[x]
                  /\ stage'[x] # stage[x] => Request(stage[x]) \in answered'[x]
  <2>1. d \in Datum /\ StagesFitKind /\ started[c] /\ getConnectionListener(c, d)
    BY <1>4 DEF ServerSends, StagesInv
  <2>2. Shape(c)
    BY <2>1, ListenerShape
  <2>3. toServer[c] # <<>> => LastRequest(c) \in Types
    <3>1. toServer[c] \in Seq(Datum)
      BY DEF TypeOK
    <3>2. toServer[c] # <<>> => toServer[c][Len(toServer[c])] \in Datum
      BY <3>1, LenProperties, ElementOfSeq, EmptySeq
    <3> QED
      BY <3>2 DEF LastRequest, Datum
  <2>4. AnsweredTypeOK' /\ \A x \in Clients : answered[x] \subseteq answered'[x]
    BY <1>4, <2>3 DEF Remembers, AnsweredTypeOK
  <2>5. ASSUME NEW x \in Clients, stage'[x] # stage[x]
        PROVE  Request(stage[x]) \in answered'[x]
    <3>1. x = c
      BY <2>2, <2>5 DEF Shape, StageAdvances, TypeOK
    <3>2. Satisfies(Request(stage[c]), d)
      BY <2>1, <2>5, <3>1, ChangesOnAnswer
    <3>3. Awaits(c)
      <4>1. stage[c] \in Stages /\ stage'[c] \in Stages
        BY <2>2 DEF Shape, TypeOK
      <4> QED
        BY <2>1, <2>2, <2>5, <3>1, <4>1, Following DEF Shape, StageAdvances, Awaits
    <3>4. toServer[c] # <<>> /\ LastRequest(c) = Request(stage[c])
      BY <3>3 DEF StagesInv, InTurn, LastRequest
    <3> QED
      BY <1>4, <3>1, <3>2, <3>4 DEF Remembers, AnsweredTypeOK
  <2> QED
    BY <2>4, <2>5
<1> QED
  BY <1>1, <1>2, <1>3, <1>4 DEF AnsweredNext

(* The steps are those of the clients without the history. *)
LEMMA AnsweredIsNext == [AnsweredNext]_<<vars, answered>> => [Next]_vars
BY DEF AnsweredNext, Next

(* Every step keeps what was asked for behind what was answered. *)
LEMMA AnsweredStep ==
  TypeOK /\ StagesInv /\ AnsweredTypeOK /\ AnsweredInv
    /\ [AnsweredNext]_<<vars, answered>> => AnsweredTypeOK' /\ AnsweredInv'
<1>1. ASSUME AnsweredTypeOK, AnsweredInv, UNCHANGED <<vars, answered>>
      PROVE  AnsweredTypeOK' /\ AnsweredInv'
  BY <1>1 DEF AnsweredTypeOK, AnsweredInv, AskedInTurn, vars, clientVars
<1> SUFFICES ASSUME TypeOK, StagesInv, AnsweredTypeOK, AnsweredInv, AnsweredNext
             PROVE  AnsweredTypeOK' /\ AnsweredInv'
  BY <1>1
<1>2. PICK c \in Clients : Shape(c)
  <2>1. Next
    BY DEF AnsweredNext, Next
  <2> QED
    BY <2>1, StepShape DEF StagesInv
<1>3. WritesOnce(c) /\ StageAdvances(c) /\ TypeOK'
  BY <1>2 DEF Shape
<1>4. /\ AnsweredTypeOK'
      /\ \A x \in Clients :
           /\ answered[x] \subseteq answered'[x]
           /\ stage'[x] # stage[x] => Request(stage[x]) \in answered'[x]
  BY AnsweredGrows
<1>5. ASSUME NEW x \in Clients, stage'[x] # "requestChallenge"
      PROVE  Preceding(x, Request(stage'[x])) \in answered'[x]
  <2>1. CASE stage'[x] = stage[x]
    BY <1>4, <1>5, <2>1 DEF AnsweredInv
  <2>2. CASE stage'[x] # stage[x]
    <3>1. x = c /\ stage[x] \in Stages /\ stage'[x] \in Stages
      BY <1>3, <2>2 DEF StageAdvances, TypeOK
    <3>2. Preceding(x, Request(stage'[x])) = Request(stage[x])
      BY <1>3, <2>2, <3>1, Following DEF StageAdvances
    <3> QED
      BY <1>4, <2>2, <3>2
  <2> QED
    BY <2>1, <2>2
<1>6. ASSUME NEW x \in Clients, NEW i \in 1..Len(toServer'[x]),
             toServer'[x][i].type # "connect"
      PROVE  Preceding(x, toServer'[x][i].type) \in answered'[x]
  <2>1. Len(toServer[x]) \in Nat
    BY LenProperties DEF TypeOK
  <2>2. ASSUME i \in 1..Len(toServer[x]), toServer'[x][i] = toServer[x][i]
        PROVE  Preceding(x, toServer'[x][i].type) \in answered'[x]
    BY <1>4, <1>6, <2>2 DEF AnsweredInv, AskedInTurn
  <2>3. CASE toServer'[x] = toServer[x]
    BY <2>2, <2>3
  <2>4. CASE /\ x = c
             /\ Len(toServer'[c]) = Len(toServer[c]) + 1
             /\ \A k \in 1..Len(toServer[c]) : toServer'[c][k] = toServer[c][k]
             /\ Speaks(toServer'[c][Len(toServer'[c])], stage'[c], queue'[c])
    <3>1. CASE i \in 1..Len(toServer[x])
      BY <2>2, <2>4, <3>1
    <3>2. CASE i = Len(toServer[x]) + 1
      <4>1. toServer'[x][i].type = Request(stage'[x])
        BY <2>4, <3>2 DEF Speaks
      <4>2. stage'[x] # "requestChallenge"
        BY <1>6, <4>1, Ranks
      <4> QED
        BY <1>5, <4>1, <4>2
    <3> QED
      BY <2>1, <2>4, <3>1, <3>2
  <2> QED
    BY <1>3, <2>3, <2>4, NewlyWritten
<1>7. AskedInTurn'
  BY <1>6 DEF AskedInTurn, Preceding
<1>8. ASSUME NEW x \in Clients
      PROVE  (stage[x] # "requestChallenge"
                => Preceding(x, Request(stage[x])) \in answered[x])'
  BY <1>5 DEF Preceding, Request
<1> QED
  BY <1>4, <1>7, <1>8 DEF AnsweredInv

(* A client asks for nothing before it was told that it has what comes before:
   it signs only a challenge it was sent, and neither joins nor sends messages
   unless it was told that it is registered and has joined. *)
THEOREM NothingIsAskedTooSoon == AnsweredSpec => []AskedInTurn
<1>1. AnsweredInit => Init /\ AnsweredTypeOK /\ AnsweredInv
  BY EmptySeq DEF AnsweredInit, Init, AnsweredTypeOK, AnsweredInv, AskedInTurn
<1>2. TypeOK /\ StagesInv /\ [Next]_vars => TypeOK' /\ StagesInv'
  BY TypeStep, StagesStep DEF StagesInv
<1>3. Init => TypeOK /\ StagesInv
  BY TypeInit, StagesInit
<1>4. AnsweredInv => AskedInTurn
  BY DEF AnsweredInv
<1> QED
  BY <1>1, <1>2, <1>3, <1>4, AnsweredIsNext, AnsweredStep, PTL DEF AnsweredSpec

-----------------------------------------------------------------------------
(* Messages *)

(* A queue q of consecutive numbers up to s, after at most k others. *)
Consecutive(q, s, k) ==
  /\ s - Len(q) \in 0..k
  /\ \A i \in 1..Len(q) : q[i] = s - Len(q) + i

(* It is kept, or s + 1 is appended, or its head is taken off. *)
Moves(q, s, k, r, t, l) ==
  \/ r = q /\ t = s /\ l \in {k, k + 1}
  \/ r = Append(q, s + 1) /\ t = s + 1 /\ l = k
  \/ q # <<>> /\ r = Tail(q) /\ t = s /\ l = k + 1

(* It stays consecutive, and nothing is put back in front. *)
LEMMA QueueMoves ==
  ASSUME NEW q \in Seq(Nat), NEW s \in Nat, NEW k \in Nat,
         NEW r, NEW t, NEW l,
         Consecutive(q, s, k), Moves(q, s, k, r, t, l)
  PROVE  /\ Consecutive(r, t, l)
         /\ s - Len(q) <= t - Len(r)
         /\ s <= t
<1> DEFINE n == Len(q)
<1>1. n \in Nat /\ n = Len(q)
  BY LenProperties
<1>0. s - n \in 0..k /\ \A i \in 1..n : q[i] = s - n + i
  BY DEF Consecutive
<1> HIDE DEF n
<1>2. CASE r = q /\ t = s /\ l \in {k, k + 1}
  BY <1>0, <1>1, <1>2 DEF Consecutive
<1>3. CASE r = Append(q, s + 1) /\ t = s + 1 /\ l = k
  <2>1. Len(r) = n + 1 /\ r[n + 1] = s + 1 /\ \A i \in 1..n : r[i] = q[i]
    BY <1>1, <1>3, AppendProperties
  <2>2. t - Len(r) = s - n
    BY <1>1, <1>3, <2>1
  <2>3. ASSUME NEW i \in 1..(n + 1) PROVE r[i] = s - n + i
    <3>1. CASE i \in 1..n
      BY <1>0, <2>1, <3>1
    <3>2. CASE i = n + 1
      BY <1>1, <2>1, <3>2
    <3> QED
      BY <1>1, <3>1, <3>2
  <2>4. \A i \in 1..Len(r) : r[i] = t - Len(r) + i
    BY <2>1, <2>2, <2>3
  <2>5. t - Len(r) \in 0..l /\ s - Len(q) <= t - Len(r) /\ s <= t
    BY <1>0, <1>1, <1>3, <2>2
  <2> QED
    BY <2>4, <2>5 DEF Consecutive
<1>4. CASE q # <<>> /\ r = Tail(q) /\ t = s /\ l = k + 1
  <2>1. n > 0 /\ Len(r) = n - 1
    BY <1>1, <1>4, HeadTailProperties, EmptySeq
  <2>2. \A i \in 1..(n - 1) : r[i] = q[i + 1]
    BY <1>4, <2>1, HeadTailProperties
  <2>3. t - Len(r) = s - n + 1
    BY <1>1, <1>4, <2>1
  <2>4. ASSUME NEW i \in 1..(n - 1) PROVE r[i] = s - n + 1 + i
    <3>1. i + 1 \in 1..n
      BY <1>1
    <3>2. r[i] = s - n + (i + 1)
      BY <1>0, <2>2, <3>1
    <3>3. s - n + (i + 1) = s - n + 1 + i
      BY <1>1, <3>1
    <3> QED
      BY <3>2, <3>3
  <2>5. \A i \in 1..Len(r) : r[i] = t - Len(r) + i
    BY <2>1, <2>3, <2>4
  <2>6. t - Len(r) \in 0..l /\ s - Len(q) <= t - Len(r) /\ s <= t
    BY <1>0, <1>1, <1>4, <2>3
  <2> QED
    BY <2>5, <2>6 DEF Consecutive
<1> QED
  BY <1>2, <1>3, <1>4 DEF Moves

(* Every step moves the queues so. *)
LEMMA QueueStep ==
  ASSUME TypeOK, LastTyped, NEW c \in Clients, Shape(c),
         NEW x \in Clients
  PROVE  /\ Consecutive(queue'[x], sentCount'[x], ackedCount'[x])
         /\ sentCount[x] - Len(queue[x]) <= sentCount'[x] - Len(queue'[x])
         /\ sentCount[x] <= sentCount'[x]
<1>1. queue[x] \in Seq(Nat) /\ sentCount[x] \in Nat /\ ackedCount[x] \in Nat
  BY DEF TypeOK
<1>2. Consecutive(queue[x], sentCount[x], ackedCount[x])
  BY DEF LastTyped, Consecutive
<1>3. Moves(queue[x], sentCount[x], ackedCount[x],
            queue'[x], sentCount'[x], ackedCount'[x])
  <2>1. CASE QueueKept
    BY <2>1 DEF QueueKept, Moves
  <2>2. CASE Typed(c)
    BY <2>2 DEF Typed, TypeOK, Moves
  <2>3. CASE Popped(c)
    BY <2>3 DEF Popped, TypeOK, Moves
  <2> QED
    BY <2>1, <2>2, <2>3 DEF Shape
<1> QED
  BY <1>1, <1>2, <1>3, QueueMoves

(* Every step keeps the queues consecutive and what was written behind
   them. *)
LEMMA MessagesStep ==
  TypeOK /\ StagesFitKind /\ MessagesInv /\ [Next]_vars => MessagesInv'
<1> SUFFICES ASSUME TypeOK, StagesFitKind, MessagesInv, Next PROVE MessagesInv'
  BY DEF MessagesInv, MessagesAdvance, LastTyped, vars, clientVars
<1>1. PICK c \in Clients : Shape(c)
  BY StepShape
<1>2. TypeOK' /\ WritesOnce(c)
  BY <1>1 DEF Shape
<1>3. ASSUME NEW x \in Clients
      PROVE  /\ sentCount'[x] - Len(queue'[x]) \in 0..ackedCount'[x]
             /\ \A i \in 1..Len(queue'[x]) :
                  queue'[x][i] = sentCount'[x] - Len(queue'[x]) + i
             /\ sentCount[x] - Len(queue[x]) <= sentCount'[x] - Len(queue'[x])
             /\ sentCount[x] <= sentCount'[x]
  BY <1>1, <1>3, QueueStep DEF MessagesInv, Consecutive
<1>4. LastTyped'
  BY <1>3 DEF LastTyped
<1>5. ASSUME NEW x \in Clients
      PROVE  \A j \in 1..Len(toServer'[x]) : toServer'[x][j].type = "msg" =>
               /\ toServer'[x][j].msg \in 1..sentCount'[x]
               /\ toServer'[x][j].msg <= sentCount'[x] - Len(queue'[x]) + 1
               /\ \A i \in 1..j : toServer'[x][i].type = "msg"
                                    => toServer'[x][i].msg <= toServer'[x][j].msg
  <2> DEFINE n == Len(toServer[x])
             p == sentCount[x] - Len(queue[x])
             r == sentCount'[x] - Len(queue'[x])
  <2>1. /\ n \in Nat /\ p \in Int /\ r \in Int
        /\ sentCount[x] \in Nat /\ sentCount'[x] \in Nat
        /\ Len(queue'[x]) \in Nat /\ queue'[x] \in Seq(Nat)
    <3>1. toServer[x] \in Seq(Datum) /\ queue[x] \in Seq(Nat)
      BY DEF TypeOK
    <3>2. sentCount[x] \in Nat
      BY DEF TypeOK
    <3>3. queue'[x] \in Seq(Nat) /\ sentCount'[x] \in Nat
      BY <1>2 DEF TypeOK
    <3>4. n \in Nat /\ Len(queue[x]) \in Nat /\ Len(queue'[x]) \in Nat
      BY <3>1, <3>3, LenProperties
    <3> QED
      BY <3>2, <3>3, <3>4
  <2>2. r >= 0 /\ p <= r /\ sentCount[x] <= sentCount'[x]
    BY <1>3
  <2>3. \A j \in 1..n : toServer[x][j].type = "msg" =>
          /\ toServer[x][j].msg \in 1..sentCount[x]
          /\ toServer[x][j].msg <= p + 1
          /\ \A i \in 1..j : toServer[x][i].type = "msg"
                               => toServer[x][i].msg <= toServer[x][j].msg
    BY DEF MessagesInv, MessagesAdvance
  <2>4. \A j \in 1..n : toServer[x][j].type = "msg" =>
          /\ toServer[x][j].msg \in 1..sentCount'[x]
          /\ toServer[x][j].msg <= r + 1
    BY <2>1, <2>2, <2>3
  <2>5. CASE toServer'[x] = toServer[x]
    BY <2>3, <2>4, <2>5
  <2>6. CASE /\ x = c
             /\ Len(toServer'[c]) = Len(toServer[c]) + 1
             /\ \A i \in 1..Len(toServer[c]) : toServer'[c][i] = toServer[c][i]
             /\ Speaks(toServer'[c][Len(toServer'[c])], stage'[c], queue'[c])
    <3>1. \A i \in 1..n : toServer'[x][i] = toServer[x][i]
      BY <2>6
    <3>2. \A i \in 1..(n + 1) : i \in 1..n \/ i = n + 1
      BY <2>1
    <3>3. toServer'[x][n + 1].type = "msg" =>
            /\ toServer'[x][n + 1].msg = r + 1
            /\ r + 1 \in 1..sentCount'[x]
      <4> SUFFICES ASSUME toServer'[x][n + 1].type = "msg"
                   PROVE  /\ toServer'[x][n + 1].msg = r + 1
                          /\ r + 1 \in 1..sentCount'[x]
        OBVIOUS
      <4>1. /\ queue'[x] # <<>>
            /\ toServer'[x][n + 1].msg = Head(queue'[x])
        BY <2>6 DEF Speaks
      <4>2. 1 \in 1..Len(queue'[x]) /\ Head(queue'[x]) = queue'[x][1]
        BY <2>1, <4>1, HeadTailProperties, EmptySeq
      <4>3. queue'[x][1] = r + 1
        BY <1>3, <4>2
      <4> QED
        BY <2>1, <2>2, <4>1, <4>2, <4>3
    <3> SUFFICES ASSUME NEW j \in 1..(n + 1), toServer'[x][j].type = "msg"
                 PROVE  /\ toServer'[x][j].msg \in 1..sentCount'[x]
                        /\ toServer'[x][j].msg <= r + 1
                        /\ \A i \in 1..j : toServer'[x][i].type = "msg"
                              => toServer'[x][i].msg <= toServer'[x][j].msg
      BY <2>6
    <3>4. CASE j \in 1..n
      <4>1. \A i \in 1..j : i \in 1..n
        BY <2>1, <3>4
      <4>2. toServer'[x][j] = toServer[x][j]
        BY <3>1, <3>4
      <4>3. \A i \in 1..j : toServer'[x][i] = toServer[x][i]
        BY <3>1, <4>1
      <4> QED
        BY <2>3, <2>4, <3>4, <4>2, <4>3
    <3>5. CASE j = n + 1
      <4>1. \A i \in 1..(n + 1) : toServer'[x][i].type = "msg"
                                   => toServer'[x][i].msg <= r + 1
        <5> TAKE i \in 1..(n + 1)
        <5>1. CASE i \in 1..n
          BY <2>4, <3>1, <5>1
        <5>2. CASE i = n + 1
          BY <2>1, <3>3, <5>2
        <5> QED
          BY <3>2, <5>1, <5>2
      <4>2. toServer'[x][j].msg = r + 1 /\ r + 1 \in 1..sentCount'[x]
        BY <3>3, <3>5
      <4> QED
        BY <2>1, <3>5, <4>1, <4>2
    <3> QED
      BY <3>2, <3>4, <3>5
  <2> QED
    BY <1>2, <2>5, <2>6, NewlyWritten
<1> QED
  BY <1>4, <1>5 DEF MessagesInv, MessagesAdvance

(* At first nothing was typed or written. *)
LEMMA MessagesInit == Init => MessagesInv
BY EmptySeq DEF Init, MessagesInv, MessagesAdvance, LastTyped

(* A message leaves the queue unwritten only when more acknowledgements have
   come than messages were written. *)
LEMMA ExcessStep == TypeOK /\ StagesFitKind /\ MessagesInv /\ [Next]_vars =>
  [\A c \in Clients : \A n \in Queued(c) \ Queued(c)' :
     n \notin Written(c) => ackedCount'[c] > Cardinality(Written(c))]_vars
<1> SUFFICES ASSUME TypeOK, StagesFitKind, MessagesInv, Next, NEW x \in Clients,
                    NEW n \in Queued(x) \ Queued(x)', n \notin Written(x)
             PROVE  ackedCount'[x] > Cardinality(Written(x))
  OBVIOUS
<1> DEFINE p == sentCount[x] - Len(queue[x])
<1>1. PICK c \in Clients : Shape(c)
  BY StepShape
<1>2. /\ queue[x] \in Seq(Nat) /\ Len(queue[x]) \in Nat
      /\ sentCount[x] \in Nat /\ ackedCount[x] \in Nat
  <2>1. queue[x] \in Seq(Nat) /\ sentCount[x] \in Nat /\ ackedCount[x] \in Nat
    BY DEF TypeOK
  <2> QED
    BY <2>1, LenProperties
<1>3. p \in 0..ackedCount[x] /\ \A i \in 1..Len(queue[x]) : queue[x][i] = p + i
  BY DEF MessagesInv, LastTyped
<1>4. PICK k \in 1..Len(queue[x]) : n = queue[x][k]
  BY DEF Queued
<1>5. queue'[x] # queue[x]
  BY DEF Queued
<1>6. ~QueueKept
  BY <1>5 DEF QueueKept
<1>7. ~Typed(c)
  <2> SUFFICES ASSUME Typed(c) PROVE FALSE
    OBVIOUS
  <2>1. queue'[x] = Append(queue[x], sentCount[x] + 1)
    BY <1>5 DEF Typed, TypeOK
  <2>2. /\ Len(queue'[x]) = Len(queue[x]) + 1
        /\ \A i \in 1..Len(queue[x]) : queue'[x][i] = queue[x][i]
    <3>1. sentCount[x] + 1 \in Nat
      BY <1>2
    <3> QED
      BY <1>2, <2>1, <3>1, AppendProperties
  <2>3. k \in 1..Len(queue'[x])
    BY <1>2, <2>2
  <2>4. n = queue'[x][k]
    BY <1>4, <2>2
  <2> QED
    BY <2>3, <2>4 DEF Queued
<1>8. Popped(c)
  BY <1>1, <1>6, <1>7 DEF Shape
<1>9. /\ x = c /\ queue[x] # <<>> /\ queue'[x] = Tail(queue[x])
      /\ ackedCount'[x] = ackedCount[x] + 1
  BY <1>5, <1>8 DEF Popped, TypeOK
<1>10. k = 1
  <2> SUFFICES ASSUME k # 1 PROVE FALSE
    OBVIOUS
  <2>1. /\ Len(queue'[x]) = Len(queue[x]) - 1
        /\ \A i \in 1..(Len(queue[x]) - 1) : queue'[x][i] = queue[x][i + 1]
    BY <1>2, <1>9, HeadTailProperties
  <2>2. k - 1 \in 1..(Len(queue[x]) - 1) /\ (k - 1) + 1 = k
    BY <1>2
  <2>3. n = queue'[x][k - 1]
    BY <1>4, <2>1, <2>2
  <2> QED
    BY <2>1, <2>2, <2>3 DEF Queued
<1>11. n = p + 1
  BY <1>3, <1>4, <1>10
<1>12. Written(x) \subseteq 1..p
  <2> SUFFICES ASSUME NEW i \in 1..Len(toServer[x]), toServer[x][i].type = "msg",
                      toServer[x][i].msg # n
               PROVE  toServer[x][i].msg \in 1..p
    BY DEF Written
  <2>1. toServer[x][i].msg \in 1..sentCount[x] /\ toServer[x][i].msg <= p + 1
    BY DEF MessagesInv, MessagesAdvance
  <2> DEFINE m == toServer[x][i].msg
  <2>2. m \in 1..sentCount[x] /\ m <= p + 1 /\ m # n
    BY <2>1
  <2> HIDE DEF m
  <2>3. m \in 1..p
    BY <1>2, <1>3, <1>11, <2>2
  <2> QED
    BY <2>3 DEF m
<1>13. Cardinality(Written(x)) \in Nat /\ Cardinality(Written(x)) <= p
  <2>1. p \in Nat
    BY <1>2, <1>3
  <2> HIDE DEF p
  <2>2. IsFiniteSet(1..p) /\ Cardinality(1..p) = p
    <3>1. Cardinality(1..p) = IF 1 > p THEN 0 ELSE p - 1 + 1
      BY <2>1, FS_Interval
    <3>2. Cardinality(1..p) = p
      BY <2>1, <3>1
    <3> QED
      BY <2>1, <3>2, FS_Interval
  <2>3. IsFiniteSet(Written(x)) /\ Cardinality(Written(x)) <= Cardinality(1..p)
    BY <1>12, <2>2, FS_Subset
  <2>4. Cardinality(Written(x)) \in Nat
    BY <2>3, FS_CardinalityType
  <2> QED
    BY <2>2, <2>3, <2>4
<1> DEFINE w == Cardinality(Written(x))
<1>14. w \in Nat /\ w <= p
  BY <1>13
<1> HIDE DEF w
<1>15. ackedCount'[x] > w
  BY <1>2, <1>3, <1>9, <1>14
<1> QED
  BY <1>15 DEF w

(* The server costs a client no message that it has not written, unless it
   acknowledges more than it was sent. *)
THEOREM NothingIsLostUnlessInExcess == Spec => LostOnlyInExcess
BY TypeInit, TypeStep, MessagesInit, MessagesStep, ExcessStep, PTL
   DEF Spec, LostOnlyInExcess

(* Messages are written in the order they were typed. *)
THEOREM MessagesAreNotOvertaken == Spec => []MessagesAdvance
<1>1. MessagesInv => MessagesAdvance
  BY DEF MessagesInv
<1> QED
  BY <1>1, TypeInit, TypeStep, MessagesInit, MessagesStep, PTL DEF Spec
=============================================================================

------------------------- MODULE ConversationProofs -------------------------
(***************************************************************************)
(* What is proved of what users hear from each other: clients and server   *)
(* together implement Conversation.                                        *)
(***************************************************************************)
EXTENDS ChatSystemProofs

USE WireAssumption, SystemAssumption

-----------------------------------------------------------------------------
(* Queues *)

(* The head of a queue is the latest to have been there. *)
LEMMA HeadIsLast ==
  ASSUME NEW q \in Seq(Nat), NEW s \in Nat, q # <<>>, Len(q) <= s,
         \A i \in 1..Len(q) : q[i] + Len(q) = s + i
  PROVE  /\ Head(q) \in 1..s /\ Head(q) + Len(q) <= s + 1
         /\ \A n \in Nat : n + Len(q) <= s + 1 => n <= Head(q)
<1>1. Head(q) = q[1] /\ Len(q) \in Nat /\ Len(q) >= 1 /\ Head(q) \in Nat
  BY TailItems
<1>2. q[1] + Len(q) = s + 1
  BY <1>1
<1> QED
  BY <1>1, <1>2

(* An enqueue puts the next ordinal at the end. *)
LEMMA QueueGrows ==
  ASSUME NEW q \in Seq(Nat), NEW s \in Nat, Len(q) <= s,
         \A i \in 1..Len(q) : q[i] + Len(q) = s + i
  PROVE  LET r == Append(q, s + 1) IN
           /\ Len(r) = Len(q) + 1 /\ Len(r) <= s + 1
           /\ \A i \in 1..Len(r) : r[i] + Len(r) = (s + 1) + i
<1> DEFINE t == s + 1
           r == Append(q, t)
<1>1. t \in Nat /\ t = s + 1
  OBVIOUS
<1> HIDE DEF t
<1>2. /\ Len(r) = Len(q) + 1 /\ r[Len(q) + 1] = t
      /\ \A i \in 1..Len(q) : r[i] = q[i]
  BY <1>1, AppendProperties
<1>3. Len(q) \in Nat
  OBVIOUS
<1>4. ASSUME NEW i \in 1..Len(r) PROVE r[i] + Len(r) = t + i
  <2>1. CASE i \in 1..Len(q)
    <3>1. r[i] = q[i] /\ q[i] + Len(q) = s + i /\ q[i] \in Nat
      BY <1>2, <2>1
    <3> HIDE DEF r
    <3>2. i \in Nat
      BY <1>3, <2>1
    <3>3. q[i] + (Len(q) + 1) = (s + 1) + i
      <4> DEFINE x == q[i]
                 n == Len(q)
      <4>1. x \in Nat /\ n \in Nat /\ i \in Nat /\ x + n = s + i
        BY <1>3, <3>1, <3>2
      <4> HIDE DEF x, n
      <4>2. x + (n + 1) = (s + 1) + i
        BY <4>1
      <4> QED
        BY <4>2 DEF x, n
    <3>4. Len(r) = Len(q) + 1
      BY <1>2
    <3> QED
      BY <1>1, <3>1, <3>3, <3>4
  <2>2. CASE i \notin 1..Len(q)
    <3>1. i = Len(q) + 1
      BY <1>2, <1>3, <2>2
    <3> HIDE DEF r
    <3> QED
      BY <1>1, <1>2, <1>3, <3>1
  <2> QED
    BY <2>1, <2>2
<1> HIDE DEF r
<1> QED
  BY <1>1, <1>2, <1>3, <1>4 DEF r, t

(* An acknowledgement takes the first off. *)
LEMMA QueueShrinks ==
  ASSUME NEW q \in Seq(Nat), NEW s \in Nat, q # <<>>, Len(q) <= s,
         \A i \in 1..Len(q) : q[i] + Len(q) = s + i
  PROVE  /\ Len(Tail(q)) = Len(q) - 1
         /\ \A i \in 1..Len(Tail(q)) : Tail(q)[i] + Len(Tail(q)) = s + i
<1>1. /\ Len(q) \in Nat /\ Len(q) >= 1 /\ Len(Tail(q)) = Len(q) - 1
      /\ \A i \in 1..Len(Tail(q)) : Tail(q)[i] = q[i + 1] /\ i + 1 \in 1..Len(q)
  BY TailItems
<1>2. ASSUME NEW i \in 1..Len(Tail(q)) PROVE Tail(q)[i] + Len(Tail(q)) = s + i
  <2>1. /\ Tail(q)[i] = q[i + 1] /\ q[i + 1] + Len(q) = s + (i + 1)
        /\ i \in Nat /\ q[i + 1] \in Nat
    BY <1>1
  <2>2. q[i + 1] + (Len(q) - 1) = s + i
    <3> DEFINE x == q[i + 1]
               n == Len(q)
    <3>1. x \in Nat /\ n \in Nat /\ i \in Nat /\ x + n = s + (i + 1)
      BY <2>1
    <3> HIDE DEF x, n
    <3>2. x + (n - 1) = s + i
      BY <3>1
    <3> QED
      BY <3>2 DEF x, n
  <2> QED
    BY <1>1, <2>1, <2>2
<1> QED
  BY <1>1, <1>2

(* The three things a step does to the queues. *)
QueueStep(c) ==
  \/ UNCHANGED <<queue, sentCount>>
  \/ /\ sentCount' = [sentCount EXCEPT ![c] = @ + 1]
     /\ queue' = [queue EXCEPT ![c] = Append(@, sentCount[c] + 1)]
  \/ /\ queue' = [queue EXCEPT ![c] = IF @ = <<>> THEN @ ELSE Tail(@)]
     /\ UNCHANGED sentCount

(* Typing and counting an acknowledgement keep the queue the latest messages,
   and what was once at its head stays behind it. *)
LEMMA QueueKept ==
  ASSUME SystemTypes, SystemTypes', QueueInv, NEW c \in Clients, QueueStep(c)
  PROVE  /\ QueueInv'
         /\ \A a \in Clients : \A n \in Nat : WasFirst(a, n) => WasFirst(a, n)'
<1> SUFFICES ASSUME NEW a \in Clients
             PROVE  /\ Len(queue'[a]) <= sentCount'[a]
                    /\ \A i \in 1..Len(queue'[a]) :
                         queue'[a][i] + Len(queue'[a]) = sentCount'[a] + i
                    /\ \A n \in Nat : WasFirst(a, n) => WasFirst(a, n)'
  BY DEF QueueInv
<1>0. queue[a] \in Seq(Nat) /\ sentCount[a] \in Nat
  BY DEF SystemTypes
<1>1. /\ queue[a] \in Seq(Nat) /\ sentCount[a] \in Nat
      /\ Len(queue[a]) \in Nat /\ Len(queue[a]) <= sentCount[a]
      /\ \A i \in 1..Len(queue[a]) : queue[a][i] + Len(queue[a]) = sentCount[a] + i
  BY <1>0 DEF QueueInv
<1>2. CASE queue'[a] = queue[a] /\ sentCount'[a] = sentCount[a]
  BY <1>1, <1>2 DEF WasFirst
<1>3. CASE queue'[a] = Append(queue[a], sentCount[a] + 1) /\ sentCount'[a] = sentCount[a] + 1
  <2>1. /\ Len(queue'[a]) = Len(queue[a]) + 1 /\ Len(queue'[a]) <= sentCount[a] + 1
        /\ \A i \in 1..Len(queue'[a]) :
             queue'[a][i] + Len(queue'[a]) = (sentCount[a] + 1) + i
    BY <1>1, <1>3, QueueGrows
  <2>2. sentCount'[a] = sentCount[a] + 1
    BY <1>3
  <2>3. \A n \in Nat : WasFirst(a, n) => WasFirst(a, n)'
    BY <1>1, <2>1, <2>2 DEF WasFirst
  <2> QED
    BY <2>1, <2>2, <2>3
<1>4. CASE queue[a] # <<>> /\ queue'[a] = Tail(queue[a]) /\ sentCount'[a] = sentCount[a]
  <2>0. /\ Len(Tail(queue[a])) = Len(queue[a]) - 1
        /\ \A i \in 1..Len(Tail(queue[a])) :
             Tail(queue[a])[i] + Len(Tail(queue[a])) = sentCount[a] + i
    BY <1>1, <1>4, QueueShrinks
  <2>1. /\ Len(queue'[a]) = Len(queue[a]) - 1
        /\ \A i \in 1..Len(queue'[a]) : queue'[a][i] + Len(queue'[a]) = sentCount[a] + i
    BY <1>4, <2>0
  <2>2. \A n \in Nat : WasFirst(a, n) => WasFirst(a, n)'
    BY <1>1, <1>4, <2>1 DEF WasFirst
  <2> QED
    BY <1>1, <1>4, <2>1, <2>2
<1>5. \/ queue'[a] = queue[a] /\ sentCount'[a] = sentCount[a]
      \/ queue'[a] = Append(queue[a], sentCount[a] + 1) /\ sentCount'[a] = sentCount[a] + 1
      \/ queue[a] # <<>> /\ queue'[a] = Tail(queue[a]) /\ sentCount'[a] = sentCount[a]
  <2>1. CASE UNCHANGED <<queue, sentCount>>
    BY <2>1
  <2>2. CASE /\ sentCount' = [sentCount EXCEPT ![c] = @ + 1]
             /\ queue' = [queue EXCEPT ![c] = Append(@, sentCount[c] + 1)]
    BY <2>2 DEF SystemTypes
  <2>3. CASE /\ queue' = [queue EXCEPT ![c] = IF @ = <<>> THEN @ ELSE Tail(@)]
             /\ UNCHANGED sentCount
    BY <2>3 DEF SystemTypes
  <2> QED
    BY <2>1, <2>2, <2>3 DEF QueueStep
<1> QED
  BY <1>2, <1>3, <1>4, <1>5

-----------------------------------------------------------------------------
(* Sequences of datums in order *)

(* A message that comes after its author's others may follow them. *)
LEMMA InOrderAppend ==
  ASSUME NEW s \in Seq(Datum), NEW d \in Datum, InOrder(s),
         \A e \in ToSet(s) :
           d.type = "msg" /\ e.type = "msg" /\ e.from = d.from => e.msg <= d.msg
  PROVE  InOrder(Append(s, d))
<1> DEFINE t == Append(s, d)
<1>1. /\ Len(t) = Len(s) + 1 /\ Len(s) \in Nat
      /\ \A i \in 1..Len(s) : t[i] = s[i]
      /\ t[Len(s) + 1] = d
  BY AppendProperties
<1>2. \A i \in 1..Len(s) : s[i] \in ToSet(s)
  BY DEF ToSet
<1> HIDE DEF t
<1>3. ASSUME NEW i \in 1..Len(t), NEW j \in 1..Len(t), i < j,
             t[i].type = "msg", t[j].type = "msg", t[i].from = t[j].from
      PROVE  t[i].msg <= t[j].msg
  <2>1. i \in 1..Len(s)
    BY <1>1, <1>3
  <2>2. CASE j \in 1..Len(s)
    BY <1>1, <1>3, <2>1, <2>2 DEF InOrder
  <2>3. CASE j \notin 1..Len(s)
    <3>1. j = Len(s) + 1
      BY <1>1, <2>3
    <3>2. t[j] = d /\ t[i] = s[i] /\ s[i] \in ToSet(s)
      BY <1>1, <1>2, <2>1, <3>1
    <3> QED
      BY <1>3, <3>2
  <2> QED
    BY <2>2, <2>3
<1> QED
  BY <1>3 DEF InOrder, t

(* What follows the first datum is in order, and after it. *)
LEMMA InOrderTail ==
  ASSUME NEW s \in Seq(Datum), s # <<>>, InOrder(s)
  PROVE  /\ InOrder(Tail(s))
         /\ \A e \in ToSet(Tail(s)) :
              Head(s).type = "msg" /\ e.type = "msg" /\ Head(s).from = e.from
                => Head(s).msg <= e.msg
<1> DEFINE t == Tail(s)
<1>1. /\ t \in Seq(Datum) /\ Head(s) = s[1] /\ Len(s) \in Nat /\ Len(s) >= 1
      /\ Len(t) = Len(s) - 1
      /\ \A i \in 1..Len(t) : t[i] = s[i + 1] /\ i + 1 \in 1..Len(s)
  BY TailItems
<1> HIDE DEF t
<1>2. ASSUME NEW i \in 1..Len(t), NEW j \in 1..Len(t), i < j,
             t[i].type = "msg", t[j].type = "msg", t[i].from = t[j].from
      PROVE  t[i].msg <= t[j].msg
  <2>1. /\ t[i] = s[i + 1] /\ i + 1 \in 1..Len(s)
        /\ t[j] = s[j + 1] /\ j + 1 \in 1..Len(s)
    BY <1>1
  <2>2. i + 1 < j + 1
    BY <1>2
  <2> QED
    BY <1>2, <2>1, <2>2 DEF InOrder
<1>3. ASSUME NEW e \in ToSet(t), s[1].type = "msg", e.type = "msg", s[1].from = e.from
      PROVE  s[1].msg <= e.msg
  <2>1. PICK i \in 1..Len(t) : e = t[i]
    BY <1>1 DEF ToSet
  <2>2. e = s[i + 1] /\ i + 1 \in 1..Len(s) /\ 1 < i + 1 /\ 1 \in 1..Len(s)
    BY <1>1, <2>1
  <2> QED
    BY <1>3, <2>2 DEF InOrder
<1> QED
  BY <1>1, <1>2, <1>3 DEF InOrder, t

-----------------------------------------------------------------------------
(* What a client's step does to messages. *)

(* c writes nothing, or one datum; if a message, the head of its queue. *)
SaysHead(c) ==
  \/ UNCHANGED toServer
  \/ \E d : /\ Wrote(c, d) /\ Says(c, d)
            /\ d.type = "msg" => queue'[c] # <<>> /\ d.msg = Head(queue'[c])

(* A stage that starts with a message starts with the head of the queue. *)
LEMMA EntersSaysHead ==
  ASSUME NEW c \in Clients, NEW st \in C!Stages, NEW n, EntersStage(c, st, n),
         UNCHANGED queue
  PROVE  SaysHead(c)
<1>1. ASSUME NEW d, Opens(c, d, st, n), d.type = "msg"
      PROVE  queue[c] # <<>> /\ d.msg = Head(queue[c])
  BY <1>1 DEF Opens, C!Stages, C!MessageStages
<1>2. ASSUME NEW d, Opens(c, d, st, n) PROVE Wrote(c, d)
  BY <1>2 DEF Opens
<1> QED
  BY <1>1, <1>2 DEF EntersStage, SaysHead

(* What c hears: nothing, or r. *)
HearsOrNot(c, r) ==
  \/ UNCHANGED heard
  \/ /\ stage[c] \in C!MessageStages /\ r.type = "msg"
     /\ stage[c] = "privateMessage" => C!Decrypts(c, r)
     /\ heard' = [heard EXCEPT ![c] = Append(@, <<r.from, r.msg>>)]

(* A client's step, with r for what it reads in it. *)
TalkStep(c) ==
  /\ QueueStep(c)
  /\ SaysHead(c)
  /\ UNCHANGED sentCount \/ UNCHANGED heard
  /\ \/ UNCHANGED <<toClient, heard>>
     \/ /\ toClient[c] # <<>>
        /\ toClient' = [toClient EXCEPT ![c] = Tail(@)]
        /\ HearsOrNot(c, Head(toClient[c]))

(* start(), enqueueUserDatum and the connection listener, as far as a
   conversation goes. *)
LEMMA Talks ==
  ASSUME SystemTypes, ClientsInv, NEW c \in Clients,
         Starts(c) \/ UserTypes(c) \/ ClientReceives(c)
  PROVE  TalkStep(c)
<1>1. StageFits
  BY ClientsParts
<1>2. stage[c] \in C!Stages
  BY DEF SystemTypes
<1>3. CASE Starts(c)
  <2>1. /\ EntersStage(c, stage[c], challengeSig[c])
        /\ UNCHANGED <<queue, sentCount, heard>> /\ UNCHANGED toClient
    BY <1>1, <1>3, Started DEF Starts, serverVars
  <2> QED
    BY <1>2, <2>1, EntersSaysHead DEF QueueStep, TalkStep
<1>4. CASE UserTypes(c)
  <2>1. Enqueues(c) /\ UNCHANGED toClient
    BY <1>1, <1>4, Typed DEF UserTypes, serverVars
  <2>2. queue'[c] # <<>>
    <3>1. queue'[c] = Append(queue[c], sentCount[c] + 1) /\ queue[c] \in Seq(Nat)
      BY <2>1 DEF Enqueues, SystemTypes
    <3>2. sentCount[c] + 1 \in Nat
      BY DEF SystemTypes
    <3> QED
      BY <3>1, <3>2, AppendItems
  <2>3. SaysHead(c)
    BY <2>1, <2>2 DEF Enqueues, SaysHead
  <2> QED
    BY <2>1, <2>3 DEF Enqueues, QueueStep, TalkStep
<1>5. CASE ClientReceives(c)
  <2> DEFINE r == Head(toClient[c])
  <2>1. S!Read(c) /\ C!getConnectionListener(c, r)
    BY <1>5 DEF ClientReceives
  <2>2. /\ r \in Datum /\ toClient[c] # <<>>
        /\ toClient' = [toClient EXCEPT ![c] = Tail(@)]
    BY <2>1, ReadTypes DEF S!Read
  <2> HIDE DEF r
  <2>3. Proceeds(c, r) \/ Counts(c, r) \/ Drops(c, r)
    BY <1>1, <2>1, <2>2, Listened
  <2>4. CASE Proceeds(c, r)
    <3>1. SaysHead(c)
      BY <2>4, EntersSaysHead DEF Proceeds
    <3>2. HearsOrNot(c, r)
      <4>1. CASE stage[c] \in C!MessageStages /\ r.type = "msg"
        BY <2>4, <4>1 DEF Proceeds, Hears, HearsOrNot
      <4>2. CASE ~(stage[c] \in C!MessageStages /\ r.type = "msg")
        BY <2>4, <4>2 DEF Proceeds, Hears, HearsOrNot, SystemTypes
      <4> QED
        BY <4>1, <4>2
    <3> QED
      BY <2>2, <2>4, <3>1, <3>2 DEF Proceeds, QueueStep, TalkStep, r
  <2>5. CASE Counts(c, r)
    BY <2>2, <2>5 DEF Counts, QueueStep, SaysHead, HearsOrNot, TalkStep, r
  <2>6. CASE Drops(c, r)
    BY <2>2, <2>6 DEF Drops, QueueStep, SaysHead, HearsOrNot, TalkStep, r
  <2> QED
    BY <2>3, <2>4, <2>5, <2>6
<1> QED
  BY <1>3, <1>4, <1>5

-----------------------------------------------------------------------------
(* How messages move *)

(* What a datum is does not change with the state. *)
LEMMA SameAuthors ==
  ASSUME NEW a, NEW c, NEW d
  PROVE  /\ Wrote(a, d)' <=> Wrote(a, d)
         /\ IsSentTo(a, c)' <=> IsSentTo(a, c)
         /\ Conversation!Reaches(a, c)' <=> Conversation!Reaches(a, c)
BY DEF Wrote, IsSentTo, Conversation!Reaches

(* The messages of a and c, by the datums that hold them. *)
LEMMA Whereabouts ==
  ASSUME SystemTypes, NEW a \in Clients, NEW c \in Clients
  PROVE  /\ \A d \in ToSet(toServer[a]) : d.type = "msg" => d.msg \in Written(a)
         /\ \A d \in ToSet(toClient[c]) :
              d.type = "msg" /\ d.from = KeyOf[a] => d.msg \in Coming(a, c)
         /\ \A h \in ToSet(heard[c]) : h[1] = KeyOf[a] => h[2] \in Told(a, c)
         /\ \A n \in Written(a) : \E d \in ToSet(toServer[a]) :
              d.type = "msg" /\ n = d.msg
         /\ \A n \in Coming(a, c) : \E d \in ToSet(toClient[c]) :
              d.type = "msg" /\ d.from = KeyOf[a] /\ n = d.msg
         /\ \A n \in Told(a, c) : \E h \in ToSet(heard[c]) :
              h[1] = KeyOf[a] /\ n = h[2]
BY DEF Written, Coming, Told

(* A message is heard that was coming, comes that was written, and is written
   that is the head of the queue; and nothing is left behind it there. *)
MovesOn(a, c) ==
  /\ \A n \in Told(a, c)' :
       n \in Told(a, c) \/ (n \in Coming(a, c) /\ \A m \in Coming(a, c)' : n <= m)
  /\ \A n \in Coming(a, c)' :
       n \in Coming(a, c) \/ (n \in Written(a) /\ \A m \in Written(a)' : n <= m)
  /\ \A n \in Written(a)' :
       n \in Written(a) \/ (queue'[a] # <<>> /\ n = Head(queue'[a]))

(* What moves on like this stays in order. *)
LEMMA MovesInOrder ==
  ASSUME SystemTypes', QueueInv', NEW a \in Clients, NEW c \in Clients,
         \A n \in Nat : WasFirst(a, n) => WasFirst(a, n)',
         \A n \in Written(a) : WasFirst(a, n),
         Ordered(a, c), MovesOn(a, c)
  PROVE  Ordered(a, c)' /\ \A n \in Written(a)' : WasFirst(a, n)'
<1>1. \A n : WasFirst(a, n) => n \in Nat
  BY DEF WasFirst
<1>2. \A n : WasFirst(a, n)' => n \in Nat
  BY DEF WasFirst
<1>3. ASSUME queue'[a] # <<>>, NEW h, h = Head(queue'[a])
      PROVE  WasFirst(a, h)' /\ \A n : WasFirst(a, n)' => n <= h
  <2>1. queue'[a] \in Seq(Nat) /\ sentCount'[a] \in Nat
    BY DEF SystemTypes
  <2>2. /\ Len(queue'[a]) <= sentCount'[a]
        /\ \A i \in 1..Len(queue'[a]) : queue'[a][i] + Len(queue'[a]) = sentCount'[a] + i
    BY DEF QueueInv
  <2>3. /\ h \in 1..sentCount'[a] /\ h + Len(queue'[a]) <= sentCount'[a] + 1
        /\ \A n \in Nat : n + Len(queue'[a]) <= sentCount'[a] + 1 => n <= h
    BY <1>3, <2>1, <2>2, HeadIsLast
  <2> QED
    BY <1>2, <2>3 DEF WasFirst
<1>4. \A n \in Coming(a, c)' \cup Told(a, c)' : WasFirst(a, n)'
  <2>1. \A n \in Coming(a, c) \cup Told(a, c) \cup Written(a) : WasFirst(a, n)'
    BY <1>1 DEF Ordered
  <2>2. \A n \in Coming(a, c)' : n \in Coming(a, c) \/ n \in Written(a)
    BY DEF MovesOn
  <2>3. \A n \in Told(a, c)' : n \in Told(a, c) \/ n \in Coming(a, c)
    BY DEF MovesOn
  <2> QED
    BY <2>1, <2>2, <2>3
<1>5. \A n \in Written(a)' : WasFirst(a, n)'
  BY <1>1, <1>3 DEF MovesOn
<1>6. NoneAfter(Told(a, c), Coming(a, c))'
  BY DEF Ordered, MovesOn, NoneAfter
<1>7. NoneAfter(Told(a, c) \cup Coming(a, c), Written(a))'
  BY <1>3, <1>4 DEF Ordered, MovesOn, NoneAfter
<1> QED
  BY <1>4, <1>5, <1>6, <1>7 DEF Ordered

(* What comes to c or was written by a, after a step. *)
LEMMA Whence ==
  ASSUME NEW a \in Clients, NEW c \in Clients
  PROVE  /\ \A n \in Written(a)' : \E d \in ToSet(toServer'[a]) :
              d.type = "msg" /\ n = d.msg
         /\ \A n \in Coming(a, c)' : \E d \in ToSet(toClient'[c]) :
              d.type = "msg" /\ d.from = KeyOf[a] /\ n = d.msg
         /\ \A n \in Told(a, c)' : \E h \in ToSet(heard'[c]) :
              h[1] = KeyOf[a] /\ n = h[2]
BY DEF Written, Coming, Told

(* What x is told in a client's step it has just read. *)
LEMMA NewlyTold ==
  ASSUME SystemTypes, NEW c \in Clients, TalkStep(c), NEW a \in Clients, NEW x \in Clients,
         NEW n \in Told(a, x)', n \notin Told(a, x)
  PROVE  LET r == Head(toClient[c]) IN
           /\ x = c /\ toClient[c] # <<>> /\ toClient'[c] = Tail(toClient[c])
           /\ r \in ToSet(toClient[c])
           /\ r.type = "msg" /\ r.from = KeyOf[a] /\ n = r.msg
           /\ stage[c] \in C!MessageStages
           /\ heard'[c] = Append(heard[c], <<r.from, r.msg>>)
<1> DEFINE r == Head(toClient[c])
<1>1. heard'[x] # heard[x]
  BY DEF Told
<1>2. /\ toClient[c] # <<>> /\ toClient' = [toClient EXCEPT ![c] = Tail(@)]
      /\ r.type = "msg" /\ stage[c] \in C!MessageStages
      /\ heard' = [heard EXCEPT ![c] = Append(@, <<r.from, r.msg>>)]
  BY <1>1 DEF TalkStep, HearsOrNot
<1>3. /\ x = c /\ heard'[x] = Append(heard[x], <<r.from, r.msg>>)
      /\ toClient'[c] = Tail(toClient[c])
  BY <1>1, <1>2 DEF SystemTypes
<1>4. r \in Datum /\ r \in ToSet(toClient[c])
  BY <1>2, TailItems DEF SystemTypes
<1>5. ToSet(heard'[x]) = ToSet(heard[x]) \cup {<<r.from, r.msg>>}
  <2> DEFINE T == (Keys \cup {NoKey}) \X Nat
             h == <<r.from, r.msg>>
  <2>1. h \in T /\ heard[c] \in Seq(T)
    BY <1>4 DEF Datum, SystemTypes
  <2> HIDE DEF h, T
  <2>2. ToSet(Append(heard[c], h)) = ToSet(heard[c]) \cup {h}
    BY <2>1, AppendSet
  <2> QED
    BY <1>3, <2>2 DEF h
<1> HIDE DEF r
<1>6. PICK h \in ToSet(heard'[x]) : h[1] = KeyOf[a] /\ n = h[2]
  BY Whence
<1>7. h \notin ToSet(heard[x])
  BY <1>6 DEF Told
<1>8. h = <<r.from, r.msg>>
  BY <1>5, <1>6, <1>7
<1> QED
  BY <1>2, <1>3, <1>4, <1>6, <1>8 DEF r

(* A client's step moves messages on. *)
LEMMA TalkMoves ==
  ASSUME SystemTypes, NEW c \in Clients, TalkStep(c), InOrder(toClient[c]),
         NEW a \in Clients, NEW x \in Clients
  PROVE  MovesOn(a, x)
<1> DEFINE r == Head(toClient[c])
<1>1. /\ toServer[a] \in Seq(Datum) /\ toServer[c] \in Seq(Datum)
      /\ toClient[c] \in Seq(Datum) /\ toClient[x] \in Seq(Datum)
      /\ heard[c] \in Seq((Keys \cup {NoKey}) \X Nat)
  BY DEF SystemTypes
<1>2. \A n \in Written(a)' : n \in Written(a) \/ (queue'[a] # <<>> /\ n = Head(queue'[a]))
  <2>1. CASE toServer'[a] = toServer[a]
    BY <2>1 DEF Written
  <2>2. ASSUME a = c, NEW d, Wrote(c, d), toServer'[a] = Append(toServer[a], d),
               d.type = "msg" => queue'[c] # <<>> /\ d.msg = Head(queue'[c])
        PROVE  \A n \in Written(a)' :
                 n \in Written(a) \/ (queue'[a] # <<>> /\ n = Head(queue'[a]))
    <3>1. ToSet(toServer'[a]) = ToSet(toServer[a]) \cup {d}
      BY <1>1, <2>2, AppendSet DEF Wrote
    <3> QED
      BY <2>2, <3>1 DEF Written
  <2>3. CASE UNCHANGED toServer
    BY <2>1, <2>3
  <2>4. ASSUME NEW d, Wrote(c, d), Says(c, d),
               d.type = "msg" => queue'[c] # <<>> /\ d.msg = Head(queue'[c])
        PROVE  \A n \in Written(a)' :
                 n \in Written(a) \/ (queue'[a] # <<>> /\ n = Head(queue'[a]))
    <3>1. toServer'[a] = IF a = c THEN Append(toServer[a], d) ELSE toServer[a]
      BY <2>4 DEF Says, SystemTypes
    <3> QED
      BY <2>1, <2>2, <2>4, <3>1
  <2> QED
    BY <2>3, <2>4 DEF TalkStep, SaysHead
<1>3. \A d \in ToSet(toClient'[x]) :
        /\ d \in ToSet(toClient[x])
        /\ x = c /\ toClient' # toClient /\ r.type = "msg" /\ d.type = "msg" /\ r.from = d.from
             => r.msg <= d.msg
  <2>1. CASE toClient'[x] = toClient[x] /\ (x = c => toClient' = toClient)
    BY <2>1
  <2>2. CASE x = c /\ toClient[c] # <<>> /\ toClient'[x] = Tail(toClient[x])
    <3>1. /\ ToSet(Tail(toClient[c])) \subseteq ToSet(toClient[c])
      BY <1>1, <2>2, TailItems
    <3> QED
      BY <1>1, <2>2, <3>1, InOrderTail
  <2>3. \/ toClient' = toClient
        \/ toClient[c] # <<>> /\ toClient' = [toClient EXCEPT ![c] = Tail(@)]
    BY DEF TalkStep
  <2>4. CASE toClient' = toClient
    BY <2>1, <2>4
  <2>5. CASE toClient[c] # <<>> /\ toClient' = [toClient EXCEPT ![c] = Tail(@)]
    <3>1. toClient'[x] = IF x = c THEN Tail(toClient[x]) ELSE toClient[x]
      BY <2>5 DEF SystemTypes
    <3> QED
      BY <2>1, <2>2, <2>5, <3>1
  <2> QED
    BY <2>3, <2>4, <2>5
<1>4. \A n \in Coming(a, x)' : n \in Coming(a, x)
  BY <1>3 DEF Coming
<1>5. ASSUME NEW n \in Told(a, x)', n \notin Told(a, x)
      PROVE  n \in Coming(a, x) /\ \A m \in Coming(a, x)' : n <= m
  <2>1. /\ x = c /\ toClient[c] # <<>> /\ toClient'[c] = Tail(toClient[c])
        /\ r \in ToSet(toClient[c])
        /\ r.type = "msg" /\ r.from = KeyOf[a] /\ n = r.msg
    BY <1>5, NewlyTold
  <2>2. toClient' # toClient
    <3>1. Len(toClient'[c]) # Len(toClient[c])
      BY <1>1, <2>1, TailItems
    <3> QED
      BY <3>1
  <2> HIDE DEF r
  <2>3. n \in Coming(a, x)
    BY <2>1, Whereabouts
  <2>4. ASSUME NEW m \in Coming(a, x)' PROVE n <= m
    <3>1. PICK d \in ToSet(toClient'[x]) : d.type = "msg" /\ d.from = KeyOf[a] /\ m = d.msg
      BY <2>4, Whence
    <3> QED
      BY <1>3, <2>1, <2>2, <3>1
  <2> QED
    BY <2>3, <2>4
<1> QED
  BY <1>2, <1>4, <1>5 DEF MovesOn

(* What is written to x when a request d of c is handled: d, if it is a
   message for x, and an answer or none. *)
IsWritten(c, d, x) ==
  \E q : /\ \/ q = toClient[x]
            \/ d.type = "msg" /\ IsSentTo(c, x) /\ q = Append(toClient[x], d)
         /\ \/ toClient'[x] = q
            \/ \E r \in Datum : r.type # "msg" /\ toClient'[x] = Append(q, r)

(* handleClientData takes a message to clients it is for, and to each behind
   what is on its way there. *)
LEMMA Served ==
  ASSUME SystemTypes, ClientsInv, TablesInv, NEW c \in Clients, ServerReceives(c),
         NEW x \in Clients
  PROVE  IsWritten(c, Head(toServer[c]), x)
<1> DEFINE d == Head(toServer[c])
<1>1. Wrote(c, d) /\ Handles(c, d)
  BY Handled
<1> SUFFICES IsWritten(c, d, x)
  OBVIOUS
<1> HIDE DEF d
<1>2. ASSUME \E r \in Datum : r.type # "msg" /\ Answers(c, r)
      PROVE  IsWritten(c, d, x)
  <2>1. PICK r \in Datum : r.type # "msg" /\ Answers(c, r)
    BY <1>2
  <2>2. toClient'[x] = toClient[x] \/ toClient'[x] = Append(toClient[x], r)
    BY <2>1 DEF Answers
  <2> QED
    BY <2>1, <2>2 DEF IsWritten
<1>3. CASE Challenges(c, d)
  <2>1. challenge[c] \in Nat
    BY DEF SystemTypes
  <2>2. challenge[c] + 1 \in Nat
    BY <2>1
  <2>3. AskVerify(challenge[c] + 1) \in Datum /\ AskVerify(challenge[c] + 1).type # "msg"
    BY <2>2, ReplyTypes
  <2> QED
    BY <1>2, <1>3, <2>3 DEF Challenges
<1>4. CASE Admits(c, d)
  BY <1>2, <1>4, ReplyTypes DEF Admits
<1>5. CASE JoinsChannel(c, d)
  BY <1>2, <1>5, ReplyTypes DEF JoinsChannel
<1>6. CASE Delivers(c, d)
  <2> DEFINE out == IF x \in S!Recipients(c, d) THEN Append(toClient[x], d)
                    ELSE toClient[x]
             r == Success("MESSAGE SENT")
  <2>1. toClient'[x] = IF x = c THEN Append(out, r) ELSE out
    BY <1>1, <1>6, DeliveredTo DEF Wrote
  <2>2. r \in Datum /\ r.type # "msg"
    BY ReplyTypes
  <2>3. d.type = "msg"
    BY <1>6 DEF Delivers
  <2>4. x \in S!Recipients(c, d) => IsSentTo(c, x)
    BY <1>1, <2>3, RecipientsAre DEF IsSentTo, Conversation!Reaches
  <2>5. out = toClient[x] \/ (IsSentTo(c, x) /\ out = Append(toClient[x], d))
    BY <2>4
  <2> HIDE DEF out, r
  <2>6. toClient'[x] = out \/ \E e \in Datum : e.type # "msg" /\ toClient'[x] = Append(out, e)
    BY <2>1, <2>2
  <2> QED
    BY <2>3, <2>5, <2>6 DEF IsWritten
<1>7. CASE Ignores(c, d)
  BY <1>7 DEF Ignores, IsWritten
<1>8. CASE Refuses(c, d)
  <2>1. PICK text \in Texts : Answers(c, Error(text))
    BY <1>8 DEF Refuses
  <2>2. Error(text) \in Datum /\ Error(text).type # "msg"
    BY ReplyTypes DEF Error, MakeDatum
  <2> QED
    BY <1>2, <2>1, <2>2
<1> QED
  BY <1>1, <1>3, <1>4, <1>5, <1>6, <1>7, <1>8 DEF Handles, d

(* Only d is new among the messages to x. *)
LEMMA WrittenItems ==
  ASSUME SystemTypes, NEW c \in Clients, NEW d \in Datum, NEW x \in Clients,
         IsWritten(c, d, x)
  PROVE  /\ \A e \in ToSet(toClient'[x]) : e.type = "msg" =>
              \/ e \in ToSet(toClient[x])
              \/ e = d /\ IsSentTo(c, x)
         /\ /\ InOrder(toClient[x])
            /\ \A e \in ToSet(toClient[x]) :
                 d.type = "msg" /\ e.type = "msg" /\ e.from = d.from => e.msg <= d.msg
            => InOrder(toClient'[x])
<1>1. PICK q : /\ \/ q = toClient[x]
                  \/ d.type = "msg" /\ IsSentTo(c, x) /\ q = Append(toClient[x], d)
               /\ \/ toClient'[x] = q
                  \/ \E r \in Datum : r.type # "msg" /\ toClient'[x] = Append(q, r)
  BY DEF IsWritten
<1>2. toClient[x] \in Seq(Datum)
  BY DEF SystemTypes
<1>3. q \in Seq(Datum)
  <2>1. Append(toClient[x], d) \in Seq(Datum)
    BY <1>2, AppendProperties
  <2> QED
    BY <1>1, <1>2, <2>1
<1>4. \A e \in ToSet(q) : e \in ToSet(toClient[x]) \/ (e = d /\ IsSentTo(c, x))
  <2>1. ToSet(Append(toClient[x], d)) = ToSet(toClient[x]) \cup {d}
    BY <1>2, AppendSet
  <2> QED
    BY <1>1, <2>1
<1>5. ASSUME InOrder(toClient[x]),
             \A e \in ToSet(toClient[x]) :
               d.type = "msg" /\ e.type = "msg" /\ e.from = d.from => e.msg <= d.msg
      PROVE  InOrder(q)
  BY <1>1, <1>2, <1>5, InOrderAppend
<1>6. CASE toClient'[x] = q
  BY <1>4, <1>5, <1>6
<1>7. ASSUME NEW r \in Datum, r.type # "msg", toClient'[x] = Append(q, r)
      PROVE  /\ \A e \in ToSet(toClient'[x]) : e = r \/ e \in ToSet(q)
             /\ InOrder(q) => InOrder(toClient'[x])
  <2>1. ToSet(Append(q, r)) = ToSet(q) \cup {r}
    BY <1>3, AppendSet
  <2>2. InOrder(q) => InOrder(Append(q, r))
    BY <1>3, <1>7, InOrderAppend
  <2> QED
    BY <1>7, <2>1, <2>2
<1> QED
  BY <1>1, <1>4, <1>5, <1>6, <1>7

(* What starts on its way to x is the message the server has just read. *)
LEMMA NewlyComing ==
  ASSUME OwnKeys, SystemTypes, ClientsInv, TablesInv, NEW c \in Clients, ServerReceives(c),
         NEW a \in Clients, NEW x \in Clients,
         NEW n \in Coming(a, x)', n \notin Coming(a, x)
  PROVE  LET d == Head(toServer[c]) IN
           /\ a = c /\ d.type = "msg" /\ n = d.msg
           /\ n \in Written(a)
<1> DEFINE d == Head(toServer[c])
<1>1. Wrote(c, d) /\ IsWritten(c, d, x) /\ d \in ToSet(toServer[c])
  BY Handled, Served
<1> HIDE DEF d
<1>2. PICK e \in ToSet(toClient'[x]) : e.type = "msg" /\ e.from = KeyOf[a] /\ n = e.msg
  BY Whence
<1>3. e \notin ToSet(toClient[x])
  BY <1>2 DEF Coming
<1>4. e = d
  BY <1>1, <1>2, <1>3, WrittenItems DEF Wrote
<1>5. a = c
  BY <1>1, <1>2, <1>4 DEF Wrote, OwnKeys
<1>6. n \in Written(a)
  BY <1>1, <1>2, <1>4, <1>5, Whereabouts
<1> QED
  BY <1>2, <1>4, <1>5, <1>6 DEF d

(* A request moves messages on. *)
LEMMA ServeMoves ==
  ASSUME OwnKeys, SystemTypes, ClientsInv, TablesInv, NEW c \in Clients, ServerReceives(c),
         InOrder(toServer[c]), NEW a \in Clients, NEW x \in Clients
  PROVE  MovesOn(a, x)
<1> DEFINE d == Head(toServer[c])
<1>1. /\ Wrote(c, d) /\ IsWritten(c, d, x) /\ d \in ToSet(toServer[c])
      /\ toServer' = [toServer EXCEPT ![c] = Tail(@)]
      /\ UNCHANGED clientVars
  BY Handled, Served
<1>2. toServer[c] \in Seq(Datum) /\ toServer[c] # <<>> /\ d \in Datum
  BY <1>1 DEF SystemTypes, ServerReceives, Wrote
<1>3. /\ ToSet(Tail(toServer[c])) \subseteq ToSet(toServer[c])
      /\ \A e \in ToSet(Tail(toServer[c])) :
           d.type = "msg" /\ e.type = "msg" /\ d.from = e.from => d.msg <= e.msg
  BY <1>2, TailItems, InOrderTail
<1> HIDE DEF d
<1>4. toServer'[a] = IF a = c THEN Tail(toServer[a]) ELSE toServer[a]
  BY <1>1 DEF SystemTypes
<1>5. \A n \in Told(a, x)' : n \in Told(a, x)
  BY <1>1 DEF clientVars, Told
<1>6. \A e \in ToSet(toServer'[a]) : e \in ToSet(toServer[a])
  BY <1>3, <1>4
<1>7. \A n \in Written(a)' : n \in Written(a)
  BY <1>6 DEF Written
<1>8. ASSUME NEW n \in Coming(a, x)', n \notin Coming(a, x)
      PROVE  n \in Written(a) /\ \A m \in Written(a)' : n <= m
  <2>1. a = c /\ d.type = "msg" /\ n = d.msg /\ n \in Written(a)
    BY <1>8, NewlyComing DEF d
  <2>2. ASSUME NEW m \in Written(a)' PROVE n <= m
    <3>1. PICK f \in ToSet(toServer'[a]) : f.type = "msg" /\ m = f.msg
      BY <2>2, Whence
    <3>2. f \in ToSet(Tail(toServer[c])) /\ f \in ToSet(toServer[c])
      BY <1>3, <1>4, <2>1, <3>1
    <3>3. f.from = KeyOf[c]
      BY <3>2 DEF ClientsInv, Wrote
    <3> QED
      BY <1>1, <1>3, <2>1, <3>1, <3>2, <3>3 DEF Wrote
  <2> QED
    BY <2>1, <2>2
<1> QED
  BY <1>5, <1>7, <1>8 DEF MovesOn

(* The other steps say nothing to anybody, or lose what was said. *)
LosesSome ==
  /\ UNCHANGED clientVars
  /\ \A x \in Clients : /\ toClient'[x] \in {toClient[x], <<>>}
                        /\ toServer'[x] \in {toServer[x], <<>>}

(* A client takes a step, or the server does, or a connection or the server
   comes or goes. *)
LEMMA StepParts ==
  ASSUME SystemTypes, [Next]_vars
  PROVE  \/ \E c \in Clients : Starts(c) \/ UserTypes(c) \/ ClientReceives(c)
         \/ \E c \in Clients : ServerReceives(c)
         \/ LosesSome
<1>1. ASSUME NEW c \in Clients, Connects(c) \/ Breaks(c)
      PROVE  LosesSome
  <2>1. UNCHANGED <<toClient, toServer, clientVars>>
    BY <1>1, Left DEF Connects, S!onClientConnected, S!tables, Leaves
  <2> QED
    BY <2>1 DEF clientVars, LosesSome
<1>2. ASSUME NEW c \in Clients, LosesRequests(c)
      PROVE  LosesSome
  <2>1. toServer' = [toServer EXCEPT ![c] = <<>>] /\ UNCHANGED <<toClient, clientVars>>
    BY <1>2 DEF LosesRequests, serverVars
  <2>2. \A x \in Clients : toServer'[x] \in {toServer[x], <<>>}
    BY <2>1 DEF SystemTypes
  <2> QED
    BY <2>1, <2>2 DEF clientVars, LosesSome
<1>3. ASSUME NEW c \in Clients, LosesReplies(c)
      PROVE  LosesSome
  <2>1. toClient' = [toClient EXCEPT ![c] = <<>>] /\ UNCHANGED <<toServer, clientVars>>
    BY <1>3 DEF LosesReplies, S!Lose
  <2>2. \A x \in Clients : toClient'[x] \in {toClient[x], <<>>}
    BY <2>1 DEF SystemTypes
  <2> QED
    BY <2>1, <2>2 DEF clientVars, LosesSome
<1>4. ASSUME Crashes \/ Restarts \/ UNCHANGED vars
      PROVE  LosesSome
  <2>1. UNCHANGED <<toClient, toServer, clientVars>>
    BY <1>4, Emptied DEF Empties, Restarts, S!Restart, S!tables, vars, serverVars
  <2> QED
    BY <2>1 DEF clientVars, LosesSome
<1> QED
  BY <1>1, <1>2, <1>3, <1>4 DEF Next

(* As far as a conversation goes there are three kinds of step. *)
LEMMA StepKinds ==
  ASSUME SystemTypes, ClientsInv, [Next]_vars
  PROVE  \/ \E c \in Clients : TalkStep(c)
         \/ \E c \in Clients : ServerReceives(c)
         \/ LosesSome
BY StepParts, Talks

(* Whatever happens, messages move on and nothing else. *)
LEMMA MovesStep ==
  ASSUME OwnKeys, SystemTypes, ClientsInv, TablesInv, [Next]_vars,
         \A c \in Clients : InOrder(toServer[c]) /\ InOrder(toClient[c]),
         NEW a \in Clients, NEW x \in Clients
  PROVE  MovesOn(a, x)
<1>1. CASE LosesSome
  <2>1. /\ \A e \in ToSet(toClient'[x]) : e \in ToSet(toClient[x])
        /\ \A e \in ToSet(toServer'[a]) : e \in ToSet(toServer[a])
    BY <1>1, EmptyItems DEF LosesSome
  <2>2. \A n \in Told(a, x)' : n \in Told(a, x)
    BY <1>1 DEF LosesSome, clientVars, Told
  <2>3. \A n \in Coming(a, x)' : n \in Coming(a, x)
    BY <2>1 DEF Coming
  <2>4. \A n \in Written(a)' : n \in Written(a)
    BY <2>1 DEF Written
  <2> QED
    BY <2>2, <2>3, <2>4 DEF MovesOn
<1> QED
  BY <1>1, StepKinds, TalkMoves, ServeMoves

(* The queues keep the latest messages typed. *)
LEMMA QueuesStep ==
  ASSUME SystemTypes, SystemTypes', ClientsInv, QueueInv, [Next]_vars
  PROVE  /\ QueueInv'
         /\ \A a \in Clients : \A n \in Nat : WasFirst(a, n) => WasFirst(a, n)'
<1>1. ASSUME NEW c \in Clients, TalkStep(c)
      PROVE  /\ QueueInv'
             /\ \A a \in Clients : \A n \in Nat : WasFirst(a, n) => WasFirst(a, n)'
  BY <1>1, QueueKept DEF TalkStep
<1>2. CASE UNCHANGED <<queue, sentCount>>
  BY <1>2 DEF QueueInv, WasFirst
<1>3. ASSUME NEW c \in Clients, ServerReceives(c)
      PROVE  UNCHANGED <<queue, sentCount>>
  BY <1>3 DEF ServerReceives, clientVars
<1> QED
  BY <1>1, <1>2, <1>3, StepKinds DEF LosesSome, clientVars

(* What a client writes goes behind what it wrote. *)
LEMMA RequestsInOrder ==
  ASSUME SystemTypes, SystemTypes', ClientsInv, QueueInv', [Next]_vars,
         NEW c \in Clients, InOrder(toServer[c]),
         \A n \in Written(c) : WasFirst(c, n),
         \A n \in Nat : WasFirst(c, n) => WasFirst(c, n)'
  PROVE  InOrder(toServer'[c])
<1>1. toServer[c] \in Seq(Datum)
  BY DEF SystemTypes
<1>2. CASE toServer'[c] = toServer[c]
  BY <1>2
<1>3. CASE toServer'[c] = <<>>
  <2>1. InOrder(<<>>)
    BY DEF InOrder
  <2> QED
    BY <1>3, <2>1
<1>4. CASE toServer[c] # <<>> /\ toServer'[c] = Tail(toServer[c])
  BY <1>1, <1>4, InOrderTail
<1>5. ASSUME NEW d, Wrote(c, d), toServer'[c] = Append(toServer[c], d),
             d.type = "msg" => queue'[c] # <<>> /\ d.msg = Head(queue'[c])
      PROVE  InOrder(toServer'[c])
  <2>1. d \in Datum
    BY <1>5 DEF Wrote
  <2>2. ASSUME NEW e \in ToSet(toServer[c]), d.type = "msg", e.type = "msg"
        PROVE  e.msg <= d.msg
    <3>1. e.msg \in Written(c)
      BY <2>2, Whereabouts
    <3>2. e.msg \in Nat
      BY <3>1 DEF WasFirst
    <3> DEFINE n == e.msg
    <3>3. n \in Nat /\ n + Len(queue'[c]) <= sentCount'[c] + 1
      BY <3>1, <3>2 DEF WasFirst
    <3> HIDE DEF n
    <3>4. /\ queue'[c] \in Seq(Nat) /\ sentCount'[c] \in Nat /\ queue'[c] # <<>>
          /\ Len(queue'[c]) <= sentCount'[c]
          /\ \A i \in 1..Len(queue'[c]) : queue'[c][i] + Len(queue'[c]) = sentCount'[c] + i
      BY <1>5, <2>2 DEF SystemTypes, QueueInv
    <3>5. n <= Head(queue'[c])
      BY <3>3, <3>4, HeadIsLast
    <3> QED
      BY <1>5, <2>2, <3>5 DEF n
  <2> QED
    BY <1>1, <1>5, <2>1, <2>2, InOrderAppend
<1>6. ASSUME NEW x \in Clients, TalkStep(x)
      PROVE  InOrder(toServer'[c])
  <2>1. CASE UNCHANGED toServer
    BY <1>2, <2>1
  <2>2. ASSUME NEW d, Wrote(x, d), Says(x, d),
               d.type = "msg" => queue'[x] # <<>> /\ d.msg = Head(queue'[x])
        PROVE  InOrder(toServer'[c])
    <3>1. toServer'[c] = IF c = x THEN Append(toServer[c], d) ELSE toServer[c]
      BY <2>2 DEF Says, SystemTypes
    <3> QED
      BY <1>2, <1>5, <2>2, <3>1
  <2> QED
    BY <1>6, <2>1, <2>2 DEF TalkStep, SaysHead
<1>7. ASSUME NEW x \in Clients, ServerReceives(x)
      PROVE  InOrder(toServer'[c])
  <2>1. toServer'[c] = IF c = x THEN Tail(toServer[c]) ELSE toServer[c]
    BY <1>7 DEF ServerReceives, SystemTypes
  <2>2. c = x => toServer[c] # <<>>
    BY <1>7 DEF ServerReceives
  <2> QED
    BY <1>2, <1>4, <2>1, <2>2
<1> QED
  BY <1>2, <1>3, <1>6, <1>7, StepKinds DEF LosesSome

(* What the server writes goes behind what it wrote. *)
LEMMA RepliesInOrder ==
  ASSUME SystemTypes, ClientsInv, TablesInv, [Next]_vars,
         NEW c \in Clients, InOrder(toClient[c]), \A a \in Clients : Ordered(a, c)
  PROVE  InOrder(toClient'[c])
<1>1. toClient[c] \in Seq(Datum)
  BY DEF SystemTypes
<1>2. CASE toClient'[c] = toClient[c]
  BY <1>2
<1>3. CASE toClient'[c] = <<>>
  <2>1. InOrder(<<>>)
    BY DEF InOrder
  <2> QED
    BY <1>3, <2>1
<1>4. ASSUME NEW x \in Clients, TalkStep(x)
      PROVE  InOrder(toClient'[c])
  <2>1. CASE UNCHANGED toClient
    BY <1>2, <2>1
  <2>2. CASE toClient[x] # <<>> /\ toClient' = [toClient EXCEPT ![x] = Tail(@)]
    <3>1. toClient'[c] = IF c = x THEN Tail(toClient[c]) ELSE toClient[c]
      BY <2>2 DEF SystemTypes
    <3> QED
      BY <1>1, <1>2, <2>2, <3>1, InOrderTail
  <2> QED
    BY <1>4, <2>1, <2>2 DEF TalkStep
<1>5. ASSUME NEW x \in Clients, ServerReceives(x)
      PROVE  InOrder(toClient'[c])
  <2> DEFINE d == Head(toServer[x])
  <2>1. Wrote(x, d) /\ IsWritten(x, d, c) /\ d \in ToSet(toServer[x])
    BY <1>5, Handled, Served
  <2> HIDE DEF d
  <2>2. ASSUME NEW e \in ToSet(toClient[c]), d.type = "msg", e.type = "msg", e.from = d.from
        PROVE  e.msg <= d.msg
    <3>1. d.msg \in Written(x)
      BY <2>1, <2>2, Whereabouts
    <3>2. e.msg \in Coming(x, c)
      BY <2>1, <2>2, Whereabouts DEF Wrote
    <3> QED
      BY <3>1, <3>2 DEF Ordered, NoneAfter
  <2>3. d \in Datum
    BY <2>1 DEF Wrote
  <2> QED
    BY <2>1, <2>2, <2>3, WrittenItems
<1> QED
  BY <1>2, <1>3, <1>4, <1>5, StepKinds DEF LosesSome

(* A message that a message stage takes is by somebody who reaches the client,
   and nothing of theirs that was heard is later. *)
LEMMA Heeded ==
  ASSUME SystemTypes, ClientsInv, NEW c \in Clients, NEW r \in ToSet(toClient[c]),
         Authors(c), \A a \in Clients : Ordered(a, c),
         stage[c] \in C!MessageStages, r.type = "msg",
         stage[c] = "privateMessage" => C!Decrypts(c, r)
  PROVE  \E a \in Clients :
           /\ r.from = KeyOf[a] /\ Conversation!Reaches(a, c)
           /\ r.msg \in 1..sentCount[a]
           /\ \A h \in ToSet(heard[c]) : h[1] = KeyOf[a] => h[2] <= r.msg
<1>1. PICK a \in Clients : Wrote(a, r) /\ IsSentTo(a, c)
  BY DEF Authors
<1>2. r.from = KeyOf[a] /\ r.msg \in Coming(a, c)
  BY <1>1, Whereabouts DEF Wrote
<1>3. Conversation!Reaches(a, c)
  <2>1. CASE Kind[a] = "public"
    BY <1>1, <2>1 DEF IsSentTo
  <2>2. CASE Kind[a] = "private"
    <3>1. PartnerOf[a] = KeyOf[c] /\ r.to = PartnerOf[a]
      BY <1>1, <2>2 DEF IsSentTo, Wrote
    <3>2. CASE stage[c] = "publicMessage"
      <4>1. Kind[c] = "public"
        BY <3>2 DEF ClientsInv
      <4> QED
        BY <2>2, <3>1, <4>1 DEF Conversation!Reaches
    <3>3. CASE stage[c] = "privateMessage"
      <4>1. Kind[c] = "private"
        BY <3>3 DEF ClientsInv
      <4>2. {KeyOf[a], KeyOf[c]} = {KeyOf[c], PartnerOf[c]}
        BY <1>2, <3>1, <3>3 DEF C!Decrypts
      <4>3. PartnerOf[c] = KeyOf[a]
        BY <4>2
      <4> QED
        BY <2>2, <3>1, <4>1, <4>3 DEF Conversation!Reaches
    <3> QED
      BY <3>2, <3>3 DEF C!MessageStages
  <2>3. Kind[a] # "chat"
    BY <1>1 DEF Wrote
  <2> QED
    BY <2>1, <2>2, <2>3
<1>4. r.msg \in 1..sentCount[a]
  BY <1>2 DEF Ordered, WasFirst
<1>5. ASSUME NEW h \in ToSet(heard[c]), h[1] = KeyOf[a] PROVE h[2] <= r.msg
  <2>1. h[2] \in Told(a, c)
    BY <1>5, Whereabouts
  <2> QED
    BY <1>2, <2>1 DEF Ordered, NoneAfter
<1> QED
  BY <1>2, <1>3, <1>4, <1>5

(* What c hears in a step: nothing, or a message of somebody who reaches it,
   no earlier than what it has heard of theirs. *)
Hearing(c) ==
  \/ heard'[c] = heard[c]
  \/ \E a \in Clients : \E n \in 1..sentCount[a] :
       /\ Conversation!Reaches(a, c)
       /\ \A h \in ToSet(heard[c]) : h[1] = KeyOf[a] => h[2] <= n
       /\ heard'[c] = Append(heard[c], <<KeyOf[a], n>>)
       /\ heard' = [heard EXCEPT ![c] = Append(@, <<KeyOf[a], n>>)]
       /\ UNCHANGED sentCount

(* What is heard has its type. *)
LEMMA HeardTypes ==
  ASSUME SystemTypes, NEW a \in Clients, NEW n \in 1..sentCount[a]
  PROVE  n \in Nat /\ <<KeyOf[a], n>> \in (Keys \cup {NoKey}) \X Nat
<1>1. sentCount[a] \in Nat
  BY DEF SystemTypes
<1>2. n \in Nat
  BY <1>1
<1>3. KeyOf[a] \in Keys
  OBVIOUS
<1> QED
  BY <1>2, <1>3

(* What a client hears was typed by someone it may hear, and not before what it
   has heard of them. *)
LEMMA Hearings ==
  ASSUME SystemTypes, ClientsInv, [Next]_vars, NEW c \in Clients,
         Authors(c), \A a \in Clients : Ordered(a, c)
  PROVE  Hearing(c)
<1>1. CASE heard'[c] = heard[c]
  BY <1>1 DEF Hearing
<1>2. ASSUME NEW x \in Clients, TalkStep(x), heard'[c] # heard[c]
      PROVE  Hearing(c)
  <2> DEFINE r == Head(toClient[x])
  <2>1. /\ toClient[x] # <<>> /\ UNCHANGED sentCount
        /\ stage[x] \in C!MessageStages /\ r.type = "msg"
        /\ stage[x] = "privateMessage" => C!Decrypts(x, r)
        /\ heard' = [heard EXCEPT ![x] = Append(@, <<r.from, r.msg>>)]
    BY <1>2 DEF TalkStep, HearsOrNot
  <2>2. x = c /\ heard'[c] = Append(heard[c], <<r.from, r.msg>>)
    BY <1>2, <2>1 DEF SystemTypes
  <2>3. r \in ToSet(toClient[c])
    BY <2>1, <2>2, TailItems DEF SystemTypes
  <2> HIDE DEF r
  <2>4. PICK a \in Clients :
           /\ r.from = KeyOf[a] /\ Conversation!Reaches(a, c)
           /\ r.msg \in 1..sentCount[a]
           /\ \A h \in ToSet(heard[c]) : h[1] = KeyOf[a] => h[2] <= r.msg
    BY <2>1, <2>2, <2>3, Heeded
  <2> QED
    BY <2>1, <2>2, <2>4 DEF Hearing
<1> QED
  BY <1>1, <1>2, StepKinds DEF ServerReceives, clientVars, LosesSome

(* What comes to c or was heard by c keeps its author. *)
LEMMA AuthorsStep ==
  ASSUME SystemTypes, ClientsInv, TablesInv, [Next]_vars, NEW c \in Clients,
         Authors(c), Hearing(c)
  PROVE  Authors(c)'
<1>1. ASSUME NEW d \in ToSet(toClient'[c]), d.type = "msg"
      PROVE  \E a \in Clients : Wrote(a, d) /\ IsSentTo(a, c)
  <2>1. CASE d \in ToSet(toClient[c])
    BY <1>1, <2>1 DEF Authors
  <2>2. CASE LosesSome
    BY <1>1, <2>1, <2>2, EmptyItems DEF LosesSome
  <2>3. ASSUME NEW x \in Clients, TalkStep(x)
        PROVE  d \in ToSet(toClient[c])
    <3>1. \/ toClient'[c] = toClient[c]
          \/ toClient[c] # <<>> /\ toClient'[c] = Tail(toClient[c])
      BY <2>3 DEF TalkStep, SystemTypes
    <3>2. toClient[c] \in Seq(Datum)
      BY DEF SystemTypes
    <3> QED
      BY <1>1, <3>1, <3>2, TailItems
  <2>4. ASSUME NEW x \in Clients, ServerReceives(x), d \notin ToSet(toClient[c])
        PROVE  Wrote(x, d) /\ IsSentTo(x, c)
    <3> DEFINE e == Head(toServer[x])
    <3>1. Wrote(x, e) /\ IsWritten(x, e, c)
      BY <2>4, Handled, Served
    <3> HIDE DEF e
    <3>2. e \in Datum
      BY <3>1 DEF Wrote
    <3> QED
      BY <1>1, <2>4, <3>1, <3>2, WrittenItems
  <2> QED
    BY <2>1, <2>2, <2>3, <2>4, StepKinds
<1>2. ASSUME NEW h \in ToSet(heard'[c])
      PROVE  \E a \in Clients : h[1] = KeyOf[a] /\ Conversation!Reaches(a, c)
  <2>1. CASE h \in ToSet(heard[c])
    BY <2>1 DEF Authors
  <2>2. CASE heard'[c] = heard[c]
    BY <1>2, <2>1, <2>2
  <2>3. ASSUME NEW a \in Clients, NEW n \in 1..sentCount[a], Conversation!Reaches(a, c),
               heard'[c] = Append(heard[c], <<KeyOf[a], n>>), h \notin ToSet(heard[c])
        PROVE  h[1] = KeyOf[a]
    <3> DEFINE T == (Keys \cup {NoKey}) \X Nat
               g == <<KeyOf[a], n>>
    <3>1. g \in T /\ heard[c] \in Seq(T)
      BY HeardTypes DEF SystemTypes
    <3> HIDE DEF g, T
    <3>2. ToSet(Append(heard[c], g)) = ToSet(heard[c]) \cup {g}
      BY <3>1, AppendSet
    <3>3. h = g
      BY <1>2, <2>3, <3>2 DEF g
    <3> QED
      BY <3>3 DEF g
  <2> QED
    BY <2>1, <2>2, <2>3 DEF Hearing
<1>3. ASSUME NEW d PROVE \A a : Wrote(a, d)' <=> Wrote(a, d)
  BY SameAuthors
<1>4. \A a : /\ IsSentTo(a, c)' <=> IsSentTo(a, c)
             /\ Conversation!Reaches(a, c)' <=> Conversation!Reaches(a, c)
  BY SameAuthors
<1> QED
  BY <1>1, <1>2, <1>3, <1>4 DEF Authors

(* What c hears comes in order. *)
LEMMA HeardStep ==
  ASSUME SystemTypes, HeardInOrder, \A c \in Clients : Hearing(c)
  PROVE  HeardInOrder'
<1> SUFFICES ASSUME NEW c \in Clients, NEW j \in 1..Len(heard'[c]), NEW i \in 1..j,
                    heard'[c][i][1] = heard'[c][j][1]
             PROVE  heard'[c][i][2] <= heard'[c][j][2]
  BY DEF HeardInOrder
<1>1. CASE heard'[c] = heard[c]
  BY <1>1 DEF HeardInOrder
<1>2. ASSUME NEW a \in Clients, NEW n \in 1..sentCount[a],
             \A h \in ToSet(heard[c]) : h[1] = KeyOf[a] => h[2] <= n,
             heard'[c] = Append(heard[c], <<KeyOf[a], n>>)
      PROVE  heard'[c][i][2] <= heard'[c][j][2]
  <2> DEFINE T == (Keys \cup {NoKey}) \X Nat
             g == <<KeyOf[a], n>>
             s == heard[c]
             t == heard'[c]
  <2>1. g \in T /\ s \in Seq(T) /\ n \in Nat /\ g[1] = KeyOf[a] /\ g[2] = n
    BY HeardTypes DEF SystemTypes
  <2> HIDE DEF g, T
  <2>2. t = Append(s, g)
    BY <1>2 DEF g
  <2>3. /\ Len(t) = Len(s) + 1 /\ Len(s) \in Nat
        /\ \A k \in 1..Len(s) : t[k] = s[k]
        /\ t[Len(s) + 1] = g
    BY <2>1, <2>2, AppendProperties
  <2>4. \A k \in 1..Len(s) : s[k] \in ToSet(s)
    BY <2>1 DEF ToSet
  <2>5. CASE j \in 1..Len(s)
    <3>1. i \in 1..Len(s) /\ t[i] = s[i] /\ t[j] = s[j]
      BY <2>3, <2>5
    <3> QED
      BY <2>5, <3>1 DEF HeardInOrder
  <2>6. CASE j = Len(s) + 1
    <3>1. CASE i = j
      BY <2>1, <2>3, <2>6, <3>1
    <3>2. CASE i # j
      <4>1. i \in 1..Len(s)
        BY <2>3, <2>6, <3>2
      <4>2. t[i] = s[i] /\ s[i] \in ToSet(s) /\ t[j] = g
        BY <2>3, <2>4, <2>6, <4>1
      <4> QED
        BY <1>2, <2>1, <4>2
    <3> QED
      BY <3>1, <3>2
  <2>7. j \in 1..(Len(s) + 1)
    BY <2>3
  <2> QED
    BY <2>3, <2>5, <2>6, <2>7
<1>3. Hearing(c)
  OBVIOUS
<1> QED
  BY <1>1, <1>2, <1>3 DEF Hearing

-----------------------------------------------------------------------------
(* What is proved *)

(* When every client has a key of its own, the queues hold the latest messages
   typed, and all there is of an author's messages for a hearer is in order:
   what was heard, what is on its way from the server, and what is on its way
   to it. *)
THEOREM DeliveryInvariant ==
  ASSUME OwnKeys
  PROVE  Spec => [](SystemInv /\ QueueInv /\ DeliveryInv)
<1>1. Init => QueueInv /\ DeliveryInv
  <2> SUFFICES ASSUME Init PROVE QueueInv /\ DeliveryInv
    OBVIOUS
  <2>1. \A c \in Clients : /\ toClient[c] = <<>> /\ toServer[c] = <<>> /\ heard[c] = <<>>
                           /\ queue[c] = <<>> /\ sentCount[c] = 0
    BY DEF Init, S!Init, C!Init
  <2>2. QueueInv
    BY <2>1 DEF QueueInv
  <2>3. \A a, c \in Clients : Written(a) = {} /\ Coming(a, c) = {} /\ Told(a, c) = {}
    BY <2>1, EmptyItems DEF Written, Coming, Told
  <2>4. \A c \in Clients : InOrder(toServer[c]) /\ InOrder(toClient[c]) /\ Authors(c)
    <3>1. InOrder(<<>>)
      BY DEF InOrder
    <3>2. \A c \in Clients : Authors(c)
      BY <2>1, EmptyItems DEF Authors
    <3> QED
      BY <2>1, <3>1, <3>2
  <2>5. \A a, c \in Clients : Ordered(a, c)
    BY <2>3 DEF Ordered, NoneAfter
  <2>6. HeardInOrder
    BY <2>1 DEF HeardInOrder
  <2> QED
    BY <2>2, <2>3, <2>4, <2>5, <2>6 DEF DeliveryInv
<1>2. ASSUME SystemInv, SystemInv', QueueInv, DeliveryInv, [Next]_vars
      PROVE  QueueInv' /\ DeliveryInv'
  <2>1. /\ SystemTypes /\ SystemTypes' /\ ClientsInv /\ TablesInv
        /\ \A c \in Clients : InOrder(toServer[c]) /\ InOrder(toClient[c]) /\ Authors(c)
        /\ \A a \in Clients : \A n \in Written(a) : WasFirst(a, n)
        /\ \A a, c \in Clients : Ordered(a, c)
        /\ HeardInOrder
    BY <1>2 DEF SystemInv, DeliveryInv
  <2>2. /\ QueueInv'
        /\ \A a \in Clients : \A n \in Nat : WasFirst(a, n) => WasFirst(a, n)'
    BY <1>2, <2>1, QueuesStep
  <2>3. \A a, c \in Clients : Ordered(a, c)' /\ \A n \in Written(a)' : WasFirst(a, n)'
    <3> SUFFICES ASSUME NEW a \in Clients, NEW c \in Clients
                 PROVE  Ordered(a, c)' /\ \A n \in Written(a)' : WasFirst(a, n)'
      OBVIOUS
    <3>1. MovesOn(a, c)
      BY <1>2, <2>1, MovesStep
    <3> QED
      BY <2>1, <2>2, <3>1, MovesInOrder
  <2>4. \A c \in Clients : InOrder(toServer'[c])
    BY <1>2, <2>1, <2>2, RequestsInOrder
  <2>5. \A c \in Clients : InOrder(toClient'[c])
    BY <1>2, <2>1, RepliesInOrder
  <2>6. \A c \in Clients : Hearing(c)
    BY <1>2, <2>1, Hearings
  <2>7. \A c \in Clients : Authors(c)'
    BY <1>2, <2>1, <2>6, AuthorsStep
  <2>8. HeardInOrder'
    BY <2>1, <2>6, HeardStep
  <2> QED
    BY <2>2, <2>3, <2>4, <2>5, <2>7, <2>8 DEF DeliveryInv, InOrder
<1> QED
  BY <1>1, <1>2, SystemInvariant, PTL DEF Spec

(* When every client has a key of its own, whoever hears an author hears the
   messages in the order of their typing, though the head of a queue is sent
   again with every reply and every message of others, and users type while
   acknowledgements are on their way. *)
THEOREM HeardInTypingOrder ==
  ASSUME OwnKeys
  PROVE  Spec => []HeardInOrder
<1>1. DeliveryInv => HeardInOrder
  BY DEF DeliveryInv
<1> QED
  BY <1>1, DeliveryInvariant, PTL

(* Nobody hears a message of their own: the server leaves a member out of what
   it writes to the channel, and only a private client that is its own
   partner is answered by itself. *)
THEOREM NobodyHearsThemselves ==
  ASSUME OwnKeys,
         \A c \in Clients : Kind[c] = "private" => PartnerOf[c] # KeyOf[c]
  PROVE  Spec => []NoEcho
<1>1. SystemInv /\ DeliveryInv => NoEcho
  <2> SUFFICES ASSUME SystemTypes, DeliveryInv, NEW c \in Clients,
                      NEW i \in 1..Len(heard[c]), heard[c][i][1] = KeyOf[c]
               PROVE  FALSE
    BY DEF SystemInv, NoEcho
  <2>1. heard[c][i] \in ToSet(heard[c])
    BY DEF SystemTypes, ToSet
  <2>2. PICK a \in Clients : heard[c][i][1] = KeyOf[a] /\ Conversation!Reaches(a, c)
    BY <2>1 DEF DeliveryInv, Authors
  <2>3. a = c
    BY <2>2 DEF OwnKeys
  <2> QED
    BY <2>2, <2>3 DEF Conversation!Reaches
<1> QED
  BY <1>1, DeliveryInvariant, PTL

(* Clients and server implement the conversation of their users: every step is
   one of nobody's, or a user types, or a client hears, from somebody who
   reaches it, a message that was typed and is not behind what it heard. *)
THEOREM ImplementsConversation ==
  ASSUME OwnKeys
  PROVE  Spec => ConversationSpec
<1>1. Init => Conversation!Init
  BY DEF Init, C!Init, Conversation!Init
<1>2. ASSUME SystemInv, SystemInv', DeliveryInv, [Next]_vars
      PROVE  [Conversation!Next]_(Conversation!vars)
  <2>1. /\ SystemTypes /\ SystemTypes' /\ ClientsInv
        /\ \A c \in Clients : Authors(c)
        /\ \A a, c \in Clients : Ordered(a, c)
    BY <1>2 DEF SystemInv, DeliveryInv
  <2>2. \A c \in Clients : Hearing(c)
    BY <1>2, <2>1, Hearings
  <2>3. CASE UNCHANGED <<sentCount, heard>>
    BY <2>3 DEF Conversation!vars
  <2>4. CASE heard' # heard
    <3>1. PICK c \in Clients : heard'[c] # heard[c]
      BY <2>1, <2>4 DEF SystemTypes
    <3>2. PICK a \in Clients : \E n \in 1..sentCount[a] :
             /\ Conversation!Reaches(a, c)
             /\ \A h \in ToSet(heard[c]) : h[1] = KeyOf[a] => h[2] <= n
             /\ heard' = [heard EXCEPT ![c] = Append(@, <<KeyOf[a], n>>)]
             /\ UNCHANGED sentCount
      BY <2>2, <3>1 DEF Hearing
    <3>3. \A i \in 1..Len(heard[c]) : heard[c][i] \in ToSet(heard[c])
      <4>1. heard[c] \in Seq((Keys \cup {NoKey}) \X Nat)
        BY <2>1 DEF SystemTypes
      <4> QED
        BY <4>1 DEF ToSet
    <3>4. PICK n \in 1..sentCount[a] :
             /\ Conversation!Reaches(a, c)
             /\ \A h \in ToSet(heard[c]) : h[1] = KeyOf[a] => h[2] <= n
             /\ heard' = [heard EXCEPT ![c] = Append(@, <<KeyOf[a], n>>)]
             /\ UNCHANGED sentCount
      BY <3>2
    <3>5. \A i \in 1..Len(heard[c]) : heard[c][i][1] = KeyOf[a] => heard[c][i][2] <= n
      BY <3>3, <3>4
    <3>6. Conversation!Hear(c, a, n)
      BY <3>4, <3>5 DEF Conversation!Hear
    <3> QED
      BY <3>4, <3>6 DEF Conversation!Next
  <2>5. CASE sentCount' # sentCount /\ heard' = heard
    <3>1. PICK c \in Clients : TalkStep(c)
      BY <1>2, <2>1, <2>5, StepKinds DEF ServerReceives, clientVars, LosesSome
    <3>2. sentCount' = [sentCount EXCEPT ![c] = @ + 1]
      BY <2>5, <3>1 DEF TalkStep, QueueStep
    <3>3. Conversation!Type(c)
      BY <2>5, <3>2 DEF Conversation!Type
    <3> QED
      BY <3>3 DEF Conversation!Next
  <2> QED
    BY <2>3, <2>4, <2>5
<1> QED
  BY <1>1, <1>2, DeliveryInvariant, PTL DEF Spec, ConversationSpec, Conversation!Spec

=============================================================================

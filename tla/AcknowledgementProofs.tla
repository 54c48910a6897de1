----------------------- MODULE AcknowledgementProofs -----------------------
(***************************************************************************)
(* What is proved of acknowledgements: the server's count of messages is   *)
(* the clients' count of acknowledgements.                                 *)
(***************************************************************************)
EXTENDS ChatSystemProofs, FiniteSetTheorems

USE WireAssumption, SystemAssumption

-----------------------------------------------------------------------------
(* Acknowledgements in a sequence *)

(* They are finitely many. *)
LEMMA AcksAreFinite ==
  ASSUME NEW s \in Seq(Datum)
  PROVE  IsFiniteSet(AcksIn(s)) /\ Cardinality(AcksIn(s)) \in Nat
<1>1. Len(s) \in Nat
  OBVIOUS
<1>2. IsFiniteSet(1..Len(s))
  BY <1>1, FS_Interval
<1>3. AcksIn(s) \in SUBSET (1..Len(s))
  BY DEF AcksIn
<1>4. IsFiniteSet(AcksIn(s))
  BY <1>2, <1>3, FS_Subset
<1> QED
  BY <1>4, FS_CardinalityType

(* An empty sequence has none. *)
LEMMA NoAcks == Cardinality(AcksIn(<<>>)) = 0
<1>1. AcksIn(<<>>) = {}
  BY DEF AcksIn
<1> QED
  BY <1>1, FS_EmptySet

(* A datum at the end counts if it is one. *)
LEMMA AcksAppend ==
  ASSUME NEW s \in Seq(Datum), NEW e \in Datum
  PROVE  Cardinality(AcksIn(Append(s, e))) =
           IF e = Success("MESSAGE SENT") THEN Cardinality(AcksIn(s)) + 1
           ELSE Cardinality(AcksIn(s))
<1> DEFINE t == Append(s, e)
           n == Len(s) + 1
<1>1. /\ Len(t) = n /\ Len(s) \in Nat
      /\ \A i \in 1..Len(s) : t[i] = s[i]
      /\ t[n] = e
  BY AppendProperties
<1> HIDE DEF t
<1>2. 1..n = (1..Len(s)) \cup {n} /\ n \notin 1..Len(s)
  BY <1>1
<1> HIDE DEF n
<1>3. n \notin AcksIn(s)
  BY <1>2 DEF AcksIn
<1>4. AcksIn(t) = IF e = Success("MESSAGE SENT") THEN AcksIn(s) \cup {n} ELSE AcksIn(s)
  BY <1>1, <1>2 DEF AcksIn
<1> QED
  BY <1>3, <1>4, AcksAreFinite, FS_AddElement DEF t

(* The first counts if it is one, and the others are those of the tail. *)
LEMMA AcksTail ==
  ASSUME NEW s \in Seq(Datum), s # <<>>
  PROVE  Cardinality(AcksIn(s)) =
           IF Head(s) = Success("MESSAGE SENT") THEN Cardinality(AcksIn(Tail(s))) + 1
           ELSE Cardinality(AcksIn(Tail(s)))
<1> DEFINE t == Tail(s)
           A == AcksIn(s) \ {1}
           B == AcksIn(t)
           f == [i \in B |-> i + 1]
<1>1. /\ t \in Seq(Datum) /\ Head(s) = s[1] /\ Len(s) \in Nat /\ Len(s) >= 1
      /\ Len(t) = Len(s) - 1
      /\ \A i \in 1..Len(t) : t[i] = s[i + 1] /\ i + 1 \in 1..Len(s)
  BY TailItems
<1> HIDE DEF t
<1>2. \A i \in B : i \in Nat /\ i + 1 \in A
  <2> SUFFICES ASSUME NEW i \in B PROVE i \in Nat /\ i + 1 \in A
    OBVIOUS
  <2>1. i \in 1..Len(t) /\ t[i] = Success("MESSAGE SENT")
    BY DEF AcksIn
  <2>2. i \in Nat /\ i + 1 # 1 /\ i + 1 \in 1..Len(s) /\ s[i + 1] = t[i]
    <3>1. i \in 1..Len(t)
      BY <2>1
    <3> QED
      BY <1>1, <3>1
  <2>3. i + 1 \in AcksIn(s)
    BY <2>1, <2>2 DEF AcksIn
  <2> QED
    BY <2>2, <2>3
<1>3. \A j \in A : j - 1 \in B /\ (j - 1) + 1 = j
  <2> SUFFICES ASSUME NEW j \in A PROVE j - 1 \in B /\ (j - 1) + 1 = j
    OBVIOUS
  <2>1. j \in 1..Len(s) /\ j # 1 /\ s[j] = Success("MESSAGE SENT")
    <3>1. j \in AcksIn(s) /\ j # 1
      OBVIOUS
    <3> QED
      BY <3>1 DEF AcksIn
  <2>2. j - 1 \in 1..Len(t) /\ (j - 1) + 1 = j
    <3>1. j \in 1..Len(s) /\ j # 1
      BY <2>1
    <3> QED
      BY <1>1, <3>1
  <2>3. t[j - 1] = s[j]
    BY <1>1, <2>2
  <2> QED
    BY <2>1, <2>2, <2>3 DEF AcksIn
<1>4. f \in Bijection(B, A)
  <2>1. f \in [B -> A]
    BY <1>2
  <2>2. \A i, j \in B : f[i] = f[j] => i = j
    BY <1>2
  <2>3. \A j \in A : \E i \in B : f[i] = j
    <3> TAKE j \in A
    <3>1. j - 1 \in B /\ f[j - 1] = j
      BY <1>3
    <3> QED
      BY <3>1
  <2> QED
    BY <2>1, <2>2, <2>3 DEF Bijection, Injection, Surjection, IsInjective
<1>5. IsFiniteSet(B) /\ IsFiniteSet(AcksIn(s)) /\ Cardinality(AcksIn(s)) \in Nat
  BY <1>1, AcksAreFinite
<1>6. Cardinality(A) = Cardinality(B)
  BY <1>4, <1>5, FS_Bijection DEF ExistsBijection
<1>7. 1 \in AcksIn(s) <=> Head(s) = Success("MESSAGE SENT")
  <2>1. 1 \in 1..Len(s)
    BY <1>1
  <2> QED
    BY <1>1, <2>1 DEF AcksIn
<1>8. Cardinality(A) = IF 1 \in AcksIn(s) THEN Cardinality(AcksIn(s)) - 1
                       ELSE Cardinality(AcksIn(s))
  BY <1>5, FS_RemoveElement
<1> DEFINE x == Cardinality(AcksIn(s))
           y == Cardinality(B)
<1>9. x \in Nat /\ y \in Nat /\ y = IF 1 \in AcksIn(s) THEN x - 1 ELSE x
  BY <1>1, <1>5, <1>6, <1>8, AcksAreFinite
<1> HIDE DEF x, y
<1>10. x = IF 1 \in AcksIn(s) THEN y + 1 ELSE y
  BY <1>9
<1> QED
  BY <1>7, <1>10 DEF t, x, y

-----------------------------------------------------------------------------
(* The sum *)

(* It is made of numbers. *)
LEMMA AcksToNat ==
  ASSUME SystemTypes, NEW c \in Clients
  PROVE  AcksTo(c) \in Nat
<1>1. ackedCount[c] \in Nat /\ toClient[c] \in Seq(Datum)
  BY DEF SystemTypes
<1>2. Cardinality(AcksIn(toClient[c])) \in Nat
  BY <1>1, AcksAreFinite
<1> QED
  BY <1>1, <1>2 DEF AcksTo

(* It is the same when its terms are. *)
LEMMA SumKept ==
  ASSUME \A x \in Clients : AcksTo(x)' = AcksTo(x)
  PROVE  AllAcks' = AllAcks
BY DEF AllAcks

(* It grows by one when one of them does. *)
LEMMA SumGrows ==
  ASSUME SystemTypes, IsFiniteSet(AllAcks), NEW c \in Clients,
         AcksTo(c)' = AcksTo(c) + 1,
         \A x \in Clients \ {c} : AcksTo(x)' = AcksTo(x)
  PROVE  IsFiniteSet(AllAcks') /\ Cardinality(AllAcks') = Cardinality(AllAcks) + 1
<1> DEFINE n == AcksTo(c)
           e == <<c, n + 1>>
<1>1. n \in Nat
  BY AcksToNat
<1>2. 1..(n + 1) = (1..n) \cup {n + 1} /\ n + 1 \notin 1..n
  BY <1>1
<1>3. AllAcks' = UNION {{x} \X (1..AcksTo(x)') : x \in Clients}
  BY DEF AllAcks
<1>4. AllAcks' = AllAcks \cup {e}
  <2>1. AcksTo(c)' = n + 1
    OBVIOUS
  <2> HIDE DEF n
  <2>2. {c} \X (1..AcksTo(c)') = ({c} \X (1..n)) \cup {e}
    BY <1>2, <2>1
  <2>3. ASSUME NEW y \in AllAcks' PROVE y \in AllAcks \cup {e}
    <3>1. PICK x \in Clients : y \in {x} \X (1..AcksTo(x)')
      BY <1>3, <2>3
    <3>2. CASE x = c
      BY <2>2, <3>1, <3>2 DEF AllAcks, n
    <3>3. CASE x # c
      BY <3>1, <3>3 DEF AllAcks
    <3> QED
      BY <3>2, <3>3
  <2>4. ASSUME NEW y \in AllAcks \cup {e} PROVE y \in AllAcks'
    <3>1. CASE y = e
      BY <1>3, <2>2, <3>1
    <3>2. CASE y \in AllAcks
      <4>1. PICK x \in Clients : y \in {x} \X (1..AcksTo(x))
        BY <3>2 DEF AllAcks
      <4>2. CASE x = c
        BY <1>3, <2>2, <4>1, <4>2 DEF n
      <4>3. CASE x # c
        BY <1>3, <4>1, <4>3
      <4> QED
        BY <4>2, <4>3
    <3> QED
      BY <2>4, <3>1, <3>2
  <2> QED
    BY <2>3, <2>4
<1>5. e \notin AllAcks
  <2> HIDE DEF n
  <2> QED
    BY <1>2 DEF AllAcks, n
<1> QED
  BY <1>4, <1>5, FS_AddElement

-----------------------------------------------------------------------------
(* The steps *)

(* Handling a request counts and acknowledges a message, or neither. *)
LEMMA HandlingAcks ==
  ASSUME SystemTypes, ClientsInv, NEW c \in Clients, ServerReceives(c)
  PROVE  \/ /\ msg_list' = msg_list
            /\ \A x \in Clients : AcksTo(x)' = AcksTo(x)
         \/ /\ msg_list' = msg_list + 1
            /\ AcksTo(c)' = AcksTo(c) + 1
            /\ \A x \in Clients \ {c} : AcksTo(x)' = AcksTo(x)
<1> DEFINE d == Head(toServer[c])
           ack == Success("MESSAGE SENT")
<1>1. Wrote(c, d) /\ Handles(c, d) /\ UNCHANGED ackedCount
  BY Handled DEF clientVars
<1> HIDE DEF d
<1>2. d \in Datum /\ \A x \in Clients : toClient[x] \in Seq(Datum)
  BY <1>1 DEF Wrote, SystemTypes
<1>3. ASSUME msg_list' = msg_list, NEW r \in Datum, r # ack, Answers(c, r)
      PROVE  /\ msg_list' = msg_list
             /\ \A x \in Clients : AcksTo(x)' = AcksTo(x)
  <2>1. \A x \in Clients : toClient'[x] = toClient[x] \/ toClient'[x] = Append(toClient[x], r)
    BY <1>3 DEF Answers
  <2>2. \A x \in Clients : Cardinality(AcksIn(toClient'[x])) = Cardinality(AcksIn(toClient[x]))
    BY <1>2, <1>3, <2>1, AcksAppend
  <2> QED
    BY <1>1, <1>3, <2>2 DEF AcksTo
<1>4. CASE Challenges(c, d)
  <2>1. challenge[c] \in Nat
    BY DEF SystemTypes
  <2>2. challenge[c] + 1 \in Nat
    BY <2>1
  <2>3. AskVerify(challenge[c] + 1) \in Datum /\ AskVerify(challenge[c] + 1) # ack
    BY <2>2, ReplyTypes
  <2>4. msg_list' = msg_list /\ \E r \in Datum : r # ack /\ Answers(c, r)
    BY <1>4, <2>3 DEF Challenges
  <2> QED
    BY <1>3, <2>4
<1>5. CASE Admits(c, d) \/ JoinsChannel(c, d)
  <2>1. /\ Success("Connected to Network") \in Datum /\ Success("Connected to Network") # ack
        /\ Success("Connected to channel") \in Datum /\ Success("Connected to channel") # ack
    BY ReplyTypes DEF Success, MakeDatum
  <2>2. msg_list' = msg_list /\ \E r \in Datum : r # ack /\ Answers(c, r)
    BY <1>5, <2>1 DEF Admits, JoinsChannel
  <2> QED
    BY <1>3, <2>2
<1>6. CASE Refuses(c, d)
  <2>1. PICK text \in Texts : Answers(c, Error(text))
    BY <1>6 DEF Refuses
  <2>2. Error(text) \in Datum /\ Error(text) # ack
    BY ReplyTypes DEF Error, Success, MakeDatum
  <2>3. msg_list' = msg_list /\ \E r \in Datum : r # ack /\ Answers(c, r)
    BY <1>6, <2>1, <2>2 DEF Refuses
  <2> QED
    BY <1>3, <2>3
<1>7. CASE Ignores(c, d)
  BY <1>1, <1>7 DEF Ignores, AcksTo
<1>8. CASE Delivers(c, d)
  <2>1. ack \in Datum /\ d # ack /\ msg_list' = msg_list + 1
    BY <1>8, ReplyTypes DEF Delivers
  <2> DEFINE out(x) == IF x \in S!Recipients(c, d) THEN Append(toClient[x], d)
                       ELSE toClient[x]
  <2>2. \A x \in Clients : /\ out(x) \in Seq(Datum)
                           /\ toClient'[x] = IF x = c THEN Append(out(x), ack) ELSE out(x)
    BY <1>2, <1>8, DeliveredTo
  <2>3. ASSUME NEW x \in Clients
        PROVE  Cardinality(AcksIn(out(x))) = Cardinality(AcksIn(toClient[x]))
    <3>1. Cardinality(AcksIn(Append(toClient[x], d))) = Cardinality(AcksIn(toClient[x]))
      BY <1>2, <2>1, AcksAppend
    <3> QED
      BY <3>1
  <2> HIDE DEF out
  <2>4. \A x \in Clients \ {c} : AcksTo(x)' = AcksTo(x)
    BY <1>1, <2>2, <2>3 DEF AcksTo
  <2>5. AcksTo(c)' = AcksTo(c) + 1
    <3>1. Cardinality(AcksIn(toClient'[c])) = Cardinality(AcksIn(toClient[c])) + 1
      BY <2>1, <2>2, <2>3, AcksAppend
    <3> DEFINE n == Cardinality(AcksIn(toClient[c]))
    <3>2. n \in Nat /\ ackedCount[c] \in Nat
      BY <1>2, AcksAreFinite DEF SystemTypes
    <3>3. AcksTo(c)' = ackedCount[c] + (n + 1)
      BY <1>1, <3>1 DEF AcksTo
    <3> HIDE DEF n
    <3>4. ackedCount[c] + (n + 1) = (ackedCount[c] + n) + 1
      BY <3>2
    <3> QED
      BY <3>3, <3>4 DEF AcksTo, n
  <2> QED
    BY <2>1, <2>4, <2>5
<1> QED
  BY <1>1, <1>4, <1>5, <1>6, <1>7, <1>8 DEF Handles

(* A client counts the acknowledgements it reads, and no others. *)
LEMMA CountingAcks ==
  ASSUME SystemTypes, ClientsInv, NEW c \in Clients, ClientReceives(c)
  PROVE  /\ \A x \in Clients : AcksTo(x)' = AcksTo(x)
         /\ \A x \in Clients \ {c} : toClient'[x] = toClient[x] /\ ackedCount'[x] = ackedCount[x]
<1> DEFINE r == Head(toClient[c])
           ack == Success("MESSAGE SENT")
<1>1. S!Read(c) /\ C!getConnectionListener(c, r)
  BY DEF ClientReceives
<1>2. /\ r \in Datum /\ toClient[c] # <<>> /\ toClient[c] \in Seq(Datum)
      /\ toClient' = [toClient EXCEPT ![c] = Tail(@)]
  BY <1>1, ReadTypes DEF S!Read, SystemTypes
<1>3. /\ Cardinality(AcksIn(toClient[c])) =
           IF r = ack THEN Cardinality(AcksIn(Tail(toClient[c]))) + 1
           ELSE Cardinality(AcksIn(Tail(toClient[c])))
      /\ Cardinality(AcksIn(Tail(toClient[c]))) \in Nat
  BY <1>2, AcksTail, AcksAreFinite, TailItems
<1> HIDE DEF r
<1>4. \/ r = ack /\ ackedCount' = [ackedCount EXCEPT ![c] = @ + 1]
      \/ r # ack /\ UNCHANGED ackedCount
  BY <1>1, <1>2, ClientsParts, Listened DEF Proceeds, Counts, Drops
<1>5. \A x \in Clients \ {c} : toClient'[x] = toClient[x] /\ ackedCount'[x] = ackedCount[x]
  BY <1>2, <1>4 DEF SystemTypes
<1>6. AcksTo(c)' = AcksTo(c)
  <2> DEFINE n == Cardinality(AcksIn(Tail(toClient[c])))
             k == ackedCount[c]
  <2>1. n \in Nat /\ k \in Nat
    BY <1>3 DEF SystemTypes
  <2>2. AcksTo(c)' = IF r = ack THEN (k + 1) + n ELSE k + n
    <3>1. toClient'[c] = Tail(toClient[c])
      BY <1>2 DEF SystemTypes
    <3>2. ackedCount'[c] = IF r = ack THEN k + 1 ELSE k
      BY <1>4 DEF SystemTypes
    <3> QED
      BY <3>1, <3>2 DEF AcksTo
  <2>3. AcksTo(c) = IF r = ack THEN k + (n + 1) ELSE k + n
    BY <1>3 DEF AcksTo
  <2> HIDE DEF n, k
  <2>4. (k + 1) + n = k + (n + 1)
    BY <2>1
  <2>5. CASE r = ack
    BY <2>2, <2>3, <2>4, <2>5
  <2>6. CASE r # ack
    BY <2>2, <2>3, <2>6
  <2> QED
    BY <2>5, <2>6
<1>7. \A x \in Clients \ {c} : AcksTo(x)' = AcksTo(x)
  BY <1>5 DEF AcksTo
<1> QED
  BY <1>5, <1>6, <1>7

(* Nobody is written to, or counts, before its connection opens. *)
BeforeOpen == \A c \in Clients : conn[c] = "unused" => toClient[c] = <<>> /\ ackedCount[c] = 0

(* The server writes to open connections only, and an open one is not reused. *)
LEMMA BeforeOpenStep ==
  ASSUME SystemTypes, ClientsInv, TablesInv, BeforeOpen, [Next]_vars
  PROVE  BeforeOpen'
<1> SUFFICES ASSUME NEW x \in Clients, conn'[x] = "unused"
             PROVE  toClient'[x] = <<>> /\ ackedCount'[x] = 0
  BY DEF BeforeOpen
<1>1. CASE conn[x] = "unused" /\ toClient'[x] = toClient[x] /\ ackedCount'[x] = ackedCount[x]
  BY <1>1 DEF BeforeOpen
<1>2. ASSUME NEW c \in Clients, Connects(c) PROVE toClient'[x] = <<>> /\ ackedCount'[x] = 0
  <2>1. conn' = [conn EXCEPT ![c] = "open"] /\ UNCHANGED <<toClient, ackedCount>>
    BY <1>2 DEF Connects, S!onClientConnected, S!tables, clientVars
  <2> QED
    BY <1>1, <2>1 DEF SystemTypes
<1>3. ASSUME NEW c \in Clients, Starts(c) \/ UserTypes(c)
      PROVE  toClient'[x] = <<>> /\ ackedCount'[x] = 0
  <2>1. StageFits
    BY ClientsParts
  <2>2. UNCHANGED <<conn, toClient, ackedCount>>
    BY <1>3, <2>1, Started, Typed DEF Starts, UserTypes, Enqueues, serverVars
  <2> QED
    BY <1>1, <2>2
<1>4. ASSUME NEW c \in Clients, ServerReceives(c)
      PROVE  toClient'[x] = <<>> /\ ackedCount'[x] = 0
  <2> DEFINE d == Head(toServer[c])
  <2>1. conn[c] = "open" /\ Wrote(c, d) /\ Handles(c, d) /\ UNCHANGED <<conn, ackedCount>>
    BY <1>4, Handled DEF clientVars
  <2> HIDE DEF d
  <2>2. x # c
    BY <2>1
  <2>3. x \in S!Recipients(c, d) /\ d.type = "msg" => conn[x] = "open"
    BY <2>1, RecipientsAre
  <2>4. toClient'[x] = toClient[x]
    <3>1. ASSUME NEW r, Answers(c, r) PROVE toClient'[x] = toClient[x]
      BY <2>2, <3>1 DEF Answers
    <3>2. CASE Delivers(c, d)
      BY <2>1, <2>2, <2>3, <3>2, DeliveredTo DEF Wrote, Delivers
    <3> QED
      BY <2>1, <3>1, <3>2
      DEF Handles, Challenges, Admits, JoinsChannel, Ignores, Refuses, Answers
  <2> QED
    BY <1>1, <2>1, <2>4
<1>5. ASSUME NEW c \in Clients, ClientReceives(c)
      PROVE  toClient'[x] = <<>> /\ ackedCount'[x] = 0
  <2>1. conn' = conn /\ toClient[c] # <<>>
    BY <1>5 DEF ClientReceives, S!Read
  <2>2. x # c
    BY <2>1 DEF BeforeOpen
  <2>3. toClient'[x] = toClient[x] /\ ackedCount'[x] = ackedCount[x]
    BY <1>5, <2>2, CountingAcks
  <2> QED
    BY <1>1, <2>1, <2>3
<1>6. ASSUME NEW c \in Clients, Breaks(c) PROVE toClient'[x] = <<>> /\ ackedCount'[x] = 0
  <2>1. conn' = [conn EXCEPT ![c] = "closed"] /\ UNCHANGED <<toClient, ackedCount>>
    BY <1>6, Left DEF Leaves, clientVars
  <2> QED
    BY <1>1, <2>1 DEF SystemTypes
<1>7. ASSUME NEW c \in Clients, LosesRequests(c) PROVE toClient'[x] = <<>> /\ ackedCount'[x] = 0
  BY <1>1, <1>7 DEF LosesRequests, serverVars, clientVars
<1>8. ASSUME NEW c \in Clients, LosesReplies(c) PROVE toClient'[x] = <<>> /\ ackedCount'[x] = 0
  <2>1. /\ toClient' = [toClient EXCEPT ![c] = <<>>] /\ UNCHANGED <<conn, ackedCount>>
    BY <1>8 DEF LosesReplies, S!Lose, clientVars
  <2>2. toClient'[x] \in {toClient[x], <<>>}
    BY <2>1 DEF SystemTypes
  <2> QED
    BY <1>1, <2>1, <2>2 DEF BeforeOpen
<1>9. ASSUME Crashes PROVE toClient'[x] = <<>> /\ ackedCount'[x] = 0
  <2>1. /\ conn'[x] = IF conn[x] = "open" THEN "closed" ELSE conn[x]
        /\ UNCHANGED <<toClient, ackedCount>>
    BY <1>9, Emptied DEF Empties, clientVars
  <2> QED
    BY <1>1, <2>1
<1>10. ASSUME Restarts \/ UNCHANGED vars PROVE toClient'[x] = <<>> /\ ackedCount'[x] = 0
  BY <1>1, <1>10 DEF Restarts, S!Restart, vars, serverVars, clientVars
<1> QED
  BY <1>2, <1>3, <1>4, <1>5, <1>6, <1>7, <1>8, <1>9, <1>10 DEF Next

(* While all connections live, the sum follows the server's count. *)
LEMMA SumStep ==
  ASSUME SystemTypes, SystemTypes', ClientsInv, TablesInv, AcksInv, [Next]_vars,
         \A c \in Clients : conn'[c] # "closed"
  PROVE  IsFiniteSet(AllAcks') /\ msg_list' = Cardinality(AllAcks')
<1>1. ASSUME \A c \in Clients : conn[c] # "closed", msg_list' = msg_list,
             \A x \in Clients : AcksTo(x)' = AcksTo(x)
      PROVE  IsFiniteSet(AllAcks') /\ msg_list' = Cardinality(AllAcks')
  BY <1>1, SumKept DEF AcksInv, EveryMessageIsAcknowledgedOnce
<1>2. ASSUME NEW c \in Clients, ServerReceives(c)
      PROVE  IsFiniteSet(AllAcks') /\ msg_list' = Cardinality(AllAcks')
  <2>1. conn' = conn
    BY <1>2, Handled
  <2>2. IsFiniteSet(AllAcks) /\ msg_list = Cardinality(AllAcks)
    BY <2>1 DEF AcksInv, EveryMessageIsAcknowledgedOnce
  <2> QED
    BY <1>1, <1>2, <2>1, <2>2, HandlingAcks, SumGrows
<1>3. ASSUME NEW c \in Clients, Breaks(c)
      PROVE  FALSE
  <2>1. conn' = [conn EXCEPT ![c] = "closed"]
    BY <1>3, Left DEF Leaves
  <2> QED
    BY <2>1 DEF SystemTypes
<1>4. ASSUME NEW c \in Clients, LosesRequests(c) \/ LosesReplies(c)
      PROVE  FALSE
  BY <1>4 DEF LosesRequests, LosesReplies, S!Lose, serverVars
<1>5. ASSUME NEW c \in Clients, ClientReceives(c)
      PROVE  IsFiniteSet(AllAcks') /\ msg_list' = Cardinality(AllAcks')
  <2>1. UNCHANGED <<conn, msg_list>>
    BY <1>5 DEF ClientReceives, S!Read, S!tables
  <2> QED
    BY <1>1, <1>5, <2>1, CountingAcks
<1>6. ASSUME UNCHANGED <<msg_list, toClient, ackedCount>>,
             \A x \in Clients : conn[x] = "closed" => conn'[x] = "closed"
      PROVE  IsFiniteSet(AllAcks') /\ msg_list' = Cardinality(AllAcks')
  BY <1>1, <1>6 DEF AcksTo
<1>7. ASSUME NEW c \in Clients, Connects(c)
      PROVE  IsFiniteSet(AllAcks') /\ msg_list' = Cardinality(AllAcks')
  <2>1. /\ conn[c] = "unused" /\ conn' = [conn EXCEPT ![c] = "open"]
        /\ UNCHANGED <<msg_list, toClient, ackedCount>>
    BY <1>7 DEF Connects, S!onClientConnected, S!tables, clientVars
  <2>2. \A x \in Clients : conn[x] = "closed" => conn'[x] = "closed"
    BY <2>1 DEF SystemTypes
  <2> QED
    BY <1>6, <2>1, <2>2
<1>8. ASSUME NEW c \in Clients, Starts(c) \/ UserTypes(c)
      PROVE  IsFiniteSet(AllAcks') /\ msg_list' = Cardinality(AllAcks')
  <2>1. StageFits
    BY ClientsParts
  <2>2. UNCHANGED <<conn, msg_list, toClient, ackedCount>>
    BY <1>8, <2>1, Started, Typed DEF Starts, UserTypes, Enqueues, serverVars
  <2> QED
    BY <1>6, <2>2
<1>9. ASSUME Crashes
      PROVE  IsFiniteSet(AllAcks') /\ msg_list' = Cardinality(AllAcks')
  <2>1. /\ \A x \in Clients : conn'[x] = IF conn[x] = "open" THEN "closed" ELSE conn[x]
        /\ UNCHANGED <<toClient, ackedCount>> /\ msg_list' = 0
    BY <1>9 DEF Crashes, S!Exit, S!Die, clientVars
  <2>2. \A x \in Clients : conn[x] = "unused"
    BY <2>1 DEF SystemTypes
  <2>3. \A x \in Clients : toClient'[x] = <<>> /\ ackedCount'[x] = 0
    BY <2>1, <2>2 DEF AcksInv
  <2>5. \A x \in Clients : AcksTo(x)' = 0
    <3>1. \A x \in Clients : AcksTo(x)' = 0 + 0
      BY <2>3, NoAcks DEF AcksTo
    <3> QED
      BY <3>1
  <2>6. AllAcks' = {}
    BY <2>5 DEF AllAcks
  <2> QED
    BY <2>1, <2>6, FS_EmptySet
<1>10. ASSUME Restarts \/ UNCHANGED vars
       PROVE  IsFiniteSet(AllAcks') /\ msg_list' = Cardinality(AllAcks')
  <2>1. UNCHANGED <<conn, msg_list, toClient, ackedCount>>
    BY <1>10 DEF Restarts, S!Restart, S!tables, vars, serverVars, clientVars
  <2> QED
    BY <1>6, <2>1
<1> QED
  BY <1>2, <1>3, <1>4, <1>5, <1>7, <1>8, <1>9, <1>10 DEF Next

-----------------------------------------------------------------------------
(* What is proved *)

(* While every connection lives, the server has counted a message for each
   acknowledgement that a client has counted or that is on its way, and no
   other: whatever was sent again, to whomever, each copy the server accepted
   is acknowledged to its author exactly once.  Of clients with any keys. *)
THEOREM MessagesAreAcknowledged == Spec => []EveryMessageIsAcknowledgedOnce
<1> DEFINE Inv == SystemTypes /\ ClientsInv /\ TablesInv /\ AcksInv
<1>1. Init => Inv
  <2> SUFFICES ASSUME Init PROVE AcksInv
    BY TypesInit, TablesInit
  <2>1. msg_list = 0 /\ \A x \in Clients : toClient[x] = <<>> /\ ackedCount[x] = 0
    BY DEF Init, S!Init, C!Init
  <2>3. \A x \in Clients : AcksTo(x) = 0
    <3>1. \A x \in Clients : AcksTo(x) = 0 + 0
      BY <2>1, NoAcks DEF AcksTo
    <3> QED
      BY <3>1
  <2>4. AllAcks = {}
    BY <2>3 DEF AllAcks
  <2> QED
    BY <2>1, <2>4, FS_EmptySet DEF AcksInv, EveryMessageIsAcknowledgedOnce
<1>2. Inv /\ [Next]_vars => Inv'
  <2> SUFFICES ASSUME Inv, [Next]_vars PROVE Inv'
    OBVIOUS
  <2>1. SystemTypes' /\ ClientsInv' /\ TablesInv'
    BY TypesStep, TablesStep
  <2>2. BeforeOpen'
    BY BeforeOpenStep DEF AcksInv, BeforeOpen
  <2>3. (\A c \in Clients : conn'[c] # "closed")
          => IsFiniteSet(AllAcks') /\ msg_list' = Cardinality(AllAcks')
    BY <2>1, SumStep
  <2>4. AcksInv'
    BY <2>2, <2>3 DEF AcksInv, BeforeOpen, EveryMessageIsAcknowledgedOnce
  <2> QED
    BY <2>1, <2>4
<1>3. Inv => EveryMessageIsAcknowledgedOnce
  BY DEF AcksInv
<1> HIDE DEF Inv
<1> QED
  BY <1>1, <1>2, <1>3, PTL DEF Spec

=============================================================================

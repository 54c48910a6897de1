----------------------- MODULE ListeningClientProofs -----------------------
(***************************************************************************)
(* The listeners of a client, for any application and any server: what is  *)
(* proved of the client without them holds of it with them.                *)
(***************************************************************************)
EXTENDS ListeningClient, DarkClientProofs

USE ListenerAssumption

-----------------------------------------------------------------------------
(* The invariant *)

(* Every place that is not null is that of one waiting ticket. *)
PreEntries ==
  /\ \A r, q \in Tickets :
       r # q /\ PreOf[r] = PreOf[q] /\ ids[r] # NoId /\ ids[q] # NoId
         => ids[r][1] # ids[q][1]
  /\ \A st \in Stages : \A i \in 1..Len(preListeners[st]) :
       preListeners[st][i] # NoFn
         => \E r \in Tickets : Waiting(r) /\ PreOf[r] = st /\ ids[r][1] = i

PostEntries ==
  /\ \A r, q \in Tickets :
       r # q /\ PostOf[r] = PostOf[q] /\ ids[r] # NoId /\ ids[q] # NoId
         => ids[r][2] # ids[q][2]
  /\ \A st \in Stages : \A i \in 1..Len(postListeners[st]) :
       postListeners[st][i] # NoFn
         => \E r \in Tickets : Waiting(r) /\ PostOf[r] = st /\ ids[r][2] = i

GoneHadIds == \A r \in gone : ids[r] # NoId

PlacesInv == IdsStayTrue /\ PreEntries /\ PostEntries /\ GoneHadIds

(* The builder is what the datum made of the stage the client is still in. *)
BuilderInv ==
  builder # NoBuilder =>
    /\ datum \in Answers /\ NotAck(datum) /\ started[me]
    /\ builder \in parseReplyToNextBuilder(datum)

(* fn was added for the old stage, and for the new. *)
AddedForBoth(fn) ==
  /\ \E r \in Tickets : FnOf[r] = fn /\ PreOf[r] = stage[me]
  /\ \E q \in Tickets : FnOf[q] = fn /\ PostOf[q] = builder.stage

CallsInv ==
  /\ builder = NoBuilder => running = NoFn /\ todo = {}
  /\ running # NoFn => AddedForBoth(running)
  /\ \A x \in todo : AddedForBoth(x[2])

(* The function of a promised ticket is called from its one place. *)
PromisesInv ==
  \A r \in Promised :
    /\ running = FnOf[r] =>
         /\ Waiting(r)
         /\ \A x \in todo : x[2] # FnOf[r]
    /\ \A x \in todo : x[2] = FnOf[r] => Waiting(r) /\ x[1] = ids[r][1]

LInv ==
  /\ TypeOK /\ StagesFitKind /\ ListenTypeOK
  /\ PlacesInv
  /\ BuilderInv
  /\ CallsInv
  /\ PromisesInv
  /\ EveryoneDueIsCalled

-----------------------------------------------------------------------------
(* Steps of the client itself *)

ClientStep ==
  Starts \/ TypesMessage \/ \E d \in Answers : ReceivesAck(d)

(* They leave the listeners alone, and the stage while a datum is handled. *)
LEMMA ClientStepFrame ==
  ASSUME TypeOK, BuilderInv, ClientStep
  PROVE  /\ UNCHANGED <<tableVars, callVars>>
         /\ builder # NoBuilder => UNCHANGED <<stage, remaining, challengeSig, started>>
<1>1. UNCHANGED <<tableVars, callVars>>
  BY DEF ClientStep, Starts, TypesMessage, ReceivesAck
<1>2. CASE Starts
  BY <1>1, <1>2 DEF Starts, start, BuilderInv
<1>3. CASE TypesMessage
  BY <1>1, <1>3 DEF TypesMessage, UserTypes, enqueueUserDatum
<1>4. CASE \E d \in Answers : ReceivesAck(d)
  BY <1>1, <1>4 DEF ReceivesAck
<1> QED
  BY <1>1, <1>2, <1>3, <1>4 DEF ClientStep

(* The steps of the listeners leave the client alone. *)
ListenerStep ==
  \/ \E r \in Tickets : addStageListener(r)
  \/ \E r \in Tickets : removeStageListener(r)
  \/ \E d \in Answers : Receives(d)
  \/ \E x \in todo : Calls(x)
  \/ \E r \in Tickets : ReturnsPlain(r)
  \/ \E r \in Tickets : ReturnsPromised(r)
  \/ \E r \in Tickets : ThrowsPlain(r)
  \/ \E r \in Tickets : ThrowsPromised(r)

(* A listener's step leaves the client's own fields alone. *)
LEMMA ListenerStepFrame == ASSUME ListenerStep PROVE UNCHANGED vars
BY DEF ListenerStep, addStageListener, removeStageListener, Receives, Calls,
       ReturnsPlain, ReturnsPromised, ThrowsPlain, ThrowsPromised

(* A step is the client's, a listener's, or the parser's that awaited them. *)
LEMMA NextCases == ASSUME ListenNext PROVE ClientStep \/ ListenerStep \/ Advances
BY DEF ListenNext, ClientStep, ListenerStep

-----------------------------------------------------------------------------
(* Refinement *)

(* What Advances does is what the stage's parser and startStage do at once. *)
LEMMA AdvancesIsServerSends ==
  ASSUME TypeOK, BuilderInv, Advances
  PROVE  ServerSends(me, datum) /\ datum \in Answers
<1>1. /\ datum \in Answers /\ NotAck(datum) /\ started[me] /\ Quiet(me)
      /\ builder \in parseReplyToNextBuilder(datum)
      /\ startStage(me, builder.stage, builder.remaining, builder.challengeSig)
      /\ UNCHANGED <<started, queue, sentCount, ackedCount>>
  BY DEF BuilderInv, Advances
<1>2. /\ stage[me] \in MessageStages => Hear(me, datum)
      /\ stage[me] \notin MessageStages => UNCHANGED heard
  BY DEF Advances
<1>3. stage[me] \in Stages
  BY DEF TypeOK
<1>4. builder = Now => Again(me)
  BY <1>1 DEF Now, Again
<1>5. CASE stage[me] = "requestChallenge"
  <2>1. CASE datum.type = "verify"
    <3>1. /\ datum.msg # 0
          /\ builder = [Now EXCEPT !.stage = "signChallenge", !.challengeSig = datum.msg]
      BY <1>1, <1>5, <2>1 DEF parseReplyToNextBuilder
    <3>2. builder.stage = "signChallenge" /\ builder.remaining = remaining[me]
          /\ builder.challengeSig = datum.msg
      BY <3>1 DEF Now
    <3> QED
      BY <1>1, <1>2, <1>5, <2>1, <3>1, <3>2
         DEF ServerSends, getConnectionListener, Challenged, MessageStages
  <2>2. CASE datum.type # "verify"
    <3>1. builder = Now
      BY <1>1, <1>5, <2>2 DEF parseReplyToNextBuilder
    <3> QED
      BY <1>1, <1>2, <1>4, <1>5, <2>2, <3>1
         DEF ServerSends, getConnectionListener, Unexpected, MessageStages
  <2> QED
    BY <2>1, <2>2
<1>6. CASE stage[me] = "signChallenge"
  <2>1. CASE datum.type = "success"
    <3>1. remaining[me] # <<>>
      BY <1>1, <1>6, <2>1 DEF parseReplyToNextBuilder
    <3>2. builder = [Now EXCEPT !.stage = Head(remaining[me]),
                                !.remaining = Tail(remaining[me])]
      BY <1>1, <1>6, <2>1, <3>1 DEF parseReplyToNextBuilder
    <3>3. builder.stage = Head(remaining[me]) /\ builder.remaining = Tail(remaining[me])
          /\ builder.challengeSig = challengeSig[me]
      BY <3>2 DEF Now
    <3> QED
      BY <1>1, <1>2, <1>6, <2>1, <3>1, <3>3
         DEF ServerSends, getConnectionListener, Registers, MessageStages
  <2>2. CASE datum.type # "success"
    <3>1. builder = Now
      BY <1>1, <1>6, <2>2 DEF parseReplyToNextBuilder
    <3> QED
      BY <1>1, <1>2, <1>4, <1>6, <2>2, <3>1
         DEF ServerSends, getConnectionListener, Unexpected, MessageStages
  <2> QED
    BY <2>1, <2>2
<1>7. CASE stage[me] = "joinPublicChannel"
  <2>1. CASE datum.type = "success"
    <3>1. builder = [Now EXCEPT !.stage = "publicMessage"]
      BY <1>1, <1>7, <2>1 DEF parseReplyToNextBuilder
    <3>2. builder.stage = "publicMessage" /\ builder.remaining = remaining[me]
          /\ builder.challengeSig = challengeSig[me]
      BY <3>1 DEF Now
    <3> QED
      BY <1>1, <1>2, <1>7, <2>1, <3>2
         DEF ServerSends, getConnectionListener, Joins, MessageStages
  <2>2. CASE datum.type # "success"
    <3>1. builder = Now
      BY <1>1, <1>7, <2>2 DEF parseReplyToNextBuilder
    <3> QED
      BY <1>1, <1>2, <1>4, <1>7, <2>2, <3>1
         DEF ServerSends, getConnectionListener, Unexpected, MessageStages
  <2> QED
    BY <2>1, <2>2
<1>8. CASE stage[me] = "publicMessage"
  <2>1. builder = Now
    BY <1>1, <1>8 DEF parseReplyToNextBuilder
  <2> QED
    BY <1>1, <1>2, <1>4, <1>8, <2>1
       DEF ServerSends, getConnectionListener, HearsChannel, MessageStages
<1>9. CASE stage[me] = "privateMessage"
  <2>1. builder = Now /\ Decrypts(me, datum)
    BY <1>1, <1>9 DEF parseReplyToNextBuilder
  <2> QED
    BY <1>1, <1>2, <1>4, <1>9, <2>1
       DEF ServerSends, getConnectionListener, HearsPartner, MessageStages
<1> QED
  BY <1>3, <1>5, <1>6, <1>7, <1>8, <1>9 DEF Stages

(* Every step with listeners is one of the client without, or none. *)
LEMMA StepAtOnce ==
  ASSUME TypeOK, BuilderInv, [ListenNext]_listenVars
  PROVE  [Next]_vars
<1>1. CASE ClientStep
  <2>1. CASE Starts
    BY <2>1 DEF Starts, Next
  <2>2. CASE TypesMessage
    BY <2>2 DEF TypesMessage, Next
  <2>3. CASE \E d \in Answers : ReceivesAck(d)
    BY <2>3 DEF ReceivesAck, Next, ServerSends, getConnectionListener
  <2> QED
    BY <1>1, <2>1, <2>2, <2>3 DEF ClientStep
<1>2. CASE ListenerStep
  BY <1>2, ListenerStepFrame
<1>3. CASE Advances
  BY <1>3, AdvancesIsServerSends DEF Next
<1>4. CASE UNCHANGED listenVars
  BY <1>4 DEF listenVars
<1> QED
  BY <1>1, <1>2, <1>3, <1>4, NextCases

-----------------------------------------------------------------------------
(* Places *)

Maps == <<preListeners, postListeners, ids, gone>>

(* PlacesInv is about the two maps, the ids and who has gone. *)
LEMMA MapsUnchanged == ASSUME PlacesInv, UNCHANGED Maps PROVE PlacesInv'
BY DEF Maps, PlacesInv, IdsStayTrue, PreEntries, PostEntries, GoneHadIds, Waiting

(* What the two maps hold after a listener was added. *)
LEMMA AddedMaps ==
  ASSUME ListenTypeOK, NEW r \in Tickets, addStageListener(r)
  PROVE  /\ preListeners' \in [Stages -> Seq(Fns \cup {NoFn})]
         /\ postListeners' \in [Stages -> Seq(Fns \cup {NoFn})]
         /\ ids'[r] = <<Len(preListeners[PreOf[r]]) + 1, Len(postListeners[PostOf[r]]) + 1>>
         /\ \A q \in Tickets : q # r => ids'[q] = ids[q]
         /\ \A st \in Stages :
              /\ Len(preListeners'[st]) =
                   IF st = PreOf[r] THEN Len(preListeners[st]) + 1 ELSE Len(preListeners[st])
              /\ Len(postListeners'[st]) =
                   IF st = PostOf[r] THEN Len(postListeners[st]) + 1 ELSE Len(postListeners[st])
              /\ \A i \in 1..Len(preListeners[st]) : preListeners'[st][i] = preListeners[st][i]
              /\ \A i \in 1..Len(postListeners[st]) : postListeners'[st][i] = postListeners[st][i]
         /\ preListeners'[PreOf[r]][Len(preListeners[PreOf[r]]) + 1] = FnOf[r]
         /\ postListeners'[PostOf[r]][Len(postListeners[PostOf[r]]) + 1] = FnOf[r]
<1>1. /\ PreOf[r] \in Stages /\ PostOf[r] \in Stages /\ FnOf[r] \in Fns \cup {NoFn}
  BY DEF Fns
<1>2. /\ preListeners \in [Stages -> Seq(Fns \cup {NoFn})]
      /\ postListeners \in [Stages -> Seq(Fns \cup {NoFn})]
      /\ ids \in [Tickets -> Nat \X Nat]
  BY DEF ListenTypeOK
<1>3. /\ preListeners' = [preListeners EXCEPT
                            ![PreOf[r]] = Append(preListeners[PreOf[r]], FnOf[r])]
      /\ postListeners' = [postListeners EXCEPT
                             ![PostOf[r]] = Append(postListeners[PostOf[r]], FnOf[r])]
      /\ ids' = [ids EXCEPT ![r] = <<Len(preListeners'[PreOf[r]]),
                                     Len(postListeners'[PostOf[r]])>>]
  BY DEF addStageListener
<1>4. /\ Append(preListeners[PreOf[r]], FnOf[r]) \in Seq(Fns \cup {NoFn})
      /\ Append(postListeners[PostOf[r]], FnOf[r]) \in Seq(Fns \cup {NoFn})
  BY <1>1, <1>2
<1>5. /\ Len(Append(preListeners[PreOf[r]], FnOf[r])) = Len(preListeners[PreOf[r]]) + 1
      /\ Append(preListeners[PreOf[r]], FnOf[r])[Len(preListeners[PreOf[r]]) + 1] = FnOf[r]
      /\ \A i \in 1..Len(preListeners[PreOf[r]]) :
           Append(preListeners[PreOf[r]], FnOf[r])[i] = preListeners[PreOf[r]][i]
  BY <1>1, <1>2
<1>6. /\ Len(Append(postListeners[PostOf[r]], FnOf[r])) = Len(postListeners[PostOf[r]]) + 1
      /\ Append(postListeners[PostOf[r]], FnOf[r])[Len(postListeners[PostOf[r]]) + 1] = FnOf[r]
      /\ \A i \in 1..Len(postListeners[PostOf[r]]) :
           Append(postListeners[PostOf[r]], FnOf[r])[i] = postListeners[PostOf[r]][i]
  BY <1>1, <1>2
<1>7. /\ preListeners'[PreOf[r]] = Append(preListeners[PreOf[r]], FnOf[r])
      /\ postListeners'[PostOf[r]] = Append(postListeners[PostOf[r]], FnOf[r])
      /\ \A st \in Stages : st # PreOf[r] => preListeners'[st] = preListeners[st]
      /\ \A st \in Stages : st # PostOf[r] => postListeners'[st] = postListeners[st]
  BY <1>1, <1>2, <1>3
<1>8. /\ preListeners' \in [Stages -> Seq(Fns \cup {NoFn})]
      /\ postListeners' \in [Stages -> Seq(Fns \cup {NoFn})]
  BY <1>1, <1>2, <1>3, <1>4
<1>9. /\ ids'[r] = <<Len(preListeners'[PreOf[r]]), Len(postListeners'[PostOf[r]])>>
      /\ \A q \in Tickets : q # r => ids'[q] = ids[q]
  BY <1>2, <1>3
<1>10. ASSUME NEW st \in Stages
       PROVE  /\ Len(preListeners'[st]) =
                   IF st = PreOf[r] THEN Len(preListeners[st]) + 1 ELSE Len(preListeners[st])
              /\ \A i \in 1..Len(preListeners[st]) : preListeners'[st][i] = preListeners[st][i]
  <2>1. CASE st = PreOf[r]
    BY <1>5, <1>7, <2>1
  <2>2. CASE st # PreOf[r]
    BY <1>7, <2>2
  <2> QED
    BY <2>1, <2>2
<1>11. ASSUME NEW st \in Stages
       PROVE  /\ Len(postListeners'[st]) =
                   IF st = PostOf[r] THEN Len(postListeners[st]) + 1 ELSE Len(postListeners[st])
              /\ \A i \in 1..Len(postListeners[st]) : postListeners'[st][i] = postListeners[st][i]
  <2>1. CASE st = PostOf[r]
    BY <1>6, <1>7, <2>1
  <2>2. CASE st # PostOf[r]
    BY <1>7, <2>2
  <2> QED
    BY <2>1, <2>2
<1>12. /\ preListeners'[PreOf[r]][Len(preListeners[PreOf[r]]) + 1] = FnOf[r]
       /\ postListeners'[PostOf[r]][Len(postListeners[PostOf[r]]) + 1] = FnOf[r]
  BY <1>5, <1>6, <1>7
<1>13. ids'[r] = <<Len(preListeners[PreOf[r]]) + 1, Len(postListeners[PostOf[r]]) + 1>>
  BY <1>5, <1>6, <1>7, <1>9
<1> QED
  BY <1>8, <1>9, <1>10, <1>11, <1>12, <1>13

(* A new id is that of nobody, and everybody keeps theirs. *)
LEMMA AddingKeepsPlaces ==
  ASSUME ListenTypeOK, PlacesInv, NEW r \in Tickets, addStageListener(r)
  PROVE  PlacesInv'
<1>0. /\ preListeners \in [Stages -> Seq(Fns \cup {NoFn})]
      /\ postListeners \in [Stages -> Seq(Fns \cup {NoFn})]
      /\ ids \in [Tickets -> Nat \X Nat]
      /\ PreOf[r] \in Stages /\ PostOf[r] \in Stages
  BY DEF ListenTypeOK
<1>1. /\ \A st \in Stages : Len(preListeners[st]) \in Nat /\ Len(postListeners[st]) \in Nat
  BY <1>0
<1>2. ids[r] = NoId /\ gone' = gone /\ r \notin gone /\ ids'[r] # NoId
      /\ ids'[r][1] = Len(preListeners[PreOf[r]]) + 1
      /\ ids'[r][2] = Len(postListeners[PostOf[r]]) + 1
  <2>1. ids[r] = NoId /\ gone' = gone
    BY DEF addStageListener
  <2>2. r \notin gone
    BY <2>1 DEF PlacesInv, GoneHadIds
  <2> QED
    BY <1>0, <1>1, <2>1, <2>2, AddedMaps DEF NoId
<1>3. \A q \in Tickets : q # r => ids'[q] = ids[q]
  BY AddedMaps
<1>4. IdsStayTrue'
  <2>1. SUFFICES ASSUME NEW q \in Tickets, ids'[q] # NoId
                 PROVE  LET fn == IF q \in gone' THEN NoFn ELSE FnOf[q]
                            i  == ids'[q][1]
                            j  == ids'[q][2]
                        IN /\ i \in 1..Len(preListeners'[PreOf[q]])
                           /\ j \in 1..Len(postListeners'[PostOf[q]])
                           /\ preListeners'[PreOf[q]][i] = fn
                           /\ postListeners'[PostOf[q]][j] = fn
    BY DEF IdsStayTrue
  <2>2. CASE q = r
    BY <1>0, <1>1, <1>2, <2>1, <2>2, AddedMaps
  <2>3. CASE q # r
    <3>1. PreOf[q] \in Stages /\ PostOf[q] \in Stages /\ ids'[q] = ids[q]
      BY <1>3, <2>3
    <3>2. /\ ids[q][1] \in 1..Len(preListeners[PreOf[q]])
          /\ ids[q][2] \in 1..Len(postListeners[PostOf[q]])
          /\ preListeners[PreOf[q]][ids[q][1]] = IF q \in gone THEN NoFn ELSE FnOf[q]
          /\ postListeners[PostOf[q]][ids[q][2]] = IF q \in gone THEN NoFn ELSE FnOf[q]
      BY <2>1, <3>1 DEF PlacesInv, IdsStayTrue
    <3>3. /\ preListeners'[PreOf[q]][ids[q][1]] = preListeners[PreOf[q]][ids[q][1]]
          /\ Len(preListeners'[PreOf[q]]) \in {Len(preListeners[PreOf[q]]),
                                              Len(preListeners[PreOf[q]]) + 1}
      BY <3>1, <3>2, AddedMaps
    <3>4. /\ postListeners'[PostOf[q]][ids[q][2]] = postListeners[PostOf[q]][ids[q][2]]
          /\ Len(postListeners'[PostOf[q]]) \in {Len(postListeners[PostOf[q]]),
                                                Len(postListeners[PostOf[q]]) + 1}
      BY <3>1, <3>2, AddedMaps
    <3>5. /\ ids[q][1] \in 1..Len(preListeners'[PreOf[q]])
          /\ ids[q][2] \in 1..Len(postListeners'[PostOf[q]])
      BY <1>1, <3>1, <3>2, <3>3, <3>4
    <3> QED
      BY <1>2, <3>1, <3>2, <3>3, <3>4, <3>5
  <2> QED
    BY <2>2, <2>3
<1>5. ASSUME NEW q \in Tickets, q # r, ids[q] # NoId
      PROVE  /\ PreOf[q] = PreOf[r] => ids'[q][1] # ids'[r][1]
             /\ PostOf[q] = PostOf[r] => ids'[q][2] # ids'[r][2]
  <2>1. /\ ids[q][1] \in 1..Len(preListeners[PreOf[q]])
        /\ ids[q][2] \in 1..Len(postListeners[PostOf[q]])
    BY <1>5 DEF PlacesInv, IdsStayTrue
  <2> QED
    BY <1>0, <1>1, <1>2, <1>3, <1>5, <2>1
<1>6. \A q \in Tickets : Waiting(q) => Waiting(q)' /\ ids'[q] = ids[q]
  BY <1>2, <1>3 DEF Waiting
<1>7. Waiting(r)'
  BY <1>2 DEF Waiting
<1>8. PreEntries'
  <2>1. \A p, q \in Tickets :
          p # q /\ PreOf[p] = PreOf[q] /\ ids'[p] # NoId /\ ids'[q] # NoId
            => ids'[p][1] # ids'[q][1]
    BY <1>3, <1>5 DEF PlacesInv, PreEntries
  <2>2. ASSUME NEW st \in Stages, NEW i \in 1..Len(preListeners'[st]),
               preListeners'[st][i] # NoFn
        PROVE  \E q \in Tickets : Waiting(q)' /\ PreOf[q] = st /\ ids'[q][1] = i
    <3>1. CASE i \in 1..Len(preListeners[st])
      <4>1. preListeners[st][i] # NoFn
        BY <2>2, <3>1, AddedMaps
      <4>2. PICK q \in Tickets : Waiting(q) /\ PreOf[q] = st /\ ids[q][1] = i
        BY <3>1, <4>1 DEF PlacesInv, PreEntries
      <4> QED
        BY <1>6, <4>2
    <3>2. CASE i \notin 1..Len(preListeners[st])
      <4>1. st = PreOf[r] /\ i = Len(preListeners[st]) + 1
        BY <1>1, <2>2, <3>2, AddedMaps
      <4> QED
        BY <1>2, <1>7, <4>1
    <3> QED
      BY <3>1, <3>2
  <2> QED
    BY <2>1, <2>2 DEF PreEntries
<1>9. PostEntries'
  <2>1. \A p, q \in Tickets :
          p # q /\ PostOf[p] = PostOf[q] /\ ids'[p] # NoId /\ ids'[q] # NoId
            => ids'[p][2] # ids'[q][2]
    BY <1>3, <1>5 DEF PlacesInv, PostEntries
  <2>2. ASSUME NEW st \in Stages, NEW i \in 1..Len(postListeners'[st]),
               postListeners'[st][i] # NoFn
        PROVE  \E q \in Tickets : Waiting(q)' /\ PostOf[q] = st /\ ids'[q][2] = i
    <3>1. CASE i \in 1..Len(postListeners[st])
      <4>1. postListeners[st][i] # NoFn
        BY <2>2, <3>1, AddedMaps
      <4>2. PICK q \in Tickets : Waiting(q) /\ PostOf[q] = st /\ ids[q][2] = i
        BY <3>1, <4>1 DEF PlacesInv, PostEntries
      <4> QED
        BY <1>6, <4>2
    <3>2. CASE i \notin 1..Len(postListeners[st])
      <4>1. st = PostOf[r] /\ i = Len(postListeners[st]) + 1
        BY <1>1, <2>2, <3>2, AddedMaps
      <4> QED
        BY <1>2, <1>7, <4>1
    <3> QED
      BY <3>1, <3>2
  <2> QED
    BY <2>1, <2>2 DEF PostEntries
<1>10. GoneHadIds'
  BY <1>2, <1>3 DEF PlacesInv, GoneHadIds, ListenTypeOK
<1> QED
  BY <1>4, <1>8, <1>9, <1>10 DEF PlacesInv

(* What the two maps hold after a listener was removed. *)
LEMMA RemovedMaps ==
  ASSUME ListenTypeOK, IdsStayTrue, NEW r \in Tickets, ids[r] # NoId, Remove(r)
  PROVE  /\ preListeners' \in [Stages -> Seq(Fns \cup {NoFn})]
         /\ postListeners' \in [Stages -> Seq(Fns \cup {NoFn})]
         /\ gone' = gone \cup {r}
         /\ \A st \in Stages :
              /\ Len(preListeners'[st]) = Len(preListeners[st])
              /\ Len(postListeners'[st]) = Len(postListeners[st])
              /\ \A i \in 1..Len(preListeners[st]) :
                   preListeners'[st][i] = IF st = PreOf[r] /\ i = ids[r][1]
                                          THEN NoFn ELSE preListeners[st][i]
              /\ \A i \in 1..Len(postListeners[st]) :
                   postListeners'[st][i] = IF st = PostOf[r] /\ i = ids[r][2]
                                           THEN NoFn ELSE postListeners[st][i]
<1>1. /\ preListeners \in [Stages -> Seq(Fns \cup {NoFn})]
      /\ postListeners \in [Stages -> Seq(Fns \cup {NoFn})]
      /\ PreOf[r] \in Stages /\ PostOf[r] \in Stages
  BY DEF ListenTypeOK
<1>2. /\ ids[r][1] \in 1..Len(preListeners[PreOf[r]])
      /\ ids[r][2] \in 1..Len(postListeners[PostOf[r]])
  BY DEF IdsStayTrue
<1> DEFINE s == [preListeners[PreOf[r]] EXCEPT ![ids[r][1]] = NoFn]
           t == [postListeners[PostOf[r]] EXCEPT ![ids[r][2]] = NoFn]
<1>3. /\ s \in Seq(Fns \cup {NoFn}) /\ Len(s) = Len(preListeners[PreOf[r]])
      /\ \A i \in 1..Len(preListeners[PreOf[r]]) :
           s[i] = IF i = ids[r][1] THEN NoFn ELSE preListeners[PreOf[r]][i]
  BY <1>1, <1>2
<1>4. /\ t \in Seq(Fns \cup {NoFn}) /\ Len(t) = Len(postListeners[PostOf[r]])
      /\ \A i \in 1..Len(postListeners[PostOf[r]]) :
           t[i] = IF i = ids[r][2] THEN NoFn ELSE postListeners[PostOf[r]][i]
  BY <1>1, <1>2
<1>5. /\ preListeners' = [preListeners EXCEPT ![PreOf[r]] = s]
      /\ postListeners' = [postListeners EXCEPT ![PostOf[r]] = t]
      /\ gone' = gone \cup {r}
  BY DEF Remove
<1> HIDE DEF s, t
<1> QED
  BY <1>1, <1>3, <1>4, <1>5

(* The places of a removed listener are null, and no other's. *)
LEMMA RemovingKeepsPlaces ==
  ASSUME ListenTypeOK, PlacesInv, NEW r \in Tickets, ids[r] # NoId, Remove(r),
         UNCHANGED ids
  PROVE  PlacesInv'
<1>0. /\ preListeners \in [Stages -> Seq(Fns \cup {NoFn})]
      /\ postListeners \in [Stages -> Seq(Fns \cup {NoFn})]
      /\ \A st \in Stages : Len(preListeners[st]) \in Nat /\ Len(postListeners[st]) \in Nat
  BY DEF ListenTypeOK
<1>1. IdsStayTrue /\ PreEntries /\ PostEntries /\ GoneHadIds
  BY DEF PlacesInv
<1>2. IdsStayTrue'
  <2>1. SUFFICES ASSUME NEW q \in Tickets, ids[q] # NoId
                 PROVE  LET fn == IF q \in gone' THEN NoFn ELSE FnOf[q]
                            i  == ids[q][1]
                            j  == ids[q][2]
                        IN /\ i \in 1..Len(preListeners'[PreOf[q]])
                           /\ j \in 1..Len(postListeners'[PostOf[q]])
                           /\ preListeners'[PreOf[q]][i] = fn
                           /\ postListeners'[PostOf[q]][j] = fn
    BY DEF IdsStayTrue
  <2>2. /\ PreOf[q] \in Stages /\ PostOf[q] \in Stages
        /\ ids[q][1] \in 1..Len(preListeners[PreOf[q]])
        /\ ids[q][2] \in 1..Len(postListeners[PostOf[q]])
        /\ preListeners[PreOf[q]][ids[q][1]] = IF q \in gone THEN NoFn ELSE FnOf[q]
        /\ postListeners[PostOf[q]][ids[q][2]] = IF q \in gone THEN NoFn ELSE FnOf[q]
    BY <1>1, <2>1 DEF IdsStayTrue
  <2>3. CASE q = r
    BY <1>1, <2>2, <2>3, RemovedMaps
  <2>4. CASE q # r
    <3>1. PreOf[q] = PreOf[r] => ids[q][1] # ids[r][1]
      BY <1>1, <2>1, <2>4 DEF PreEntries
    <3>2. PostOf[q] = PostOf[r] => ids[q][2] # ids[r][2]
      BY <1>1, <2>1, <2>4 DEF PostEntries
    <3>3. /\ preListeners'[PreOf[q]][ids[q][1]] = preListeners[PreOf[q]][ids[q][1]]
          /\ Len(preListeners'[PreOf[q]]) = Len(preListeners[PreOf[q]])
      BY <1>1, <2>2, <3>1, RemovedMaps
    <3>4. /\ postListeners'[PostOf[q]][ids[q][2]] = postListeners[PostOf[q]][ids[q][2]]
          /\ Len(postListeners'[PostOf[q]]) = Len(postListeners[PostOf[q]])
      BY <1>1, <2>2, <3>2, RemovedMaps
    <3>5. q \in gone' <=> q \in gone
      BY <2>4 DEF Remove
    <3> QED
      BY <2>2, <3>3, <3>4, <3>5
  <2> QED
    BY <2>3, <2>4
<1>3. PreEntries'
  <2>1. ASSUME NEW st \in Stages, NEW i \in 1..Len(preListeners'[st]),
               preListeners'[st][i] # NoFn
        PROVE  \E q \in Tickets : Waiting(q)' /\ PreOf[q] = st /\ ids'[q][1] = i
    <3>1. i \in 1..Len(preListeners[st]) /\ preListeners[st][i] # NoFn
          /\ ~(st = PreOf[r] /\ i = ids[r][1])
      BY <1>1, <2>1, RemovedMaps
    <3>2. PICK q \in Tickets : Waiting(q) /\ PreOf[q] = st /\ ids[q][1] = i
      BY <1>1, <3>1 DEF PreEntries
    <3>3. q # r
      BY <3>1, <3>2
    <3>4. gone' = gone \cup {r}
      BY DEF Remove
    <3> QED
      BY <3>2, <3>3, <3>4 DEF Waiting
  <2> QED
    BY <1>1, <2>1 DEF PreEntries
<1>4. PostEntries'
  <2>1. ASSUME NEW st \in Stages, NEW i \in 1..Len(postListeners'[st]),
               postListeners'[st][i] # NoFn
        PROVE  \E q \in Tickets : Waiting(q)' /\ PostOf[q] = st /\ ids'[q][2] = i
    <3>1. i \in 1..Len(postListeners[st]) /\ postListeners[st][i] # NoFn
          /\ ~(st = PostOf[r] /\ i = ids[r][2])
      BY <1>1, <2>1, RemovedMaps
    <3>2. PICK q \in Tickets : Waiting(q) /\ PostOf[q] = st /\ ids[q][2] = i
      BY <1>1, <3>1 DEF PostEntries
    <3>3. q # r
      BY <3>1, <3>2
    <3>4. gone' = gone \cup {r}
      BY DEF Remove
    <3> QED
      BY <3>2, <3>3, <3>4 DEF Waiting
  <2> QED
    BY <1>1, <2>1 DEF PostEntries
<1>5. GoneHadIds'
  BY <1>1 DEF GoneHadIds, Remove
<1> QED
  BY <1>2, <1>3, <1>4, <1>5 DEF PlacesInv

(* A function that runs and returns had been added. *)
LEMMA RunningHasId ==
  ASSUME PromisesInv, NEW r \in Promised, running = FnOf[r]
  PROVE  ids[r] # NoId /\ r \notin gone
BY DEF PromisesInv, Waiting

(* The places keep: every action. *)
LEMMA PlacesStep ==
  ASSUME TypeOK, BuilderInv, ListenTypeOK, PlacesInv, PromisesInv, [ListenNext]_listenVars
  PROVE  PlacesInv'
<1>1. CASE ClientStep
  BY <1>1, ClientStepFrame, MapsUnchanged DEF Maps, tableVars
<1>2. ASSUME NEW r \in Tickets, addStageListener(r) PROVE PlacesInv'
  BY <1>2, AddingKeepsPlaces
<1>3. ASSUME NEW r \in Tickets, removeStageListener(r) PROVE PlacesInv'
  BY <1>3, RemovingKeepsPlaces DEF removeStageListener
<1>4. ASSUME NEW r \in Tickets, ReturnsPromised(r) PROVE PlacesInv'
  BY <1>4, RunningHasId, RemovingKeepsPlaces DEF ReturnsPromised
<1>5. CASE \/ \E d \in Answers : Receives(d)
           \/ \E x \in todo : Calls(x)
           \/ \E r \in Tickets : ReturnsPlain(r)
           \/ \E r \in Tickets : ThrowsPlain(r)
           \/ \E r \in Tickets : ThrowsPromised(r)
           \/ Advances
           \/ UNCHANGED listenVars
  <2>1. UNCHANGED Maps
    BY <1>5 DEF Receives, Calls, ReturnsPlain, ThrowsPlain, ThrowsPromised, Advances,
                listenVars, tableVars, Maps
  <2> QED
    BY <2>1, MapsUnchanged
<1> QED
  BY <1>1, <1>2, <1>3, <1>4, <1>5, NextCases DEF ListenerStep

-----------------------------------------------------------------------------
(* Builders *)

(* What the parser makes of a datum is a builder. *)
LEMMA ParsedBuilders ==
  ASSUME TypeOK, NEW d \in Answers
  PROVE  parseReplyToNextBuilder(d) \subseteq Builders
<1>0. d.msg \in Nat
  <2>1. d \in Datum
    BY AnswersAssumption
  <2> QED
    BY <2>1 DEF Datum
<1>1. /\ stage[me] \in Stages /\ remaining[me] \in Seq(Stages) /\ challengeSig[me] \in Nat
      /\ d.msg \in Nat
  BY <1>0 DEF TypeOK
<1>2. Now \in Builders
  BY <1>1 DEF Now, Builders
<1>3. [Now EXCEPT !.stage = "signChallenge", !.challengeSig = d.msg] \in Builders
  BY <1>1 DEF Now, Builders, Stages
<1>4. [Now EXCEPT !.stage = "publicMessage"] \in Builders
  BY <1>1 DEF Now, Builders, Stages
<1>5. remaining[me] # <<>> =>
        [Now EXCEPT !.stage = Head(remaining[me]),
                    !.remaining = Tail(remaining[me])] \in Builders
  <2>1. remaining[me] # <<>> => /\ Head(remaining[me]) \in Stages
                               /\ Tail(remaining[me]) \in Seq(Stages)
    BY <1>1
  <2> QED
    BY <1>1, <2>1 DEF Now, Builders
<1>6. stage[me] \in {"requestChallenge", "signChallenge", "joinPublicChannel",
                     "publicMessage", "privateMessage"}
  BY <1>1 DEF Stages
<1> QED
  BY <1>2, <1>3, <1>4, <1>5, <1>6 DEF parseReplyToNextBuilder

(* The parser looks at the stage alone. *)
LEMMA SameStageSameBuilder ==
  ASSUME UNCHANGED <<stage, remaining, challengeSig>>, NEW d
  PROVE  parseReplyToNextBuilder(d)' = parseReplyToNextBuilder(d)
BY DEF parseReplyToNextBuilder, Now, Decrypts

(* BuilderInv is about the state that was waiting for its listeners. *)
LEMMA BuilderUnchanged ==
  ASSUME BuilderInv, UNCHANGED <<builder, datum>>,
         builder # NoBuilder => UNCHANGED <<stage, remaining, challengeSig, started>>
  PROVE  BuilderInv'
<1>1. SUFFICES ASSUME builder # NoBuilder PROVE BuilderInv'
  BY DEF BuilderInv
<1>2. parseReplyToNextBuilder(datum') = parseReplyToNextBuilder(datum)
  OBVIOUS
<1>3. parseReplyToNextBuilder(datum)' = parseReplyToNextBuilder(datum)
  BY <1>1 DEF parseReplyToNextBuilder, Now, Decrypts
<1> QED
  BY <1>1, <1>3 DEF BuilderInv, NotAck

(* The builder remains that of the datum: every action. *)
LEMMA BuilderStep ==
  ASSUME TypeOK, BuilderInv, [ListenNext]_listenVars
  PROVE  BuilderInv'
<1>1. CASE ClientStep
  BY <1>1, ClientStepFrame, BuilderUnchanged DEF callVars
<1>2. ASSUME NEW d \in Answers, Receives(d) PROVE BuilderInv'
  <2>1. PICK b \in parseReplyToNextBuilder(d) : builder' = b
    BY <1>2 DEF Receives
  <2>2. datum' = d /\ NotAck(d) /\ started[me] /\ UNCHANGED vars
    BY <1>2 DEF Receives
  <2>3. UNCHANGED <<stage, remaining, challengeSig, started>>
    BY <2>2 DEF vars, clientVars
  <2>4. parseReplyToNextBuilder(datum)' = parseReplyToNextBuilder(d)
    BY <2>2, <2>3 DEF parseReplyToNextBuilder, Now, Decrypts
  <2> QED
    BY <2>1, <2>2, <2>3, <2>4 DEF BuilderInv, NotAck
<1>3. ASSUME builder' = NoBuilder PROVE BuilderInv'
  BY <1>3 DEF BuilderInv
<1>4. CASE UNCHANGED <<builder, datum>> /\ UNCHANGED vars
  BY <1>4, BuilderUnchanged DEF vars, clientVars
<1>5. ASSUME \/ \E r \in Tickets : addStageListener(r) \/ removeStageListener(r)
                                   \/ ReturnsPlain(r) \/ ReturnsPromised(r)
                                   \/ ThrowsPromised(r)
             \/ \E x \in todo : Calls(x)
             \/ UNCHANGED listenVars
      PROVE  UNCHANGED <<builder, datum>> /\ UNCHANGED vars
  BY <1>5 DEF addStageListener, removeStageListener, Calls, ReturnsPlain, ReturnsPromised,
              ThrowsPromised, listenVars, callVars
<1>6. ASSUME Advances \/ \E r \in Tickets : ThrowsPlain(r) PROVE builder' = NoBuilder
  BY <1>6 DEF Advances, ThrowsPlain, HandlerEnds
<1> QED
  BY <1>1, <1>2, <1>3, <1>4, <1>5, <1>6, NextCases DEF ListenerStep

-----------------------------------------------------------------------------
(* Calls *)

(* What is found when a datum comes was added for both stages, waits at its
   place, and everybody due is among it. *)
LEMMA FoundListeners ==
  ASSUME TypeOK, ListenTypeOK, PlacesInv, NEW b, b.stage \in Stages,
         NEW x \in listeners(stage[me], b.stage)
  PROVE  /\ \E r \in Tickets : /\ FnOf[r] = x[2] /\ PreOf[r] = stage[me]
                               /\ Waiting(r) /\ ids[r][1] = x[1]
         /\ \E q \in Tickets : FnOf[q] = x[2] /\ PostOf[q] = b.stage
<1>1. /\ x[1] \in 1..Len(preListeners[stage[me]])
      /\ preListeners[stage[me]][x[1]] = x[2]
      /\ x[2] \in Fns /\ x[2] # NoFn
      /\ \E j \in 1..Len(postListeners[b.stage]) : postListeners[b.stage][j] = x[2]
  BY DEF listeners
<1>2. stage[me] \in Stages
  BY DEF TypeOK
<1>3. PICK r \in Tickets : Waiting(r) /\ PreOf[r] = stage[me] /\ ids[r][1] = x[1]
  BY <1>1, <1>2 DEF PlacesInv, PreEntries
<1>4. FnOf[r] = x[2]
  BY <1>1, <1>3 DEF PlacesInv, IdsStayTrue, Waiting
<1>5. PICK j \in 1..Len(postListeners[b.stage]) : postListeners[b.stage][j] = x[2]
  BY <1>1
<1>6. PICK q \in Tickets : Waiting(q) /\ PostOf[q] = b.stage /\ ids[q][2] = j
  BY <1>1, <1>5 DEF PlacesInv, PostEntries
<1>7. FnOf[q] = x[2]
  BY <1>5, <1>6 DEF PlacesInv, IdsStayTrue, Waiting
<1> QED
  BY <1>3, <1>4, <1>6, <1>7

(* A listener that waits for a change of stage is among those called for it. *)
LEMMA DueAreFound ==
  ASSUME PlacesInv, NEW r \in Tickets, Waiting(r)
  PROVE  <<ids[r][1], FnOf[r]>> \in listeners(PreOf[r], PostOf[r])
<1>1. /\ ids[r][1] \in 1..Len(preListeners[PreOf[r]])
      /\ ids[r][2] \in 1..Len(postListeners[PostOf[r]])
      /\ preListeners[PreOf[r]][ids[r][1]] = FnOf[r]
      /\ postListeners[PostOf[r]][ids[r][2]] = FnOf[r]
  BY DEF PlacesInv, IdsStayTrue, Waiting
<1>2. FnOf[r] \in Fns
  BY DEF Fns
<1> QED
  BY <1>1, <1>2 DEF listeners

(* A datum that comes: its listeners. *)
LEMMA ReceivingKeepsCalls ==
  ASSUME TypeOK, ListenTypeOK, PlacesInv, CallsInv, NEW d \in Answers, Receives(d)
  PROVE  CallsInv' /\ PromisesInv' /\ EveryoneDueIsCalled'
<1>1. PICK b \in parseReplyToNextBuilder(d) :
        /\ builder' = b
        /\ todo' = listeners(stage[me], b.stage)
        /\ due' = {r \in Tickets : /\ Waiting(r)
                                   /\ PreOf[r] = stage[me]
                                   /\ PostOf[r] = b.stage}
  BY DEF Receives
<1>2. b \in Builders /\ b.stage \in Stages /\ b # NoBuilder
  BY ParsedBuilders DEF Builders
<1>3. running = NoFn /\ running' = NoFn
  BY DEF Receives, CallsInv
<1>4. UNCHANGED <<stage, ids, gone>>
  BY DEF Receives, vars, clientVars, tableVars
<1>5. CallsInv'
  <2>1. ASSUME NEW x \in todo' PROVE AddedForBoth(x[2])'
    BY <1>1, <1>2, <1>4, FoundListeners DEF AddedForBoth
  <2> QED
    BY <1>1, <1>2, <1>3, <2>1 DEF CallsInv
<1>6. PromisesInv'
  <2>1. ASSUME NEW r \in Promised, NEW x \in todo', x[2] = FnOf[r]
        PROVE  Waiting(r)' /\ x[1] = ids'[r][1]
    <3>1. PICK q \in Tickets : FnOf[q] = x[2] /\ Waiting(q) /\ ids[q][1] = x[1]
      BY <1>1, <1>2, FoundListeners
    <3>2. q = r
      BY <2>1, <3>1 DEF Sole
    <3> QED
      BY <1>4, <3>1, <3>2 DEF Waiting
  <2>2. \A r \in Promised : running' # FnOf[r]
    BY <1>3 DEF Fns
  <2> QED
    BY <2>1, <2>2 DEF PromisesInv
<1>7. EveryoneDueIsCalled'
  <2>1. ASSUME NEW r \in due' PROVE \E x \in todo' : x[2] = FnOf[r]
    <3>1. <<ids[r][1], FnOf[r]>> \in todo'
      BY <1>1, <2>1, DueAreFound
    <3> QED
      BY <3>1
  <2> QED
    BY <2>1 DEF EveryoneDueIsCalled
<1> QED
  BY <1>5, <1>6, <1>7

(* A listener is called. *)
LEMMA CallingKeepsCalls ==
  ASSUME ListenTypeOK, CallsInv, PromisesInv, EveryoneDueIsCalled, NEW x \in todo, Calls(x)
  PROVE  CallsInv' /\ PromisesInv' /\ EveryoneDueIsCalled'
<1>1. /\ running' = x[2] /\ todo' = todo \ {x} /\ called' = called \cup {x[2]}
      /\ UNCHANGED <<stage, ids, gone, builder, due>>
  BY DEF Calls, vars, clientVars, tableVars
<1>2. x \in Nat \X Fns
  BY DEF ListenTypeOK
<1>3. builder # NoBuilder
  BY DEF CallsInv
<1>4. \A fn : AddedForBoth(fn)' <=> AddedForBoth(fn)
  BY <1>1 DEF AddedForBoth
<1>5. CallsInv'
  BY <1>1, <1>3, <1>4 DEF CallsInv
<1>6. PromisesInv'
  <2>1. ASSUME NEW r \in Promised, x[2] = FnOf[r], NEW y \in todo', y[2] = FnOf[r]
        PROVE  FALSE
    <3>1. y[1] = ids[r][1] /\ x[1] = ids[r][1] /\ y \in todo
      BY <1>1, <2>1 DEF PromisesInv
    <3>2. y \in Nat \X Fns
      BY <3>1 DEF ListenTypeOK
    <3>3. y = x
      BY <1>2, <2>1, <3>1, <3>2
    <3> QED
      BY <1>1, <2>1, <3>3
  <2>2. \A r \in Tickets : Waiting(r)' <=> Waiting(r)
    BY <1>1 DEF Waiting
  <2>3. \A r \in Promised : x[2] = FnOf[r] => Waiting(r)
    BY DEF PromisesInv
  <2> QED
    BY <1>1, <2>1, <2>2, <2>3 DEF PromisesInv
<1>7. EveryoneDueIsCalled'
  BY <1>1, <1>3 DEF EveryoneDueIsCalled
<1> QED
  BY <1>5, <1>6, <1>7

(* A call ends, or the application does something in it or between. *)
LEMMA ActingKeepsCalls ==
  ASSUME CallsInv, PromisesInv, EveryoneDueIsCalled,
         UNCHANGED <<builder, todo, due, called>>,
         builder # NoBuilder => UNCHANGED stage,
         running' \in {running, NoFn},
         \A r \in Promised :
           (running' = FnOf[r] \/ \E x \in todo : x[2] = FnOf[r]) /\ Waiting(r)
             => Waiting(r)' /\ ids'[r] = ids[r]
  PROVE  CallsInv' /\ PromisesInv' /\ EveryoneDueIsCalled'
<1>1. builder # NoBuilder => \A fn : AddedForBoth(fn) => AddedForBoth(fn)'
  BY DEF AddedForBoth
<1>2. CallsInv'
  BY <1>1 DEF CallsInv
<1>3. \A r \in Promised : NoFn # FnOf[r]
  BY DEF Fns
<1>4. PromisesInv'
  <2>1. ASSUME NEW r \in Promised
        PROVE  /\ running' = FnOf[r] =>
                    /\ Waiting(r)'
                    /\ \A x \in todo' : x[2] # FnOf[r]
               /\ \A x \in todo' : x[2] = FnOf[r] => Waiting(r)' /\ x[1] = ids'[r][1]
    BY <1>3 DEF PromisesInv
  <2> QED
    BY <2>1 DEF PromisesInv
<1>5. EveryoneDueIsCalled'
  BY DEF EveryoneDueIsCalled
<1> QED
  BY <1>2, <1>4, <1>5

(* Nothing is left of a handler that ended. *)
LEMMA EndingKeepsCalls ==
  ASSUME builder' = NoBuilder, running' = NoFn, todo' = {}
  PROVE  CallsInv' /\ PromisesInv' /\ EveryoneDueIsCalled'
<1>1. \A r \in Promised : NoFn # FnOf[r]
  BY DEF Fns
<1> QED
  BY <1>1 DEF CallsInv, PromisesInv, EveryoneDueIsCalled

(* The calls keep: every action. *)
LEMMA CallsStep ==
  ASSUME TypeOK, BuilderInv, ListenTypeOK, PlacesInv, CallsInv, PromisesInv,
         EveryoneDueIsCalled, [ListenNext]_listenVars
  PROVE  CallsInv' /\ PromisesInv' /\ EveryoneDueIsCalled'
<1>1. CASE ClientStep
  BY <1>1, ClientStepFrame, ActingKeepsCalls DEF tableVars, callVars, Waiting
<1>2. ASSUME NEW r \in Tickets, addStageListener(r)
      PROVE  CallsInv' /\ PromisesInv' /\ EveryoneDueIsCalled'
  <2>1. /\ UNCHANGED <<builder, todo, running, due, called, gone, stage>>
        /\ ids[r] = NoId
    BY <1>2 DEF addStageListener, callVars, vars, clientVars
  <2>2. \A q \in Tickets : Waiting(q) => Waiting(q)' /\ ids'[q] = ids[q]
    <3>1. \A q \in Tickets : q # r => ids'[q] = ids[q]
      BY <1>2, AddedMaps
    <3> QED
      BY <2>1, <3>1 DEF Waiting
  <2> QED
    BY <2>1, <2>2, ActingKeepsCalls
<1>3. ASSUME NEW r \in Tickets, removeStageListener(r)
      PROVE  CallsInv' /\ PromisesInv' /\ EveryoneDueIsCalled'
  <2>1. /\ UNCHANGED <<builder, todo, running, due, called, ids, stage>>
        /\ r \notin Promised /\ gone' = gone \cup {r}
    BY <1>3 DEF removeStageListener, Remove, callVars, vars, clientVars
  <2> QED
    BY <2>1, ActingKeepsCalls DEF Waiting
<1>4. ASSUME NEW d \in Answers, Receives(d)
      PROVE  CallsInv' /\ PromisesInv' /\ EveryoneDueIsCalled'
  BY <1>4, ReceivingKeepsCalls
<1>5. ASSUME NEW x \in todo, Calls(x)
      PROVE  CallsInv' /\ PromisesInv' /\ EveryoneDueIsCalled'
  BY <1>5, CallingKeepsCalls
<1>6. ASSUME NEW r \in Tickets, ReturnsPlain(r) \/ ThrowsPromised(r)
      PROVE  CallsInv' /\ PromisesInv' /\ EveryoneDueIsCalled'
  <2>1. UNCHANGED <<builder, todo, due, called, ids, gone, stage>> /\ running' = NoFn
    BY <1>6 DEF ReturnsPlain, ThrowsPromised, vars, clientVars, tableVars
  <2> QED
    BY <2>1, ActingKeepsCalls DEF Waiting
<1>7. ASSUME NEW r \in Tickets, ReturnsPromised(r)
      PROVE  CallsInv' /\ PromisesInv' /\ EveryoneDueIsCalled'
  <2>1. /\ UNCHANGED <<builder, todo, due, called, ids, stage>>
        /\ running' = NoFn /\ running = FnOf[r] /\ r \in Promised
        /\ gone' = gone \cup {r}
    BY <1>7 DEF ReturnsPromised, Remove, vars, clientVars
  <2>2. \A x \in todo : x[2] # FnOf[r]
    BY <2>1 DEF PromisesInv
  <2>3. \A q \in Promised : NoFn # FnOf[q]
    BY DEF Fns
  <2>4. ASSUME NEW q \in Promised, Waiting(q),
               running' = FnOf[q] \/ \E x \in todo : x[2] = FnOf[q]
        PROVE  Waiting(q)' /\ ids'[q] = ids[q]
    <3>1. q # r
      BY <2>1, <2>2, <2>3, <2>4
    <3> QED
      BY <2>1, <2>4, <3>1 DEF Waiting
  <2> QED
    BY <2>1, <2>4, ActingKeepsCalls
<1>8. ASSUME Advances \/ \E r \in Tickets : ThrowsPlain(r)
      PROVE  CallsInv' /\ PromisesInv' /\ EveryoneDueIsCalled'
  <2>1. builder' = NoBuilder /\ running' = NoFn /\ todo' = {}
    BY <1>8 DEF Advances, ThrowsPlain, HandlerEnds
  <2> QED
    BY <2>1, EndingKeepsCalls
<1>9. CASE UNCHANGED listenVars
  <2>1. UNCHANGED <<builder, todo, due, called, ids, gone, stage, running>>
    BY <1>9 DEF listenVars, vars, clientVars, tableVars, callVars
  <2> QED
    BY <2>1, ActingKeepsCalls DEF Waiting
<1> QED
  BY <1>1, <1>2, <1>3, <1>4, <1>5, <1>6, <1>7, <1>8, <1>9, NextCases DEF ListenerStep

-----------------------------------------------------------------------------
(* Types *)

(* The variables of the listeners keep their types: every action. *)
LEMMA ListenTypeStep ==
  ASSUME TypeOK, BuilderInv, ListenTypeOK, PlacesInv, PromisesInv, [ListenNext]_listenVars
  PROVE  ListenTypeOK'
<1>1. ASSUME UNCHANGED <<tableVars, callVars>> PROVE ListenTypeOK'
  BY <1>1 DEF ListenTypeOK, tableVars, callVars
<1>2. CASE ClientStep
  BY <1>1, <1>2, ClientStepFrame
<1>3. ASSUME NEW r \in Tickets, addStageListener(r) PROVE ListenTypeOK'
  <2>1. /\ preListeners' \in [Stages -> Seq(Fns \cup {NoFn})]
        /\ postListeners' \in [Stages -> Seq(Fns \cup {NoFn})]
    BY <1>3, AddedMaps
  <2>2. /\ Len(preListeners'[PreOf[r]]) \in Nat /\ Len(postListeners'[PostOf[r]]) \in Nat
    BY <2>1
  <2>3. ids' \in [Tickets -> Nat \X Nat]
    BY <1>3, <2>2 DEF addStageListener, ListenTypeOK
  <2> QED
    BY <1>3, <2>1, <2>3 DEF addStageListener, ListenTypeOK, callVars
<1>4. ASSUME NEW r \in Tickets, removeStageListener(r) PROVE ListenTypeOK'
  <2>1. /\ preListeners' \in [Stages -> Seq(Fns \cup {NoFn})]
        /\ postListeners' \in [Stages -> Seq(Fns \cup {NoFn})]
        /\ gone' = gone \cup {r}
    BY <1>4, RemovedMaps DEF removeStageListener, PlacesInv
  <2> QED
    BY <1>4, <2>1 DEF removeStageListener, ListenTypeOK, callVars
<1>5. ASSUME NEW r \in Tickets, ReturnsPromised(r) PROVE ListenTypeOK'
  <2>1. /\ preListeners' \in [Stages -> Seq(Fns \cup {NoFn})]
        /\ postListeners' \in [Stages -> Seq(Fns \cup {NoFn})]
        /\ gone' = gone \cup {r}
    BY <1>5, RunningHasId, RemovedMaps DEF ReturnsPromised, PlacesInv
  <2> QED
    BY <1>5, <2>1 DEF ReturnsPromised, ListenTypeOK
<1>6. ASSUME NEW d \in Answers, Receives(d) PROVE ListenTypeOK'
  <2>1. PICK b \in parseReplyToNextBuilder(d) :
          builder' = b /\ todo' = listeners(stage[me], b.stage)
    BY <1>6 DEF Receives
  <2>2. builder' \in Builders /\ builder'.stage \in Stages
    BY <2>1, ParsedBuilders DEF Builders
  <2>3. todo' \subseteq Nat \X Fns
    BY <2>1 DEF listeners
  <2>4. due' \subseteq Tickets
    BY <1>6 DEF Receives
  <2> QED
    BY <1>6, <2>2, <2>3, <2>4 DEF Receives, ListenTypeOK, tableVars
<1>7. ASSUME NEW x \in todo, Calls(x) PROVE ListenTypeOK'
  BY <1>7 DEF Calls, ListenTypeOK, tableVars
<1>8. ASSUME NEW r \in Tickets, ReturnsPlain(r) PROVE ListenTypeOK'
  BY <1>8 DEF ReturnsPlain, ListenTypeOK, tableVars
<1>9. ASSUME NEW r \in Tickets, ThrowsPromised(r) PROVE ListenTypeOK'
  BY <1>9 DEF ThrowsPromised, ListenTypeOK
<1>10. ASSUME NEW r \in Tickets, ThrowsPlain(r) PROVE ListenTypeOK'
  BY <1>10 DEF ThrowsPlain, HandlerEnds, ListenTypeOK, tableVars
<1>11. CASE Advances
  BY <1>11 DEF Advances, HandlerEnds, ListenTypeOK, tableVars
<1>12. CASE UNCHANGED listenVars
  BY <1>1, <1>12 DEF listenVars
<1> QED
  BY <1>2, <1>3, <1>4, <1>5, <1>6, <1>7, <1>8, <1>9, <1>10, <1>11, <1>12, NextCases
     DEF ListenerStep

-----------------------------------------------------------------------------
(* The theorems *)

(* The invariant of listeners holds at the start. *)
LEMMA InitLInv == ASSUME ListenInit PROVE LInv
<1>1. TypeOK /\ StagesFitKind
  BY TypeInit DEF ListenInit
<1>2. ListenTypeOK
  <2>1. <<>> \in Seq(Fns \cup {NoFn}) /\ NoId \in Nat \X Nat
    BY DEF NoId
  <2> QED
    BY <2>1 DEF ListenInit, ListenTypeOK
<1>3. PlacesInv
  BY DEF ListenInit, PlacesInv, IdsStayTrue, PreEntries, PostEntries, GoneHadIds
<1>4. BuilderInv
  BY DEF ListenInit, BuilderInv
<1>5. CallsInv /\ PromisesInv /\ EveryoneDueIsCalled
  <2>1. \A r \in Promised : NoFn # FnOf[r]
    BY DEF Fns
  <2> QED
    BY <2>1 DEF ListenInit, CallsInv, PromisesInv, EveryoneDueIsCalled
<1> QED
  BY <1>1, <1>2, <1>3, <1>4, <1>5 DEF LInv

(* Every step keeps the invariant, and is a step of DarkClient or none. *)
LEMMA NextLInv == ASSUME LInv, [ListenNext]_listenVars PROVE LInv' /\ [Next]_vars
<1>1. [Next]_vars
  BY StepAtOnce DEF LInv
<1>2. TypeOK' /\ StagesFitKind'
  BY <1>1, TypeStep DEF LInv
<1>3. ListenTypeOK' /\ PlacesInv' /\ BuilderInv'
  BY ListenTypeStep, PlacesStep, BuilderStep DEF LInv
<1>4. CallsInv' /\ PromisesInv' /\ EveryoneDueIsCalled'
  BY CallsStep DEF LInv
<1> QED
  BY <1>1, <1>2, <1>3, <1>4 DEF LInv

(* The invariant of listeners holds in every reachable state. *)
LEMMA AlwaysLInv == ListenSpec => []LInv
BY InitLInv, NextLInv, PTL DEF ListenSpec

(* The maps, ids, promises and calls keep their types. *)
THEOREM ListenersTypeCorrect == ListenSpec => []ListenTypeOK
<1>1. LInv => ListenTypeOK
  BY DEF LInv
<1> QED
  BY <1>1, AlwaysLInv, PTL

(* An id is good for as long as its listener waits, and names no other after. *)
THEOREM IdsCorrect == ListenSpec => []IdsStayTrue
<1>1. LInv => IdsStayTrue
  BY DEF LInv, PlacesInv
<1> QED
  BY <1>1, AlwaysLInv, PTL

(* A listener added once is called for the change it was added for only. *)
THEOREM CallsAreForTheirChange == ListenSpec => []CalledForItsChange
<1>1. ASSUME LInv PROVE CalledForItsChange
  <2>1. SUFFICES ASSUME NEW r \in Tickets, Sole(r), running = FnOf[r]
                 PROVE  /\ builder # NoBuilder
                        /\ PreOf[r] = stage[me]
                        /\ PostOf[r] = builder.stage
    BY DEF CalledForItsChange
  <2>2. running # NoFn
    BY <2>1 DEF Fns
  <2>3. builder # NoBuilder /\ AddedForBoth(running)
    BY <1>1, <2>2 DEF LInv, CallsInv
  <2> QED
    BY <2>1, <2>3 DEF AddedForBoth, Sole
<1> QED
  BY <1>1, AlwaysLInv, PTL

(* The listener of a resolved promise is never called again. *)
THEOREM PromisesResolveOnce == ListenSpec => []ResolvesOnce
<1>1. LInv => ResolvesOnce
  BY DEF LInv, PromisesInv, ResolvesOnce, Waiting
<1> QED
  BY <1>1, AlwaysLInv, PTL

(* Nobody who waits for a change is left out of it. *)
THEOREM NobodyIsLeftOut == ListenSpec => []EveryoneDueIsCalled
<1>1. LInv => EveryoneDueIsCalled
  BY DEF LInv
<1> QED
  BY <1>1, AlwaysLInv, PTL

(* A client with listeners implements the client without. *)
THEOREM ImplementsClient == ListenSpec => HandlesAtOnce
<1>1. ListenInit => Init
  BY DEF ListenInit
<1>2. LInv /\ [ListenNext]_listenVars => [Next]_vars
  BY NextLInv
<1> QED
  BY <1>1, <1>2, AlwaysLInv, PTL DEF ListenSpec, HandlesAtOnce, Spec

(* So it skips no step of its session and goes back to none, loses messages
   only to acknowledgements in excess and lets none overtake another, whatever
   its listeners do. *)
THEOREM ListenersChangeNothing ==
  ListenSpec => [](StagesAdvance /\ MessagesAdvance) /\ LostOnlyInExcess
BY ImplementsClient, StagesTakeTurns, MessagesAreNotOvertaken,
   NothingIsLostUnlessInExcess, PTL DEF HandlesAtOnce
=============================================================================

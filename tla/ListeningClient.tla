-------------------------- MODULE ListeningClient --------------------------
(***************************************************************************)
(* The listeners an application adds to a client (packages/client/src/     *)
(* clients/client.ts), and the handling of a datum with their calls in     *)
(* between: the reply is parsed into a new builder, then every listener    *)
(* of the change from the old stage to the new is called, and only then    *)
(* is the new builder the client's, and its stage started.                 *)
(*                                                                         *)
(* A listener is application code.  While it runs it may type a message,   *)
(* add and remove listeners, and it returns or throws; nothing else runs   *)
(* before it does.  The client is `me`, one of those of ClientAnyServer.   *)
(***************************************************************************)
EXTENDS ClientAnyServer

CONSTANTS
  me,
  Tickets,   \* what is added: a listener, for a change of stage; each once
  FnOf,      \* the function added, one's own or that of several tickets
  PreOf,     \* preStageName
  PostOf,    \* postStageName
  Promised,  \* the tickets of addListenerWrapPromise
  NoFn,      \* null, in the place of a function that was removed
  NoBuilder  \* no datum is being handled

Fns == {FnOf[r] : r \in Tickets}

(* The function of r belongs to no other ticket. *)
Sole(r) == \A q \in Tickets : FnOf[q] = FnOf[r] => q = r

Builders == [stage : Stages, remaining : Seq(Stages), challengeSig : Nat]

(* addListenerWrapPromise wraps the listener in a function of its own. *)
ASSUME ListenerAssumption ==
  /\ me \in Clients
  /\ PreOf \in [Tickets -> Stages]
  /\ PostOf \in [Tickets -> Stages]
  /\ Promised \subseteq Tickets
  /\ \A r \in Promised : Sole(r)
  /\ NoFn \notin Fns
  /\ NoBuilder \notin Builders

VARIABLES
  preListeners,  \* preStageListenerMap: its entries, by stage and place
  postListeners, \* postStageListenerMap
  ids,           \* the StageChangeListenerId of a ticket, once it is added:
                 \* its place in the one map and in the other
  promise,       \* what became of the promise of a ticket
  builder,       \* newBuilder, while the listeners are called
  datum,         \* the datum that is being handled
  todo,          \* listeners: those not yet called, with their places
  running,       \* the function that runs
  gone,          \* history: the tickets that were removed, or have returned
  due,           \* history: the tickets that waited for this change of stage
  called         \* history: the functions called for it

tableVars == <<preListeners, postListeners, ids, promise, gone>>
callVars  == <<builder, datum, todo, running, due, called>>
listenVars == <<vars, tableVars, callVars>>

NoId == <<0, 0>>

ListenTypeOK ==
  /\ preListeners \in [Stages -> Seq(Fns \cup {NoFn})]
  /\ postListeners \in [Stages -> Seq(Fns \cup {NoFn})]
  /\ ids \in [Tickets -> Nat \X Nat]
  /\ promise \in [Tickets -> {"none", "pending", "resolved", "rejected"}]
  /\ builder \in Builders \cup {NoBuilder}
  /\ todo \subseteq Nat \X Fns
  /\ running \in Fns \cup {NoFn}
  /\ gone \subseteq Tickets
  /\ due \subseteq Tickets
  /\ called \subseteq Fns

ListenInit ==
  /\ Init
  /\ preListeners = [st \in Stages |-> <<>>]
  /\ postListeners = [st \in Stages |-> <<>>]
  /\ ids = [r \in Tickets |-> NoId]
  /\ promise = [r \in Tickets |-> "none"]
  /\ builder = NoBuilder
  /\ datum = Garbled
  /\ todo = {}
  /\ running = NoFn
  /\ gone = {}
  /\ due = {}
  /\ called = {}

-----------------------------------------------------------------------------
(* The application: when no datum is handled, or in one of its listeners. *)

ApplicationRuns == builder = NoBuilder \/ running # NoFn

Waiting(r) == ids[r] # NoId /\ r \notin gone

(* The listener goes to the end of both maps; its places are its id. *)
addStageListener(r) ==
  /\ ApplicationRuns
  /\ ids[r] = NoId
  /\ preListeners' = [preListeners EXCEPT ![PreOf[r]] = Append(@, FnOf[r])]
  /\ postListeners' = [postListeners EXCEPT ![PostOf[r]] = Append(@, FnOf[r])]
  /\ ids' = [ids EXCEPT ![r] = <<Len(preListeners'[PreOf[r]]),
                                 Len(postListeners'[PostOf[r]])>>]
  /\ promise' = [promise EXCEPT ![r] = IF r \in Promised THEN "pending" ELSE @]
  /\ UNCHANGED <<vars, callVars, gone>>

(* A slip: the listener leaves the first map, and those behind it move up. *)
MovesUp(r) ==
  LET i == ids[r][1] IN
    /\ preListeners' = [preListeners EXCEPT ![PreOf[r]] =
                          SubSeq(@, 1, i - 1) \o SubSeq(@, i + 1, Len(@))]
    /\ postListeners' = [postListeners EXCEPT ![PostOf[r]] =
                           [@ EXCEPT ![ids[r][2]] = NoFn]]
    /\ gone' = gone \cup {r}

(* A slip: null takes the place of the whole map of the stage. *)
ForgetsTheTable(r) ==
  /\ preListeners' = [preListeners EXCEPT ![PreOf[r]] = NoFn]
  /\ UNCHANGED postListeners
  /\ gone' = gone \cup {r}

(* removeStageListener leaves null at both places. *)
Remove(r) ==
  /\ preListeners' = [preListeners EXCEPT ![PreOf[r]] =
                        [@ EXCEPT ![ids[r][1]] = NoFn]]
  /\ postListeners' = [postListeners EXCEPT ![PostOf[r]] =
                         [@ EXCEPT ![ids[r][2]] = NoFn]]
  /\ gone' = gone \cup {r}

(* The application removes a listener by its id, even when it is gone; of a
   promised one it never sees the id. *)
removeStageListener(r) ==
  /\ ApplicationRuns
  /\ r \notin Promised
  /\ ids[r] # NoId
  /\ Remove(r)
  /\ UNCHANGED <<vars, callVars, ids, promise>>

TypesMessage ==
  /\ ApplicationRuns
  /\ UserTypes(me)
  /\ UNCHANGED <<tableVars, callVars>>

-----------------------------------------------------------------------------
(* getConnectionListener, step by step. *)

Starts ==
  /\ start(me)
  /\ UNCHANGED <<tableVars, callVars>>

(* An acknowledgement is not told to any listener. *)
ReceivesAck(d) ==
  /\ builder = NoBuilder
  /\ started[me] /\ Quiet(me)
  /\ Acknowledged(me, d)
  /\ UNCHANGED <<tableVars, callVars>>

Now == [stage |-> stage[me], remaining |-> remaining[me],
        challengeSig |-> challengeSig[me]]

(* The builder of the next stage; none where the stage's parser throws. *)
parseReplyToNextBuilder(d) ==
  CASE stage[me] = "requestChallenge" ->
         IF d.type # "verify" THEN {Now}
         ELSE IF d.msg = 0 THEN {}
         ELSE {[Now EXCEPT !.stage = "signChallenge", !.challengeSig = d.msg]}
    [] stage[me] = "signChallenge" ->
         IF d.type # "success" THEN {Now}
         ELSE IF remaining[me] = <<>> THEN {}
         ELSE {[Now EXCEPT !.stage = Head(remaining[me]),
                           !.remaining = Tail(remaining[me])]}
    [] stage[me] = "joinPublicChannel" ->
         IF d.type = "success" THEN {[Now EXCEPT !.stage = "publicMessage"]}
         ELSE {Now}
    [] stage[me] = "publicMessage" -> {Now}
    [] stage[me] = "privateMessage" -> IF Decrypts(me, d) THEN {Now} ELSE {}

(* A slip: whoever waits for the old stage is told. *)
ListenersOfPre(st, next) ==
  {x \in (1..Len(preListeners[st])) \X Fns : preListeners[st][x[1]] = x[2]}

(* A slip: the two maps are compared place by place. *)
ListenersAtOnePlace(st, next) ==
  {x \in (1..Len(preListeners[st])) \X Fns :
     /\ preListeners[st][x[1]] = x[2]
     /\ x[1] \in 1..Len(postListeners[next])
     /\ postListeners[next][x[1]] = x[2]}

(* The functions of the old stage's map that are also in the new stage's. *)
listeners(st, next) ==
  {x \in (1..Len(preListeners[st])) \X Fns :
     /\ preListeners[st][x[1]] = x[2]
     /\ \E j \in 1..Len(postListeners[next]) : postListeners[next][j] = x[2]}

(* A datum arrives.  The listeners it is for are found now. *)
Receives(d) ==
  /\ builder = NoBuilder
  /\ started[me] /\ Quiet(me)
  /\ NotAck(d)
  /\ \E b \in parseReplyToNextBuilder(d) :
       /\ builder' = b
       /\ todo' = listeners(stage[me], b.stage)
       /\ due' = {r \in Tickets : /\ Waiting(r)
                                  /\ PreOf[r] = stage[me]
                                  /\ PostOf[r] = b.stage}
  /\ datum' = d
  /\ called' = {}
  /\ UNCHANGED <<vars, tableVars, running>>

(* They are called one after the other, those that were removed since too. *)
Calls(x) ==
  /\ running = NoFn
  /\ x \in todo
  /\ running' = x[2]
  /\ todo' = todo \ {x}
  /\ called' = called \cup {x[2]}
  /\ UNCHANGED <<vars, tableVars, builder, datum, due>>

(* The locals of the handler are gone. *)
HandlerEnds ==
  /\ builder' = NoBuilder
  /\ datum' = Garbled
  /\ due' = {}
  /\ called' = {}

ReturnsPlain(r) ==
  /\ running = FnOf[r] /\ r \notin Promised
  /\ running' = NoFn
  /\ UNCHANGED <<vars, tableVars, builder, datum, todo, due, called>>

(* A slip: the promise is resolved and the listener stays. *)
ReturnsAndStays(r) ==
  /\ running = FnOf[r] /\ r \in Promised
  /\ running' = NoFn
  /\ gone' = gone \cup {r}
  /\ promise' = [promise EXCEPT ![r] = IF @ = "pending" THEN "resolved" ELSE @]
  /\ UNCHANGED <<vars, preListeners, postListeners, ids, builder, datum, todo,
                 due, called>>

(* wrappedListener: the listener is removed, and the promise resolved unless
   an earlier call has rejected it. *)
ReturnsPromised(r) ==
  /\ running = FnOf[r] /\ r \in Promised
  /\ running' = NoFn
  /\ Remove(r)
  /\ promise' = [promise EXCEPT ![r] = IF @ = "pending" THEN "resolved" ELSE @]
  /\ UNCHANGED <<vars, ids, builder, datum, todo, due, called>>

(* A listener that throws ends the handling of the datum: the other listeners
   are not called and the client keeps its stage. *)
ThrowsPlain(r) ==
  /\ running = FnOf[r] /\ r \notin Promised
  /\ running' = NoFn
  /\ todo' = {}
  /\ HandlerEnds
  /\ UNCHANGED <<vars, tableVars>>

(* wrappedListener catches: the promise is rejected, and the listener stays. *)
ThrowsPromised(r) ==
  /\ running = FnOf[r] /\ r \in Promised
  /\ running' = NoFn
  /\ promise' = [promise EXCEPT ![r] = IF @ = "pending" THEN "rejected" ELSE @]
  /\ UNCHANGED <<vars, preListeners, postListeners, ids, gone, builder, datum,
                 todo, due, called>>

(* A slip: the stage is started before it is the client's: the old one is
   started again, and the new one never. *)
AdvancesUnstarted ==
  /\ builder # NoBuilder /\ running = NoFn /\ todo = {} /\ Quiet(me)
  /\ Send(me, sendServerCommand(me, stage[me], remaining[me], challengeSig[me],
                                queue[me]))
  /\ stage' = [stage EXCEPT ![me] = builder.stage]
  /\ remaining' = [remaining EXCEPT ![me] = builder.remaining]
  /\ challengeSig' = [challengeSig EXCEPT ![me] = builder.challengeSig]
  /\ HandlerEnds
  /\ UNCHANGED <<started, stageSent, queue, sentCount, ackedCount, heard,
                 tableVars, todo, running>>

(* All were called: the new builder is the client's, and its stage starts. *)
Advances ==
  /\ builder # NoBuilder /\ running = NoFn /\ todo = {} /\ Quiet(me)
  /\ startStage(me, builder.stage, builder.remaining, builder.challengeSig)
  /\ IF stage[me] \in MessageStages THEN Hear(me, datum) ELSE UNCHANGED heard
  /\ HandlerEnds
  /\ UNCHANGED <<started, queue, sentCount, ackedCount, tableVars, todo, running>>

ListenNext ==
  \/ Starts
  \/ TypesMessage
  \/ \E r \in Tickets : addStageListener(r)
  \/ \E r \in Tickets : removeStageListener(r)
  \/ \E d \in Answers : ReceivesAck(d)
  \/ \E d \in Answers : Receives(d)
  \/ \E x \in todo : Calls(x)
  \/ \E r \in Tickets : ReturnsPlain(r)
  \/ \E r \in Tickets : ReturnsPromised(r)
  \/ \E r \in Tickets : ThrowsPlain(r)
  \/ \E r \in Tickets : ThrowsPromised(r)
  \/ Advances

ListenSpec == ListenInit /\ [][ListenNext]_listenVars

-----------------------------------------------------------------------------
(* Correctness *)

(* The places of an id are its ticket's own for good: they hold its function
   in both maps until the ticket is removed, and nothing after.  addStageListener
   takes the sizes of the maps for the places, whatever was removed before. *)
IdsStayTrue ==
  \A r \in Tickets : ids[r] # NoId =>
    LET fn == IF r \in gone THEN NoFn ELSE FnOf[r]
        i  == ids[r][1]
        j  == ids[r][2]
    IN /\ i \in 1..Len(preListeners[PreOf[r]])
       /\ j \in 1..Len(postListeners[PostOf[r]])
       /\ preListeners[PreOf[r]][i] = fn
       /\ postListeners[PostOf[r]][j] = fn

(* A function that was added once is called for the change it was added for
   and no other, though the two maps are kept apart. *)
CalledForItsChange ==
  \A r \in Tickets :
    Sole(r) /\ running = FnOf[r] =>
      /\ builder # NoBuilder
      /\ PreOf[r] = stage[me]
      /\ PostOf[r] = builder.stage

(* The listener of a promise that was resolved is never called again. *)
ResolvesOnce ==
  \A r \in Promised :
    r \in gone => running # FnOf[r] /\ \A x \in todo : x[2] # FnOf[r]

(* Whoever waited for a change when the datum came is called before the client
   changes, whatever the listeners called before it add, remove or type. *)
EveryoneDueIsCalled ==
  builder # NoBuilder =>
    \A r \in due : FnOf[r] \in called \/ \E x \in todo : x[2] = FnOf[r]

(* What is seen of the client from the server is what a client shows that
   handles each datum at once: nothing that listeners do, or the user does in
   them, comes between the parsing of a reply and the start of the stage it
   led to. *)
HandlesAtOnce == Spec
=============================================================================

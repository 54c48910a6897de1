-------------------------- MODULE ClientAnyServer --------------------------
(***************************************************************************)
(* Clients (DarkClient) against a server of which nothing is known: it     *)
(* answers when it likes, with any datum.  README.md:13 invites other      *)
(* servers, and what holds here holds of a client whatever it talks to.    *)
(***************************************************************************)
EXTENDS DarkClient, FiniteSets

CONSTANTS
  Answers,     \* the datums the server may send
  MaxMessages, \* bound: messages a user types
  MaxTraffic   \* bound: datums written, acknowledgements and messages heard

ASSUME AnswersAssumption ==
  /\ Answers \subseteq Datum
  /\ {MaxMessages, MaxTraffic} \subseteq Nat

vars == <<clientVars, toServer>>

Quiet(c) ==
  /\ Len(toServer[c]) < MaxTraffic
  /\ Len(heard[c]) < MaxTraffic
  /\ ackedCount[c] < MaxTraffic

UserTypes(c) ==
  /\ Quiet(c)
  /\ sentCount[c] < MaxMessages
  /\ enqueueUserDatum(c)

ServerSends(c, d) ==
  /\ Quiet(c)
  /\ started[c]
  /\ getConnectionListener(c, d)

Next ==
  \/ \E c \in Clients : start(c)
  \/ \E c \in Clients : UserTypes(c)
  \/ \E c \in Clients : \E d \in Answers : ServerSends(c, d)

Spec == Init /\ [][Next]_vars

-----------------------------------------------------------------------------
(* Correctness.  toServer holds everything a client ever wrote. *)

(* The steps of a session, in the order in which a client may ask for them. *)
Rank(type) ==
  CASE type = "connect" -> 1
    [] type = "verify"  -> 2
    [] type = "join"    -> 3
    [] type = "msg"     -> 4

(* The request that comes before one of a session. *)
Preceding(c, type) ==
  CASE type = "verify" -> "connect"
    [] type = "join"   -> "verify"
    [] type = "msg"    -> IF Kind[c] = "public" THEN "join" ELSE "verify"

(* A client neither skips a step nor goes back: what it asks for was preceded
   by the request before it in the session, and is followed by none of an
   earlier one, whatever the server sends. *)
StagesAdvance ==
  \A c \in Clients : \A j \in 1..Len(toServer[c]) :
    LET type == toServer[c][j].type IN
      /\ \A i \in 1..j : Rank(toServer[c][i].type) <= Rank(type)
      /\ type # "connect"
           => \E i \in 1..(j - 1) : toServer[c][i].type = Preceding(c, type)

(* Why it holds: a stage's own request is the latest the client may have
   written, and the request before it was written. *)
Request(st) ==
  CASE st = "requestChallenge"  -> "connect"
    [] st = "signChallenge"     -> "verify"
    [] st = "joinPublicChannel" -> "join"
    [] st \in MessageStages     -> "msg"

StageRank(st) == Rank(Request(st))

Wrote(c, type) == \E i \in 1..Len(toServer[c]) : toServer[c][i].type = type

FitsKind(c, st, rest) ==
  /\ st \in {"requestChallenge", "signChallenge"} => rest = StageCreators(c)
  /\ st \in {"joinPublicChannel", "publicMessage"} => Kind[c] = "public"
  /\ st = "privateMessage" => Kind[c] = "private"

StagesFitKind == \A c \in Clients : FitsKind(c, stage[c], remaining[c])

(* c waits for the reply to what it wrote last. *)
Awaits(c) ==
  /\ started[c] /\ stage[c] \notin MessageStages
  /\ ~(Kind[c] = "chat" /\ stage[c] = "signChallenge")

InTurn(c) ==
  /\ \A i \in 1..Len(toServer[c]) :
       /\ toServer[c][i].type \in {"connect", "verify", "join", "msg"}
       /\ Rank(toServer[c][i].type) <= StageRank(stage[c])
  /\ stage[c] # "requestChallenge" => Wrote(c, Preceding(c, Request(stage[c])))
  /\ Awaits(c) => /\ toServer[c] # <<>>
                  /\ toServer[c][Len(toServer[c])].type = Request(stage[c])

StagesInv == StagesAdvance /\ StagesFitKind /\ \A c \in Clients : InTurn(c)

(* The messages c has written, and those that wait in its queue. *)
Written(c) ==
  {toServer[c][i].msg : i \in {k \in 1..Len(toServer[c]) : toServer[c][k].type = "msg"}}

Queued(c) == {queue[c][i] : i \in 1..Len(queue[c])}

(* A message leaves the queue without having been written only at an
   acknowledgement that is one too many: more have come than there are messages
   written, a message that was written again counted once.  A server that
   acknowledges every copy of a repeated message sends them (system_pops_unsent);
   one that acknowledges each message once costs a client nothing. *)
LostOnlyInExcess ==
  [][\A c \in Clients : \A n \in Queued(c) \ Queued(c)' :
       n \notin Written(c) => ackedCount'[c] > Cardinality(Written(c))]_vars

(* Only messages that were typed are written, and once a message is written
   no earlier one is: a message is repeated but never overtaken. *)
MessagesAdvance ==
  \A c \in Clients : \A j \in 1..Len(toServer[c]) :
    toServer[c][j].type = "msg" =>
      /\ toServer[c][j].msg \in 1..sentCount[c]
      /\ \A i \in 1..j : toServer[c][i].type = "msg"
                           => toServer[c][i].msg <= toServer[c][j].msg

(* Why they hold: the queue is what was typed last, in its order, and at most
   one message has left it for each acknowledgement; what was written is at
   most its head. *)
LastTyped ==
  \A c \in Clients :
    LET popped == sentCount[c] - Len(queue[c]) IN
      /\ popped \in 0..ackedCount[c]
      /\ \A i \in 1..Len(queue[c]) : queue[c][i] = popped + i

MessagesInv ==
  /\ LastTyped
  /\ MessagesAdvance
  /\ \A c \in Clients : \A i \in 1..Len(toServer[c]) :
       toServer[c][i].type = "msg" =>
         toServer[c][i].msg <= sentCount[c] - Len(queue[c]) + 1
=============================================================================

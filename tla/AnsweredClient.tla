--------------------------- MODULE AnsweredClient ---------------------------
(***************************************************************************)
(* The clients of ClientAnyServer, with a history of what the server has   *)
(* answered them: a request counts as answered when, while it is the last  *)
(* thing that the client wrote, the server says what it asks for.          *)
(***************************************************************************)
EXTENDS ClientAnyServer

VARIABLE answered  \* history: the requests of a client that were answered

LastRequest(c) == toServer[c][Len(toServer[c])].type

(* d says what a request asks for: a challenge to sign, or that it is granted. *)
Satisfies(type, d) ==
  \/ type = "connect" /\ d.type = "verify" /\ d.msg # 0
  \/ type \in {"verify", "join"} /\ d.type = "success" /\ NotAck(d)

Remembers(c, d) ==
  answered' = [answered EXCEPT ![c] =
                 IF toServer[c] # <<>> /\ Satisfies(LastRequest(c), d)
                 THEN @ \cup {LastRequest(c)} ELSE @]

AnsweredInit == Init /\ answered = [c \in Clients |-> {}]

AnsweredNext ==
  \/ \E c \in Clients : start(c) /\ UNCHANGED answered
  \/ \E c \in Clients : UserTypes(c) /\ UNCHANGED answered
  \/ \E c \in Clients : \E d \in Answers : ServerSends(c, d) /\ Remembers(c, d)

AnsweredSpec == AnsweredInit /\ [][AnsweredNext]_<<vars, answered>>

-----------------------------------------------------------------------------
(* A client asks for the next thing only when it was told that it has the one
   before: it signs a challenge that was sent to it, joins its channel once it
   is registered, and sends messages once it is registered and, for a public
   client, in its channel.  No acknowledgement, no error, no message of others
   and no repeated challenge is taken for that. *)
AskedInTurn ==
  \A c \in Clients : \A i \in 1..Len(toServer[c]) :
    toServer[c][i].type # "connect"
      => Preceding(c, toServer[c][i].type) \in answered[c]

(* Why it holds: so it is for the request of the stage the client is in. *)
AnsweredInv ==
  /\ AskedInTurn
  /\ \A c \in Clients :
       stage[c] # "requestChallenge"
         => Preceding(c, Request(stage[c])) \in answered[c]
=============================================================================

---------------------------- MODULE Conversation ----------------------------
(***************************************************************************)
(* What clients and server together promise to those who talk, with no     *)
(* connection, session, queue or acknowledgement in sight.                 *)
(*                                                                         *)
(* A message is heard by those its author can reach and by nobody else,    *)
(* after it was typed, and never behind a later one of the same author.    *)
(* It may be heard more than once, or not at all.                          *)
(***************************************************************************)
EXTENDS Naturals, Sequences

CONSTANTS Clients, KeyOf, Kind, ChannelOf, PartnerOf

VARIABLES
  typed,  \* typed[a]: how many messages a has typed
  heard   \* heard[c]: what c has heard, each message as <<author, ordinal>>

vars == <<typed, heard>>

Init ==
  /\ typed = [c \in Clients |-> 0]
  /\ heard = [c \in Clients |-> <<>>]

(* The other members of an author's channel; two partners; and a public
   client that a private one writes to, which does not look at who writes. *)
Reaches(a, c) ==
  \/ /\ Kind[a] = "public" /\ Kind[c] = "public"
     /\ a # c /\ ChannelOf[a] = ChannelOf[c]
  \/ /\ Kind[a] = "private" /\ Kind[c] = "private"
     /\ PartnerOf[a] = KeyOf[c] /\ PartnerOf[c] = KeyOf[a]
  \/ /\ Kind[a] = "private" /\ Kind[c] = "public"
     /\ PartnerOf[a] = KeyOf[c]

Type(a) ==
  /\ typed' = [typed EXCEPT ![a] = @ + 1]
  /\ UNCHANGED heard

Hear(c, a, n) ==
  /\ Reaches(a, c)
  /\ n \in 1..typed[a]
  /\ \A i \in 1..Len(heard[c]) : heard[c][i][1] = KeyOf[a] => heard[c][i][2] <= n
  /\ heard' = [heard EXCEPT ![c] = Append(@, <<KeyOf[a], n>>)]
  /\ UNCHANGED typed

Next ==
  \/ \E a \in Clients : Type(a)
  \/ \E a, c \in Clients : \E n \in 1..typed[a] : Hear(c, a, n)

Spec == Init /\ [][Next]_vars
=============================================================================

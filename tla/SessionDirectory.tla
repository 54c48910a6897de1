-------------------------- MODULE SessionDirectory --------------------------
(***************************************************************************)
(* What a server promises about who is connected and who is in which       *)
(* channel, with no challenge, socket or message in sight.                 *)
(*                                                                         *)
(* A user (a public key) has at most one session, carried by one           *)
(* connection.  A session is never handed from one connection to another:  *)
(* it ends first.  It ends when a connection closes that last spoke for    *)
(* the user, be it the one that carries it or another, and when the server *)
(* does; a connection that speaks for several users ends one session when  *)
(* it closes, and the others stay.  A user is in a channel only while they *)
(* have a session, and leaves every channel in the step in which it ends.  *)
(***************************************************************************)
CONSTANTS Keys, Channels, Conns, NoConn, NoKey

VARIABLES
  session,  \* session[k]: the connection that carries k's session, or NoConn
  members,  \* members[ch]: the users in channel ch
  open,     \* the connections that are open
  speaks    \* speaks[c]: the user c last spoke for, or NoKey

vars == <<session, members, open, speaks>>

Init ==
  /\ session = [k \in Keys |-> NoConn]
  /\ members = [ch \in Channels |-> {}]
  /\ open = {}
  /\ speaks = [c \in Conns |-> NoKey]

Opens(c) ==
  /\ c \notin open
  /\ open' = open \cup {c}
  /\ UNCHANGED <<session, members, speaks>>

(* c speaks for k, as every request does. *)
Speaks(c, k) ==
  /\ c \in open
  /\ speaks' = [speaks EXCEPT ![c] = k]
  /\ UNCHANGED open

SaysMore(c, k) == Speaks(c, k) /\ UNCHANGED <<session, members>>

Establish(c, k) ==
  /\ Speaks(c, k)
  /\ session[k] = NoConn
  /\ session' = [session EXCEPT ![k] = c]
  /\ UNCHANGED members

Enter(c, k, ch) ==
  /\ Speaks(c, k)
  /\ session[k] # NoConn
  /\ members' = [members EXCEPT ![ch] = @ \cup {k}]
  /\ UNCHANGED session

(* c closes, and with it goes the session of the user it last spoke for. *)
Closes(c) ==
  /\ c \in open
  /\ open' = open \ {c}
  /\ session' = [k \in Keys |-> IF k = speaks[c] THEN NoConn ELSE session[k]]
  /\ members' = [ch \in Channels |-> members[ch] \ {speaks[c]}]
  /\ UNCHANGED speaks

(* The server ends, and every session with it. *)
Forget ==
  /\ session' = [k \in Keys |-> NoConn]
  /\ members' = [ch \in Channels |-> {}]
  /\ open' = {}
  /\ UNCHANGED speaks

Next ==
  \/ \E c \in Conns : Opens(c) \/ Closes(c)
  \/ \E c \in Conns, k \in Keys : SaysMore(c, k) \/ Establish(c, k)
  \/ \E c \in Conns, k \in Keys, ch \in Channels : Enter(c, k, ch)
  \/ Forget

Spec == Init /\ [][Next]_vars
=============================================================================

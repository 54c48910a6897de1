------------------------------ MODULE PeerMesh ------------------------------
(***************************************************************************)
(* The peer side of several BaseServers (packages/server/src/              *)
(* serverUtils.js): addPeer, the handshake, peer_list and its names.       *)
(*                                                                         *)
(* A caller enters a peer in peer_list by the address it called, the       *)
(* server that was called by the IP address the call came from.  A link is *)
(* one TCP connection; its ends are the sockets of the two servers.        *)
(*                                                                         *)
(* Nothing is sent on a link after its handshake: pushMessage throws when  *)
(* it meets a peer, and the promise of sendPeers is rejected (peer_list    *)
(* has no map), which Node 11 only warns of.  Where it is fatal, and when  *)
(* pushMessage throws, the process ends: Dies.                             *)
(***************************************************************************)
EXTENDS Naturals, Sequences

CONSTANTS
  Servers,      \* server processes
  Hosts,        \* IP addresses that calls come from
  Addresses,    \* "host:port", as an operator types it
  Links,        \* each is opened once
  NoEnd,        \* an absent entry of peer_list
  HostOf,       \* the IP address of a server's calls; a NAT shares it
  Own,          \* `${this.host}:${this.serverPeerPort}`
  Reaches,      \* the server an address leads to
  ClientPorts,  \* the addresses that lead to a port for clients
  From,         \* the server that opens a link
  To            \* the address it calls

Ends  == Links \X {"out", "in"}
Names == Hosts \cup Addresses

ASSUME MeshAssumption ==
  /\ HostOf \in [Servers -> Hosts]
  /\ Own \in [Servers -> Addresses]
  /\ Reaches \in [Addresses -> Servers]
  /\ ClientPorts \subseteq Addresses
  /\ From \in [Links -> Servers]
  /\ To \in [Links -> Addresses]
  /\ NoEnd \notin Ends

VARIABLES
  up,         \* up[s]: the process of s runs
  peer_list,  \* peer_list[s][name]: the end s entered under that name
  sock,       \* the state of each end
  toEnd,      \* what is on its way to an end
  ever,       \* history: the ends that were entered in a peer_list
  crowded     \* history: the ends that were in use while another end of
              \* their server had their name

vars == <<up, peer_list, sock, toEnd, ever, crowded>>

SockStates == {"unused", "connecting", "open", "destroyed", "closed"}

Chunks == {"connect", "ok", "error", "malformed"}

TypeOK ==
  /\ up \in [Servers -> BOOLEAN]
  /\ peer_list \in [Servers -> [Names -> Ends \cup {NoEnd}]]
  /\ sock \in [Ends -> SockStates]
  /\ toEnd \in [Ends -> Seq(Chunks)]
  /\ ever \subseteq Ends
  /\ crowded \subseteq Ends

(* The peer_list of a server that just started. *)
NoPeers == [name \in Names |-> NoEnd]

Init ==
  /\ up = [s \in Servers |-> TRUE]
  /\ peer_list = [s \in Servers |-> NoPeers]
  /\ sock = [e \in Ends |-> "unused"]
  /\ toEnd = [e \in Ends |-> <<>>]
  /\ ever = {}
  /\ crowded = {}

-----------------------------------------------------------------------------
(* The ends of a link *)

Out(l) == <<l, "out">>
In(l)  == <<l, "in">>

Other(e) == <<e[1], IF e[2] = "out" THEN "in" ELSE "out">>

(* The server whose socket e is. *)
Server(e) == IF e[2] = "out" THEN From[e[1]] ELSE Reaches[To[e[1]]]

(* remoteAddr: the address that was called, or the IP of the caller.  The
   port a caller sends with "connect" is logged and not made part of it. *)
remoteAddr(e) == IF e[2] = "out" THEN To[e[1]] ELSE HostOf[From[e[1]]]

(* The socket e belongs to the peer protocol; the others are those of a port
   for clients that was called by mistake. *)
IsPeerEnd(e) == e[2] = "out" \/ To[e[1]] \notin ClientPorts

Entry(e) == peer_list[Server(e)][remoteAddr(e)]

Listed(e) == IsPeerEnd(e) /\ Entry(e) = e

(* The ends that share the name of e with it once e is in use. *)
InUse(e) == sock[e] \in {"connecting", "open", "destroyed"}

SameName(e, f) == Server(e) = Server(f) /\ remoteAddr(e) = remoteAddr(f)

CrowdOf(e) == {f \in Ends : f # e /\ InUse(f) /\ IsPeerEnd(f) /\ SameName(e, f)}

Crowds(e) ==
  crowded' = crowded \cup
    IF IsPeerEnd(e) /\ CrowdOf(e) # {} THEN CrowdOf(e) \cup {e} ELSE {}

SetEntry(e, x) ==
  peer_list' = [peer_list EXCEPT ![Server(e)] = [@ EXCEPT ![remoteAddr(e)] = x]]

(* The end e takes its first chunk, and writes the chunks ds. *)
TakeAndWrite(e, ds) ==
  toEnd' = [toEnd EXCEPT
              ![e] = Tail(@),
              ![Other(e)] = IF sock[Other(e)] = "open" THEN @ \o ds ELSE @]

-----------------------------------------------------------------------------
(* The operator types connect: a server does not call itself. *)
addPeer(l) ==
  /\ up[From[l]]
  /\ sock[Out(l)] = "unused"
  /\ To[l] # Own[From[l]]
  /\ sock' = [sock EXCEPT ![Out(l)] = "connecting"]
  /\ Crowds(Out(l))
  /\ UNCHANGED <<up, peer_list, toEnd, ever>>

(* A slip: the caller enters the peer when the connection is made. *)
ListsAtConnect(l) ==
  /\ sock[Out(l)] = "connecting"
  /\ up[Server(In(l))]
  /\ sock' = [sock EXCEPT ![Out(l)] = "open", ![In(l)] = "open"]
  /\ toEnd' = [toEnd EXCEPT ![In(l)] = Append(@, "connect")]
  /\ SetEntry(Out(l), Out(l))
  /\ ever' = ever \cup {Out(l)}
  /\ Crowds(In(l))
  /\ UNCHANGED up

(* The connection is made: onPeerConnected (or onClientConnected) on the one
   side, and the callback of connect on the other. *)
onPeerConnected(l) ==
  /\ sock[Out(l)] = "connecting"
  /\ up[Server(In(l))]
  /\ sock' = [sock EXCEPT ![Out(l)] = "open", ![In(l)] = "open"]
  /\ toEnd' = [toEnd EXCEPT ![In(l)] = Append(@, "connect")]
  /\ Crowds(In(l))
  /\ UNCHANGED <<up, peer_list, ever>>

-----------------------------------------------------------------------------
(* handlePeerData, one operator per branch. *)

(* What comes from a name in the list is read as a relay or as the address of
   a peer; what the handshake sends is neither. *)
FromPeer(e, chunk) ==
  /\ Entry(e) # NoEnd
  /\ TakeAndWrite(e, <<>>)
  /\ UNCHANGED <<up, peer_list, sock, ever, crowded>>

(* A slip: the caller takes the "ok" and enters nothing. *)
ConfirmsNothing(e, chunk) ==
  /\ Entry(e) = NoEnd
  /\ e[2] = "out" /\ chunk = "ok"
  /\ TakeAndWrite(e, <<>>)
  /\ UNCHANGED <<up, peer_list, sock, ever, crowded>>

Confirmed(e, chunk) ==
  /\ Entry(e) = NoEnd
  /\ e[2] = "out" /\ chunk = "ok"
  /\ SetEntry(e, e)
  /\ ever' = ever \cup {e}
  /\ TakeAndWrite(e, <<>>)
  /\ UNCHANGED <<up, sock, crowded>>

(* A slip: the peer is entered and never told. *)
AcceptsInSilence(e, chunk) ==
  /\ Entry(e) = NoEnd
  /\ e[2] = "in" /\ chunk = "connect"
  /\ SetEntry(e, e)
  /\ ever' = ever \cup {e}
  /\ TakeAndWrite(e, <<>>)
  /\ UNCHANGED <<up, sock, crowded>>

(* A slip: the name is stored where the socket belongs. *)
EntersTheName(e, chunk) ==
  /\ Entry(e) = NoEnd
  /\ e[2] = "in" /\ chunk = "connect"
  /\ SetEntry(e, remoteAddr(e))
  /\ ever' = ever \cup {e}
  /\ TakeAndWrite(e, <<"ok">>)
  /\ UNCHANGED <<up, sock, crowded>>

Accepted(e, chunk) ==
  /\ Entry(e) = NoEnd
  /\ e[2] = "in" /\ chunk = "connect"
  /\ SetEntry(e, e)
  /\ ever' = ever \cup {e}
  /\ TakeAndWrite(e, <<"ok">>)
  /\ UNCHANGED <<up, sock, crowded>>

Rejected(e, chunk) ==
  /\ Entry(e) = NoEnd
  /\ <<e[2], chunk>> \notin {<<"out", "ok">>, <<"in", "connect">>}
  /\ sock' = [sock EXCEPT ![e] = "destroyed"]
  /\ TakeAndWrite(e, <<"error">>)
  /\ UNCHANGED <<up, peer_list, ever, crowded>>

handlePeerData(e) ==
  /\ IsPeerEnd(e)
  /\ sock[e] = "open"
  /\ toEnd[e] # <<>>
  /\ LET chunk == Head(toEnd[e]) IN
       \/ FromPeer(e, chunk)
       \/ Confirmed(e, chunk)
       \/ Accepted(e, chunk)
       \/ Rejected(e, chunk)

(* A port for clients answers whatever is no JSON datum. *)
Malformed(e) ==
  /\ ~IsPeerEnd(e)
  /\ sock[e] = "open"
  /\ toEnd[e] # <<>>
  /\ TakeAndWrite(e, <<"malformed">>)
  /\ UNCHANGED <<up, peer_list, sock, ever, crowded>>

-----------------------------------------------------------------------------
(* Endings *)

(* The socket e is gone, and what was on its way to it. *)
Close(e) ==
  /\ sock[e] \in {"connecting", "open", "destroyed"}
  /\ sock' = [sock EXCEPT ![e] = "closed"]
  /\ toEnd' = [toEnd EXCEPT ![e] = <<>>]
  /\ UNCHANGED <<up, ever, crowded>>

(* A slip: the entry outlives its socket. *)
KeepsTheEntry(e) ==
  /\ IsPeerEnd(e)
  /\ Close(e)
  /\ UNCHANGED peer_list

(* The close event of e: the call was refused, the other end closed, e was
   destroyed, or the connection broke.  The entry under e's name goes,
   whichever end made it. *)
handlePeerDisconnect(e) ==
  /\ IsPeerEnd(e)
  /\ Close(e)
  /\ SetEntry(e, NoEnd)

(* handleClientDisconnect of a connection that never named a key. *)
handleClientDisconnect(e) ==
  /\ ~IsPeerEnd(e)
  /\ Close(e)
  /\ UNCHANGED peer_list

(* The operator types exit, the process is killed, or it throws. *)
Dies(s) ==
  /\ up[s]
  /\ up' = [up EXCEPT ![s] = FALSE]
  /\ peer_list' = [peer_list EXCEPT ![s] = NoPeers]
  /\ sock' = [e \in Ends |-> IF Server(e) = s /\ sock[e] # "unused"
                             THEN "closed" ELSE sock[e]]
  /\ toEnd' = [e \in Ends |-> IF Server(e) = s THEN <<>> ELSE toEnd[e]]
  /\ UNCHANGED <<ever, crowded>>

Restarts(s) ==
  /\ ~up[s]
  /\ up' = [up EXCEPT ![s] = TRUE]
  /\ UNCHANGED <<peer_list, sock, toEnd, ever, crowded>>

Next ==
  \/ \E l \in Links : addPeer(l)
  \/ \E l \in Links : onPeerConnected(l)
  \/ \E e \in Ends : handlePeerData(e)
  \/ \E e \in Ends : Malformed(e)
  \/ \E e \in Ends : handlePeerDisconnect(e)
  \/ \E e \in Ends : handleClientDisconnect(e)
  \/ \E s \in Servers : Dies(s)
  \/ \E s \in Servers : Restarts(s)

Spec == Init /\ [][Next]_vars

(* What arrives is handled.  Nobody has to call, to be there for a call, or
   to hang up. *)
FairSpec == Spec /\ \A e \in Ends : WF_vars(handlePeerData(e))

-----------------------------------------------------------------------------
(* Every entry of a peer_list is an open socket of that very server, entered
   under that socket's name, and never one of a port for clients: what
   handlePeerDisconnect deletes is all there is to delete. *)
EntriesAreLive ==
  \A s \in Servers, name \in Names :
    LET e == peer_list[s][name] IN
      e # NoEnd => /\ Server(e) = s /\ remoteAddr(e) = name
                   /\ IsPeerEnd(e)
                   /\ sock[e] = "open"

BothOpen(l) == sock[Out(l)] = "open" /\ sock[In(l)] = "open"

Quiet(l) == toEnd[Out(l)] = <<>> /\ toEnd[In(l)] = <<>>

(* No other end had the name of one of the ends of l while that was in use. *)
OwnNames(l) == Out(l) \notin crowded /\ In(l) \notin crowded

PeerLink(l) == To[l] \notin ClientPorts

(* A link whose names were its own is in both lists when nothing is on its way
   any more, whatever became of other links, of earlier calls of the same
   address and of earlier lives of the two servers: handlePeerData. *)
QuietLinksAgree ==
  \A l \in Links :
    PeerLink(l) /\ OwnNames(l) /\ BothOpen(l) /\ Quiet(l)
      => Listed(Out(l)) /\ Listed(In(l))

(* ... and without the names: the caller of a link, and the server that accepted
   it, are peers.  The comment on remoteAddr at serverUtils.js:260 promises the
   name that would make it so. *)
OpenLinksAreListed ==
  \A l \in Links : PeerLink(l) /\ BothOpen(l) /\ Quiet(l) => Listed(In(l))

(* Every link is listed by the server that was called before the caller lists
   it, and never again once it was unlisted. *)
Handshake == INSTANCE PeerHandshake WITH listed <- {e \in Ends : Listed(e)}

HandshakeSpec == Handshake!Spec

(* A link that is made is in both lists in the end, or ends, or has its name
   taken by another: nothing waits for a relay, a timer or a second call. *)
LinksAreListed ==
  \A l \in Links :
    PeerLink(l) /\ OwnNames(l) /\ BothOpen(l)
      ~> (Listed(Out(l)) /\ Listed(In(l))) \/ ~BothOpen(l) \/ ~OwnNames(l)
=============================================================================

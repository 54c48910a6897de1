--------------------------- MODULE PeerMeshProofs ---------------------------
(***************************************************************************)
(* The handshake of PeerMesh, for any servers, addresses and calls.        *)
(***************************************************************************)
EXTENDS PeerMesh, TLAPS

(* The entries of the lists, with what the other parts need of them. *)
EntryInv ==
  EntriesAreLive /\ \A s \in Servers, name \in Names :
                      peer_list[s][name] # NoEnd => peer_list[s][name] \in ever

(* An end that was never crowded is the only one of its name. *)
AloneInv ==
  \A e \in Ends :
    e \notin crowded /\ InUse(e) /\ IsPeerEnd(e) => CrowdOf(e) = {}

(* Where the two ends of a link, and what is on its way to them, can be. *)
SocksInv(l) ==
  /\ sock[Out(l)] \in {"unused", "connecting"} => sock[In(l)] = "unused"
  /\ sock[In(l)] = "unused" => /\ toEnd[In(l)] = <<>> /\ toEnd[Out(l)] = <<>>
                               /\ In(l) \notin ever /\ Out(l) \notin ever

AskInv(l) ==
  /\ toEnd[In(l)] \in {<<>>, <<"connect">>}
  /\ toEnd[In(l)] = <<"connect">> => In(l) \notin ever /\ toEnd[Out(l)] = <<>>

AnswerInv(l) ==
  /\ toEnd[Out(l)] \in {<<>>, <<"ok">>}
  /\ toEnd[Out(l)] = <<"ok">> => In(l) \in ever /\ Out(l) \notin ever
  /\ Out(l) \in ever => In(l) \in ever

PeerLinkInv(l) == PeerLink(l) => AskInv(l) /\ AnswerInv(l)

ClientLinkInv(l) ==
  ~PeerLink(l) => toEnd[Out(l)] \in Seq({"malformed"})

LinkInv(l) == SocksInv(l) /\ PeerLinkInv(l) /\ ClientLinkInv(l)

(* The phases of a link whose names are its own. *)
Phase(l) ==
  \/ toEnd[In(l)] = <<"connect">>
  \/ toEnd[Out(l)] = <<"ok">> /\ Listed(In(l))
  \/ Listed(In(l)) /\ Listed(Out(l))

PhaseInv(l) == PeerLink(l) /\ OwnNames(l) /\ BothOpen(l) => Phase(l)

IInv ==
  /\ TypeOK
  /\ EntryInv
  /\ AloneInv
  /\ \A l \in Links : LinkInv(l)
  /\ \A l \in Links : PhaseInv(l)

-----------------------------------------------------------------------------
(* Ends, names and entries *)

(* The ends of a link, their servers and their names. *)
LEMMA EndsOfLinks ==
  ASSUME NEW l \in Links
  PROVE  /\ Out(l) \in Ends /\ In(l) \in Ends /\ Out(l) # In(l)
         /\ Other(Out(l)) = In(l) /\ Other(In(l)) = Out(l)
         /\ Out(l)[1] = l /\ In(l)[1] = l /\ Out(l)[2] = "out" /\ In(l)[2] = "in"
         /\ IsPeerEnd(Out(l)) /\ (IsPeerEnd(In(l)) <=> PeerLink(l))
BY DEF Ends, Out, In, Other, IsPeerEnd, PeerLink

(* Every end is one of the two of its link. *)
LEMMA EndIsOutOrIn ==
  ASSUME NEW e \in Ends
  PROVE  /\ e[1] \in Links
         /\ e[2] = "out" => e = Out(e[1])
         /\ e[2] = "in" => e = In(e[1])
         /\ e[2] \in {"out", "in"}
         /\ Other(e) \in Ends /\ Other(e) # e /\ Other(e)[1] = e[1]
BY DEF Ends, Out, In, Other

(* The server and the name of an end are a server and a name. *)
LEMMA NamesAreNames ==
  ASSUME NEW e \in Ends
  PROVE  Server(e) \in Servers /\ remoteAddr(e) \in Names
BY MeshAssumption, EndIsOutOrIn DEF Server, remoteAddr, Names

(* What SetEntry does to every entry. *)
LEMMA EntriesAfter ==
  ASSUME TypeOK, NEW e \in Ends, NEW x \in Ends \cup {NoEnd}, SetEntry(e, x)
  PROVE  /\ peer_list' \in [Servers -> [Names -> Ends \cup {NoEnd}]]
         /\ \A s \in Servers, name \in Names :
              peer_list'[s][name] = IF s = Server(e) /\ name = remoteAddr(e)
                                    THEN x ELSE peer_list[s][name]
<1>1. Server(e) \in Servers /\ remoteAddr(e) \in Names
  BY NamesAreNames
<1> QED
  BY <1>1 DEF TypeOK, SetEntry

(* Whom an entered end joins: an entry is made only where there was none. *)
LEMMA ListedAfterEntering ==
  ASSUME TypeOK, NEW e \in Ends, SetEntry(e, e), Entry(e) = NoEnd, IsPeerEnd(e)
  PROVE  \A f \in Ends : Listed(f)' <=> (Listed(f) \/ f = e)
<1> SUFFICES ASSUME NEW f \in Ends PROVE Listed(f)' <=> (Listed(f) \/ f = e)
  OBVIOUS
<1>1. Server(f) \in Servers /\ remoteAddr(f) \in Names
  BY NamesAreNames
<1>2. peer_list'[Server(f)][remoteAddr(f)] =
        IF SameName(e, f) THEN e ELSE peer_list[Server(f)][remoteAddr(f)]
  BY <1>1, EntriesAfter DEF SameName
<1>3. NoEnd # f /\ NoEnd # e
  BY MeshAssumption
<1>4. SameName(e, f) => peer_list[Server(f)][remoteAddr(f)] = NoEnd
  BY DEF SameName, Entry
<1>5. SameName(e, e)
  BY DEF SameName
<1>6. Listed(f) <=> IsPeerEnd(f) /\ peer_list[Server(f)][remoteAddr(f)] = f
  BY DEF Listed, Entry
<1>7. Listed(f)' <=> IsPeerEnd(f) /\ peer_list'[Server(f)][remoteAddr(f)] = f
  BY DEF Listed, Entry, IsPeerEnd, Server, remoteAddr
<1> QED
  BY <1>2, <1>3, <1>4, <1>5, <1>6, <1>7

(* Whom a deleted entry leaves alone: the ends of other names. *)
LEMMA ListedAfterDeleting ==
  ASSUME TypeOK, NEW e \in Ends, SetEntry(e, NoEnd)
  PROVE  \A f \in Ends : Listed(f)' <=> (Listed(f) /\ ~SameName(e, f))
<1> SUFFICES ASSUME NEW f \in Ends PROVE Listed(f)' <=> (Listed(f) /\ ~SameName(e, f))
  OBVIOUS
<1>1. Server(f) \in Servers /\ remoteAddr(f) \in Names
  BY NamesAreNames
<1>2. peer_list'[Server(f)][remoteAddr(f)] =
        IF SameName(e, f) THEN NoEnd ELSE peer_list[Server(f)][remoteAddr(f)]
  BY <1>1, EntriesAfter DEF SameName
<1>3. NoEnd # f
  BY MeshAssumption
<1>6. Listed(f) <=> IsPeerEnd(f) /\ peer_list[Server(f)][remoteAddr(f)] = f
  BY DEF Listed, Entry
<1>7. Listed(f)' <=> IsPeerEnd(f) /\ peer_list'[Server(f)][remoteAddr(f)] = f
  BY DEF Listed, Entry, IsPeerEnd, Server, remoteAddr
<1> QED
  BY <1>2, <1>3, <1>6, <1>7

(* A listed end is open and was entered. *)
LEMMA ListedIsOpen ==
  ASSUME EntryInv, NEW e \in Ends, Listed(e)
  PROVE  sock[e] = "open" /\ e \in ever
<1>1. Server(e) \in Servers /\ remoteAddr(e) \in Names
  BY NamesAreNames
<1>2. e # NoEnd
  BY MeshAssumption
<1> QED
  BY <1>1, <1>2 DEF EntryInv, EntriesAreLive, Listed, Entry

(* The queues after a chunk was taken and ds written. *)
LEMMA QueuesAfter ==
  ASSUME TypeOK, NEW e \in Ends, toEnd[e] # <<>>, NEW ds \in Seq(Chunks),
         TakeAndWrite(e, ds)
  PROVE  /\ toEnd' \in [Ends -> Seq(Chunks)]
         /\ toEnd'[e] = Tail(toEnd[e])
         /\ toEnd'[Other(e)] = IF sock[Other(e)] = "open"
                               THEN toEnd[Other(e)] \o ds ELSE toEnd[Other(e)]
         /\ \A f \in Ends : f \notin {e, Other(e)} => toEnd'[f] = toEnd[f]
<1>1. Other(e) \in Ends /\ Other(e) # e
  BY EndIsOutOrIn
<1>2. toEnd \in [Ends -> Seq(Chunks)]
  BY DEF TypeOK
<1>3. Tail(toEnd[e]) \in Seq(Chunks) /\ toEnd[Other(e)] \o ds \in Seq(Chunks)
  BY <1>1, <1>2
<1> QED
  BY <1>1, <1>2, <1>3 DEF TakeAndWrite

-----------------------------------------------------------------------------
(* Types *)

(* The types are an invariant: every action. *)
LEMMA TypeStep ==
  ASSUME TypeOK, [Next]_vars
  PROVE  TypeOK'
<1> USE DEF TypeOK
<1>1. ASSUME NEW l \in Links, addPeer(l) PROVE TypeOK'
  <2>1. crowded' \subseteq Ends
    BY <1>1, EndsOfLinks DEF addPeer, Crowds, CrowdOf
  <2> QED
    BY <1>1, <2>1, EndsOfLinks DEF addPeer, SockStates
<1>2. ASSUME NEW l \in Links, onPeerConnected(l) PROVE TypeOK'
  <2>1. crowded' \subseteq Ends
    BY <1>2, EndsOfLinks DEF onPeerConnected, Crowds, CrowdOf
  <2>2. Append(toEnd[In(l)], "connect") \in Seq(Chunks)
    BY EndsOfLinks DEF Chunks
  <2>3. toEnd' \in [Ends -> Seq(Chunks)]
    BY <1>2, <2>2, EndsOfLinks DEF onPeerConnected
  <2> QED
    BY <1>2, <2>1, <2>3, EndsOfLinks DEF onPeerConnected, SockStates
<1>3. ASSUME NEW e \in Ends, handlePeerData(e) PROVE TypeOK'
  <2>0. <<>> \in Seq(Chunks) /\ <<"ok">> \in Seq(Chunks) /\ <<"error">> \in Seq(Chunks)
    BY DEF Chunks
  <2>1. CASE FromPeer(e, Head(toEnd[e]))
    <3>1. toEnd' \in [Ends -> Seq(Chunks)]
      BY <2>0, <2>1, <1>3, QueuesAfter DEF FromPeer, handlePeerData
    <3> QED
      BY <2>1, <3>1 DEF FromPeer
  <2>2. CASE Confirmed(e, Head(toEnd[e]))
    <3>1. toEnd' \in [Ends -> Seq(Chunks)]
      BY <2>0, <2>2, <1>3, QueuesAfter DEF Confirmed, handlePeerData
    <3>2. peer_list' \in [Servers -> [Names -> Ends \cup {NoEnd}]]
      BY <2>2, EntriesAfter DEF Confirmed
    <3> QED
      BY <2>2, <3>1, <3>2 DEF Confirmed
  <2>3. CASE Accepted(e, Head(toEnd[e]))
    <3>1. toEnd' \in [Ends -> Seq(Chunks)]
      BY <2>0, <2>3, <1>3, QueuesAfter DEF Accepted, handlePeerData
    <3>2. peer_list' \in [Servers -> [Names -> Ends \cup {NoEnd}]]
      BY <2>3, EntriesAfter DEF Accepted
    <3> QED
      BY <2>3, <3>1, <3>2 DEF Accepted
  <2>4. CASE Rejected(e, Head(toEnd[e]))
    <3>1. toEnd' \in [Ends -> Seq(Chunks)]
      BY <2>0, <2>4, <1>3, QueuesAfter DEF Rejected, handlePeerData
    <3> QED
      BY <2>4, <3>1 DEF Rejected, SockStates
  <2> QED
    BY <1>3, <2>1, <2>2, <2>3, <2>4 DEF handlePeerData
<1>4. ASSUME NEW e \in Ends, Malformed(e) PROVE TypeOK'
  <2>1. toEnd' \in [Ends -> Seq(Chunks)]
    <3>1. <<"malformed">> \in Seq(Chunks)
      BY DEF Chunks
    <3> QED
      BY <1>4, <3>1, QueuesAfter DEF Malformed
  <2> QED
    BY <1>4, <2>1 DEF Malformed
<1>5. ASSUME NEW e \in Ends, Close(e)
      PROVE  /\ sock' \in [Ends -> SockStates]
             /\ toEnd' \in [Ends -> Seq(Chunks)]
             /\ UNCHANGED <<up, ever, crowded>>
  BY <1>5 DEF Close, SockStates
<1>6. ASSUME NEW e \in Ends, handlePeerDisconnect(e) PROVE TypeOK'
  <2>1. peer_list' \in [Servers -> [Names -> Ends \cup {NoEnd}]]
    BY <1>6, EntriesAfter DEF handlePeerDisconnect
  <2> QED
    BY <1>5, <1>6, <2>1 DEF handlePeerDisconnect
<1>7. ASSUME NEW e \in Ends, handleClientDisconnect(e) PROVE TypeOK'
  BY <1>5, <1>7 DEF handleClientDisconnect
<1>8. ASSUME NEW s \in Servers, Dies(s) PROVE TypeOK'
  BY <1>8 DEF Dies, NoPeers, SockStates
<1>9. ASSUME NEW s \in Servers, Restarts(s) PROVE TypeOK'
  BY <1>9 DEF Restarts
<1>10. CASE UNCHANGED vars
  BY <1>10 DEF vars
<1> QED
  BY <1>1, <1>2, <1>3, <1>4, <1>6, <1>7, <1>8, <1>9, <1>10 DEF Next

-----------------------------------------------------------------------------
(* Entries *)

(* An entry made is that of an open socket under its own name. *)
LEMMA EnteringKeepsEntries ==
  ASSUME TypeOK, EntryInv, NEW e \in Ends, SetEntry(e, e), IsPeerEnd(e),
         sock[e] = "open", UNCHANGED sock, ever' = ever \cup {e}
  PROVE  EntryInv'
<1>1. SUFFICES ASSUME NEW s \in Servers, NEW name \in Names,
                      peer_list'[s][name] # NoEnd
               PROVE  LET x == peer_list'[s][name] IN
                        /\ Server(x) = s /\ remoteAddr(x) = name
                        /\ IsPeerEnd(x) /\ sock'[x] = "open" /\ x \in ever'
  BY DEF EntryInv, EntriesAreLive, Server, remoteAddr, IsPeerEnd
<1>2. peer_list'[s][name] = IF s = Server(e) /\ name = remoteAddr(e)
                            THEN e ELSE peer_list[s][name]
  BY EntriesAfter
<1> QED
  BY <1>1, <1>2 DEF EntryInv, EntriesAreLive

(* The end of a socket takes with it the entry of its name, and no other entry
   is of that socket. *)
LEMMA ClosingKeepsEntries ==
  ASSUME TypeOK, EntryInv, NEW e \in Ends, SetEntry(e, NoEnd),
         \A f \in Ends : f # e => sock'[f] = sock[f], UNCHANGED ever
  PROVE  EntryInv'
<1>1. SUFFICES ASSUME NEW s \in Servers, NEW name \in Names,
                      peer_list'[s][name] # NoEnd
               PROVE  LET x == peer_list'[s][name] IN
                        /\ Server(x) = s /\ remoteAddr(x) = name
                        /\ IsPeerEnd(x) /\ sock'[x] = "open" /\ x \in ever'
  BY DEF EntryInv, EntriesAreLive, Server, remoteAddr, IsPeerEnd
<1>2. peer_list'[s][name] = IF s = Server(e) /\ name = remoteAddr(e)
                            THEN NoEnd ELSE peer_list[s][name]
  BY EntriesAfter
<1>3. peer_list[s][name] \in Ends
  BY <1>1, <1>2 DEF TypeOK
<1> QED
  BY <1>1, <1>2, <1>3 DEF EntryInv, EntriesAreLive

(* Nothing else makes or unmakes an entry, or an open socket of one. *)
LEMMA OthersKeepEntries ==
  ASSUME TypeOK, EntryInv, UNCHANGED <<peer_list, ever>>,
         \A s \in Servers, name \in Names :
           LET x == peer_list[s][name] IN x # NoEnd => sock'[x] = sock[x]
  PROVE  EntryInv'
BY DEF EntryInv, EntriesAreLive, Server, remoteAddr, IsPeerEnd

(* The entries stay live: every action. *)
LEMMA EntryStep ==
  ASSUME TypeOK, EntryInv, [Next]_vars
  PROVE  EntryInv'
<1>0. \A s \in Servers, name \in Names :
        LET x == peer_list[s][name] IN
          x # NoEnd => /\ x \in Ends /\ sock[x] = "open" /\ IsPeerEnd(x)
                       /\ Listed(x) /\ Server(x) = s
  BY DEF EntryInv, EntriesAreLive, TypeOK, Listed, Entry
<1>1. ASSUME NEW l \in Links, addPeer(l) PROVE EntryInv'
  <2>1. \A f \in Ends : sock[f] = "open" => sock'[f] = sock[f]
    BY <1>1, EndsOfLinks DEF addPeer, TypeOK
  <2> QED
    BY <1>0, <1>1, <2>1, OthersKeepEntries DEF addPeer
<1>2. ASSUME NEW l \in Links, onPeerConnected(l) PROVE EntryInv'
  <2>1. \A f \in Ends : sock[f] = "open" => sock'[f] = sock[f]
    BY <1>2, EndsOfLinks DEF onPeerConnected, TypeOK
  <2> QED
    BY <1>0, <1>2, <2>1, OthersKeepEntries DEF onPeerConnected
<1>3. ASSUME NEW e \in Ends, handlePeerData(e) PROVE EntryInv'
  <2>1. CASE FromPeer(e, Head(toEnd[e]))
    BY <2>1, OthersKeepEntries DEF FromPeer
  <2>2. CASE Confirmed(e, Head(toEnd[e]))
    BY <1>3, <2>2, EnteringKeepsEntries DEF Confirmed, handlePeerData
  <2>3. CASE Accepted(e, Head(toEnd[e]))
    BY <1>3, <2>3, EnteringKeepsEntries DEF Accepted, handlePeerData
  <2>4. CASE Rejected(e, Head(toEnd[e]))
    <3>1. ~Listed(e)
      BY <2>4, MeshAssumption DEF Rejected, Listed
    <3>2. \A f \in Ends : f # e => sock'[f] = sock[f]
      BY <2>4 DEF Rejected, TypeOK
    <3> QED
      BY <1>0, <2>4, <3>1, <3>2, OthersKeepEntries DEF Rejected
  <2> QED
    BY <1>3, <2>1, <2>2, <2>3, <2>4 DEF handlePeerData
<1>4. ASSUME NEW e \in Ends, Malformed(e) PROVE EntryInv'
  BY <1>4, OthersKeepEntries DEF Malformed
<1>5. ASSUME NEW e \in Ends, Close(e)
      PROVE  (\A f \in Ends : f # e => sock'[f] = sock[f]) /\ UNCHANGED ever
  BY <1>5 DEF Close, TypeOK
<1>6. ASSUME NEW e \in Ends, handlePeerDisconnect(e) PROVE EntryInv'
  BY <1>5, <1>6, ClosingKeepsEntries DEF handlePeerDisconnect
<1>7. ASSUME NEW e \in Ends, handleClientDisconnect(e) PROVE EntryInv'
  BY <1>0, <1>5, <1>7, OthersKeepEntries DEF handleClientDisconnect
<1>8. ASSUME NEW s \in Servers, Dies(s) PROVE EntryInv'
  <2>1. SUFFICES ASSUME NEW r \in Servers, NEW name \in Names,
                        peer_list'[r][name] # NoEnd
                 PROVE  LET x == peer_list'[r][name] IN
                          /\ Server(x) = r /\ remoteAddr(x) = name
                          /\ IsPeerEnd(x) /\ sock'[x] = "open" /\ x \in ever'
    BY DEF EntryInv, EntriesAreLive, Server, remoteAddr, IsPeerEnd
  <2>2. r # s /\ peer_list'[r][name] = peer_list[r][name]
    BY <1>8, <2>1 DEF Dies, NoPeers, TypeOK
  <2>3. sock'[peer_list[r][name]] = sock[peer_list[r][name]]
    BY <1>0, <1>8, <2>1, <2>2 DEF Dies
  <2>4. ever' = ever
    BY <1>8 DEF Dies
  <2> QED
    BY <1>0, <2>1, <2>2, <2>3, <2>4 DEF EntryInv, EntriesAreLive
<1>9. ASSUME NEW s \in Servers, Restarts(s) PROVE EntryInv'
  BY <1>9, OthersKeepEntries DEF Restarts
<1>10. CASE UNCHANGED vars
  BY <1>10, OthersKeepEntries DEF vars
<1> QED
  BY <1>1, <1>2, <1>3, <1>4, <1>6, <1>7, <1>8, <1>9, <1>10 DEF Next

-----------------------------------------------------------------------------
(* Names of one's own *)

(* The use of an end begins with a look at who else has its name. *)
LEMMA BeginningKeepsAlone ==
  ASSUME AloneInv, NEW e \in Ends, Crowds(e),
         \A f \in Ends : f # e => (InUse(f)' <=> InUse(f))
  PROVE  AloneInv'
<1>1. SUFFICES ASSUME NEW f \in Ends, f \notin crowded', InUse(f)', IsPeerEnd(f),
                      NEW g \in Ends, g # f, InUse(g)', IsPeerEnd(g), SameName(f, g)
               PROVE  FALSE
  BY DEF AloneInv, CrowdOf, IsPeerEnd, SameName, Server, remoteAddr
<1>2. SameName(g, f)
  BY <1>1 DEF SameName
<1>3. CASE f = e
  <2>1. g \in CrowdOf(e)
    BY <1>1, <1>3 DEF CrowdOf
  <2> QED
    BY <1>1, <1>3, <2>1 DEF Crowds
<1>4. CASE g = e
  <2>1. f \in CrowdOf(e)
    BY <1>1, <1>2, <1>4 DEF CrowdOf
  <2> QED
    BY <1>1, <1>4, <2>1 DEF Crowds
<1>5. CASE f # e /\ g # e
  <2>1. InUse(f) /\ InUse(g) /\ f \notin crowded
    BY <1>1, <1>5 DEF Crowds
  <2> QED
    BY <1>1, <2>1 DEF AloneInv, CrowdOf
<1> QED
  BY <1>3, <1>4, <1>5

(* Where no use begins nobody joins a crowd. *)
LEMMA EndingKeepsAlone ==
  ASSUME AloneInv, UNCHANGED crowded, \A f \in Ends : InUse(f)' => InUse(f)
  PROVE  AloneInv'
BY DEF AloneInv, CrowdOf, IsPeerEnd, SameName, Server, remoteAddr

(* Ends outside a crowd are alone: every action. *)
LEMMA AloneStep ==
  ASSUME TypeOK, AloneInv, [Next]_vars
  PROVE  AloneInv'
<1>1. ASSUME NEW l \in Links, addPeer(l) PROVE AloneInv'
  <2>1. \A f \in Ends : f # Out(l) => sock'[f] = sock[f]
    BY <1>1 DEF addPeer, TypeOK
  <2> QED
    BY <1>1, <2>1, EndsOfLinks, BeginningKeepsAlone DEF addPeer, InUse
<1>2. ASSUME NEW l \in Links, onPeerConnected(l) PROVE AloneInv'
  <2>1. \A f \in Ends : f # In(l) => (InUse(f)' <=> InUse(f))
    BY <1>2, EndsOfLinks DEF onPeerConnected, TypeOK, InUse
  <2> QED
    BY <1>2, <2>1, EndsOfLinks, BeginningKeepsAlone DEF onPeerConnected
<1>3. ASSUME NEW e \in Ends, handlePeerData(e) PROVE AloneInv'
  <2>1. crowded' = crowded
    BY <1>3 DEF handlePeerData, FromPeer, Confirmed, Accepted, Rejected
  <2>2. sock' = sock \/ sock' = [sock EXCEPT ![e] = "destroyed"]
    BY <1>3 DEF handlePeerData, FromPeer, Confirmed, Accepted, Rejected
  <2>3. \A f \in Ends : InUse(f)' => InUse(f)
    BY <1>3, <2>2 DEF InUse, TypeOK, handlePeerData
  <2> QED
    BY <2>1, <2>3, EndingKeepsAlone
<1>4. ASSUME NEW e \in Ends, Malformed(e) PROVE AloneInv'
  BY <1>4, EndingKeepsAlone DEF Malformed, InUse
<1>5. ASSUME NEW e \in Ends, Close(e) PROVE AloneInv'
  BY <1>5, EndingKeepsAlone DEF Close, InUse, TypeOK
<1>6. ASSUME NEW s \in Servers, Dies(s) PROVE AloneInv'
  BY <1>6, EndingKeepsAlone DEF Dies, InUse
<1>7. ASSUME NEW s \in Servers, Restarts(s) PROVE AloneInv'
  BY <1>7, EndingKeepsAlone DEF Restarts, InUse
<1>8. CASE UNCHANGED vars
  BY <1>8, EndingKeepsAlone DEF vars, InUse
<1> QED
  BY <1>1, <1>2, <1>3, <1>4, <1>5, <1>6, <1>7, <1>8
     DEF Next, handlePeerDisconnect, handleClientDisconnect

-----------------------------------------------------------------------------
(* Links *)

(* A step in which nothing happens to the ends of l but that they close. *)
Rests(l) ==
  \A e \in {Out(l), In(l)} :
    /\ e \in ever' <=> e \in ever
    /\ \/ sock'[e] = sock[e] /\ toEnd'[e] = toEnd[e]
       \/ sock[e] # "unused" /\ sock'[e] = "closed" /\ toEnd'[e] = <<>>

(* A link that at most breaks keeps its invariant. *)
LEMMA RestKeepsLink ==
  ASSUME TypeOK, NEW l \in Links, LinkInv(l), Rests(l)
  PROVE  LinkInv(l)'
<1>1. SocksInv(l)'
  BY DEF LinkInv, SocksInv, Rests, In, Out
<1>2. PeerLinkInv(l)'
  BY DEF LinkInv, PeerLinkInv, AskInv, AnswerInv, Rests, In, Out, PeerLink
<1>3. ClientLinkInv(l)'
  <2>1. <<>> \in Seq({"malformed"})
    OBVIOUS
  <2> QED
    BY <2>1 DEF LinkInv, ClientLinkInv, Rests, In, Out, PeerLink
<1> QED
  BY <1>1, <1>2, <1>3 DEF LinkInv

(* What handlePeerData can meet on a link between peers, and on one to a port
   for clients. *)
LEMMA WhatPeersAreSent ==
  ASSUME TypeOK, NEW l \in Links, LinkInv(l), PeerLink(l)
  PROVE  /\ toEnd[In(l)] # <<>> => /\ Head(toEnd[In(l)]) = "connect"
                                   /\ Tail(toEnd[In(l)]) = <<>>
                                   /\ toEnd[Out(l)] = <<>>
                                   /\ In(l) \notin ever
         /\ toEnd[Out(l)] # <<>> => /\ Head(toEnd[Out(l)]) = "ok"
                                    /\ Tail(toEnd[Out(l)]) = <<>>
                                    /\ toEnd[In(l)] = <<>>
                                    /\ In(l) \in ever /\ Out(l) \notin ever
         /\ Out(l) \in ever => In(l) \in ever
<1>1. AskInv(l) /\ AnswerInv(l)
  BY DEF LinkInv, PeerLinkInv
<1>2. /\ toEnd[In(l)] # <<>> => toEnd[In(l)] = <<"connect">>
      /\ toEnd[Out(l)] # <<>> => toEnd[Out(l)] = <<"ok">>
  BY <1>1 DEF AskInv, AnswerInv
<1>3. toEnd[In(l)] # <<>> => toEnd[Out(l)] = <<>> /\ In(l) \notin ever
  BY <1>1, <1>2 DEF AskInv
<1>4. toEnd[Out(l)] # <<>> => In(l) \in ever /\ Out(l) \notin ever
  BY <1>1, <1>2 DEF AnswerInv
<1>5. Out(l) \in ever => In(l) \in ever
  BY <1>1 DEF AnswerInv
<1>6. Head(<<"connect">>) = "connect" /\ Tail(<<"connect">>) = <<>>
      /\ Head(<<"ok">>) = "ok" /\ Tail(<<"ok">>) = <<>>
  OBVIOUS
<1> QED
  BY <1>2, <1>3, <1>4, <1>5, <1>6

(* A port for clients answers nothing but that the data are malformed. *)
LEMMA WhatClientPortsSend ==
  ASSUME TypeOK, NEW l \in Links, LinkInv(l), ~PeerLink(l), toEnd[Out(l)] # <<>>
  PROVE  /\ Head(toEnd[Out(l)]) = "malformed"
         /\ Tail(toEnd[Out(l)]) \in Seq({"malformed"})
<1>1. toEnd[Out(l)] \in Seq({"malformed"})
  BY DEF LinkInv, ClientLinkInv
<1> QED
  BY <1>1

(* A link of the one kind takes the chunks of its kind. *)
LEMMA TakingKeepsLink ==
  ASSUME TypeOK, NEW l \in Links, LinkInv(l), NEW e \in {Out(l), In(l)},
         handlePeerData(e)
  PROVE  LinkInv(l)'
<1>0. /\ e \in Ends /\ toEnd[e] # <<>> /\ sock[e] = "open" /\ e[1] = l
      /\ <<>> \in Seq(Chunks) /\ <<"ok">> \in Seq(Chunks) /\ <<"error">> \in Seq(Chunks)
  BY EndsOfLinks DEF handlePeerData, Chunks
<1>1. sock[In(l)] # "unused" /\ sock[Out(l)] \notin {"unused", "connecting"}
  BY <1>0, EndsOfLinks DEF LinkInv, SocksInv, TypeOK
<1>2. /\ sock'[In(l)] # "unused" /\ sock'[Out(l)] \notin {"unused", "connecting"}
  BY <1>0, <1>1, EndsOfLinks
     DEF handlePeerData, FromPeer, Confirmed, Accepted, Rejected, TypeOK
<1>3. SocksInv(l)'
  BY <1>2 DEF SocksInv, In, Out
<1>4. CASE PeerLink(l) /\ e = In(l)
  <2>1. ~Confirmed(e, Head(toEnd[e])) /\ ~Rejected(e, Head(toEnd[e]))
    BY <1>4, WhatPeersAreSent, EndsOfLinks, <1>0 DEF Confirmed, Rejected
  <2>2. CASE FromPeer(e, Head(toEnd[e]))
    <3>1. toEnd'[In(l)] = <<>> /\ toEnd'[Out(l)] = <<>> /\ ever' = ever
      <4>1. TakeAndWrite(e, <<>>) /\ ever' = ever
        BY <2>2 DEF FromPeer
      <4>2. toEnd'[e] = Tail(toEnd[e])
        BY <1>0, <4>1, QueuesAfter
      <4>3. toEnd'[Other(e)] = toEnd[Other(e)] \o <<>> \/ toEnd'[Other(e)] = toEnd[Other(e)]
        BY <1>0, <4>1, QueuesAfter
      <4>4. toEnd[Out(l)] = <<>> /\ Tail(toEnd[In(l)]) = <<>>
        BY <1>0, <1>4, WhatPeersAreSent
      <4> QED
        BY <1>4, <4>1, <4>2, <4>3, <4>4, EndsOfLinks
    <3> QED
      BY <1>3, <1>4, <3>1
         DEF LinkInv, PeerLinkInv, ClientLinkInv, AskInv, AnswerInv, In, Out, PeerLink
  <2>3. CASE Accepted(e, Head(toEnd[e]))
    <3>1. toEnd'[In(l)] = <<>> /\ toEnd'[Out(l)] \in {<<>>, <<"ok">>}
      <4>1. TakeAndWrite(e, <<"ok">>)
        BY <2>3 DEF Accepted
      <4>2. toEnd'[e] = Tail(toEnd[e])
        BY <1>0, <4>1, QueuesAfter
      <4>3. toEnd'[Other(e)] = toEnd[Other(e)] \o <<"ok">> \/ toEnd'[Other(e)] = toEnd[Other(e)]
        BY <1>0, <4>1, QueuesAfter
      <4>4. toEnd[Out(l)] = <<>> /\ Tail(toEnd[In(l)]) = <<>>
        BY <1>0, <1>4, WhatPeersAreSent
      <4> QED
        BY <1>4, <4>2, <4>3, <4>4, EndsOfLinks
    <3>2. In(l) \in ever' /\ Out(l) \notin ever
      BY <1>0, <1>4, <2>3, WhatPeersAreSent DEF Accepted
    <3> QED
      BY <1>3, <1>4, <2>3, <3>1, <3>2
         DEF Accepted, LinkInv, PeerLinkInv, ClientLinkInv, AskInv, AnswerInv, In, Out, PeerLink
  <2> QED
    BY <2>1, <2>2, <2>3 DEF handlePeerData
<1>5. CASE PeerLink(l) /\ e = Out(l)
  <2>1. ~Accepted(e, Head(toEnd[e])) /\ ~Rejected(e, Head(toEnd[e]))
    BY <1>5, WhatPeersAreSent, EndsOfLinks, <1>0 DEF Accepted, Rejected
  <2>2. TakeAndWrite(e, <<>>)
    BY <2>1, <1>0 DEF handlePeerData, FromPeer, Confirmed
  <2>3. toEnd'[In(l)] = <<>> /\ toEnd'[Out(l)] = <<>>
    <3>1. toEnd'[e] = Tail(toEnd[e])
      BY <1>0, <2>2, QueuesAfter
    <3>2. toEnd'[Other(e)] = toEnd[Other(e)] \o <<>> \/ toEnd'[Other(e)] = toEnd[Other(e)]
      BY <1>0, <2>2, QueuesAfter
    <3>3. toEnd[In(l)] = <<>> /\ Tail(toEnd[Out(l)]) = <<>>
      BY <1>0, <1>5, WhatPeersAreSent
    <3> QED
      BY <1>5, <3>1, <3>2, <3>3, EndsOfLinks
  <2>4. In(l) \in ever'
    BY <1>0, <1>5, <2>1, WhatPeersAreSent DEF handlePeerData, FromPeer, Confirmed
  <2> QED
    BY <1>3, <1>5, <2>3, <2>4
       DEF LinkInv, PeerLinkInv, ClientLinkInv, AskInv, AnswerInv, In, Out, PeerLink
<1>6. CASE ~PeerLink(l) /\ e = Out(l)
  <2>1. Head(toEnd[e]) = "malformed" /\ Tail(toEnd[e]) \in Seq({"malformed"})
    BY <1>0, <1>6, WhatClientPortsSend
  <2>2. TakeAndWrite(e, <<>>) \/ TakeAndWrite(e, <<"error">>)
    BY <1>0, <2>1 DEF handlePeerData, FromPeer, Confirmed, Accepted, Rejected
  <2>3. toEnd'[e] = Tail(toEnd[e])
    BY <1>0, <2>2, QueuesAfter
  <2> QED
    BY <1>3, <1>6, <2>1, <2>3 DEF LinkInv, PeerLinkInv, ClientLinkInv, In, Out, PeerLink
<1>7. CASE ~PeerLink(l) /\ e = In(l)
  BY <1>7, EndsOfLinks DEF handlePeerData
<1> QED
  BY <1>4, <1>5, <1>6, <1>7

(* Any other end is at rest while e takes a chunk. *)
LEMMA TakingElsewhereRests ==
  ASSUME TypeOK, NEW l \in Links, NEW e \in Ends, e[1] # l,
         handlePeerData(e) \/ Malformed(e)
  PROVE  Rests(l)
<1>1. /\ toEnd[e] # <<>> /\ <<>> \in Seq(Chunks) /\ <<"ok">> \in Seq(Chunks)
      /\ <<"error">> \in Seq(Chunks) /\ <<"malformed">> \in Seq(Chunks)
  BY DEF handlePeerData, Malformed, Chunks
<1>2. \A f \in {Out(l), In(l)} : f \in Ends /\ f \notin {e, Other(e)}
  BY EndsOfLinks, EndIsOutOrIn
<1>3. \E ds \in Seq(Chunks) : TakeAndWrite(e, ds)
  BY <1>1 DEF handlePeerData, Malformed, FromPeer, Confirmed, Accepted, Rejected
<1>4. \A f \in {Out(l), In(l)} : toEnd'[f] = toEnd[f]
  BY <1>1, <1>2, <1>3, QueuesAfter
<1>5. \A f \in {Out(l), In(l)} : sock'[f] = sock[f] /\ (f \in ever' <=> f \in ever)
  BY <1>2 DEF handlePeerData, Malformed, FromPeer, Confirmed, Accepted, Rejected, TypeOK
<1> QED
  BY <1>4, <1>5 DEF Rests

(* The parts of a link stay in step: every action. *)
LEMMA LinkStep ==
  ASSUME TypeOK, [Next]_vars, NEW l \in Links, LinkInv(l)
  PROVE  LinkInv(l)'
<1>0. Out(l) \in Ends /\ In(l) \in Ends /\ Out(l) # In(l)
  BY EndsOfLinks
<1>1. ASSUME NEW k \in Links, addPeer(k) PROVE LinkInv(l)'
  <2>1. CASE k = l
    <3>1. sock[In(l)] = "unused"
      BY <1>1, <2>1 DEF addPeer, LinkInv, SocksInv
    <3>2. sock'[In(l)] = "unused"
      BY <1>0, <1>1, <2>1, <3>1 DEF addPeer, TypeOK
    <3>3. toEnd' = toEnd /\ ever' = ever
      BY <1>1 DEF addPeer
    <3> QED
      BY <3>1, <3>2, <3>3
         DEF LinkInv, SocksInv, PeerLinkInv, ClientLinkInv, AskInv, AnswerInv, In, Out, PeerLink
  <2>2. CASE k # l
    <3>1. Out(l) # Out(k) /\ In(l) # Out(k)
      BY <2>2, EndsOfLinks
    <3> QED
      BY <1>0, <1>1, <3>1, RestKeepsLink DEF addPeer, TypeOK, Rests
  <2> QED
    BY <2>1, <2>2
<1>2. ASSUME NEW k \in Links, onPeerConnected(k) PROVE LinkInv(l)'
  <2>1. CASE k = l
    <3>1. /\ toEnd[In(l)] = <<>> /\ toEnd[Out(l)] = <<>>
          /\ In(l) \notin ever /\ Out(l) \notin ever
      BY <1>2, <2>1 DEF onPeerConnected, LinkInv, SocksInv
    <3>2. sock'[In(l)] = "open" /\ sock'[Out(l)] = "open"
      BY <1>0, <1>2, <2>1 DEF onPeerConnected, TypeOK
    <3>3. toEnd'[In(l)] = <<"connect">> /\ toEnd'[Out(l)] = <<>> /\ ever' = ever
      BY <1>0, <1>2, <2>1, <3>1 DEF onPeerConnected, TypeOK
    <3>4. <<>> \in Seq({"malformed"})
      OBVIOUS
    <3> QED
      BY <3>1, <3>2, <3>3, <3>4
         DEF LinkInv, SocksInv, PeerLinkInv, ClientLinkInv, AskInv, AnswerInv, In, Out, PeerLink
  <2>2. CASE k # l
    <3>1. {Out(l), In(l)} \cap {Out(k), In(k)} = {}
      BY <2>2, EndsOfLinks
    <3> QED
      BY <1>0, <1>2, <3>1, RestKeepsLink DEF onPeerConnected, TypeOK, Rests
  <2> QED
    BY <2>1, <2>2
<1>3. ASSUME NEW e \in Ends, handlePeerData(e) PROVE LinkInv(l)'
  <2>1. CASE e[1] = l
    <3>1. e \in {Out(l), In(l)}
      BY <2>1, EndIsOutOrIn
    <3> QED
      BY <1>3, <3>1, TakingKeepsLink
  <2>2. CASE e[1] # l
    BY <1>3, <2>2, TakingElsewhereRests, RestKeepsLink
  <2> QED
    BY <2>1, <2>2
<1>4. ASSUME NEW e \in Ends, Malformed(e) PROVE LinkInv(l)'
  <2>1. CASE e[1] = l
    <3>1. e = In(l) /\ ~PeerLink(l) /\ Other(e) = Out(l)
      BY <1>4, <2>1, EndIsOutOrIn, EndsOfLinks DEF Malformed
    <3>2. <<"malformed">> \in Seq(Chunks)
      BY DEF Chunks
    <3>3. toEnd'[Out(l)] \in {toEnd[Out(l)], toEnd[Out(l)] \o <<"malformed">>}
      BY <1>4, <3>1, <3>2, QueuesAfter DEF Malformed
    <3>4. toEnd[Out(l)] \in Seq({"malformed"})
      BY <3>1 DEF LinkInv, ClientLinkInv
    <3>5. toEnd[Out(l)] \o <<"malformed">> \in Seq({"malformed"})
      BY <3>4
    <3>6. ClientLinkInv(l)'
      BY <3>3, <3>4, <3>5 DEF ClientLinkInv, Out
    <3>7. sock' = sock /\ sock[In(l)] = "open"
      BY <1>4, <3>1 DEF Malformed
    <3>8. SocksInv(l)'
      BY <3>7 DEF SocksInv, LinkInv, In, Out
    <3> QED
      BY <3>1, <3>6, <3>8 DEF LinkInv, PeerLinkInv, PeerLink
  <2>2. CASE e[1] # l
    BY <1>4, <2>2, TakingElsewhereRests, RestKeepsLink
  <2> QED
    BY <2>1, <2>2
<1>5. ASSUME NEW e \in Ends, Close(e) PROVE LinkInv(l)'
  <2>1. Rests(l)
    BY <1>0, <1>5 DEF Close, TypeOK, Rests
  <2> QED
    BY <2>1, RestKeepsLink
<1>6. ASSUME NEW s \in Servers, Dies(s) PROVE LinkInv(l)'
  <2>1. ASSUME NEW f \in {Out(l), In(l)}
        PROVE  \/ sock'[f] = sock[f] /\ toEnd'[f] = toEnd[f]
               \/ sock[f] # "unused" /\ sock'[f] = "closed" /\ toEnd'[f] = <<>>
    <3>1. f \in Ends
      BY <1>0
    <3>2. /\ sock'[f] = IF Server(f) = s /\ sock[f] # "unused"
                        THEN "closed" ELSE sock[f]
          /\ toEnd'[f] = IF Server(f) = s THEN <<>> ELSE toEnd[f]
      BY <1>6, <3>1 DEF Dies
    <3>3. sock[f] = "unused" => toEnd[f] = <<>>
      <4>1. sock[Out(l)] = "unused" => sock[In(l)] = "unused"
        BY DEF LinkInv, SocksInv
      <4> QED
        BY <4>1 DEF LinkInv, SocksInv
    <3> QED
      BY <3>2, <3>3
  <2>2. Rests(l)
    BY <1>6, <2>1 DEF Rests, Dies
  <2> QED
    BY <2>2, RestKeepsLink
<1>7. ASSUME NEW s \in Servers, Restarts(s) PROVE LinkInv(l)'
  BY <1>7, RestKeepsLink DEF Restarts, Rests
<1>8. CASE UNCHANGED vars
  BY <1>8, RestKeepsLink DEF vars, Rests
<1> QED
  BY <1>1, <1>2, <1>3, <1>4, <1>5, <1>6, <1>7, <1>8
     DEF Next, handlePeerDisconnect, handleClientDisconnect

-----------------------------------------------------------------------------
(* Phases *)

(* A link that is open after a step was open before, or was made by it. *)
LEMMA PhaseKept ==
  ASSUME NEW l \in Links, PhaseInv(l),
         BothOpen(l)' => BothOpen(l), OwnNames(l)' => OwnNames(l),
         PeerLink(l) /\ OwnNames(l) /\ BothOpen(l) /\ BothOpen(l)' =>
           /\ toEnd'[In(l)] = toEnd[In(l)] /\ toEnd'[Out(l)] = toEnd[Out(l)]
           /\ Listed(In(l)) => Listed(In(l))'
           /\ Listed(Out(l)) => Listed(Out(l))'
  PROVE  PhaseInv(l)'
BY DEF PhaseInv, Phase, PeerLink, In, Out

(* The lists are not touched. *)
LEMMA SameListsSameListed ==
  ASSUME UNCHANGED peer_list, NEW e \in Ends
  PROVE  Listed(e)' <=> Listed(e)
BY DEF Listed, Entry, IsPeerEnd, Server, remoteAddr

(* The handshake takes its course: what an end of l does with its chunk. *)
LEMMA TakingKeepsPhase ==
  ASSUME TypeOK, EntryInv, AloneInv, NEW l \in Links, LinkInv(l), PhaseInv(l),
         NEW e \in {Out(l), In(l)}, handlePeerData(e)
  PROVE  PhaseInv(l)'
<1>1. SUFFICES ASSUME PeerLink(l), OwnNames(l)', BothOpen(l)'
               PROVE  Phase(l)'
  BY DEF PhaseInv, PeerLink
<1>0. /\ e \in Ends /\ toEnd[e] # <<>> /\ sock[e] = "open" /\ IsPeerEnd(e)
      /\ <<>> \in Seq(Chunks) /\ <<"ok">> \in Seq(Chunks) /\ <<"error">> \in Seq(Chunks)
      /\ Out(l) \in Ends /\ In(l) \in Ends /\ Out(l) # In(l)
  BY EndsOfLinks DEF handlePeerData, Chunks
<1>2. OwnNames(l) /\ BothOpen(l)
  <2>1. crowded' = crowded
    BY DEF handlePeerData, FromPeer, Confirmed, Accepted, Rejected
  <2>2. \A f \in Ends : sock'[f] = "open" => sock[f] = "open"
    BY <1>0 DEF handlePeerData, FromPeer, Confirmed, Accepted, Rejected, TypeOK
  <2> QED
    BY <1>0, <1>1, <2>1, <2>2 DEF OwnNames, BothOpen, In, Out
<1>3. Phase(l)
  BY <1>1, <1>2 DEF PhaseInv
<1>4. CASE e = In(l)
  <2>1. /\ Head(toEnd[e]) = "connect" /\ Tail(toEnd[e]) = <<>>
        /\ toEnd[Out(l)] = <<>> /\ In(l) \notin ever
    BY <1>0, <1>1, <1>4, WhatPeersAreSent
  <2>2. ~Listed(In(l))
    BY <1>0, <2>1, ListedIsOpen
  <2>3. Entry(e) = NoEnd
    <3>1. SUFFICES ASSUME Entry(e) # NoEnd PROVE FALSE
      OBVIOUS
    <3>2. Server(e) \in Servers /\ remoteAddr(e) \in Names
      BY <1>0, NamesAreNames
    <3>3. PICK x \in Ends : x = Entry(e)
      BY <3>1, <3>2 DEF TypeOK, Entry
    <3>4. Server(x) = Server(e) /\ remoteAddr(x) = remoteAddr(e) /\ IsPeerEnd(x)
          /\ sock[x] = "open"
      BY <3>1, <3>2, <3>3 DEF EntryInv, EntriesAreLive, Entry
    <3>5. x # e
      BY <1>0, <1>4, <2>2, <3>3 DEF Listed
    <3>6. x \in CrowdOf(e)
      BY <3>4, <3>5 DEF CrowdOf, InUse, SameName
    <3>7. CrowdOf(e) = {}
      BY <1>0, <1>2, <1>4 DEF AloneInv, OwnNames, InUse
    <3> QED
      BY <3>6, <3>7
  <2>4. Accepted(e, Head(toEnd[e]))
    BY <1>0, <1>4, <2>1, <2>3, EndsOfLinks
       DEF handlePeerData, FromPeer, Confirmed, Rejected
  <2>5. toEnd'[Out(l)] = <<"ok">>
    <3>1. Other(e) = Out(l) /\ sock[Out(l)] = "open"
      BY <1>2, <1>4, EndsOfLinks DEF BothOpen
    <3>2. toEnd'[Out(l)] = toEnd[Out(l)] \o <<"ok">>
      BY <1>0, <2>4, <3>1, QueuesAfter DEF Accepted
    <3> QED
      BY <2>1, <3>2
  <2>6. Listed(In(l))'
    BY <1>0, <1>4, <2>4, ListedAfterEntering DEF Accepted
  <2> QED
    BY <2>5, <2>6 DEF Phase, In, Out
<1>5. CASE e = Out(l)
  <2>1. /\ Head(toEnd[e]) = "ok" /\ toEnd[In(l)] = <<>> /\ Out(l) \notin ever
    BY <1>0, <1>1, <1>5, WhatPeersAreSent
  <2>2. Listed(In(l)) /\ ~Listed(Out(l))
    BY <1>0, <1>3, <2>1, ListedIsOpen DEF Phase
  <2>3. Entry(e) = NoEnd
    <3>1. SUFFICES ASSUME Entry(e) # NoEnd PROVE FALSE
      OBVIOUS
    <3>2. Server(e) \in Servers /\ remoteAddr(e) \in Names
      BY <1>0, NamesAreNames
    <3>3. PICK x \in Ends : x = Entry(e)
      BY <3>1, <3>2 DEF TypeOK, Entry
    <3>4. Server(x) = Server(e) /\ remoteAddr(x) = remoteAddr(e) /\ IsPeerEnd(x)
          /\ sock[x] = "open"
      BY <3>1, <3>2, <3>3 DEF EntryInv, EntriesAreLive, Entry
    <3>5. x # e
      BY <1>0, <1>5, <2>2, <3>3 DEF Listed
    <3>6. x \in CrowdOf(e)
      BY <3>4, <3>5 DEF CrowdOf, InUse, SameName
    <3>7. CrowdOf(e) = {}
      BY <1>0, <1>2, <1>5 DEF AloneInv, OwnNames, InUse
    <3> QED
      BY <3>6, <3>7
  <2>4. Confirmed(e, Head(toEnd[e]))
    BY <1>0, <1>5, <2>1, <2>3, EndsOfLinks
       DEF handlePeerData, FromPeer, Accepted, Rejected
  <2>5. Listed(Out(l))' /\ Listed(In(l))'
    BY <1>0, <1>5, <2>2, <2>4, ListedAfterEntering DEF Confirmed
  <2> QED
    BY <2>5 DEF Phase, In, Out
<1> QED
  BY <1>4, <1>5

(* The phases are kept: every action. *)
LEMMA PhaseStep ==
  ASSUME TypeOK, EntryInv, AloneInv, [Next]_vars,
         NEW l \in Links, LinkInv(l), PhaseInv(l)
  PROVE  PhaseInv(l)'
<1>0. /\ Out(l) \in Ends /\ In(l) \in Ends /\ Out(l) # In(l)
      /\ IsPeerEnd(Out(l)) /\ (IsPeerEnd(In(l)) <=> PeerLink(l))
  BY EndsOfLinks
<1>1. ASSUME NEW k \in Links, addPeer(k) PROVE PhaseInv(l)'
  <2>1. \A f \in Ends : sock'[f] = "open" => sock[f] = "open"
    BY <1>1, EndsOfLinks DEF addPeer, TypeOK
  <2>2. UNCHANGED <<toEnd, peer_list>> /\ crowded \subseteq crowded'
    BY <1>1 DEF addPeer, Crowds
  <2>3. (BothOpen(l)' => BothOpen(l)) /\ (OwnNames(l)' => OwnNames(l))
    BY <1>0, <2>1, <2>2 DEF BothOpen, OwnNames, In, Out
  <2> QED
    BY <1>0, <2>2, <2>3, PhaseKept, SameListsSameListed
<1>2. ASSUME NEW k \in Links, onPeerConnected(k) PROVE PhaseInv(l)'
  <2>1. CASE k = l
    <3>1. toEnd[In(l)] = <<>>
      BY <1>2, <2>1 DEF onPeerConnected, LinkInv, SocksInv
    <3>2. toEnd'[In(l)] = <<"connect">>
      BY <1>0, <1>2, <2>1, <3>1 DEF onPeerConnected, TypeOK
    <3> QED
      BY <3>2 DEF PhaseInv, Phase, In, Out
  <2>2. CASE k # l
    <3>1. {Out(l), In(l)} \cap {Out(k), In(k)} = {}
      BY <2>2, EndsOfLinks
    <3>2. /\ sock'[Out(l)] = sock[Out(l)] /\ sock'[In(l)] = sock[In(l)]
          /\ toEnd'[Out(l)] = toEnd[Out(l)] /\ toEnd'[In(l)] = toEnd[In(l)]
      BY <1>0, <1>2, <3>1 DEF onPeerConnected, TypeOK
    <3>3. UNCHANGED peer_list /\ crowded \subseteq crowded'
      BY <1>2 DEF onPeerConnected, Crowds
    <3>4. (BothOpen(l)' => BothOpen(l)) /\ (OwnNames(l)' => OwnNames(l))
      BY <3>2, <3>3 DEF BothOpen, OwnNames, In, Out
    <3> QED
      BY <1>0, <3>2, <3>3, <3>4, PhaseKept, SameListsSameListed
  <2> QED
    BY <2>1, <2>2
<1>3. ASSUME NEW e \in Ends, handlePeerData(e) PROVE PhaseInv(l)'
  <2>1. CASE e[1] = l
    <3>1. e \in {Out(l), In(l)}
      BY <2>1, EndIsOutOrIn
    <3> QED
      BY <1>3, <3>1, TakingKeepsPhase
  <2>2. CASE e[1] # l
    <3>1. Rests(l)
      BY <1>3, <2>2, TakingElsewhereRests
    <3>2. BothOpen(l)' => /\ BothOpen(l)
                          /\ toEnd'[In(l)] = toEnd[In(l)]
                          /\ toEnd'[Out(l)] = toEnd[Out(l)]
      BY <3>1 DEF Rests, BothOpen, In, Out
    <3>3. OwnNames(l)' => OwnNames(l)
      BY <1>3 DEF OwnNames, In, Out, handlePeerData, FromPeer, Confirmed, Accepted, Rejected
    <3>4. \A f \in Ends : Listed(f) => Listed(f)'
      <4>1. CASE FromPeer(e, Head(toEnd[e])) \/ Rejected(e, Head(toEnd[e]))
        BY <4>1, SameListsSameListed DEF FromPeer, Rejected
      <4>2. CASE Confirmed(e, Head(toEnd[e])) \/ Accepted(e, Head(toEnd[e]))
        <5>1. SetEntry(e, e) /\ Entry(e) = NoEnd /\ IsPeerEnd(e)
          BY <1>3, <4>2 DEF Confirmed, Accepted, handlePeerData
        <5> QED
          BY <5>1, ListedAfterEntering
      <4> QED
        BY <1>3, <4>1, <4>2 DEF handlePeerData
    <3> QED
      BY <1>0, <3>2, <3>3, <3>4, PhaseKept
  <2> QED
    BY <2>1, <2>2
<1>4. ASSUME NEW e \in Ends, Malformed(e) PROVE PhaseInv(l)'
  <2>1. CASE e[1] = l
    <3>1. ~PeerLink(l)
      BY <1>4, <2>1, EndIsOutOrIn, EndsOfLinks DEF Malformed
    <3> QED
      BY <3>1 DEF PhaseInv, PeerLink
  <2>2. CASE e[1] # l
    <3>1. Rests(l)
      BY <1>4, <2>2, TakingElsewhereRests
    <3>2. BothOpen(l)' => /\ BothOpen(l)
                          /\ toEnd'[In(l)] = toEnd[In(l)]
                          /\ toEnd'[Out(l)] = toEnd[Out(l)]
      BY <3>1 DEF Rests, BothOpen, In, Out
    <3>3. (OwnNames(l)' => OwnNames(l)) /\ UNCHANGED peer_list
      BY <1>4 DEF OwnNames, In, Out, Malformed
    <3> QED
      BY <1>0, <3>2, <3>3, PhaseKept, SameListsSameListed
  <2> QED
    BY <2>1, <2>2
<1>5. ASSUME NEW e \in Ends, Close(e)
      PROVE  /\ Rests(l) /\ UNCHANGED crowded
             /\ BothOpen(l)' => BothOpen(l)
             /\ OwnNames(l)' => OwnNames(l)
             /\ BothOpen(l)' => /\ toEnd'[In(l)] = toEnd[In(l)]
                                /\ toEnd'[Out(l)] = toEnd[Out(l)]
                                /\ e \notin {Out(l), In(l)}
             /\ InUse(e)
  <2>1. Rests(l) /\ UNCHANGED crowded /\ sock'[e] = "closed" /\ InUse(e)
    BY <1>0, <1>5 DEF Close, TypeOK, Rests, InUse
  <2> QED
    BY <2>1 DEF Rests, BothOpen, OwnNames, In, Out
<1>6. ASSUME NEW e \in Ends, handlePeerDisconnect(e) PROVE PhaseInv(l)'
  <2>1. Close(e) /\ SetEntry(e, NoEnd) /\ IsPeerEnd(e)
    BY <1>6 DEF handlePeerDisconnect
  <2>2. ASSUME PeerLink(l), OwnNames(l), BothOpen(l), BothOpen(l)',
               NEW f \in {Out(l), In(l)}, Listed(f)
        PROVE  Listed(f)'
    <3>1. f \in Ends /\ InUse(f) /\ f \notin crowded /\ IsPeerEnd(f) /\ e # f
      BY <1>0, <1>5, <2>1, <2>2 DEF OwnNames, BothOpen, InUse
    <3>2. e \notin CrowdOf(f)
      BY <3>1 DEF AloneInv
    <3>3. ~SameName(e, f)
      BY <1>5, <2>1, <3>1, <3>2 DEF CrowdOf, SameName
    <3> QED
      BY <2>1, <2>2, <3>1, <3>3, ListedAfterDeleting
  <2> QED
    BY <1>5, <2>1, <2>2, PhaseKept
<1>7. ASSUME NEW e \in Ends, handleClientDisconnect(e) PROVE PhaseInv(l)'
  BY <1>0, <1>5, <1>7, PhaseKept, SameListsSameListed DEF handleClientDisconnect
<1>8. ASSUME NEW s \in Servers, Dies(s) PROVE PhaseInv(l)'
  <2>1. ASSUME NEW f \in {Out(l), In(l)}, sock'[f] = "open"
        PROVE  /\ sock[f] = "open" /\ toEnd'[f] = toEnd[f]
               /\ Listed(f) => Listed(f)'
    <3>1. f \in Ends
      BY <1>0
    <3>2. Server(f) # s /\ sock[f] = "open" /\ toEnd'[f] = toEnd[f]
      BY <1>8, <2>1, <3>1 DEF Dies
    <3>3. Server(f) \in Servers
      BY <3>1, NamesAreNames
    <3>4. peer_list'[Server(f)] = peer_list[Server(f)]
      BY <1>8, <3>2, <3>3 DEF Dies, TypeOK
    <3>5. Listed(f) => Listed(f)'
      BY <3>4 DEF Listed, Entry, IsPeerEnd, Server, remoteAddr
    <3> QED
      BY <3>2, <3>5
  <2>2. BothOpen(l)' => BothOpen(l)
    BY <2>1 DEF BothOpen, In, Out
  <2>3. OwnNames(l)' => OwnNames(l)
    BY <1>8 DEF Dies, OwnNames, In, Out
  <2>4. BothOpen(l)' => /\ toEnd'[In(l)] = toEnd[In(l)]
                        /\ toEnd'[Out(l)] = toEnd[Out(l)]
                        /\ Listed(In(l)) => Listed(In(l))'
                        /\ Listed(Out(l)) => Listed(Out(l))'
    BY <2>1 DEF BothOpen, In, Out
  <2> QED
    BY <2>2, <2>3, <2>4, PhaseKept
<1>9. ASSUME NEW s \in Servers, Restarts(s) PROVE PhaseInv(l)'
  <2>1. (BothOpen(l)' => BothOpen(l)) /\ (OwnNames(l)' => OwnNames(l))
    BY <1>9 DEF Restarts, BothOpen, OwnNames, In, Out
  <2> QED
    BY <1>0, <1>9, <2>1, PhaseKept, SameListsSameListed DEF Restarts
<1>10. CASE UNCHANGED vars
  <2>1. (BothOpen(l)' => BothOpen(l)) /\ (OwnNames(l)' => OwnNames(l))
    BY <1>10 DEF vars, BothOpen, OwnNames, In, Out
  <2> QED
    BY <1>0, <1>10, <2>1, PhaseKept, SameListsSameListed DEF vars
<1> QED
  BY <1>1, <1>2, <1>3, <1>4, <1>6, <1>7, <1>8, <1>9, <1>10 DEF Next

-----------------------------------------------------------------------------
(* The theorems *)

(* The invariant holds of servers that just started. *)
LEMMA InitIInv == ASSUME Init PROVE IInv
<1>0. \A l \in Links : Out(l) \in Ends /\ In(l) \in Ends
  BY EndsOfLinks
<1>1. TypeOK
  BY DEF Init, TypeOK, NoPeers, SockStates
<1>2. EntryInv
  BY DEF Init, EntryInv, EntriesAreLive, NoPeers
<1>3. AloneInv
  BY DEF Init, AloneInv, InUse
<1>4. \A l \in Links : LinkInv(l)
  <2>1. <<>> \in Seq({"malformed"})
    OBVIOUS
  <2> QED
    BY <1>0, <2>1
       DEF Init, LinkInv, SocksInv, PeerLinkInv, ClientLinkInv, AskInv, AnswerInv
<1>5. \A l \in Links : PhaseInv(l)
  BY <1>0 DEF Init, PhaseInv, BothOpen
<1> QED
  BY <1>1, <1>2, <1>3, <1>4, <1>5 DEF IInv

(* ... and every step keeps it. *)
LEMMA NextIInv == ASSUME IInv, [Next]_vars PROVE IInv'
<1>1. TypeOK' /\ EntryInv' /\ AloneInv'
  BY TypeStep, EntryStep, AloneStep DEF IInv
<1>2. \A l \in Links : LinkInv(l)' /\ PhaseInv(l)'
  BY LinkStep, PhaseStep DEF IInv
<1> QED
  BY <1>1, <1>2 DEF IInv

(* The inductive invariant holds in every reachable state. *)
LEMMA AlwaysIInv == Spec => []IInv
BY InitIInv, NextIInv, PTL DEF Spec

(* The variables of PeerMesh keep their types. *)
THEOREM MeshTypeCorrect == Spec => []TypeOK
<1>1. IInv => TypeOK
  BY DEF IInv
<1> QED
  BY <1>1, AlwaysIInv, PTL

(* No entry outlives its socket, is of another server or name, or of a port for
   clients, whoever calls whom and whoever dies. *)
THEOREM EntriesCorrect == Spec => []EntriesAreLive
<1>1. IInv => EntriesAreLive
  BY DEF IInv, EntryInv
<1> QED
  BY <1>1, AlwaysIInv, PTL

(* A link whose names are its own is in both lists once it is quiet. *)
THEOREM LinksAgree == Spec => []QuietLinksAgree
<1>1. ASSUME IInv PROVE QuietLinksAgree
  <2>1. SUFFICES ASSUME NEW l \in Links,
                        PeerLink(l), OwnNames(l), BothOpen(l), Quiet(l)
                 PROVE  Listed(Out(l)) /\ Listed(In(l))
    BY DEF QuietLinksAgree
  <2>2. Phase(l)
    BY <1>1, <2>1 DEF IInv, PhaseInv
  <2> QED
    BY <2>1, <2>2 DEF Phase, Quiet
<1> QED
  BY <1>1, AlwaysIInv, PTL

-----------------------------------------------------------------------------
(* Refinement *)

listed == {e \in Ends : Listed(e)}

(* Where nothing is entered, the ends that leave the lists were in them. *)
LEMMA LeavingIsUnlist ==
  ASSUME \A e \in Ends : Listed(e)' => Listed(e), UNCHANGED ever
  PROVE  Handshake!Next
<1>1. listed' \subseteq listed
  BY DEF listed, Ends
<1>2. listed \ listed' \in SUBSET listed /\ listed' = listed \ (listed \ listed')
  BY <1>1
<1>3. Handshake!Unlist(listed \ listed')
  BY <1>2 DEF Handshake!Unlist, listed
<1> QED
  BY <1>2, <1>3 DEF Handshake!Next, listed

(* What is entered was never entered before, at the caller only after it was at
   the other end. *)
LEMMA EnteringIsList ==
  ASSUME TypeOK, NEW e \in Ends, SetEntry(e, e), Entry(e) = NoEnd, IsPeerEnd(e),
         e \notin ever, e[2] = "out" => In(e[1]) \in ever, ever' = ever \cup {e}
  PROVE  Handshake!Next
<1>1. \A f \in Ends : Listed(f)' <=> (Listed(f) \/ f = e)
  BY ListedAfterEntering
<1>2. listed' = listed \cup {e}
  BY <1>1 DEF listed, Ends
<1>3. Handshake!List(e)
  BY <1>2 DEF Handshake!List, listed, In
<1>4. e \in Handshake!Ends
  BY DEF Handshake!Ends, Ends
<1> QED
  BY <1>3, <1>4 DEF Handshake!Next

(* Every step of the mesh is one of the handshakes, or none. *)
LEMMA HandshakeStep ==
  ASSUME IInv, [Next]_vars
  PROVE  [Handshake!Next]_Handshake!vars
<1>0. TypeOK /\ EntryInv
  BY DEF IInv
<1>1. ASSUME UNCHANGED <<peer_list, ever>> PROVE Handshake!Next
  BY <1>1, SameListsSameListed, LeavingIsUnlist
<1>2. ASSUME NEW e \in Ends, handlePeerData(e) PROVE Handshake!Next
  <2>0. /\ e[1] \in Links /\ LinkInv(e[1]) /\ toEnd[e] # <<>> /\ IsPeerEnd(e)
        /\ e = Out(e[1]) \/ e = In(e[1])
    BY <1>2, EndIsOutOrIn DEF IInv, handlePeerData
  <2>1. CASE FromPeer(e, Head(toEnd[e])) \/ Rejected(e, Head(toEnd[e]))
    BY <1>1, <2>1 DEF FromPeer, Rejected
  <2>2. CASE Confirmed(e, Head(toEnd[e]))
    <3>1. e = Out(e[1]) /\ Head(toEnd[e]) = "ok"
      BY <2>2, EndIsOutOrIn DEF Confirmed
    <3>2. PeerLink(e[1])
      BY <1>0, <2>0, <3>1, WhatClientPortsSend
    <3>3. e \notin ever /\ In(e[1]) \in ever
      BY <1>0, <2>0, <3>1, <3>2, WhatPeersAreSent
    <3> QED
      BY <1>0, <2>0, <2>2, <3>3, EnteringIsList DEF Confirmed
  <2>3. CASE Accepted(e, Head(toEnd[e]))
    <3>1. e = In(e[1]) /\ e[2] = "in"
      BY <2>3, EndIsOutOrIn DEF Accepted
    <3>2. PeerLink(e[1])
      BY <2>0, <3>1, EndsOfLinks
    <3>3. e \notin ever
      BY <1>0, <2>0, <3>1, <3>2, WhatPeersAreSent
    <3> QED
      BY <1>0, <2>0, <2>3, <3>1, <3>3, EnteringIsList DEF Accepted
  <2> QED
    BY <1>2, <2>1, <2>2, <2>3 DEF handlePeerData
<1>3. ASSUME NEW e \in Ends, handlePeerDisconnect(e) PROVE Handshake!Next
  BY <1>0, <1>3, ListedAfterDeleting, LeavingIsUnlist DEF handlePeerDisconnect, Close
<1>4. ASSUME NEW s \in Servers, Dies(s) PROVE Handshake!Next
  <2>1. ASSUME NEW e \in Ends, Listed(e)' PROVE Listed(e)
    <3>1. Server(e) \in Servers /\ remoteAddr(e) \in Names /\ NoEnd # e
      BY NamesAreNames, MeshAssumption
    <3>2. peer_list'[Server(e)][remoteAddr(e)] = e /\ IsPeerEnd(e)
      BY <2>1 DEF Listed, Entry, IsPeerEnd, Server, remoteAddr
    <3>3. peer_list'[Server(e)] = peer_list[Server(e)]
      BY <1>0, <1>4, <3>1, <3>2 DEF Dies, NoPeers, TypeOK
    <3> QED
      BY <3>2, <3>3 DEF Listed, Entry
  <2> QED
    BY <1>4, <2>1, LeavingIsUnlist DEF Dies
<1>5. CASE \/ \E l \in Links : addPeer(l) \/ onPeerConnected(l)
           \/ \E e \in Ends : Malformed(e) \/ handleClientDisconnect(e)
           \/ \E s \in Servers : Restarts(s)
           \/ UNCHANGED vars
  <2>1. UNCHANGED <<peer_list, ever>>
    BY <1>5 DEF addPeer, onPeerConnected, Malformed, handleClientDisconnect, Close,
                Restarts, vars
  <2> QED
    BY <1>1, <2>1
<1> QED
  BY <1>2, <1>3, <1>4, <1>5 DEF Next

(* The mesh implements the handshake: the server that was called lists a link
   first, and nobody lists a link twice. *)
THEOREM ImplementsHandshake == Spec => HandshakeSpec
<1>1. Init => Handshake!Init
  <2>1. ASSUME Init PROVE {e \in Ends : Listed(e)} = {}
    <3>1. ASSUME NEW e \in Ends PROVE ~Listed(e)
      BY <2>1, NamesAreNames, MeshAssumption DEF Init, NoPeers, Listed, Entry
    <3> QED
      BY <3>1
  <2> QED
    BY <2>1 DEF Init, Handshake!Init
<1>2. IInv /\ [Next]_vars => [Handshake!Next]_Handshake!vars
  BY HandshakeStep
<1> QED
  BY <1>1, <1>2, AlwaysIInv, PTL DEF Spec, HandshakeSpec, Handshake!Spec
=============================================================================

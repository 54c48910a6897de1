# Verification of distributed_chat

TLA+ models of the chat server (`packages/server`) and the client library
(`packages/client`), checked with TLC and proved in part with TLAPS.

    tlc -config server_sessions.cfg MCChatServer.tla      # any run of PROJECT.json
    tlapm ChatServerProofs.tla                            # and the other ...Proofs modules

Paths below are relative to `packages/server/src` and `packages/client/src`.

## 1. The system

| part | state | operations | talks to |
|---|---|---|---|
| **BaseServer**, clients' side (`serverUtils.js`) | `client_list` (key → socket), `channel_list` (channel → key → socket), `msg_list` (ids seen), per connection `client.id` and `client.challenge` | `onClientConnected`, `handleClientData` (connect, verify, join, msg), `handleClientDisconnect`, `pushMessage` | client sockets; peers through `pushMessage` |
| **BaseServer**, peers' side | `peer_list` (address → socket) | `addPeer`, `onPeerConnected`, `handlePeerData`, `sendPeers`, `handlePeerDisconnect` | other servers, in a text protocol of its own |
| **FullServer**, console, supervisord | the process, its listening sockets | open, `exit`, restart | starts and ends everything above |
| **Client** (`clients/`, `stages/`, `builder.ts`) | the current builder (stage, remaining stages), `messageQueue`, `sentCount`, `ackedCount`, listener tables | `start`, `enqueueUserDatum`, `triggerQueueProcessing`, the connection listener, the stage listeners | a connection manager; the application through listeners |
| **Connection managers** (`connmans/`) | the socket, `started`, datum listeners | `start`, `sendDatum`, delivery | the server's socket |
| **Keys, encryption** (`keys.ts`, `clientUtils.ts`) | none | sign, shared key, encrypt, decrypt | |
| **Web page** (`packages/web`) | React state | join, send, show | PublicChannelClient |

**How they interact.** A client opens one connection and walks through its
stages: ask for a challenge, sign it, (public clients) join the channel, then
send messages. Each stage writes one command when it starts and turns the next
datum it is given into the next stage, which is started at once. The server
answers every request on the same connection and writes messages to the
connections of others. Both are single-threaded Node programs: handlers run to
their end, and everything difficult lies in the order of handlers.

**What is hard.**

* *Two names for a client.* Requests arrive on a connection, the tables are
  indexed by key, and `client.id` is whatever key the connection last named. A
  user with two connections (two tabs, or a reconnection that overtakes the
  close of the old connection) makes the two disagree, and so does a connection
  that registers two keys.
* *Acknowledgements without a name.* "MESSAGE SENT" names no message. The client
  takes the head off its queue, whichever message the answer was for.
* *Stages restarted by any datum.* What a stage does not expect makes it send its
  command again; in a message stage every datum that is not an acknowledgement
  sends the head of the queue again.
* *Crashes.* All state is in memory. The server ends at `exit`, and also when
  `pushMessage` meets a peer.
* *Peers.* A caller names a peer by the address it called, the called server names
  it by the IP of the call, and `peer_list` has one socket per name: sockets that share
  a name overwrite and delete each other. Nothing is repeated when it is lost.
* *Callbacks.* The application's listeners run between the parsing of a datum and the
  start of the stage it leads to; they may type, add or remove listeners, and throw.

**What makes each part correct.** The server: it holds an entry
for a dead connection in one case only (the connection last spoke for another key),
and a user leaves every channel with their session. The client: it skips no stage and
goes back to none, asks for nothing before it was granted what comes before, and lets no
message overtake another; it may lose one, but only to an acknowledgement
that is one too many. Together: the client's stage and the server's tables agree,
no conforming request is refused, a channel hears each author in order and no more often
than the author wrote, and each accepted message is acknowledged once. Peers: both servers list a link or it ends,
the called one first, and no list holds a dead socket. Listeners: an id finds its
listener and no other, everyone due is told, and the server cannot tell that they
are there.

`PROJECT.json` lists every hazard at its line, with the properties for it.

## 2. The modules

| module | models | extends / instances |
|---|---|---|
| `Wire` | the JSON datums | |
| `SessionDirectory` | what a server promises of users and channels (abstract) | |
| `ChatServer` | one `BaseServer` process | `Wire`; instances `SessionDirectory` as its abstraction |
| `ChatServerProofs` | proofs about it | `ChatServer` |
| `DarkClient` | the client machine, in three kinds | `Wire` |
| `ClientAnyServer` | clients against an arbitrary server | `DarkClient` |
| `AnsweredClient` | the same, with a history of the requests that were granted | `ClientAnyServer` |
| `DarkClientProofs` | proofs about both | `AnsweredClient` |
| `Conversation` | what is promised to those who talk (abstract) | |
| `ChatSystem` | clients + server + WebSockets | instances `ChatServer`, `DarkClient`, and `Conversation` as its abstraction |
| `ChatSystemProofs` | proofs about it: types, tables, phases of a session | `ChatSystem` |
| `ConversationProofs` | order, authors and the refinement of `Conversation` | `ChatSystemProofs` |
| `AcknowledgementProofs` | the sum of the acknowledgements | `ChatSystemProofs` |
| `CopiesProofs` | nobody but its author multiplies a message | `ConversationProofs` |
| `PeerHandshake` | what the ends of a peer link are promised (abstract) | |
| `PeerMesh` | the peer sides of any number of servers | instances `PeerHandshake` as its abstraction |
| `PeerMeshProofs` | proofs about it | `PeerMesh` |
| `ListeningClient` | a client whose application listens in the middle of its handlers | `ClientAnyServer`, which is its abstraction |
| `ListeningClientProofs` | proofs about it | `ListeningClient`, `DarkClientProofs` |
| `MC...` | the instances TLC checks | |

Some modules hold definitions marked "A slip": small deviations from the
definition that follows them (a dropped guard, a missing reset). No
specification uses them. Each is a mutation under which the property it is named
for in `PROJECT.json` must fail.

### Datums (`Wire`)

One record for every type of datum. Keys and channel names are opaque. `msg` is a
number: in a `verify` datum the ordinal of the challenge on its connection, in a
`msg` datum the ordinal of the message among those its author enqueued. A
signature is therefore the challenge it signs: cryptography is perfect, and a
signature over an older challenge of the same connection is not one over the
newer. The fixed strings of the server are kept, because client and tests tell
answers apart by them.

### The server (`ChatServer`)

`client_list` and `channel_list` are functions into connections, with `NoConn` for
an absent entry; an empty channel and an absent one behave alike and are one
state. `msg_list` is counted. `id` and `challenge` are the two fields of the object
that `onClientConnected` makes; `toClient` is what was written to a socket and not
yet read. Each branch of `handleClientData` is an operator with the code's
condition; `handleClientData` itself is the disjunction, guarded by the connection
being open. `pushMessage` is `Recipients` plus the throw: with an empty
`peer_list` the message is delivered and acknowledged, otherwise its local
recipients are written to and the process dies (`Die`). Peers are seen here only
through `peer_list`; the `PeerRegistered` and `handlePeerDisconnect` actions may
happen at any time.

Clients of this module are unconstrained: any connection sends any request in the name
of any key, in any order (`Requests`), including messages without destination,
garbled chunks, and signatures over old challenges; it may register several keys, and
name one that another connection registered. A `join` without a channel name is
not modelled: it joins a channel called "undefined".

`SessionDirectory` says what that leaves of a session. It is established for a user who
has none, is not handed from one connection to another, and ends when a connection
closes that *last spoke* for the user (be it the one that carries it or another) or when
the server ends; a user is in channels only as long as it lasts. That a connection's
other sessions stay behind when it closes is in it, because it is what the close
handler does.

### The client (`DarkClient`)

`stage`, `remaining` and `challengeSig` are the builder; builders are immutable, so
the variables hold the current one. `stageSent` is the `sentCount` of the current
`PublicMessageStage` (its `ackedCount` is never changed, and is 0). `queue` holds
the ordinals of the messages. Each branch of the connection listener together
with the stage's `parseReplyToNextBuilder` and the start of the next stage is one
action: the listener runs to its end. Three histories serve the properties:
`heard` (what a listener would be told), `lastSent`, and in `ClientAnyServer`
`toServer`, from which nothing is removed. Exceptions are caught by the connection
listener; in the model they leave everything unchanged, or, where the builder was
already replaced (the assertion of `register.ts:20`), the new stage without its
command. A challenge with an empty `msg` (`register.ts:59`) is one that leaves everything
unchanged.

### Client against any server (`ClientAnyServer`)

Other servers may be written to this protocol (`README.md:13` of the repository
speaks of mixing kinds), and this server may restart and forget. So the client is
also checked, and proved about, against a server that sends any datum whenever it
likes. Against such a server a client cannot know that what it was granted is so; but it
must have been *told*. `AnsweredClient` adds the history `answered` for that: a request is in
it when the server granted it while it was the last thing the client wrote.

### The system (`ChatSystem`)

`S!` actions of the server and `C!` actions of the clients over a FIFO in each
direction. A client has one connection in its life, because nothing in the library
reconnects. A connection may break at any time (`Breaks`); what is in flight may
then arrive or be lost. The server may crash and restart. The client may receive
before `start()` has continued after its await (`Starts` is an action of its own).

`Conversation` says what all this amounts to for the users: a message that was typed may
be heard, by those its author reaches (the other members of the channel; the partner; a
public client that a private one writes to), any number of times or never, but not behind
a later one of the same author. There is no connection, session, queue or acknowledgement
in it. `typed` is `sentCount`, `heard` is `heard`.

The section "Why it is correct" of the module has the invariants the proofs rest on. They
are definitions of the system's own state, and TLC checks them too.

### Peer links (`PeerMesh`)

A *link* is one TCP connection from a server (`From`) to an address (`To`); its two
*ends* are the sockets of the two servers. `sock` and `toEnd` are the network,
`peer_list[s][name]` is the table of server `s`. `addPeer` and `onPeerConnected` are the
two moments of a connection (the callback of `connect` writes the chunk of the caller),
`handlePeerData` is the disjunction of its branches in the code's order: a name that is
in the list (`FromPeer`), "ok" at the caller (`Confirmed`), "connect" at the called
server (`Accepted`), anything else (`Rejected`: an error and `destroy`). `Malformed` and
`handleClientDisconnect` stand for a port for clients that was called by mistake. A close
event may come at any time, for any reason, at each end by itself; `Dies` and `Restarts`
are those of `ChatServer`.

After the handshake the code sends nothing on a link. `pushMessage` throws before it
writes to a peer (`ChatServer` has that), and `sendPeers` calls `map` on an object: its
promise is rejected before anything is written. Node 11, which `darkchat-server.conf`
names, prints a warning; later versions end the process, which is `Dies`. So `FromPeer`
meets only chunks of handshakes, of which it ignores every one, and peer discovery does
not take place. Addresses are opaque: `localhost` and `127.0.0.1` are one. Two histories
serve the properties: `ever`, the ends that were listed, and `crowded`, the ends that
were in use while another had their name.

### Listeners (`ListeningClient`)

The client `me` of `ClientAnyServer`, with the handler of a datum taken apart: `Receives`
parses and finds the listeners, `Calls` and the four ways to return or throw run
them one by one, and `Advances` replaces the builder and starts its stage. While a
listener runs, the application may type (`TypesMessage`), add and remove: these are the
actions that may also happen between two datums. The two tables are sequences of
functions by stage, with `NoFn` where `null` is left by a removal; an id is a place in each
(from 1, where the code counts from 0). A *ticket* is one call of `addStageListener` or
`addListenerWrapPromise`; several tickets may add the same function. Immutable's `forEach`
stops when a callback returns `false`; these listeners return nothing (`wrappedListener`)
or what the application returns, which is not `false` here.

## 3. The runs

| run | instance | shows |
|---|---|---|
| `server_sessions` | 2 connections, 2 users that each may speak for, 2 channels, 1 peer, 2 challenges each, 1 unread datum each | `SessionInv`, and `DirectorySpec`: every handler, crash and restart is a step of the abstract directory |
| `client_any_server` | a public, a private and a chat client, 3 messages, 6 datums, 11 possible answers | `StagesAdvance`, `AskedInTurn`, `MessagesAdvance`, `LostOnlyInExcess` |
| `system_public` | 2 public clients, 3 messages each | agreement of stage and tables, nothing refused, order, no echo, one acknowledgement per accepted message, `ConversationSpec`, `NothingIsMultiplied`, and that started clients get to chat; also the invariants of the proofs (`SessionPhases`, `NewsComesFirst`, `DeliveryInv`) |
| `system_private` | 2 private clients, one types up to 4 messages, one at a time | each message is sent before it leaves the queue, heard once, and heard in the end |
| `peer_mesh` | 3 servers, one of which calls another twice and is called on its port for clients | `EntriesAreLive`, `QuietLinksAgree`, `HandshakeSpec`, `LinksAreListed` |
| `stage_listeners` | a private client, 2 listeners and a promise, 1 typed message, 5 datums | `IdsStayTrue`, `CalledForItsChange`, `ResolvesOnce`, `EveryoneDueIsCalled`, `HandlesAtOnce` |
| `server_session_lost` | 2 connections of one user | violation, see below |
| `server_peered_delivery` | 1 peer | violation |
| `mesh_shared_host` | 2 servers behind one address call a third | violation |
| `system_pops_unsent` | as `system_private`, 2 messages, not waiting for acknowledgements | violation |
| `system_heard_twice` | the same | violation |
| `system_stuck_queue` | a public typist and a silent listener | violation |

**Bounds.** Every bound is a constant used in a guard. `MaxChallenge = 2` is the least
with which a signature over an old challenge exists. `MaxStored` and `MaxOutbox`
are 1 in `server_sessions`: no guard of the code reads `msg_list` or an outbox, so
that a larger bound repeats the same table transitions; `ChatSystem` has no such
bound. Two connections that may each speak for two users are what the cross-connection
cases need: an entry involves one key, the connection that made it, and the key that a
connection named last; the server compares keys with each other only in looking them up.
Two users in `ChatSystem` cover author and listener in both directions; three
messages give a repeated, an overtaken and an unsent one. Answers to `client_any_server`
are one of each type and text that the server has, messages of the partner, of others and
for others, two challenges and an empty one. `MaxQueue` tells the
disciplines apart: with 1, a user types only after the last message left the
queue; with the number of messages there is no restriction. `FlushLimit` is 1, as in the web page and
the tests; larger limits only delay the first send.
`client_any_server` follows one client at a time (`OneIsActive`), which loses
nothing, because the clients of that module share no variable. In `peer_mesh` the two
calls of one address are the least with which sockets share a name, at both servers at
once; the call of a port for clients is the least with which an error answers an
error; each link is opened once, and the properties speak of one link and of the ends
that share its names. A redial is the second call, made after the first has closed or
before. In `stage_listeners` two listeners of one change and one of another are the
least with which the tables' places differ and a listener can remove its neighbour;
each is added once, before or after the others are removed. A promise that waits for
the same change as a plain listener covers both kinds. Deadlock checking is off where a
model stops with its bounds used up, or a conversation may end; `peer_mesh` never stops,
because servers die and restart.

**Fairness.** `FairSpec` assumes that a socket that can open does, that `start()`
continues after its await, and that both sides handle the datums that have
arrived (`WF` of `Connects`, `Starts`, `ServerReceives`, `ClientReceives`, for each
client). Node's event loop and TCP give no less while a connection is open, and
the properties promise nothing once it is closed. No user has to type, nothing
has to break, and nobody has to restart the server. `FairSpec` of `PeerMesh` assumes
only that a chunk that has arrived is handled (`WF` of `handlePeerData`, for each end):
nobody has to call, to be there for a call, to hang up or to restart, and the
property promises a listed link only while both ends are open.

### Disagreements between the code and its documentation

* **A session ends with somebody else's connection** (`server_session_lost`,
  `serverUtils.js:247`). A second connection of the user has set its `client.id`;
  when it closes, the first is deregistered while open.
* **A peered server dies on its first message** (`server_peered_delivery`,
  `serverUtils.js:131`). `peers.forEach(([peerSock]) => ...)` destructures a socket.
* **The second server behind an address is no peer** (`mesh_shared_host`,
  `serverUtils.js:164`). The comment at line 260 says that the name of an incoming peer is
  updated with its port; `newRemoteAddr` is only logged. The second caller's "connect" is
  read as the datum of a peer that is known: it is neither entered nor answered, the link
  stays open, and the close of either socket deletes the entry of the other.
* **Messages are lost** (`system_pops_unsent`, `client.ts:243`). A message typed while
  the first is unacknowledged makes the client write the head of its queue, the first
  message, a second time. The server acknowledges both copies: the first acknowledgement
  takes the first message off the queue, the second takes the other, which was never
  written. The same comes of any repeated head (a partner's message repeats it too);
  `LostOnlyInExcess` says that it comes of nothing else.
* **Messages are heard twice** (`system_heard_twice`, `privClient.ts:80`). The
  comparison of `sentCount` with `ackedCount` holds nothing back.
* **A public client gets stuck** (`system_stuck_queue`, `pubClient.ts:129`). A
  `PublicMessageStage` never counts an acknowledgement, so that after one message
  it believes it is in the middle of sending until another datum restarts it.

Seen while modelling, in the models, and without a run of their own: a session
outlives its connection when that registers one key and names another, because its close
looks for the last-named one (`serverUtils.js:240`): the first stays registered on a dead
socket, messages to it are written there, and its owner's next "connect" is not answered
(this is the exception that `SessionInv` makes); a message
with no destination is refused *and* accepted (no return after
`serverUtils.js:223`); `connect` and `verify` of a key that is registered through another
connection, dead or alive, match no branch (`serverUtils.js:193`), so that the second
client waits for ever in its first stage (`Ignored`);
a listener that an earlier listener of the same datum removed is still called (`Calls`),
a function added for two changes is called for every change from the one's old stage to
the other's new one (`CalledForItsChange` asks for functions added once), and the web
page's `openListener` (`App.tsx:71`) waits for a change from `signChallenge` to
`publicMessage`, which no public client makes: it joins in between; `msg_list` is never emptied although `README.md:17` says that
nothing is kept; `ChatClient` has too few stages to register (`register.ts:20`).

## 4. The proofs

The eight proof modules are checked for every value of the constants (any sets of
keys, channels, connections, peers, clients, servers, addresses, links and listeners)
under the assumptions `WireAssumption`, `ServerAssumption`, `ClientAssumption`,
`AnswersAssumption`, `SystemAssumption`, `MeshAssumption` and `ListenerAssumption`, which only give the
constants their types (and say that `addListenerWrapPromise` makes a function of its own).
The bounds appear in guards alone (`MaxMessages` also as the range of the message in
`NothingIsMultiplied`); the proofs never use them.

**Server** (`ChatServerProofs`).

* `TypeCorrect`: `Spec => []TypeOK`.
* `SessionsCorrect`: `Spec => []SessionInv`. The point of the invariant is that a
  close handler deletes by key what a connection recorded by socket, and that the key is
  the one named last. So a connection may carry an entry of a key when it is open, whatever
  key it named last, and when it is closed only if that key was another (`MayCarry`): a
  close deletes every entry of the key it looks for, in `client_list` and in all channels,
  which is why what is left of the connection is under other keys. For channels this
  needs that a member is registered (`MembersAreCarried`), because the close handler looks
  at the channels only when the key is. `SessionsAreCarried`, `MembersAreCarried` and
  `DeadServerIsEmpty` are inductive together. The exception for dead connections is
  real (section 3): the first key of a connection that names another stays behind.
* `ImplementsDirectory`: `Spec => DirectorySpec`. `session` is `client_list`,
  `members[ch]` the keys that have an entry, `open` the open connections and `speaks` is
  `client.id`. Registration is `Establish`, joining `Enter`, any other request `SaysMore`
  (it names a key), or a stutter if it does not parse; the close of a connection is
  `Closes`, the end of the process `Forget`, everything else a stutter.

**Client** (`DarkClientProofs`), for clients of every kind against any server.

* `StepShape` is the lemma the others rest on: in every step one client writes
  nothing or one datum that fits its *new* stage and queue, its stage does not go
  back, and its queue is kept, extended or popped.
* `ClientTypeCorrect`, and `StagesTakeTurns`: by `StagesInv`, everything written so
  far ranks at most as high as the current stage's request, the request before that one
  was written, and the stages that remain before registration are those of the
  constructor. A client that waits wrote its stage's request last (`Awaits`), which is what
  the next stage's request then follows.
* `NothingIsAskedTooSoon`: a client changes its stage only upon the answer to the stage's
  request (`ChangesOnAnswer`), which is the last thing it wrote; so the request is in
  `answered` when the next one is written (`AnsweredInv`).
* `NothingIsLostUnlessInExcess` and `MessagesAreNotOvertaken`: by `MessagesInv`, the queue is
  the interval that ends in `sentCount`, at most `ackedCount` messages are gone
  from it, and nothing beyond its head was ever written. If the head that an
  acknowledgement takes off was not written, what was written are messages gone before
  it, so that there are fewer of them than acknowledgements (`ExcessStep`). Nothing bounds
  the loss itself: the server acknowledges every copy (`system_pops_unsent`).

**Peers** (`PeerMeshProofs`), from the invariant `IInv`.

* `EntriesCorrect`: an entry is deleted by *name*, so that the point is the converse: the
  socket that is entered under a name has that name, and its own close, which is the
  only way it stops being open, deletes what is entered there (`EntryInv`).
* `LinksAgree`: silence alone says nothing of what was said before. `PhaseInv` follows the
  handshake of a link with names of its own through its phases: "connect" is on its way
  and nobody lists it; "ok" is on its way and the called server does; both do and nothing
  is on its way. `AloneInv` is why other links do not disturb it: an end
  that was never crowded is the only one in use under its name. `LinkInv` bounds what may be on
  its way at all, so that an error never reaches a link in one of those phases.
* `ImplementsHandshake`: the entry of the called server is `List` of the one end, that of
  the caller `List` of the other, an overwritten or deleted entry `Unlist`, the end of a
  process an `Unlist` of all of its ends. Nobody lists an end twice, because what would
  make it so (a second "connect" or "ok" on one connection) is never on its way.

**Listeners** (`ListeningClientProofs`), from the invariant `LInv`.

* `IdsCorrect`: the tables only grow or have a place set to `NoFn`, and no two tickets of
  a stage have one place (`PreEntries`, `PostEntries`).
* `CallsAreForTheirChange`, `PromisesResolveOnce`, `NobodyIsLeftOut`: whatever is running or
  still to be called is in the old stage's table and in the new one's, by different
  tickets perhaps (`CallsInv`); a promised function has one place and so one call
  (`PromisesInv`).
* `ImplementsClient`: `ListenSpec => Spec` of `ClientAnyServer`, with the same variables.
  `Advances` is `ServerSends` of the datum that was received: the builder is still what that
  datum makes of the *current* stage (`BuilderInv`), because nothing but `Advances`
  changes the stage, and what a listener types is `UserTypes` before it. All else is a
  stutter. `ListenersChangeNothing` draws the conclusion: the theorems about clients
  hold with listeners.

**The system** (`ChatSystemProofs`, `ConversationProofs`, `AcknowledgementProofs`,
`CopiesProofs`), for any clients of any kinds, with connections that break and a server
that crashes and restarts at any moment.

* `SystemTypeCorrect`: `Spec => [](TypeOK /\ ClientsInv)`. What a client has written is in
  its own name, to its own channel or partner, and its stage is one its constructor
  listed.
* `SessionsFollowPhases`, `StagesMatchSessions`, `NobodyIsRefused`: neither the agreement of stage and tables nor
  the absence of errors says anything of what is on its way, so that neither is inductive.
  `SessionPhases` is: before its registration a client and the server take turns (`Idle`,
  `Asks`, `IsAsked`, `Signs`), so that the challenge that is signed is the one the server
  remembers; the registration is a phase of its own (`IsRegistered`: the server has
  the client in its table, the client does not know yet, and messages may already follow
  the news); after it requests and answers cross (`Chats`), and each request is one that
  a registered client, or a member, may make. `TablesInv` says that a table's
  entry is a live connection's own, so that a connection that closes or a client that
  registers does not disturb the phase of another.
* `NewsIsReadFirst`, `NewsBeforeMessages`: `NewsComesFirst` adds that the reply to a join is read before any
  message, which must also hold of what is left in the socket when the connection has
  closed and the tables say nothing any more.
* `DeliveryInvariant`, `HeardInTypingOrder`, `NobodyHearsThemselves`,
  `ImplementsConversation`: by `QueueInv` the
  queue is the last messages typed, so that nothing beyond its head was ever written
  (`WasFirst`). `DeliveryInv` orders all there is of one author's messages for one hearer:
  what was heard comes before what is in the hearer's socket, and that before what is in
  the author's (with repetitions, because the head is sent again), and both sockets are in
  order by themselves. A step moves one message along this line, or writes the head of
  the queue at its end (`MovesStep`, `QueuesStep`). Each step is then `Type`, `Hear` or a
  stutter of `Conversation` (`HeardStep`).
* `MessagesAreAcknowledged`: the number of accepted messages is a sum over the clients of
  what each counted and what is on its way to it. A sum needs induction over the
  set of clients, which is out of the prover's reach; so `AllAcks` is the *set* of the
  acknowledgements, as pairs of a client and an ordinal, and an acknowledgement more is
  one pair more (`SumGrows`). `AcksInv` adds that the set is finite, and that a
  connection that has not opened has none, which is why it contributes nothing.
* `OnlyAuthorsRepeat`: a message may be heard twice (`system_heard_twice`), and it is its
  author's client that repeats it. `Copies` counts the occurrences of a message in the
  author's socket, in a hearer's socket and in what the hearer heard; no step adds to that
  sum but a write of the author, which adds one (`CopiesStep`). The server moves one
  copy from the one socket to the other (`ServePasses`: it is its author's, by `OwnKeys`, and
  goes to each recipient once), a hearer one from its socket to its listeners
  (`TalkHears`), and a loss takes some away.

Three hypotheses about the clients appear, each where the theorem is false without it:

* `OwnKeys`: every client has a key of its own. A second client with the same key takes
  over the session or loses it (`server_session_lost`). `SystemTypeCorrect` and
  `MessagesAreAcknowledged` do not need it.
* `NoStrays` (`NewsBeforeMessages` only): no private client writes to a public one. The
  server sends a direct message to whoever has the key, also in the middle of a join,
  where `JoinChannelStage` drops it and joins again.
* `NobodyHearsThemselves` supposes that no private client was made with its own key for
  its partner's: the server would send its messages back, and they decrypt.

The clients of the tests and of the web page satisfy them, as do the instances of the
runs.

**Only model-checked:** the liveness properties (`StartedClientsGetToChat`,
`TypedMessagesAreHeard`, `LinksAreListed`), which are outside the prover's reach;
`AcknowledgedWasSent` and `HeardOnce`, which hold of the users of `system_private`, who wait
for each acknowledgement and whose partner is silent, so that no head is ever repeated, and
which fail without that (`system_pops_unsent`, `system_heard_twice`; nothing in the
code enforces it); and every violation.

## 5. Not modelled

* Messages that cross two servers. The server that would relay one ends instead
  (`server_peered_delivery`), so that there is nothing to compose.
* The TCP transport: chunks that are not datums, and `CommandLineConnectionManager`,
  whose `start` fails on a field that holds a function.
* `keys.ts`: signatures, shared keys and hexadecimal parsing. `HexBuffer` is a
  candidate for a pure model.
* The web page beyond its listeners, scripts, tests, service worker and compiled
  leftovers.
* Clients of one application that share a connection: in `ChatSystem` each has its own, as
  in the library. What connections that speak for several users do to the server is in
  `ChatServer`.

## 6. Plan

1. **The directory of the whole system**: `SessionDirectory` as an abstraction of `ChatSystem`,
   through the proof that `ChatServer` implements it.
2. **Shared keys in ChatSystem**: two clients with one key pair (eviction, the exchange
   of errors and repeats that follows), and clients of mixed kinds (a direct message that
   arrives while its receiver joins a channel).
3. **Transports**: a TCP stream cut into chunks; the WebSocket manager before `onopen`.
4. **HexBuffer** and message encoding as operators, checked against a reference.

# A TLA+ model of fCOPSS

fCOPSS is a content-oriented publish/subscribe system.  Subscribers send `Sub`
packets with a content descriptor (CD), publishers send `PubToRp`; routers
forward both towards the rendezvous point (RP), which turns every publication
around as `PubFromRp`, and routers bring that to the subscribers whose CD
matches.  This directory holds TLA+ modules of the program, TLC configurations
that check them, and proofs for TLAPS.  The paths below are relative to the
repository (`src/` is its root directory here, so the router is in
`src/src/router/`).

## 1. The system

All programs are C++ over boost::asio with one thread in `io_service::run`:
handlers never overlap, but a handler sees what *earlier handlers* did, and what
it was queued for may no longer be so.  That is where the hard behaviour of this
system is.

| Component | State | Operations | Talks to | Hard behaviour | What makes it correct |
|---|---|---|---|---|---|
| Router, `Forwarder` (`router/forwarder.cpp`) | none of its own | `onSubReceived`, `onPubToRpReceived`, `onPubFromRpReceived`, `onFaceShutdown` | calls St, Fib, FaceManager, Face; called by Face | packets and shutdowns of one face in any order | what a table matches leaves; no table names a face that is gone |
| `StImpl` (`router/st-impl.cpp`, `st-entry.cpp`) | list of entries, in each a set of next hops with a `deadline_timer` | `add`, `remove` (three), `clear`, `match`, `dump` | timers call `onExpired` | an expiry that is ready while the next hop is refreshed; greedy matching with two iterators | subscriptions expire, but not while refreshed; matching gives what was asked for |
| `Fib` (`router/fib.cpp`) | list of entries with next hops and costs | `add`, `remove` (three), `clear`, `match`, `dump` | called by Forwarder, CmdServer | `min_element` of a set that might be empty | no entry without next hops |
| `FaceManager`, `Face` | table of faces, serial number; a weak reference to the face in each transport | `createFace`, `find`, `remove`, `dump`, dispatch of packets, `shutdown` | owns transports | the face goes away before, during or after the last events of its transport | ids are never reused, a removed face is closed |
| Router transports (`tcp-transport.cpp`, `udp-transport.cpp`) | socket, receive buffer and timer, send queue | `send`, `shutdown`, receive, timeout, send completion | Face callbacks | repeated shutdown, late completions, partial packets, timeouts | one read at a time, whole packets in order |
| Servers (`tcp-server.cpp`, `udp-server.cpp`) | accepting socket | accept, datagram | FaceManager | duplicate faces for one remote; a failed accept ends accepting | every peer gets a face |
| `CmdServer` (`cmd-server.cpp`) | one session socket, its buffer, two timers, one connection being made | accept, receive, seven commands, connect, timeouts | FaceManager, Fib, St | timeout racing completion; state of one session left to the next; a failed accept | one session at a time; an answered command was done |
| Rendezvous point (`rendezvous/`) | faces, servers, transports as the router's | reflects `PubToRp` as `PubFromRp` on the face it came from | clients and routers | the window between `bind` and `connect` of a udp socket; exceptions of face creation; no descriptor left | every publication comes back once, to who sent it |
| Client library (`lib/`) | connection state, send queue, resend timer | `setup`, `subscribe`, `publish`, `shutdown` | router | reconnection, resend, connect and receive timeouts; datagrams that end the reading | a subscriber stays subscribed; publications are sent in order |
| CDs and packets (`lib/cd*.cpp`, `pub*.cpp`, `sub.cpp`) | elements and a cached encoding | parse, print, encode, compare | all | CD of a URI with an optional group; comparison on the wire and off it; a stale cache | what is printed is parsed again; one order |
| `rtctrl` | requests and responses of one command | eight commands, one request after the other, blocking | CmdServer | a load or a dump is several requests, and the router goes on in between | the tables are what the operator asked for |
| Network | - | the components together | - | routes that change while Subs and publications are on their way | what is delivered was published; a steady path is heard; nothing circulates for ever |
| Configuration, logging, command lines of the programs | - | - | - | - | - |

## 2. Modules

| Module | Models | Kind |
|---|---|---|
| `Cds` | `Cd` as a sequence of C, O and A elements; `isPrefixOf`, `isEqualValue`, `matchRegex` as a function | pure operators |
| `CdUri` | the parser of CD URIs, a fold over their words, and the printer with its escapes; the grammar `InGrammar` as reference | pure operators |
| `CdOrder` | `compare`, `<`, `>`, `==` of CDs, with and without octets; the order `Precedes` as reference | pure operators |
| `CdMatch` | a URI becomes an entry, and the loop of `StImpl::matchRegex`: its two iterators, one action per branch; the reference `StandsFor` | state machine with its properties |
| `HopTables` | what `StImpl` and `Fib` share: a table CD -> face -> attribute | pure operators |
| `St`, `Fib` | the operations of the two tables | pure operators |
| `Router` | Forwarder + St + Fib + FaceManager + transports over the event loop | state machine, the core |
| `RouterProperties` | invariants, action properties, liveness, the refinement mapping | properties |
| `PubSubTable` | what the router promises, without event loop, timers, sockets | abstract specification |
| `TcpTransport` | one tcp transport from inside: send queue, receive buffer, receive timer, shutdown | state machine with its properties |
| `CmdServer` | the sessions of the control server, its two timers, the connection of `FIB-ADD`, and `rtctrl` clients | state machine with its properties |
| `Rtctrl` | `rtctrl`: its arguments, files, requests, dumps; and what the router's commands make of them | state machine with its properties |
| `Rendezvous` | the RP: both servers, faces, forwarder, sockets and descriptors, with the kernel and the clients around it | state machine with its properties |
| `Client` | the client library: `Face` with its resend timer over `TcpTransport` (connection, timer, queue, reads) or `UdpTransport`; the application | state machine with its properties |
| `Network` | publishers, subscribers, routers and the RP over connections that are lost and routes that change; uses `St` and `Fib` for the tables of every router | composition |
| `MCCdMatch`, `MCRouter`, `MCTcpTransport`, `MCCmdServer`, `MCRtctrl`, `MCNetwork` | small instances (`Client` and `Rendezvous` need no definitions: their configurations name the modules themselves) | TLC |
| `DataProofs` | facts about queues and tables that several modules' proofs use | TLAPS |
| `RouterProofs`, `NetworkProofs`, `CmdServerProofs`, `TcpTransportProofs`, `ClientProofs`, `RendezvousProofs`, `RtctrlProofs` | theorems about the module each is named after; `RtctrlProofs` also has those about `CdUri`, `CdOrder` and `CdMatch` | TLAPS |

How they fit together: `Router` is one process with its event loop and sees of a
transport its socket and its read; `TcpTransport` and `CmdServer` open two of its
boxes; `Rtctrl` has the commands with their arguments, which `Router` takes as
given; `Network` takes several routers, each handling a packet in one step.
`Rendezvous` and `Client` are the processes at the two ends.

Operators and actions whose comment starts with "Mutant:" are not part of any
specification.  Each is a plausible wrong version of the definition that
follows it, with which the property it is paired with in `PROJECT.json` fails.

### CDs: `CdUri`, `CdOrder`, `CdMatch`

A URI is the sequence of words between its slashes; a word has a text and a
mark, the parenthesis at its end.  Empty words at its ends are slashes that the
constructor trims (`Trimmed`), and nothing but slashes is the CD of no element;
an empty word in the middle is an error.  `Consume` is one round of the parser's loop,
from the state `NotOpened`, `Opened`, `Closed` or `Error`.  A text is a value;
the module lists the few that the printer changes (dots, blanks, parentheses),
with what it makes of them, once and twice.  In `CdOrder` a value has a length
and a rank among the values of its length, and its encoding is a sequence of
numbers: type, length in one octet or three, rank.  The assumption of `CdOrder` says
of the lengths and ranks that they tell texts apart, and that of `CdMatch` that the
URIs and the CDs have texts among those.  The state of `CdMatch` is the
URI, the two arguments of `matchRegex`, its two iterators and the result; its
formulas are `MatchInit`, `MatchNext` and `MatchSpec`, as `RtctrlProofs` extends it
beside `Rtctrl`.  `MatchRegex` of `Cds`, which the tables of `Router`, `Rtctrl` and
`Network` use, is one function of the pair of positions.

### `Router`

| Variable | In the code |
|---|---|
| `faces`, `serial` | `FaceManager::m_faceTable`, `m_faceSerial` |
| `peer`, `link`, `reading` | of the transport of each face ever created: remote endpoint; socket `open`, `closing` (after `shutdown()`) or `closed` (after `handleShutdown()`); whether an `async_receive` is outstanding |
| `queue` | handlers that are ready to run, in the order the io_service runs them |
| `st`, `fib` | `StImpl::m_st`, `Fib::m_fib`; a next hop of `st` is `armed` until its timer expires, then `fired` while `onExpired` waits |
| `sent` | what the last handler passed to `Face::send` (an output, not state of the code) |

A handler is one action; it takes its event from the head of `queue`.
`Environment` actions make handlers ready (a packet comes, a read or a write
fails, a timer expires).  New connections and the commands of `rtctrl` become
ready at times nobody limits, so they are steps that may be taken at any time.

Abstractions, all chosen so that they allow at least what the code does:

* A completed read carries one packet; two packets in one read are two reads in
  the model, with other handlers possible between them.  The bytes of a partial
  packet are not represented: a read that completes none changes nothing here.
* A write that fails, and the receive timeout of a partial packet, both lead to
  `shutdown()` and are one environment action.  It happens only while the face
  is in the table; afterwards the transport is closed and a further `shutdown()`
  would only post a `handleShutdown` without effect.
* After `shutdown()` a tcp socket still yields what the kernel holds and then
  end-of-file; a udp socket, only cancelled, may be read on.  `Rearm` has both.
* A cancelled read completes with `operation_aborted` and no effect; it is left
  out of the queue.
* `FaceManager::createFace` and the asio calls do not fail; `Rendezvous`, whose
  text is the same, has those failures.  An exception that leaves
  `io_service::run` ends the process (`main.cpp`), and so does a signal: there
  is no state left about which the properties could say something.
* A CD is a sequence of elements.  What the payloads are, and how packets are
  encoded, does not matter to any property.

### `TcpTransport`

The transports of the rendezvous point are the same code in another namespace
(`src/src/rendezvous/tcp-transport.cpp`), so the module stands for both.

| Variable | In the code |
|---|---|
| `sock`, `peerUp` | `m_socket`: open, shut down, closed; whether `remote_endpoint()` still works |
| `face` | whether `m_face.lock()` gives a face |
| `sendQueue`, `writing`, `wire` | `m_sendQueue`; an `async_write` of its head is outstanding; packets written so far |
| `buffer`, `reading`, `timer` | the used part of `m_receiveBuffer`; an `async_receive` is outstanding; `m_receiveTimer` |
| `taken`, `delivered` | units read from the peer; packets passed on (history) |
| `alive` | no exception has left `io_service::run` |

A packet is a sequence of units (`Packets`, the assumption on the constant
`Incoming`), each of which carries the size that
`Block::fromBuffer` reads from the header, and the peer's stream arrives in
every possible portion.  `send()` is called only for a face in the face table,
as `Forwarder` does.  An `async_receive` or `async_write` on a socket that was
shut down or closed completes with an error at once.

### `CmdServer`

| Variable | In the code |
|---|---|
| `session`, `accepts`, `reads` | whose connection `m_socket` is; outstanding `async_accept`s into it and reads of it |
| `buffer`, `receiveTimer` | `m_receiveBuffer`, `m_receiveTimer` |
| `connection`, `connector`, `connectTimer` | `m_connection`, the command it is made for, `m_connectTimer` |
| `backlog`, `client`, `asked`, `taken`, `replies` | connections the kernel holds; what each `rtctrl` did and got |
| `status` | `ended` when an exception or a null `m_connection` ends the process; `undefined` when two reads share the buffer, from where the model does not go on |
| `raced`, `acceptFailed` | history: a timer's expiry and the completion it waits for were ready together, or a new connection was reset before its handler ran; an accept failed |

A command comes in two pieces, of which the second has the empty line that ends
it, and each piece is a completion of the composed `async_read_until`.  What a
command does to the tables is in `Router` and `Rtctrl`; here it is carried out
at once, or it makes a connection.  The reply is written at once (`async_write`
of a short text), to whoever `m_socket` belongs to.  An `async_accept` into an
open socket fails and drops the new connection; one that fails for want of
descriptors is logged, and no other follows.

### `Rtctrl`

| Variable | In the code |
|---|---|
| `line`, `typed` | the command line, `argc` and `argv`; how many were typed |
| `requests`, `responses` | `Cmd::m_requests`, `m_responses` |
| `outcome` | what `main` came to: usage, an error, or `show()` |
| `alive`, `connecting` | the router runs; the request for which it makes a connection |
| `faces`, `serial`, `closing`, `st`, `fib` | of the router, as in `Router`; `closing` faces are still in the table |

The requests of one command go one after the other, each after the reply to the
one before, and between any two faces and subscriptions come and go.  Numbers
and the lists of a FIB file are sequences of characters, since splitting and
conversion are where things go wrong; a name is a URI as in `CdUri`.  The router's
half has every check of `readCmd` and of the command handlers, in their order
and with the reply each gives.  A REMOTE is a host and the ports typed after it,
one for each colon: none means the default port, an empty one is sent as it is,
two are refused.  Blanks in a REMOTE are left out, with the `remove_if` of
`getIpPort` that moves them.  A line of a dump is what it shows and the items
that `getFaceId` finds in it.

### `Rendezvous`

| Variable | In the code |
|---|---|
| `up` | `io_service::run` has not been left |
| `accepting`, `receiving`, `deaf` | the servers' outstanding accept and receive; an accept failed (history) |
| `faces`, `serial` | `FaceManager` |
| `owner`, `link`, `reading`, `out` | of the socket of every face: whose it is, its stage, whether it is read, `m_sendQueue` |
| `queue` | ready handlers |
| `conn`, `sends`, `buffer`, `datagrams`, `raced`, `got` | clients and kernel: who is connected, what was sent, what waits in the sockets' buffers, what came between `bind` and `connect`, what was received |

The error of a datagram to a client that is gone may come back by a read
(`ReadCompletes`) or by a later send (`SendFails`); both end in `shutdown()`.
Sockets are counted against `MaxSockets`, so that `accept` and `open` fail when
none is left; both are then what the code makes of it (a dead port, an exception
that ends the process).

### `Client`

`transport` is a record with one field for each member of the client's transport
that steers it; functions that call each other (`asyncWrite`, `ensureConnected`,
`connect`, `close`, ...) are operators from one such record to the next, and a
handler is the action that applies them.

| Variable or field | In the code |
|---|---|
| `protocol` | which transport `Face::setup` created |
| `socket`, `isConnected`, `resolves` | `m_socket`; `m_isConnected` (-1, 0, 1); outstanding `async_resolve`s |
| `timer`, `isTimerStarted` | `m_deadlineTimer` with the handler it waits for; `m_isTimerStarted` |
| `queue`, `writes`, `reads`, `readFromConnect` | `m_transmissionQueue`, for udp what the `async_send_to`s hold; outstanding writes and reads; `m_isReadFromConnectHandler` |
| `ready`, `threw` | handlers that are ready; an exception is on its way out of the handler |
| `subscribing`, `resendTimer` | `Face::m_isSubscribing`, `Face::m_deadlineTimer` |
| `published`, `wire`, `shutDown`, `twoTimers` | history: calls of `publish()`, publications written, whether `shutdown()` was called, whether the last handler set a timer over another |
| `hears` | history, which connections the code reads: `always` until a client first subscribes on a tcp connection that is up, which it then reads `once`, and `always` again if an `asyncRead` comes when that has closed; `never` on the next one otherwise, or after a datagram that is no publication |

* An exception that leaves `run()` ends the program, as in `subscribe` and
  `publish`, and nothing is left of the transport.  Besides the errors of the
  sockets it may be a received block that is no packet, a Sub or publication of
  more than `MAX_PACKET_SIZE` (`SubscribeTooLong`, `PublishTooLong`), or a
  connection that is gone when `connectHandler` names its endpoint.
* A read brings whole messages, an incomplete one, both, or fills the buffer
  without a message; the bytes are left out.
* The resend interval is longer than the loop takes to handle the expiry before.
* Completions with `operation_canceled` change nothing and are left out, except
  that of the udp transport's read, which tells the application.  The tcp
  transport, too, tells it of a cancelled read or timer: the subscriber program
  ignores that, and an application that would shut down then may do so at any time.
  `range connect` over several resolved endpoints is one attempt.
* On an error in its callback the application may call `shutdown()`, as
  `subscriber/subscribe.cpp` does, or go on.

### `Network`

| Variable | In the code |
|---|---|
| `links`, `chan` | the connections that are up, and the packets on each, in order |
| `st`, `fib` | the tables of every router; a face has the number of the neighbour |
| `object` | the `PubToRp` a publisher uses again and again: CD, content, and the cached `m_wire` |
| `published`, `delivered`, `steady` | history: what the applications asked for and got; publications and subscribers whose path has not changed since |
| `reroutes`, `cuts` | how many changes of routes and lost connections there were (bounds) |

A lost connection takes its packets with it, and both ends notice before it is
used again.  The operator may change routes at any time, except into a circle
for what climbs: for such routes the code promises nothing.

## 3. What is checked

| Run | Instance | Question |
|---|---|---|
| `cd_match` | every URI of up to four words over two texts and three marks, with and without slashes at its ends, every URI of up to three over seven texts that are less usual, and those of the usage example of `src/README.md`; every CD made of the first as a publication | does the parser accept the grammar and read what is printed; is the order on the wire the order of the elements; does the matching loop end, accept only what the subscription stands for, miss nothing when no option is named as the component after its group, and agree with the function `MatchRegex` used in `Router`? |
| `router_events` | a tcp and a udp remote, 2 faces, 1 subscription, 3 queued events from the environment | every order of reads, failures, timeouts, deletions, shutdowns, expiries: is anything left half shut down, unread, read twice or without expiry? |
| `router_tables` | 2 faces to one remote, 2 subscriptions (one with an optional group), 1 publication that both match, 2 names | do the tables agree with each other, does what they match leave, do lost faces go for good, is a subscriber that resends heard, and does all of it implement `PubSubTable`? |
| `tcp_transport` | packets of 1, 3, 2 and 4 units for a buffer of 3, three calls of `send()`, `FACE-DEL`, lost connection | does every packet come out whole and in order, whatever the portions, with room to read into; is one packet written at a time, in order, and no empty queue popped; is a stalled peer cut off, and does a lost connection always end the face? |
| `cmd_sessions` | two clients, one of which may be killed at any time, three commands, one of which connects | one session at a time, replies to the one who asked, every whole command answered or its client cut off |
| `rtctrl` | twenty-three command lines, among them remotes with an empty port and with two, any two of them after each other, a face and a subscription that come and go | do the two programs agree about requests; is the table what the file says after a load; is a deleted route gone; does a dump name every next hop it shows? |
| `rendezvous` | a tcp client with two packets, two udp clients with one, a descriptor for two faces | does a publication come back to its publisher, once, in order, and to nobody else? |
| `client` | tcp and udp, two publications, a Sub that is resent, `shutdown()` at any time, connections that fail, end and time out | written once and in order; the connection state true; a subscriber reads never twice at once, and on every connection but for the two cases named by `hears`; everything written in the end |
| `network` | a publisher, two subscribers (one plain, one with a group), two routers, the RP, two publications, one change | is what is delivered what was published; does a subscriber on a steady path hear it; does everything leave the network? |
| `client_timers` (violated) | one publication over tcp | are two timers never set at once, as a comment says? |
| `client_stuck` (violated) | two publications over tcp, no resending | is everything written in the end, as a comment says? |
| `rtctrl_remote` (violated) | three command lines | is every REMOTE of the usage text accepted? |

### Results worth knowing

Matching and CDs:

* `matchRegex` is sound, but complete only for unambiguous CDs: for a
  subscription such as `/a(/b)/b` and the publication `/a/b` the loop takes the
  input's `b` for the option, and the component after the group finds nothing.
  `MatchIsWhatItStandsFor` says so by its second precondition.
* What a CD prints can always be parsed, but the printer escapes and the parser
  does not take escapes back: `/a b` becomes another CD, `/a%20b`, on its way
  through `rtctrl` (`PrintedUriIsParsed` claims identity for plain texts only).
* The parser accepts one URI that the usage text does not have: a parenthesis
  that opens at the very end and is never closed (`InGrammar`, last line).
* The comment in `compare` (`src/src/lib/cd-optional.cpp`) that the order of
  the octets is the canonical order is true, also where a length passes 252 and
  takes three octets.

Router:

* A subscription refreshed after its timer fired, but before `onExpired` ran, is
  removed by that old expiry.  `FreshHopSurvives` therefore excludes a queued
  expiry, and `ResubscriberIsHeard` shows that the next resend repairs it.
* A Sub handled after the shutdown of its face began does put the face back
  into the table (and `FIB-ADD` may route to it), but only until
  `onFaceShutdown`, which is still to come: `HopsAreFaces` is never violated.
* The transport pops only what it has written, although `handleShutdown` empties
  the queue while write completions may wait: `shutdown()` cancels the write,
  and a completion that is already there runs before the posted
  `handleShutdown`.
* A receive timeout that becomes ready together with the loss of the connection
  asks for a remote endpoint that is gone, and the exception ends the process.
  The liveness properties of `TcpTransport` name this outcome.

Control port:

* A receive timeout beside a completed read leads to two accepts, a reply to the
  wrong client or a session that is cut off although its client did nothing
  wrong; a connect timeout beside the completed connect dereferences a null
  `m_connection`.  `OneSessionUnlessRaced`, `RepliesAreOwn` and `DiesOnlyIfRaced`
  say that nothing else does; `AnsweredOrCutOff` holds in spite of it.
* After an accept that fails the port is dead for good, and who connects waits:
  the one exception of `AnsweredOrCutOff`.
* `m_receiveBuffer` survives a session.  What is left in it is, unless a timeout
  raced a completion, at most the head of a command whose client went away in the
  middle (`LeftoverIsUnfinished`); it then precedes the first command of the next
  client.
* A `PORT` that is no 16-bit number ends the router, because the handler catches
  `runtime_error` and `bad_lexical_cast` is none; it is the only thing `rtctrl`
  lets pass that does.  One way to it is a remote typed `host:`, whose empty port
  is sent as it is; in a `fibdel` the router refuses it as an illegal argument,
  which is the only such refusal of what `rtctrl` let pass
  (`RequestsAreUnderstood`).

`rtctrl`:

* An `ERR` reply does not stop a command of several requests: a load goes on
  with the next route.  `LoadIsTheFile` therefore speaks of the routes that were
  accepted.
* Blanks in the lists of a FIB file are moved to the end but not removed: the
  list `0, 10` has the costs 0 and 100.  The run loads such a file, and the
  property excludes it.
* A dump of the tables is two requests.  A next hop that came in between is not
  listed, one that went is listed without its face (`DumpNamesEveryHop`).  The
  dumps are never refused, so the error branch of `show`, which would
  read a response that does not exist, is not reached.
* A host name with a port is refused, as the resolver is asked for the whole of
  it, port included (`src/src/rtctrl/cmd.cpp:75`), although the usage text allows it (`rtctrl_remote`, see `findings` in `PROJECT.json`).

Rendezvous point and network:

* A datagram that arrives between `bind` and `connect` of a new udp socket goes to
  the face of the client that was there first, who gets the
  answer.  `AnsweredToPublisher` allows exactly those (`raced`).  Datagrams may
  also pass each other, so for udp it claims no order.
* The RP answers on the face of arrival only.  A subscriber whose Subs come to
  the RP through another router than the publication gets nothing;
  `SubscriberHears` is about the subscribers whose path joins the publisher's
  below the RP.
* A failed accept, a face whose peer is gone when it is created, and `open`
  without a descriptor leave a dead port or end the process.  `PublicationComesBack`
  names these.
* After a change of routes two routers may be each other's next hops, as
  `onPubFromRpReceived` also sends back to where a publication came from: it goes
  round, delivering again and again, until one of the two next hops expires
  (`CirculationEnds`).

Client:

* The client's send queue outlives its connections without loss, repetition or
  a second write (`WrittenOnceInOrder`, `OneWriteOfTheHead`), but nothing drives
  it when a connection ends on the reading side: `asyncWrite` starts no write
  into a queue that is not empty, and the write that was under way is cancelled
  without a word.  Only a call of `asyncWrite` that finds no connection
  makes one again, so a client that resends its Sub recovers
  (`PublishedIsWritten` in `client`) and one that does not is stuck
  (`client_stuck`), although the comment in `asyncWrite`
  (`src/src/lib/tcp-transport.cpp:187-189`) leaves the write to other handlers.
* `close()` resets `m_isConnected` only when the socket is open.  After an error
  of the resolver it is not; the program ends there, so the state that is left at
  "connecting" is never seen (`ConnectionStateIsTrue`).
* The connection timeout and the timeout of a partial message share one timer,
  and a comment holds that they are never set at once
  (`src/src/lib/tcp-transport.cpp:65-66`).  A read that was ready before
  `shutdown()` sets the second and then connects (`client_timers`).
* Over udp a datagram that is no publication starts no further read: the
  subscriber is deaf and goes on subscribing.  One that does not decode closes the
  socket, which nothing opens again; the next resend fails and ends the program.
  `SubscriberListens` and `WrittenOnceInOrder` name these two.
* Over tcp a client that first subscribes while it is connected (a publisher that
  subscribes later) reads that connection only: `asyncRead` sets
  `m_isReadFromConnectHandler` only when it finds no connection.  After a
  reconnection it is deaf, the other exception of `SubscriberListens`.

### Bounds

`MaxFaces` bounds the faces ever created; two faces are enough for
every pair of actors (two subscribers, a subscriber and the route to the RP,
two faces to the same remote, tcp beside udp), and no handler relates three
faces.  `MaxQueue` bounds only what the *environment* adds; what handlers post
is never refused.  Three events let a packet, a failure and a further failure
of the same face wait together, which is what the shutdown properties need; in
`router_tables` one is enough, as a second would only wait, and this pays for two
subscriptions.

`TcpTransport` is bounded by its stream, whose packets cover the cases smaller
than, as large as and larger than the buffer and several in one read, and by `MaxSends`; three
packets are one being written, one waiting and one to come.  Two clients of
`CmdServer` are one in session and one waiting; a client whose session ended
does not come back.  In `Rtctrl` two commands are one that sets the scene and
one whose effect is asked for; the command lines are those of the usage
text and of `conf/fib.conf.sample`, and one for each way to be refused.
In `Rendezvous` a descriptor less than there are clients lets it run out;
`MaxQueue` is 1, as the order of what the kernel adds is free anyway.

In `Client` two publications are one that is being written and one that waits,
with the Sub before, between or after them.  `MaxBacklog` is 2: in a tcp queue of
so many packets a further Sub is not counted, nor is one over udp while so many
sends, or their handlers, wait; and a second failed send, after the first has
ended the program, is not counted.  Publications are always queued.  The number of
connections is not bounded.  In `Network` one Sub at a time is on its
way, `MaxPublished` is 2, so that one publication can overtake or follow another
on a different path, and `MaxChanges` is 1: after a change the subscription table
still has the hops of the old way, and the run starts in the middle of such a
change (`SecondWasBehindFirst`), which makes it two.  After a change of routes a
publication that comes a second time is not recorded again.

### Fairness

`WF_vars(EventLoop)`: the loop takes ready handlers as long as there
are any, and each ends (`Terminates` of `CdMatch` for the only loop without an
obvious bound).  `WF_vars(TimerFires(cd, f))`: the operating system lets every armed timer expire.
This supposes a finite `StExpireTime`; without one in the configuration the code
sets `pos_infin` and subscriptions stay.  `ResubscriberIsHeard` supposes in
addition strong fairness of the arrival of the Sub: the client library sends it
every `SubSendInterval` (`src/src/lib/face.cpp`, `resendTimerHandler`), and a
connection that is up delivers it.  Nothing is assumed fair of commands, new
connections, other packets or failures.

In `TcpTransport` the loop and the receive timer are fair, the peer is not.  In
`CmdServer` the loop, both timers and the kernel's delivery of accepts, bytes and
end-of-file are fair; clients and the peer of a connection are not.  Both suppose
the finite `ReceiveTimeout` and `ConnectionTimeout` of the sample configuration.
In `Rendezvous` the loop and the kernel are fair, clients are not.
In `Client` the loop and both timers are fair, and so is the completion of a
datagram's send; a resolver that does not answer and a
connection that is not made are ended by the timer.  `SF_vars(WriteCompletes)`
says that of connections that come up again and again one lives long enough to
write a packet; without it no client could promise anything.
In `Network` what is on a connection arrives, and a next hop expires in the end;
nobody has to resend, publish or change a route.  As nothing in that module says
when a timer fires, a hop that is refreshed may expire, too: this is why
`SubscriberHears` is an invariant, about what is under way on a path that has not
changed, which with `CirculationEnds` gives delivery.
`Rtctrl` has no liveness property and assumes none.

### Deadlock

Deadlock is checked in the runs of the router and of the network.  It is off
where the system really may stop: `cd_match` ends by design; in `tcp_transport`,
`cmd_sessions`, `rtctrl` and `rendezvous` packets, commands and clients run out,
and a face that is gone, or a process that ended, stays so; the programs of
`Client` may end.

## 4. What is proved

Each theorem holds for every value of the constants that the module's named
assumption allows.  The bounds of TLC's instances are no longer there, only
numbers that stand for them (`MaxFaces`, `MaxPubs`, ...), each as large as one
likes.  The assumptions say what type the constants have, and of the network
that its CDs are sequences of elements and that its first tables are tables of
faces with connections (`NetworkAssumption`), of a tcp peer that its stream is made
of packets (`TransportAssumption`), of command lines that their words are of
the sorts that the shell can pass (`RtctrlAssumption`), and of texts what
`CdOrderAssumption` says: two octets hold the length of a text, and a text is told
apart by its length and its rank.  No theorem bounds the length of a CD, of a queue
or of a stream.

The proofs follow one pattern: an invariant that is inductive, from which the
property of the run follows; one lemma for every action, and under it one for
every function of the code that the action calls.

`DataProofs` has the facts about data on which all of them rest: what a queue
holds after something is appended, popped or added in bulk, which of the
events of a kind remain (`Free`, `Only`, `Lacks`, `AtMostOne`), and what the
operations of `St` and `Fib` do to the set of next hops and to what they carry.

It also has what takes the place of the library's induction theorems, which the
back ends cannot use: induction over a *set* of naturals, by its least
counterexample (`NatSetInduction`), and the existence of recursive functions over
a finite measure (`RecursionExists`).  A fold of the community modules is a CHOOSE of
such a function; once it exists, the values of the fold on the first i elements
are a sequence of states, one step from each to the next, and a property of a
fold is an invariant of that sequence.

**Router** (`RouterProofs`)

* `RouterTypeOK`, `RouterHopsAreFaces`, `RouterNoEmptyEntry`,
  `RouterEveryHopWillExpire` from the inductive invariant `TablesInv`.  The tables
  alone are not inductive: a packet is handled for a face named by an *event*,
  so the invariant says of every queued event that its face was created, of
  every fired next hop that its expiry is queued, and that what is looked up
  in the face table is in it.
* `RouterRemovalIsOrderly` and `RouterFaceIsReadOnce`, and the facts they are
  made of, `RouterNoZombieFace`, `RouterRemovedFaceIsClosed`,
  `RouterShutdownInOrder`, `RouterOneReadAtMost`, `RouterOpenFaceIsRead`, from
  `RouterInv`, which adds the order of a shutdown and the reads.  Every step is
  first classified by what it does to one face (`Remains`, `Closes`, `Leaves`,
  `Comes`), then the invariant is shown for the classes.
* `RouterFreshHopSurvives`, `RouterMatchedPacketsLeave`: action properties.  The
  second rests on `NoEmptyEntry` and `HopsAreFaces`: the cheapest next hop exists
  and its face is found.
* `RouterImplementsPubSubTable`: the initial states and every step map to those
  of `PubSubTable` or stutter.

**Network** (`NetworkProofs`)

* `NetworkTypeOK`, `NetworkDeliveredWasPublished` (the first half of
  `DeliveredAsPublished`) and `NetworkSubscriberHears`, in every topology, from
  `NetworkInv`.  That needs of every packet under way that it tells of a real
  publication or is a Sub of the one who sent it (`NothingInvented`), and of every
  publication on a path that has not changed that it is somewhere on the way and
  that the tables lead on from there (`SteadyPathsLead`).
* The other half of `DeliveredAsPublished`, once and in order, is not true of
  every topology and every first tables (two routers that are each other's next
  hops deliver again and again), so it stays with the instance of the run.

**Control server** (`CmdServerProofs`)

* `CmdServerOneSession`, `CmdServerRepliesAreOwn`, `CmdServerLeftoverIsUnfinished`,
  `CmdServerDiesOnlyIfRaced`, for any number of clients and commands, from
  `CmdServerInvariant`: the types always, and as long as no timeout raced a
  completion (`Orderly`) there is one turn to accept or one session, in a session
  one of a read, a reply or a connection is under way, a client comes once, and
  what it got are its own replies.

**TCP transport** (`TcpTransportProofs`)

* `TcpTransportSentOneByOne` from `SendInv`: on an open socket the sending is
  `Idle`, `Writes`, `Wrote` or `Failed`, each with the packets on the wire and those
  that wait; after `shutdown()` nothing is written, and at most one completion
  is left, which runs before the posted `handleShutdown`, so that `handleSend`
  never pops the queue that this has emptied.
* `TcpTransportWholePackets`, for any packets and any way the stream is cut
  into reads, from `ReceiveInv`: the units taken are the packets delivered, in
  order, followed by the units in the buffer, which are the start of the next
  packet (`WholePackets`) and never all of it (`NoPacketWaits`); so what follows them in
  the stream can only complete that packet.  What one read delivers is a recursive
  function over the rest of the stream.  If the transport gives up because its
  buffer is full, the packet did not fit (`CutOffIsForSize`).

**Client library** (`ClientProofs`)

* `ClientOneWriteOfTheHead`, `ClientWrittenOnceInOrder`,
  `ClientConnectionStateIsTrue`, `ClientSubscriberListens`, for any number of
  publications and any sequence of connections, from `ClientInv`.  Over tcp a
  connection is `Unconnected`, `Resolving`, `Connecting`, `HasConnected` or `Connected`,
  and handlers of an earlier one may still be ready: the heart of the invariant
  is which of them may be in which stage, and that they run before the next
  stage is reached (`Before`).  `Reading` and `Writing` say that reads and writes
  are one at a time, `TimeLimit` that an attempt to connect ends, and `TcpOrder`
  that what was written and what waits are the publications in order, the head
  of the queue being both while the completion of its write is ready (`Twice`).
  Over udp `UdpOrder` and `NoneLost` say it of datagrams, `UdpSocket` that the
  socket is open, or closed with nothing under way.
* When an exception has ended the program nothing is left of the transport, and
  nothing is claimed of it.  That a subscriber reads is part of `Reading`, with its
  two exceptions: where a connected subscriber does not, `hears` is `never`.

**Rendezvous point** (`RendezvousProofs`)

* `RendezvousAnsweredToPublisher`, for any number of clients, packets and sockets,
  and `RendezvousTypeOK`, from `RendezvousInv`.  What a client got back says nothing
  of the packets under way, so the invariant follows every packet from its
  client to the answer.
* `FacesInv`: one accept and one read of a face at a time (`AcceptTurn`,
  `ReadTurn`), one face for a tcp client (`OneFace`), and a face leaves the table
  after its socket was closed (`ClosedBeforeRemoved`).  Without `OneFace` two send
  queues could answer one client, and without `ReadTurn` two packets of a client
  could overtake each other between the socket and the forwarder.
* `TcpInv`: what a tcp client sent is cut in two at some packet.  After it the
  packets wait in the buffer as they were sent, the packet itself may be in a
  ready handler, and of those before it the publications came back or are in
  the send queue, in order and without a gap (`AllInLine`).  When the socket has
  closed, what came back until then remains without a gap (`CameBack`).
* `UdpInv`: a datagram is in one place, the server's buffer, a ready handler, a
  face's buffer or back at a client, and was sent (`Placed`); and it is never in
  the socket or in the hands of another than its sender, unless it came between
  `bind` and `connect` (`ToSockets`, `Answers`).
* `HandleDatagram` has a branch where what came into the new face's socket
  before `connect` and what the loop holds meet, the hardest step of the proof:
  the datagrams move from one place to another all at once (`Arrives`).

**URIs, order and matching** (`RtctrlProofs`)

* `ParserAcceptsGrammar` and `CdMatchUriGrammar`: the constructor of `Cd` takes
  exactly the URIs of `InGrammar`, of any length, over any texts and with any
  slashes at the ends, which it trims first.  `ParseFold` has
  the states of the parser after each word; without an error the state is known
  from the marks met so far, and with one group at most, closed before the end,
  none of the words is an error.
* `PrintedUriParses` and `CdMatchPrintedUriIsParsed`: what `toUri` prints has, word
  by word, the marks of the words that were parsed (`Marked`), and an escape makes
  no parenthesis and no empty text, so that it is parsed by the same events.
  The last word is an exception: a group that closes there lost its end.
* `CdMatchIsWhatItStandsFor`.  What was parsed is components only, or components,
  a group, its asterisk and components (`Shape`, `LegalShape`).  `ReadTo` is the
  invariant of the loop: it has read the first elements of both, or all
  of the group but what follows its first k options.  So what is
  accepted is one of the names (`Fits`).  Conversely, where the loop is stuck,
  another number of options would put the component that follows the group
  against an option that was met or missed, which in an unambiguous subscription
  has another value.
* `CdMatchLoopComputesMatchRegex`: there is such a function as `MatchRegex` describes
  (`MatchesExists`), and its value at the iterators is, all along, its value at the
  start (`AsMatches`).
* `CdMatchWireOrderIsCanonical`, for any lengths and ranks.  An element has a key, its
  type, length and rank; the octets of a length below 253 differ in the
  second place, those of longer ones in the third or fourth, and both are less than
  the mark 253 of the longer ones, or are it (`LowerWire`).  Both comparisons
  therefore order elements by keys, and find the first that differs
  (`CompareIs`); and the flat sequence of all keys, a fold, is ordered alike (`KeysOrder`).

**rtctrl** (`RtctrlProofs`)

* `RtctrlRequestsAreUnderstood`, for all command lines: whatever the options are and
  in whichever order, and whatever a FIB file says, the router answers each request
  with no error of the parser, except for a FIB-DEL with an empty port.  The
  arguments become parameters by one fold over the options, the entries of a file
  by another; `ParamIsGood` and `RequestIsGood`
  say what comes out of them, and that `readCmd` and the handlers accept it,
  except for a `PORT` that is no number.
* `RtctrlLoadIsTheFile`: after a load the table is what the accepted lines say.
  `LoadInv` compares, after each reply, the table printed as lines with the lines of the
  routes accepted so far; it needs that a name sent is the name stored
  (`PrintedUriParses`), that a route is given to the first face with its remote
  (`RoutesFirst`) and, where the property has the precondition that no face went,
  that all that were created are there, by counting them (`AllStay`).
* `RtctrlDeletedRouteIsGone` and `RtctrlDumpNamesEveryHop`, for all command lines,
  remotes and subscriptions, from `RtctrlInv`.
* `fibdel` looks up one face to the remote, the first, and takes the route from
  it.  That no other has the route follows from `RoutesToFirst`: a `FIB-ADD` is
  given to the first face to a remote too, later faces have higher ids, and a
  route goes with its face.
* A dump asks for the table and then for the faces, and faces come and go in
  between.  `DumpInv` keeps what has been printed so far: ids that were given out
  (`NamesFaces`), so that a face that comes later has none of them, and of the
  faces that are still there their endpoints (`ShowsFaces`).
* `Replying` says how far a command has come: the requests are those of its
  command line, and a connection is being made only for the `FIB-ADD` that waits
  for its reply, so that no other request is answered by `handleConnect`.

Only model-checked:

* the liveness properties, as the prover does not reason about fairness and
  ENABLED: `PublishedIsWritten`, `PublicationComesBack`, `AnsweredOrCutOff`,
  `ResubscriberIsHeard`, `CirculationEnds`, ...;
* the half of `DeliveredAsPublished` that depends on the topology (see above).

## 5. Not modelled, and what is left

Not modelled:

* Property files, command lines of the daemons and of `subscribe` and `publish`,
  logging: no state that interleaves.
* Signals: the handler stops the loop, and the process ends with its state.
* What `FIB-ADD` makes of a cost such as `-1`, which `lexical_cast` takes for an
  unsigned number modulo its width; `rtctrl` tests costs with the same cast.
* The memory of a packet whose `async_send` is under way (`router/udp-transport.cpp`).
* `m_endpoint` of the client's udp transport, to which `async_receive_from` writes
  the sender: only the router sends to the model's client.
* The bytes of the client's messages, with the part of one that a broken
  connection leaves in the buffer.  `TcpTransport` has such a buffer for one
  connection; together with the client's connections it is too much for one run.
* Blocks not made by this program, and access to a CD by index.

Left to do, in this order:

1. Routes with longer names in `Network`, where the Sub of a CD with a group goes
   another way than the publications it stands for.
2. A smaller model of the client's receive buffer over several connections.
3. A proof of the rest of `DeliveredAsPublished` for topologies without circles and
   with one way between any two nodes.

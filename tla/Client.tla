------------------------------- MODULE Client -------------------------------
(***************************************************************************)
(* The client library: a Face with its resend timer, and the transport     *)
(* below it.  A TcpTransport has its connection, its one timer for two     *)
(* purposes, its queue and its reads; a UdpTransport has a socket that is  *)
(* open from the beginning and never opened again.  The application is a   *)
(* subscriber, a publisher or both; the programs in subscriber/ and        *)
(* publisher/ end when an exception leaves run().                          *)
(*                                                                         *)
(* Functions of the code that call each other are operators from a state   *)
(* of the transport to the next one; an action applies the handler.  A     *)
(* completion with operation_canceled changes no state and is left out,    *)
(* but for a read of the UdpTransport.  Where it tells the application (a  *)
(* read, and the timer of a message that is incomplete, of a TcpTransport) *)
(* the subscriber program ignores it, and one that would shut down then    *)
(* may do so at any time.                                                  *)
(***************************************************************************)
EXTENDS Naturals, Integers, Sequences, FiniteSets

CONSTANTS
  Protocols,    \* what clientProtocol may be in the configuration
  MaxPubs,      \* bound on the calls of publish()
  MaxBacklog,   \* bound: in a queue of so many packets a further Sub is not counted
  Resends,      \* m_subSendInterval is not 0
  MayShutDown   \* the application may call Face::shutdown()

ASSUME ClientAssumption ==
  /\ Protocols \subseteq {"tcp", "udp"}
  /\ MaxPubs \in Nat
  /\ MaxBacklog \in Nat \ {0, 1}
  /\ {Resends, MayShutDown} \subseteq BOOLEAN

VARIABLES
  transport,    \* the TcpTransport or UdpTransport, see Transports
  subscribing,  \* m_isSubscribing
  resendTimer,  \* m_deadlineTimer of the Face: "armed" or "off"
  status,       \* "runs", or "ended" by an exception
  published,    \* number of calls of publish()
  wire,         \* publications written in full, over all connections
  shutDown      \* the application has called shutdown() (history)

faceVars == <<subscribing, resendTimer>>
appVars  == <<published, shutDown>>
vars == <<transport, faceVars, status, appVars, wire>>

(* What m_transmissionQueue holds: publications by number, or the Sub.     *)
Sub == 0

(* The handlers that may be ready to run, by what happened. *)
Handlers ==
  {"resolved", "resolveFailed", "connected", "connectFailed", "connectTimedOut",
   "written", "writeFailed", "read", "readFailed", "readCanceled", "receiveTimedOut", "resend"}

Transports == [
  protocol    : {"tcp", "udp"},      \* which transport setup() created
  socket      : {"closed", "connecting", "up", "lost"}, \* m_socket; "lost" is open but not connected
  isConnected : {-1, 0, 1},          \* m_isConnected
  resolves    : {0, 1},              \* outstanding async_resolves (one, if exceptions end run())
  timer       : {"off", "connect", "receive"},  \* what m_deadlineTimer waits for
  isTimerStarted : BOOLEAN,          \* m_isTimerStarted
  queue       : Seq(0..MaxPubs),     \* m_transmissionQueue; udp: what the async_send_tos hold
  writes      : Nat,                 \* outstanding async_writes of its head, or async_send_tos
  reads       : Nat,                 \* outstanding async_receives
  readFromConnect : BOOLEAN,         \* m_isReadFromConnectHandler
  ready       : Seq(Handlers),       \* handlers that are ready to run
  threw       : BOOLEAN,             \* an exception is on its way to run()
  twoTimers   : BOOLEAN,             \* the last handler set a timer while another one ran (history)
  hears       : {"always", "once", "never"}]  \* which connections are read, see below (history)

(* A client reads all along if it subscribed before it was connected.  If  *)
(* it did so on a connection that was up (a publisher that subscribes      *)
(* later), it reads that one only and nothing on the next, unless a last   *)
(* read makes it ask for another one when that has closed.  Over udp it    *)
(* reads no more after a packet that is no publication.                    *)

Running(op) == status = "runs" /\ transport.ready # <<>> /\ Head(transport.ready) = op
Queued(op) == \E i \in 1..Len(transport.ready) : transport.ready[i] = op

Post(t, op) == [t EXCEPT !.ready = Append(@, op)]
Throw(t) == [t EXCEPT !.threw = TRUE]

-----------------------------------------------------------------------------
(* UdpTransport.  A call on a closed socket fails at once. *)

UdpClose(t) ==
  IF t.socket = "closed" THEN t
  ELSE [t EXCEPT !.socket = "closed", !.queue = <<>>, !.writes = 0, !.reads = 0,
                 !.ready = @ \o [i \in 1..t.reads |-> "readCanceled"]]

(* A write in vain ends run(): a second one is not counted, nor is a Sub   *)
(* beyond the bound.                                                       *)
UdpAsyncWrite(t, packet) ==
  LET waiting == {i \in 1..Len(t.ready) : t.ready[i] \in {"written", "writeFailed"}}
  IN  CASE t.socket = "closed" ->
             IF \E i \in waiting : t.ready[i] = "writeFailed" THEN t ELSE Post(t, "writeFailed")
        [] packet = Sub /\ t.writes + Cardinality(waiting) >= MaxBacklog -> t
        [] OTHER -> [t EXCEPT !.queue = Append(@, packet), !.writes = @ + 1]

UdpAsyncRead(t) ==
  IF t.socket = "closed" THEN Post(t, "readFailed") ELSE [t EXCEPT !.reads = @ + 1]

-----------------------------------------------------------------------------
(* TcpTransport *)

(* connect() *)
Connect(t) ==
  [t EXCEPT !.twoTimers = t.timer # "off",
            !.timer = "connect", !.isTimerStarted = TRUE,
            !.resolves = @ + 1, !.isConnected = 0]

(* ensureConnected() *)
EnsureConnected(t) ==
  IF t.socket = "closed" /\ t.isConnected # 0 THEN Connect(t) ELSE t

(* Mutant: the queue is emptied with the connection. *)
TcpCloseDropsQueue(t) ==
  LET u == IF t.isTimerStarted THEN [t EXCEPT !.timer = "off", !.isTimerStarted = FALSE] ELSE t
  IN  CASE u.socket = "closed" -> u
        [] u.socket = "lost" -> Throw(u)
        [] OTHER -> [u EXCEPT !.socket = "closed", !.isConnected = -1,
                              !.writes = 0, !.reads = 0, !.queue = <<>>]

(* Mutant: m_isConnected is left as it is. *)
TcpCloseKeepsState(t) ==
  LET u == IF t.isTimerStarted THEN [t EXCEPT !.timer = "off", !.isTimerStarted = FALSE] ELSE t
  IN  CASE u.socket = "closed" -> u
        [] u.socket = "lost" -> Throw(u)
        [] OTHER -> [u EXCEPT !.socket = "closed", !.writes = 0, !.reads = 0]

(* close(): m_isConnected is reset only with an open socket, on which      *)
(* shutdown() throws when it is not connected any more.                    *)
TcpClose(t) ==
  LET u == IF t.isTimerStarted THEN [t EXCEPT !.timer = "off", !.isTimerStarted = FALSE] ELSE t
  IN  CASE u.socket = "closed" -> u
        [] u.socket = "lost" -> Throw(u)
        [] OTHER -> [u EXCEPT !.socket = "closed", !.isConnected = -1,
                              !.writes = 0, !.reads = 0]

(* send() and receive(): without a connection they fail at once. *)
Send(t) ==
  IF t.socket = "up" THEN [t EXCEPT !.writes = @ + 1] ELSE Post(t, "writeFailed")

Receive(t) ==
  IF t.socket = "up" THEN [t EXCEPT !.reads = @ + 1] ELSE Post(t, "readFailed")

(* m_transmissionQueue.push_back(), with the bound on Subs that wait.      *)
Enqueued(queue, packet) ==
  IF packet = Sub /\ Len(queue) >= MaxBacklog THEN queue ELSE Append(queue, packet)

(* Mutant: every packet is sent at once when there is a connection. *)
TcpAsyncWriteAlwaysSends(t, packet) ==
  LET u == EnsureConnected([t EXCEPT !.queue = Enqueued(@, packet)])
  IN  IF u.isConnected = 1 THEN Send(u) ELSE u

(* asyncWrite(), which starts a write only if it is the only packet; else  *)
(* connectHandler or the completion of the write before do.                *)
TcpAsyncWrite(t, packet) ==
  LET u == EnsureConnected([t EXCEPT !.queue = Enqueued(@, packet)])
  IN  IF u.isConnected = 1 /\ Len(u.queue) = 1 THEN Send(u) ELSE u

(* asyncRead(): without a connection, every one from now on is read. *)
TcpAsyncRead(t) ==
  LET u == EnsureConnected(t)
  IN  IF u.isConnected = 1 THEN Receive(u) ELSE [u EXCEPT !.readFromConnect = TRUE, !.hears = "always"]

(* The end of processMessage(): a message that is incomplete starts the    *)
(* timer, unless one is started; complete messages stop whatever is.       *)
Incomplete(t) ==
  IF t.isTimerStarted THEN t ELSE [t EXCEPT !.timer = "receive", !.isTimerStarted = TRUE]

Complete(t) ==
  IF t.isTimerStarted THEN [t EXCEPT !.timer = "off", !.isTimerStarted = FALSE] ELSE t

-----------------------------------------------------------------------------
(* The virtual functions of Transport *)

Close(t) == IF t.protocol = "udp" THEN UdpClose(t) ELSE TcpClose(t)
AsyncWrite(t, packet) ==
  IF t.protocol = "udp" THEN UdpAsyncWrite(t, packet) ELSE TcpAsyncWrite(t, packet)
AsyncRead(t) == IF t.protocol = "udp" THEN UdpAsyncRead(t) ELSE TcpAsyncRead(t)

-----------------------------------------------------------------------------
NewTransport(protocol, socket) ==
  [protocol |-> protocol, socket |-> socket, isConnected |-> -1, resolves |-> 0,
   timer |-> "off", isTimerStarted |-> FALSE, queue |-> <<>>, writes |-> 0, reads |-> 0,
   readFromConnect |-> FALSE, ready |-> <<>>, threw |-> FALSE, twoTimers |-> FALSE,
   hears |-> "always"]

(* setup(): the one transport connects, the other has opened its socket.   *)
Init ==
  /\ \E protocol \in Protocols :
       transport = IF protocol = "tcp" THEN Connect(NewTransport("tcp", "closed"))
                                       ELSE NewTransport("udp", "up")
  /\ subscribing = FALSE
  /\ resendTimer = "off"
  /\ status = "runs"
  /\ published = 0
  /\ wire = <<>>
  /\ shutDown = FALSE

(* The transport goes on from t; an exception ends run() and the program,  *)
(* which leaves nothing of the transport.                                  *)
Becomes(t) ==
  IF t.threw
  THEN transport' = NewTransport(t.protocol, "closed") /\ status' = "ended"
  ELSE transport' = t /\ status' = "runs"

(* The transport without the handler that runs. *)
Handling == [transport EXCEPT !.ready = Tail(@), !.twoTimers = FALSE]

-----------------------------------------------------------------------------
(* The application *)

(* The first subscribe() starts to read. *)
FirstRead(t) ==
  AsyncRead(IF t.isConnected = 1 THEN [t EXCEPT !.hears = "once"] ELSE t)

Reader == IF subscribing THEN transport ELSE FirstRead(transport)

Subscribe ==
  /\ status = "runs"
  /\ Becomes(AsyncWrite(Reader, Sub))
  /\ subscribing' = TRUE
  /\ resendTimer' = IF Resends THEN "armed" ELSE "off"
  /\ UNCHANGED <<appVars, wire>>

Publish ==
  /\ status = "runs"
  /\ published < MaxPubs
  /\ published' = published + 1
  /\ Becomes(AsyncWrite(transport, published'))
  /\ UNCHANGED <<faceVars, shutDown, wire>>

(* A packet of more than MAX_PACKET_SIZE: by then the first subscribe()    *)
(* reads, and a later one has cancelled the timer.                         *)
SubscribeTooLong ==
  /\ status = "runs"
  /\ Becomes(Throw(Reader))
  /\ subscribing' = TRUE
  /\ resendTimer' = "off"
  /\ UNCHANGED <<appVars, wire>>

PublishTooLong ==
  /\ status = "runs"
  /\ Becomes(Throw(transport))
  /\ UNCHANGED <<faceVars, appVars, wire>>

(* shutdown(), from any handler of the application *)
Shutdown ==
  /\ status = "runs"
  /\ MayShutDown
  /\ Becomes(Close(transport))
  /\ resendTimer' = "off"
  /\ shutDown' = TRUE
  /\ UNCHANGED <<subscribing, published, wire>>

(* The callback with an error, on which the subscriber program shuts down. *)
Callback(t) ==
  \/ /\ Becomes(t)
     /\ UNCHANGED <<resendTimer, shutDown>>
  \/ /\ MayShutDown
     /\ Becomes(IF t.threw THEN t ELSE Close(t))
     /\ resendTimer' = IF t.threw THEN resendTimer ELSE "off"
     /\ shutDown' = (shutDown \/ ~t.threw)

-----------------------------------------------------------------------------
(* Handlers *)

HandleResend ==
  /\ Running("resend")
  /\ Becomes(AsyncWrite(Handling, Sub))
  /\ resendTimer' = "armed"
  /\ UNCHANGED <<subscribing, appVars, wire>>

(* resolveHandler() starts async_connect, which opens the socket anew. *)
HandleResolved ==
  /\ Running("resolved")
  /\ Becomes([Handling EXCEPT !.socket = "connecting", !.writes = 0, !.reads = 0])
  /\ UNCHANGED <<faceVars, appVars, wire>>

(* resolveHandler(), connectHandler(), the write handler with an error and *)
(* connectTimeoutHandler() *)
HandleFailure ==
  /\ \/ Running("resolveFailed") \/ Running("connectFailed") \/ Running("writeFailed")
     \/ Running("connectTimedOut")
  /\ Becomes(Throw(Close(Handling)))
  /\ UNCHANGED <<faceVars, appVars, wire>>

(* A new connection. *)
Established(t) ==
  [t EXCEPT !.timer = "off", !.isTimerStarted = FALSE, !.isConnected = 1,
            !.hears = IF @ = "once" THEN "never" ELSE @]

(* Mutant: no read is started on a new connection. *)
HandleConnectedUnread ==
  /\ Running("connected")
  /\ LET t == Established(Handling)
     IN  Becomes(CASE t.socket = "closed" -> Handling
                   [] t.socket = "up"     -> IF t.queue # <<>> THEN Send(t) ELSE t
                   [] OTHER               -> Throw(t))
  /\ UNCHANGED <<faceVars, appVars, wire>>

(* Mutant: what waits is not sent on a new connection. *)
HandleConnectedUnsent ==
  /\ Running("connected")
  /\ LET t == Established(Handling)
     IN  Becomes(CASE t.socket = "closed" -> Handling
                   [] t.socket = "up"     -> IF t.readFromConnect THEN Receive(t) ELSE t
                   [] OTHER               -> Throw(t))
  /\ UNCHANGED <<faceVars, appVars, wire>>

(* connectHandler() does nothing for a socket that was closed meanwhile    *)
(* (operation_canceled).  Its message names the remote endpoint: it throws *)
(* if the connection is gone already.                                      *)
HandleConnected ==
  /\ Running("connected")
  /\ LET t == Established(Handling)
         r == IF t.readFromConnect THEN Receive(t) ELSE t
     IN  Becomes(CASE t.socket = "closed" -> Handling
                   [] t.socket = "up"     -> IF r.queue # <<>> THEN Send(r) ELSE r
                   [] OTHER               -> Throw(t))
  /\ UNCHANGED <<faceVars, appVars, wire>>

HandleWritten ==
  /\ Running("written")
  /\ transport.protocol = "tcp"
  /\ LET t == [Handling EXCEPT !.queue = Tail(@)]
     IN  Becomes(IF t.queue # <<>> THEN Send(t) ELSE t)
  /\ UNCHANGED <<faceVars, appVars, wire>>

(* The handler of a read: messages, possibly after an incomplete one and   *)
(* possibly with another at the end; then the next read.  A block that is  *)
(* no well-formed packet throws.                                           *)
HandleRead ==
  /\ Running("read")
  /\ transport.protocol = "tcp"
  /\ \/ Becomes(AsyncRead(Complete(Handling))) \/ Becomes(AsyncRead(Incomplete(Handling)))
     \/ Becomes(Throw(Handling))
  /\ UNCHANGED <<faceVars, appVars, wire>>

(* The buffer is full and holds no message (the timer may just have been   *)
(* started), or the read failed.                                           *)
HandleReadFailed ==
  /\ \/ /\ Running("read")
        /\ transport.protocol = "tcp"
        /\ Callback(Close(Incomplete(Handling)))
     \/ Running("readFailed") /\ Callback(Close(Handling))
  /\ UNCHANGED <<subscribing, published, wire>>

HandleReceiveTimeout ==
  /\ Running("receiveTimedOut")
  /\ Callback([Handling EXCEPT !.isTimerStarted = FALSE])
  /\ UNCHANGED <<subscribing, published, wire>>

(* A datagram was sent: nothing is left to do. *)
HandleSent ==
  /\ Running("written")
  /\ transport.protocol = "udp"
  /\ Becomes(Handling)
  /\ UNCHANGED <<faceVars, appVars, wire>>

(* A datagram: a publication, after which the next one is read, a packet   *)
(* of another type, after which none is, or no well-formed packet, which   *)
(* throws.                                                                 *)
HandleDatagram ==
  /\ Running("read")
  /\ transport.protocol = "udp"
  /\ \/ Becomes(AsyncRead(Handling)) \/ Becomes([Handling EXCEPT !.hears = "never"])
     \/ Becomes(Throw(Handling))
  /\ UNCHANGED <<faceVars, appVars, wire>>

(* A datagram that does not decode closes the socket for good. *)
HandleBadDatagram ==
  /\ Running("read")
  /\ transport.protocol = "udp"
  /\ Callback(Close(Handling))
  /\ UNCHANGED <<subscribing, published, wire>>

HandleReadCanceled ==
  /\ Running("readCanceled")
  /\ Callback(Handling)
  /\ UNCHANGED <<subscribing, published, wire>>

-----------------------------------------------------------------------------
(* What the kernel and the router do *)

Resolves ==
  /\ status = "runs"
  /\ transport.resolves > 0
  /\ \E op \in {"resolved", "resolveFailed"} :
       transport' = Post([transport EXCEPT !.resolves = @ - 1], op)
  /\ UNCHANGED <<faceVars, status, appVars, wire>>

ConnectCompletes ==
  /\ status = "runs"
  /\ transport.socket = "connecting"
  /\ transport' \in {Post([transport EXCEPT !.socket = "up"], "connected"),
                     Post([transport EXCEPT !.socket = "lost"], "connectFailed")}
  /\ UNCHANGED <<faceVars, status, appVars, wire>>

WriteCompletes ==
  /\ status = "runs"
  /\ transport.protocol = "tcp"
  /\ transport.writes > 0
  /\ transport' = Post([transport EXCEPT !.writes = @ - 1], "written")
  /\ LET packet == Head(transport.queue)
     IN  wire' = IF packet = Sub THEN wire ELSE Append(wire, packet)
  /\ UNCHANGED <<faceVars, status, appVars>>

(* The kernel takes the datagrams in the order of the calls. *)
SendToCompletes ==
  /\ status = "runs"
  /\ transport.protocol = "udp"
  /\ transport.writes > 0
  /\ \E op \in {"written", "writeFailed"} :
       /\ transport' = Post([transport EXCEPT !.writes = @ - 1, !.queue = Tail(@)], op)
       /\ LET packet == Head(transport.queue)
          IN  wire' = IF packet = Sub \/ op = "writeFailed" THEN wire ELSE Append(wire, packet)
  /\ UNCHANGED <<faceVars, status, appVars>>

ReadCompletes ==
  /\ status = "runs"
  /\ transport.reads > 0
  /\ \E op \in {"read", "readFailed"} :
       transport' = Post([transport EXCEPT !.reads = @ - 1], op)
  /\ UNCHANGED <<faceVars, status, appVars, wire>>

(* The connection is reset: whatever is outstanding fails. *)
ConnectionLost ==
  /\ status = "runs"
  /\ transport.protocol = "tcp"
  /\ transport.socket = "up"
  /\ transport' = [transport EXCEPT
       !.socket = "lost", !.reads = 0, !.writes = 0,
       !.ready = @ \o [i \in 1..transport.reads |-> "readFailed"]
                   \o [i \in 1..transport.writes |-> "writeFailed"]]
  /\ UNCHANGED <<faceVars, status, appVars, wire>>

TimerExpires ==
  /\ status = "runs"
  /\ transport.timer # "off"
  /\ transport' = Post([transport EXCEPT !.timer = "off"],
       IF transport.timer = "connect" THEN "connectTimedOut" ELSE "receiveTimedOut")
  /\ UNCHANGED <<faceVars, status, appVars, wire>>

(* The interval is long enough for the loop to handle the last expiry. *)
ResendTimerExpires ==
  /\ status = "runs"
  /\ resendTimer = "armed"
  /\ ~Queued("resend")
  /\ resendTimer' = "off"
  /\ transport' = Post(transport, "resend")
  /\ UNCHANGED <<subscribing, status, appVars, wire>>

-----------------------------------------------------------------------------
EventLoop ==
  \/ HandleResend \/ HandleResolved \/ HandleConnected \/ HandleFailure
  \/ HandleWritten \/ HandleRead \/ HandleReadFailed \/ HandleReceiveTimeout
  \/ HandleSent \/ HandleDatagram \/ HandleBadDatagram \/ HandleReadCanceled

Next ==
  \/ EventLoop
  \/ Subscribe \/ Publish \/ SubscribeTooLong \/ PublishTooLong \/ Shutdown
  \/ Resolves \/ ConnectCompletes \/ WriteCompletes \/ ReadCompletes \/ ConnectionLost
  \/ SendToCompletes \/ TimerExpires \/ ResendTimerExpires

(* The loop runs and timers expire.  Connections that come up again and    *)
(* again live long enough, at some time, to write a packet.                *)
Fairness ==
  /\ WF_vars(EventLoop)
  /\ WF_vars(TimerExpires)
  /\ WF_vars(ResendTimerExpires)
  /\ SF_vars(WriteCompletes)
  /\ WF_vars(SendToCompletes)

Spec == Init /\ [][Next]_vars /\ Fairness

-----------------------------------------------------------------------------
(* How many handlers of some kinds are ready. *)
Count(ops) == Cardinality({i \in 1..Len(transport.ready) : transport.ready[i] \in ops})

(* Tcp: at most one write is under way, and there is one whenever the      *)
(* client is connected and packets wait: none is forgotten, none mixes     *)
(* with another.                                                           *)
OneWriteOfTheHead ==
  LET writing == transport.writes + Count({"written", "writeFailed"})
  IN  status = "runs" /\ transport.protocol = "tcp" =>
        /\ writing <= 1
        /\ transport.isConnected = 1 => (writing = 1) = (transport.queue # <<>>)

(* Publications come in the order of their numbers, Subs may be between.   *)
Ascending(packets) ==
  \A i, j \in 1..Len(packets) :
    i < j /\ Sub \notin {packets[i], packets[j]} => packets[i] < packets[j]

Numbers(packets) == {packets[i] : i \in 1..Len(packets)} \ {Sub}

(* Publications are written once and in order.  Over tcp none is skipped,  *)
(* whatever connections break between them: the queue continues where the  *)
(* wire ends.  Over udp one is lost only with an error on its way to       *)
(* run(), or with the socket.                                              *)
WrittenOnceInOrder ==
  LET twice == IF Queued("written") /\ Head(transport.queue) # Sub THEN 1 ELSE 0
  IN  status = "runs" =>
        /\ Ascending(transport.queue)
        /\ IF transport.protocol = "tcp"
           THEN /\ \A i \in 1..Len(wire) : wire[i] = i
                /\ Len(wire) - twice <= published
                /\ Numbers(transport.queue) = Len(wire) - twice + 1 .. published
           ELSE /\ Ascending(wire)
                /\ \A p \in Numbers(wire), q \in Numbers(transport.queue) : p < q
                /\ Numbers(wire) \cup Numbers(transport.queue) \subseteq 1..published
                /\ \/ 1..published \subseteq Numbers(wire) \cup Numbers(transport.queue)
                   \/ Queued("writeFailed") \/ transport.socket = "closed"

(* Tcp: m_isConnected says what the socket is: 1 on an open one, -1 when   *)
(* is none, and 0 only while a connection is being made ("0: connecting",  *)
(* include/fcopss/tcp-transport.hpp:71), which has a timeout unless the    *)
(* application has called shutdown(), as that cancels the timer but not    *)
(* the resolver.  A wrong state would be waited for by every later         *)
(* asyncWrite().                                                           *)
ConnectionStateIsTrue ==
  status = "runs" /\ transport.protocol = "tcp" =>
    CASE transport.isConnected = 1  -> transport.socket # "closed"
      [] transport.isConnected = -1 -> transport.socket = "closed"
      [] transport.isConnected = 0  ->
           /\ \/ transport.resolves > 0 \/ transport.socket = "connecting"
              \/ \E op \in {"resolved", "resolveFailed", "connected", "connectFailed"} : Queued(op)
           /\ shutDown \/ transport.timer = "connect" \/ Queued("connectTimedOut")

(* A subscriber never reads twice at once, and it reads as long as it is   *)
(* connected: over tcp on every connection, however often it is made anew, *)
(* and over udp until the socket is closed.  There are two exceptions (see *)
(* hears): a client that subscribed on a connection that was up is deaf on *)
(* the next, and a udp client after a packet that is no publication.       *)
SubscriberListens ==
  LET reading == transport.reads + Count({"read", "readFailed"})
      connected == IF transport.protocol = "tcp" THEN transport.isConnected = 1
                                                 ELSE transport.socket = "up"
  IN  status = "runs" =>
        /\ reading <= 1
        /\ subscribing /\ connected /\ transport.hears # "never" => reading = 1

(* The comment in connect(): "there will not be a situation where 2 timers *)
(* are set concurrently" (src/src/lib/tcp-transport.cpp:66).               *)
OneTimerAtATime == ~transport.twoTimers

(* A subscriber that resends gets its publications written in the end,     *)
(* over however many connections: again and again nothing is left to       *)
(* write, unless it is shut down or an exception ends the program.         *)
PublishedIsWritten ==
  subscribing ~> (Len(wire) = published \/ status = "ended" \/ shutDown)

=============================================================================

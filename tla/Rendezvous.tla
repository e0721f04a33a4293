----------------------------- MODULE Rendezvous -----------------------------
(***************************************************************************)
(* The rendezvous point: Forwarder, FaceManager, the tcp and udp servers   *)
(* and the event loop, with the clients and the kernel around them.        *)
(*                                                                         *)
(* A publication is answered on the face it came from, so what matters is  *)
(* which socket the kernel puts it into.  The udp server opens a socket    *)
(* for every datagram its own socket gets, bound to the same port with     *)
(* SO_REUSEPORT: between bind() and connect() the kernel may put datagrams *)
(* of any new client into it.                                              *)
(*                                                                         *)
(* The inside of a tcp transport, portions of packets and its timer, is    *)
(* that of module TcpTransport; here it reads and writes whole packets.    *)
(***************************************************************************)
EXTENDS SequencesExt, Integers

CONSTANTS
  TcpClients,   \* connections of tcp clients
  UdpClients,   \* endpoints of udp clients
  TcpKinds,     \* kinds of packets that tcp clients send
  UdpKinds,     \* kinds of packets that udp clients send
  TcpSends,     \* bound on the packets of one tcp client
  UdpSends,     \* bound on the packets of one udp client
  MaxSockets,   \* the process may have that many sockets of faces open
  MaxQueue      \* bound on what the kernel adds to the event queue

(* Packets with and without effect: PubToRp; Sub, PubFromRp, an unknown    *)
(* type or an empty datagram; bytes that are no packet.                    *)
Kinds == {"PubToRp", "ignored", "garbage"}

ASSUME RendezvousAssumption ==
  /\ TcpClients \cap UdpClients = {}
  /\ TcpKinds \cup UdpKinds \subseteq Kinds
  /\ {TcpSends, UdpSends, MaxSockets, MaxQueue} \subseteq Nat

VARIABLES
  up,         \* io_service::run has not been left
  accepting,  \* async_accept is outstanding
  receiving,  \* async_receive_from of the udp server is outstanding
  deaf,       \* an accept failed
  faces,      \* the ids in FaceManager::m_faceTable
  serial,     \* FaceManager::m_faceSerial
  owner,      \* client of the socket of every face ever created
  link,       \* state of that socket
  reading,    \* faces whose transport has a read outstanding
  out,        \* TcpTransport::m_sendQueue of every face
  queue,      \* what is ready to run in the io_service
  conn,       \* state of every client
  sends,      \* packets a client sent
  buffer,     \* packets in the receive buffer of the socket of a face
  datagrams,  \* packets in the receive buffer of the udp server
  raced,      \* datagrams that came between bind() and connect()
  got         \* publications a client received

server  == <<accepting, receiving, deaf>>
sockets == <<faces, serial, owner, link, reading, out>>
clients == <<conn, sends, got>>
kernel  == <<buffer, datagrams, raced>>
vars    == <<up, server, sockets, queue, clients, kernel>>

Clients     == TcpClients \cup UdpClients
MaxSends(c) == IF c \in TcpClients THEN TcpSends ELSE UdpSends
FirstSerial == 100
FaceIds     == FirstSerial+1 ..
                 FirstSerial + Cardinality(TcpClients) + UdpSends * Cardinality(UdpClients)
Created     == FirstSerial+1 .. serial

Packets ==
  [from : TcpClients, n : 1..TcpSends, kind : TcpKinds] \cup
  [from : UdpClients, n : 1..UdpSends, kind : UdpKinds]

Accepted(c)           == [op |-> "handleAccept", client |-> c]
AcceptFailed          == [op |-> "acceptFailed"]
Datagram(p)           == [op |-> "serverReceive", packet |-> p]
Received(f, p)        == [op |-> "handleReceive", face |-> f, packet |-> p]
Failed(f)             == [op |-> "failed", face |-> f]
TimedOut(f)           == [op |-> "handleTimeout", face |-> f]
ShutdownPosted(f)     == [op |-> "handleShutdown", face |-> f]
FaceShutdownPosted(f) == [op |-> "onFaceShutdown", face |-> f]

Running(e) == up /\ queue # <<>> /\ e = Head(queue)
Room == Len(queue) < MaxQueue

(* The sockets of faces, and of a connection that was just accepted. *)
SocketsInUse ==
  Cardinality({f \in Created : link[f] # "closed"}) +
  Cardinality({e \in Range(queue) : e.op = "handleAccept"})

NoDescriptor == SocketsInUse >= MaxSockets

Init ==
  /\ up = TRUE
  /\ accepting = TRUE /\ receiving = TRUE /\ deaf = FALSE
  /\ faces = {} /\ serial = FirstSerial
  /\ owner = <<>> /\ link = <<>> /\ reading = {} /\ out = <<>>
  /\ queue = <<>>
  /\ conn = [c \in Clients |-> "up"]
  /\ sends = [c \in Clients |-> <<>>]
  /\ got = [c \in Clients |-> <<>>]
  /\ buffer = <<>> /\ datagrams = <<>> /\ raced = {}

-----------------------------------------------------------------------------
(* Forwarder and Face *)

(* Mutant: the publication is sent to every face, as the router does. *)
OnPubToRpReceivedByAll(f, p, table, o, w) ==
  /\ got' = [c \in Clients |->
               IF c \in UdpClients /\ \E g \in table : o[g] = c THEN Append(got[c], p) ELSE got[c]]
  /\ out' = [g \in DOMAIN w |->
               IF g \in table /\ o[g] \in TcpClients THEN Append(w[g], p) ELSE w[g]]

(* A tcp transport queues what it sends; a datagram leaves at once, and    *)
(* may be lost.  The arguments are the tables with a face just created.    *)
TcpSend(f, p, w) ==
  /\ out' = [w EXCEPT ![f] = Append(@, p)]
  /\ UNCHANGED got

UdpSend(c, p, w) ==
  /\ out' = w
  /\ \/ conn[c] = "up" /\ got' = [got EXCEPT ![c] = Append(@, p)]
     \/ UNCHANGED got

Nothing(w) == out' = w /\ UNCHANGED got

OnPubToRpReceived(f, p, table, o, w) ==
  IF f \notin table
  THEN Nothing(w)
  ELSE IF o[f] \in TcpClients THEN TcpSend(f, p, w) ELSE UdpSend(o[f], p, w)

OnPacketReceived(f, p, table, o, w) ==
  IF p.kind = "PubToRp" THEN OnPubToRpReceived(f, p, table, o, w) ELSE Nothing(w)

-----------------------------------------------------------------------------
(* Transports *)

(* shutdown(): the read is cancelled, the rest is posted. *)
Shutdown(f) ==
  /\ link' = [link EXCEPT ![f] = IF @ = "open" THEN "closing" ELSE @]
  /\ reading' = reading \ {f}
  /\ queue' = Append(Tail(queue), ShutdownPosted(f))
  /\ UNCHANGED <<faces, serial, owner, out>>

(* Mutant: a packet without effect is not followed by another read. *)
HandleReceiveOnce(f, p) ==
  /\ Running(Received(f, p))
  /\ p.kind # "garbage"
  /\ OnPacketReceived(f, p, faces, owner, out)
  /\ reading' = IF p.kind = "ignored" THEN reading ELSE reading \cup {f}
  /\ queue' = Tail(queue)
  /\ UNCHANGED <<up, server, faces, serial, owner, link, conn, sends, kernel>>

HandleReceive(f, p) ==
  /\ Running(Received(f, p))
  /\ p.kind # "garbage"
  /\ OnPacketReceived(f, p, faces, owner, out)
  /\ reading' = reading \cup {f}
  /\ queue' = Tail(queue)
  /\ UNCHANGED <<up, server, faces, serial, owner, link, conn, sends, kernel>>

HandleGarbage(f, p) ==
  /\ Running(Received(f, p))
  /\ p.kind = "garbage"
  /\ Shutdown(f)
  /\ UNCHANGED <<up, server, clients, kernel>>

HandleFailure(f) ==
  /\ Running(Failed(f))
  /\ Shutdown(f)
  /\ UNCHANGED <<up, server, clients, kernel>>

(* An exception leaves io_service::run and ends the process. *)
Ends ==
  /\ up' = FALSE
  /\ UNCHANGED <<server, sockets, queue, clients, kernel>>

(* A socket whose peer has gone may have no remote endpoint.               *)
MayThrow(c) == conn[c] = "gone"

(* The warning names the remote endpoint.                                  *)
HandleTimeout(f) ==
  /\ Running(TimedOut(f))
  /\ \/ Shutdown(f) /\ UNCHANGED <<up, server, clients, kernel>>
     \/ MayThrow(owner[f]) /\ Ends

HandleShutdown(f) ==
  /\ Running(ShutdownPosted(f))
  /\ out' = [out EXCEPT ![f] = <<>>]
  /\ link' = [link EXCEPT ![f] = "closed"]
  /\ buffer' = [buffer EXCEPT ![f] = <<>>]
  /\ reading' = reading \ {f}
  /\ queue' = IF f \in faces
              THEN Append(Tail(queue), FaceShutdownPosted(f))
              ELSE Tail(queue)
  /\ UNCHANGED <<up, server, faces, serial, owner, clients, datagrams, raced>>

OnFaceShutdown(f) ==
  /\ Running(FaceShutdownPosted(f))
  /\ faces' = faces \ {f}
  /\ queue' = Tail(queue)
  /\ UNCHANGED <<up, server, serial, owner, link, reading, out, clients, kernel>>

-----------------------------------------------------------------------------
(* Servers *)

(* createFace: id, Face, its entry in the table.  x is what the kernel has *)
(* for the new socket, s its state once start() has returned.              *)
With(t, f, x) == [g \in Created \cup {f} |-> IF g = f THEN x ELSE t[g]]

CreateFace(c, s, x) ==
  LET f == serial + 1
  IN  /\ serial' = f
      /\ faces' = faces \cup {f}
      /\ owner' = With(owner, f, c)
      /\ link' = With(link, f, s)
      /\ reading' = IF s = "open" THEN reading \cup {f} ELSE reading
      /\ buffer' = With(buffer, f, x)

(* The constructor of Face asks for the remote endpoint, which throws when *)
(* the client is gone already.  What the client sent before waits in the   *)
(* socket.                                                                 *)
HandleAccept(c) ==
  /\ Running(Accepted(c))
  /\ \/ /\ CreateFace(c, "open", sends[c])
        /\ out' = With(out, serial + 1, <<>>)
        /\ accepting' = TRUE
        /\ queue' = Tail(queue)
        /\ UNCHANGED <<up, receiving, deaf, clients, datagrams, raced>>
     \/ MayThrow(c) /\ Ends

(* There is no further accept. *)
HandleAcceptFailed ==
  /\ Running(AcceptFailed)
  /\ deaf' = TRUE
  /\ queue' = Tail(queue)
  /\ UNCHANGED <<up, accepting, receiving, sockets, clients, kernel>>

Newcomers(c) == {d \in UdpClients : d # c /\ ~\E f \in Created : owner[f] = d /\ link[f] # "closed"}

(* A face is made for the sender, whether it has one or not, and start()   *)
(* handles the datagram at once.  A datagram of another new client may     *)
(* come into the new socket while it is not connected.                     *)
HandleDatagram(p) ==
  LET f == serial + 1
      c == p.from
      Make(arrived) ==
        /\ CreateFace(c, IF p.kind = "garbage" THEN "closing" ELSE "open", arrived)
        /\ OnPacketReceived(f, p, faces \cup {f}, With(owner, f, c), With(out, f, <<>>))
        /\ raced' = raced \cup Range(arrived)
        /\ receiving' = TRUE
        /\ queue' = IF p.kind = "garbage"
                    THEN Append(Tail(queue), ShutdownPosted(f))
                    ELSE Tail(queue)
        /\ UNCHANGED <<up, accepting, deaf, conn, datagrams>>
  IN  /\ Running(Datagram(p))
      /\ ~NoDescriptor
      /\ \/ Make(<<>>) /\ UNCHANGED sends
         \/ \E d \in Newcomers(c), kind \in UdpKinds :
              LET q == [from |-> d, n |-> Len(sends[d]) + 1, kind |-> kind]
              IN  /\ Len(sends[d]) < MaxSends(d)
                  /\ Make(<<q>>)
                  /\ sends' = [sends EXCEPT ![d] = Append(@, q)]

(* Opening the socket throws when the process has no descriptor left. *)
HandleDatagramThrows(p) ==
  /\ Running(Datagram(p))
  /\ NoDescriptor
  /\ Ends

EventLoop ==
  \/ \E f \in FaceIds, p \in Packets : HandleReceive(f, p) \/ HandleGarbage(f, p)
  \/ \E f \in FaceIds :
       HandleFailure(f) \/ HandleTimeout(f) \/ HandleShutdown(f) \/ OnFaceShutdown(f)
  \/ \E c \in TcpClients : HandleAccept(c)
  \/ HandleAcceptFailed
  \/ \E p \in Packets : HandleDatagram(p) \/ HandleDatagramThrows(p)

-----------------------------------------------------------------------------
(* Clients and the kernel *)

(* End of file, a reset connection, or a port that nobody reads any more.  *)
Leaves(c) ==
  /\ up
  /\ conn[c] = "up"
  /\ conn' = [conn EXCEPT ![c] = "gone"]
  /\ UNCHANGED <<up, server, sockets, queue, sends, got, kernel>>

SocketsOf(c) == {f \in Created : owner[f] = c /\ link[f] # "closed"}

(* A packet goes to a socket that is connected to the client; without one, *)
(* a datagram to the udp server, and a connection keeps it until accept.   *)
Sends(c, kind) ==
  LET p == [from |-> c, n |-> Len(sends[c]) + 1, kind |-> kind]
  IN  /\ up
      /\ conn[c] = "up"
      /\ Len(sends[c]) < MaxSends(c)
      /\ sends' = [sends EXCEPT ![c] = Append(@, p)]
      /\ \/ \E f \in SocketsOf(c) :
              buffer' = [buffer EXCEPT ![f] = Append(@, p)] /\ UNCHANGED datagrams
         \/ /\ SocketsOf(c) = {}
            /\ datagrams' = IF c \in UdpClients THEN Append(datagrams, p) ELSE datagrams
            /\ UNCHANGED buffer
      /\ UNCHANGED <<up, server, sockets, queue, conn, got, raced>>

Handled(c) ==
  Accepted(c) \in Range(queue) \/ \E f \in Created : owner[f] = c

AcceptCompletes(c) ==
  /\ up
  /\ accepting
  /\ ~Handled(c)
  /\ Room
  /\ accepting' = FALSE
  /\ queue' = Append(queue, IF NoDescriptor THEN AcceptFailed ELSE Accepted(c))
  /\ UNCHANGED <<up, receiving, deaf, sockets, clients, kernel>>

ServerReceiveCompletes ==
  /\ up
  /\ receiving
  /\ datagrams # <<>>
  /\ Room
  /\ receiving' = FALSE
  /\ datagrams' = Tail(datagrams)
  /\ queue' = Append(queue, Datagram(Head(datagrams)))
  /\ UNCHANGED <<up, accepting, deaf, sockets, clients, buffer, raced>>

(* What is in the buffer; then the end of a connection that either side    *)
(* ended, the error of a closed socket, or the ICMP error of a datagram    *)
(* to a client that is gone.                                               *)
ReadCompletes(f) ==
  /\ up
  /\ f \in reading
  /\ Room
  /\ reading' = reading \ {f}
  /\ \/ /\ buffer[f] # <<>>
        /\ buffer' = [buffer EXCEPT ![f] = Tail(@)]
        /\ queue' = Append(queue, Received(f, Head(buffer[f])))
     \/ /\ buffer[f] = <<>>
        /\ \/ link[f] = "closed"
           \/ link[f] = "closing" /\ owner[f] \in TcpClients
           \/ conn[owner[f]] = "gone"
        /\ queue' = Append(queue, Failed(f))
        /\ UNCHANGED buffer
  /\ UNCHANGED <<up, server, faces, serial, owner, link, out, clients, datagrams, raced>>

(* async_write of the head of the queue: done, or failed. *)
WriteCompletes(f) ==
  /\ up
  /\ out[f] # <<>>
  /\ \/ /\ conn[owner[f]] = "up" /\ link[f] = "open"
        /\ got' = [got EXCEPT ![owner[f]] = Append(@, Head(out[f]))]
        /\ out' = [out EXCEPT ![f] = Tail(@)]
        /\ UNCHANGED queue
     \/ /\ conn[owner[f]] = "gone" \/ link[f] # "open"
        /\ Room
        /\ Failed(f) \notin Range(queue)
        /\ queue' = Append(queue, Failed(f))
        /\ UNCHANGED <<got, out>>
  /\ UNCHANGED <<up, server, faces, serial, owner, link, reading, conn, sends, kernel>>

(* The rest of a packet did not come in time. *)
TimerExpires(f) ==
  /\ up
  /\ f \in reading
  /\ owner[f] \in TcpClients
  /\ Room
  /\ TimedOut(f) \notin Range(queue)
  /\ queue' = Append(queue, TimedOut(f))
  /\ UNCHANGED <<up, server, sockets, clients, kernel>>

(* The ICMP error of a datagram to a client that is gone may end a later   *)
(* send instead of a read.                                                 *)
SendFails(f) ==
  /\ up
  /\ owner[f] \in UdpClients
  /\ conn[owner[f]] = "gone"
  /\ link[f] = "open"
  /\ Room
  /\ Failed(f) \notin Range(queue)
  /\ queue' = Append(queue, Failed(f))
  /\ UNCHANGED <<up, server, sockets, clients, kernel>>

Kernel ==
  \/ \E c \in TcpClients : AcceptCompletes(c)
  \/ ServerReceiveCompletes
  \/ \E f \in Created : ReadCompletes(f) \/ WriteCompletes(f)

Environment ==
  \/ \E c \in Clients : Leaves(c)
  \/ \E c \in TcpClients, kind \in TcpKinds : Sends(c, kind)
  \/ \E c \in UdpClients, kind \in UdpKinds : Sends(c, kind)
  \/ \E f \in Created : TimerExpires(f) \/ SendFails(f)

Next == EventLoop \/ Kernel \/ Environment

(* The loop runs what is ready, and the kernel completes what it can. *)
Fairness ==
  /\ WF_vars(EventLoop)
  /\ WF_vars(ServerReceiveCompletes)
  /\ \A c \in TcpClients : WF_vars(AcceptCompletes(c))
  /\ \A f \in FaceIds : WF_vars(f \in Created /\ (ReadCompletes(f) \/ WriteCompletes(f)))

Spec == Init /\ [][Next]_vars /\ Fairness

-----------------------------------------------------------------------------
(* What came back of what was sent: publications as they were sent, each   *)
(* once and in order, and none before them skipped.                        *)
ComesBack(back, sent) ==
  /\ \A i \in 1..Len(back) : /\ back[i].kind = "PubToRp"
                             /\ back[i].n \in 1..Len(sent) /\ back[i] = sent[back[i].n]
  /\ \A i, j \in 1..Len(back) : i < j => back[i].n < back[j].n
  /\ \A n \in 1..Len(sent), j \in 1..Len(back) :
       sent[n].kind = "PubToRp" /\ n <= back[j].n => sent[n] \in Range(back)

(* A tcp client gets its own publications back, each once and in order;    *)
(* a udp client each at most once, and of others only what came into its   *)
(* socket between bind() and connect().                                    *)
AnsweredToPublisher ==
  /\ \A c \in TcpClients : ComesBack(got[c], sends[c])
  /\ \A c \in UdpClients :
       /\ IsInjective(got[c])
       /\ \A p \in Range(got[c]) : p.from = c \/ p \in raced

(* A tcp client that stays gets every publication back, also when it was   *)
(* sent before the connection was accepted, unless the process ended, the  *)
(* connection was cut off, or an accept that failed left it unaccepted.    *)
PublicationComesBack ==
  \A c \in TcpClients, n \in 1..TcpSends :
    LET p == [from |-> c, n |-> n, kind |-> "PubToRp"]
        CutOff == \E f \in Created : owner[f] = c /\ link[f] # "open"
    IN  p \in Range(sends[c]) ~>
          \/ p \in Range(got[c])
          \/ ~up \/ conn[c] = "gone" \/ CutOff
          \/ deaf /\ ~Handled(c)
=============================================================================

---------------------------- MODULE TcpTransport ----------------------------
(***************************************************************************)
(* One tcp transport of a router (or of the rendezvous point, which has    *)
(* the same class): its send queue, its receive buffer and receive timer,  *)
(* and its shutdown, over the event loop.  Module Router has many          *)
(* transports but only the state of their sockets; here one of them is     *)
(* seen from inside, together with the Face that owns it.                  *)
(*                                                                         *)
(* The byte stream consists of units: a packet is a sequence of units that *)
(* all carry its id and its size, the header that Block::fromBuffer reads. *)
(* Packets to send are numbered in the order of the calls of send().       *)
(***************************************************************************)
EXTENDS Naturals, Sequences, SequencesExt

CONSTANTS
  Incoming,       \* the packets the peer sends, each a sequence of units
  MaxPacketSize,  \* MAX_PACKET_SIZE, the size of m_receiveBuffer, in units
  MaxSends,       \* bound on the calls of send()
  MaxQueue        \* bound on what the environment adds to the event queue

(* Every unit of a packet tells how many units the packet has.             *)
Packets ==
  {packet \in Seq([id : Nat, size : Nat]) :
     packet # <<>> /\ \A i \in 1..Len(packet) : packet[i].size = Len(packet)}

ASSUME TransportAssumption ==
  /\ Incoming \in Seq(Packets)
  /\ MaxPacketSize \in Nat \ {0}
  /\ MaxSends \in Nat
  /\ MaxQueue \in Nat

VARIABLES
  sock,       \* "open", "shut" after shutdown(), "closed" after handleShutdown()
  peerUp,     \* the kernel still knows the remote endpoint of the socket
  face,       \* the face is in the face table
  alive,      \* no exception has left io_service::run
  sends,      \* number of calls of send()
  sendQueue,  \* m_sendQueue
  writing,    \* an async_write of the head of m_sendQueue is outstanding
  wire,       \* packets written in full
  taken,      \* number of units that were read from the peer
  buffer,     \* m_receiveBuffer, up to m_receivedBufferSize
  reading,    \* an async_receive is outstanding
  timer,      \* m_receiveTimer: "armed" or "off" (expires never)
  delivered,  \* packets given to Face::onPacketReceived or dropped there
  queue       \* what is ready to run in the io_service

sendVars == <<sends, sendQueue, wire>>
receiveVars == <<taken, buffer, delivered>>
vars == <<sock, peerUp, face, alive, sendVars, writing, receiveVars, reading, timer, queue>>

Bytes == FlattenSeq(Incoming)

(***************************************************************************)
(* Completions and posted functions.                                       *)
(***************************************************************************)
Read(units) == [op |-> "read", units |-> units]
Event(op)   == [op |-> op]

ReadFailed      == Event("readFailed")      \* eof or connection_reset
ReadAborted     == Event("readAborted")     \* operation_aborted
Written         == Event("written")
WriteFailed     == Event("writeFailed")     \* any error, also operation_aborted
TimedOut        == Event("timedOut")
ShutdownPosted  == Event("handleShutdown")
FaceShutdownPosted == Event("onFaceShutdown")

Queued(op) == \E i \in 1..Len(queue) : queue[i].op = op
Running(op) == alive /\ queue # <<>> /\ Head(queue).op = op
Room == Len(queue) < MaxQueue

(* What std::queue::pop leaves of an empty queue: no packet of send(). *)
Garbage == 0

Init ==
  /\ sock = "open"
  /\ peerUp = TRUE
  /\ face = TRUE
  /\ alive = TRUE
  /\ sends = 0
  /\ sendQueue = <<>>
  /\ writing = FALSE
  /\ wire = <<>>
  /\ taken = 0
  /\ buffer = <<>>
  /\ reading = TRUE
  /\ timer = "off"
  /\ delivered = <<>>
  /\ queue = <<>>

-----------------------------------------------------------------------------
(* Shutdown *)

If(condition, events) == IF condition THEN events ELSE <<>>

(* shutdown(): no more bytes either way, outstanding operations complete   *)
(* with operation_aborted, the rest is posted.  The timer runs on.         *)
Shutdown(rest) ==
  /\ sock' = IF sock = "open" THEN "shut" ELSE sock
  /\ reading' = FALSE
  /\ writing' = FALSE
  /\ queue' = rest \o If(reading, <<ReadAborted>>) \o If(writing, <<WriteFailed>>)
                   \o <<ShutdownPosted>>

(* The socket is closed and the packets that wait are dropped.  The face,  *)
(* if there still is one, posts its removal.                               *)
HandleShutdown ==
  /\ Running("handleShutdown")
  /\ sendQueue' = <<>>
  /\ sock' = "closed"
  /\ reading' = FALSE
  /\ writing' = FALSE
  /\ queue' = Tail(queue) \o If(reading, <<ReadAborted>>) \o If(writing, <<WriteFailed>>)
                          \o If(face, <<FaceShutdownPosted>>)
  /\ UNCHANGED <<peerUp, face, alive, sends, wire, receiveVars, timer>>

OnFaceShutdown ==
  /\ Running("onFaceShutdown")
  /\ face' = FALSE
  /\ queue' = Tail(queue)
  /\ UNCHANGED <<sock, peerUp, alive, sendVars, writing, receiveVars, reading, timer>>

(* FACE-DEL, possibly several times. *)
FaceDel ==
  /\ alive
  /\ face
  /\ Room
  /\ Shutdown(queue)
  /\ UNCHANGED <<peerUp, face, alive, sendVars, receiveVars, timer>>

-----------------------------------------------------------------------------
(* Sending *)

(* asyncSend(): on a socket that was shut down or closed, or whose         *)
(* connection is lost, the write fails at once.                            *)
AsyncSend(rest) ==
  LET works == sock = "open" /\ peerUp
  IN  /\ writing' = works
      /\ queue' = rest \o If(~works, <<WriteFailed>>)

(* send(): the write is started only by the call that finds the queue      *)
(* empty.  Faces are found in the face table, so it is called only while   *)
(* the face is in it.                                                      *)
Send ==
  /\ alive
  /\ face
  /\ sends < MaxSends
  /\ sends' = sends + 1
  /\ sendQueue' = Append(sendQueue, sends + 1)
  /\ IF sendQueue = <<>> THEN AsyncSend(queue) ELSE UNCHANGED <<writing, queue>>
  /\ UNCHANGED <<sock, peerUp, face, alive, wire, receiveVars, reading, timer>>

WriteCompletes ==
  /\ alive
  /\ writing
  /\ Room
  /\ writing' = FALSE
  /\ wire' = Append(wire, Head(sendQueue))
  /\ queue' = Append(queue, Written)
  /\ UNCHANGED <<sock, peerUp, face, alive, sends, sendQueue, receiveVars, reading, timer>>

(* handleSend() without error.  It does not ask whether there is a packet  *)
(* to pop: of an empty queue something undefined would remain.             *)
HandleSend ==
  /\ Running("written")
  /\ sendQueue' = IF sendQueue = <<>> THEN <<Garbage>> ELSE Tail(sendQueue)
  /\ IF sendQueue' # <<>> THEN AsyncSend(Tail(queue))
     ELSE queue' = Tail(queue) /\ UNCHANGED writing
  /\ UNCHANGED <<sock, peerUp, face, alive, sends, wire, receiveVars, reading, timer>>

(* Mutant: the packet that could not be sent is popped and the next tried. *)
HandleSendFailedGoesOn ==
  /\ Running("writeFailed")
  /\ sendQueue' = IF sendQueue = <<>> THEN <<>> ELSE Tail(sendQueue)
  /\ IF sendQueue' # <<>> THEN AsyncSend(Tail(queue))
     ELSE queue' = Tail(queue) /\ UNCHANGED writing
  /\ UNCHANGED <<sock, peerUp, face, alive, sends, wire, receiveVars, reading, timer>>

HandleSendFailed ==
  /\ Running("writeFailed")
  /\ Shutdown(Tail(queue))
  /\ UNCHANGED <<peerUp, face, alive, sendVars, receiveVars, timer>>

-----------------------------------------------------------------------------
(* Receiving *)

(* The loop over Block::fromBuffer: the offset after the last packet that  *)
(* is complete, and those packets.                                         *)
PacketAt(buf, offset) ==
  offset < Len(buf) /\ offset + buf[offset + 1].size <= Len(buf)

Offset(buf) ==
  LET from[o \in 0..Len(buf)] ==
        IF PacketAt(buf, o) THEN from[o + buf[o + 1].size] ELSE o
  IN  from[0]

PacketsIn(buf) ==
  LET from[o \in 0..Len(buf)] ==
        IF PacketAt(buf, o)
        THEN <<SubSeq(buf, o + 1, o + buf[o + 1].size)>> \o from[o + buf[o + 1].size]
        ELSE <<>>
  IN  from[0]

(* The units that the next read may get, and what remains of the buffer    *)
(* for them.                                                               *)
Arriving == {SubSeq(Bytes, taken + 1, n) : n \in taken + 1 .. Len(Bytes)}

Fitting(buf) == {units \in Arriving : Len(buf) + Len(units) <= MaxPacketSize}

ReadCompletes ==
  /\ alive
  /\ reading
  /\ Room
  /\ reading' = FALSE
  /\ \E units \in Fitting(buffer) :
       /\ taken' = taken + Len(units)
       /\ queue' = Append(queue, Read(units))
  /\ UNCHANGED <<sock, peerUp, face, alive, sendVars, writing, buffer, timer, delivered>>

(* The peer closes its end, or the connection is reset and with it the     *)
(* outstanding operations.                                                 *)
PeerCloses ==
  /\ alive
  /\ reading
  /\ Room
  /\ reading' = FALSE
  /\ queue' = Append(queue, ReadFailed)
  /\ UNCHANGED <<sock, peerUp, face, alive, sendVars, writing, receiveVars, timer>>

(* From then on the remote endpoint of the socket is not known any more.   *)
ConnectionLost ==
  /\ alive
  /\ peerUp
  /\ Room
  /\ peerUp' = FALSE
  /\ reading' = FALSE
  /\ writing' = FALSE
  /\ queue' = queue \o If(reading, <<ReadFailed>>) \o If(writing, <<WriteFailed>>)
  /\ UNCHANGED <<sock, face, alive, sendVars, receiveVars, timer>>

(* asyncReceive(timeout).  A socket that was shut down or lost its         *)
(* connection still yields what the kernel holds, then eof or the error; a *)
(* closed one an error; all of it at once.                                 *)
AsyncReceive(buf, rest) ==
  \/ /\ sock = "open" /\ peerUp
     /\ reading' = TRUE
     /\ queue' = rest
     /\ UNCHANGED taken
  \/ /\ sock = "shut" \/ (sock = "open" /\ ~peerUp)
     /\ \E units \in Fitting(buf) :
          /\ taken' = taken + Len(units)
          /\ queue' = Append(rest, Read(units))
     /\ UNCHANGED reading
  \/ /\ sock # "open" \/ ~peerUp
     /\ queue' = Append(rest, ReadFailed)
     /\ UNCHANGED <<taken, reading>>

(* Mutant: what follows the last complete packet is not kept. *)
HandleReceiveDropsRest ==
  /\ Running("read")
  /\ LET all == buffer \o Head(queue).units
     IN  /\ delivered' = delivered \o PacketsIn(all)
         /\ IF Offset(all) = 0 /\ Len(all) = MaxPacketSize
            THEN /\ buffer' = all
                 /\ timer' = "off"
                 /\ Shutdown(Tail(queue))
                 /\ UNCHANGED taken
            ELSE /\ buffer' = IF Offset(all) = 0 THEN all ELSE <<>>
                 /\ timer' = IF buffer' = <<>> THEN "off" ELSE "armed"
                 /\ AsyncReceive(buffer', Tail(queue))
                 /\ UNCHANGED <<sock, writing>>
  /\ UNCHANGED <<peerUp, face, alive, sendVars>>

(* Mutant: a partial packet leaves the timer off. *)
HandleReceiveUntimed ==
  /\ Running("read")
  /\ LET all == buffer \o Head(queue).units
     IN  /\ delivered' = delivered \o PacketsIn(all)
         /\ timer' = "off"
         /\ IF Offset(all) = 0 /\ Len(all) = MaxPacketSize
            THEN /\ buffer' = all
                 /\ Shutdown(Tail(queue))
                 /\ UNCHANGED taken
            ELSE /\ buffer' = SubSeq(all, Offset(all) + 1, Len(all))
                 /\ AsyncReceive(buffer', Tail(queue))
                 /\ UNCHANGED <<sock, writing>>
  /\ UNCHANGED <<peerUp, face, alive, sendVars>>

(* handleReceive() without error: complete packets leave the buffer, what  *)
(* follows them moves to its begin, and a timer runs as long as a packet   *)
(* is incomplete.  A full buffer without a packet ends the connection.     *)
HandleReceive ==
  /\ Running("read")
  /\ LET all == buffer \o Head(queue).units
     IN  /\ delivered' = delivered \o PacketsIn(all)
         /\ IF Offset(all) = 0 /\ Len(all) = MaxPacketSize
            THEN /\ buffer' = all
                 /\ timer' = "off"
                 /\ Shutdown(Tail(queue))
                 /\ UNCHANGED taken
            ELSE /\ buffer' = SubSeq(all, Offset(all) + 1, Len(all))
                 /\ timer' = IF buffer' = <<>> THEN "off" ELSE "armed"
                 /\ AsyncReceive(buffer', Tail(queue))
                 /\ UNCHANGED <<sock, writing>>
  /\ UNCHANGED <<peerUp, face, alive, sendVars>>

(* Mutant: the end of the stream is not taken for the end of the transport.*)
HandleReceiveFailedSilently ==
  /\ Running("readFailed")
  /\ timer' = "off"
  /\ queue' = Tail(queue)
  /\ UNCHANGED <<sock, peerUp, face, alive, sendVars, writing, receiveVars, reading>>

HandleReceiveFailed ==
  /\ Running("readFailed")
  /\ timer' = "off"
  /\ Shutdown(Tail(queue))
  /\ UNCHANGED <<peerUp, face, alive, sendVars, receiveVars>>

HandleReceiveAborted ==
  /\ Running("readAborted")
  /\ timer' = "off"
  /\ queue' = Tail(queue)
  /\ UNCHANGED <<sock, peerUp, face, alive, sendVars, writing, receiveVars, reading>>

TimerExpires ==
  /\ alive
  /\ timer = "armed"
  /\ timer' = "off"
  /\ queue' = Append(queue, TimedOut)
  /\ UNCHANGED <<sock, peerUp, face, alive, sendVars, writing, receiveVars, reading>>

(* handleTimeout().  Its warning names the remote endpoint: when there is  *)
(* none any more, remote_endpoint() throws, and nothing catches it before  *)
(* it leaves io_service::run and ends the process.                         *)
HandleTimeout ==
  /\ Running("timedOut")
  /\ sock # "closed" /\ peerUp
  /\ Shutdown(Tail(queue))
  /\ UNCHANGED <<peerUp, face, alive, sendVars, receiveVars, timer>>

HandleTimeoutThrows ==
  /\ Running("timedOut")
  /\ sock = "closed" \/ ~peerUp
  /\ alive' = FALSE
  /\ queue' = Tail(queue)
  /\ UNCHANGED <<sock, peerUp, face, sendVars, writing, receiveVars, reading, timer>>

-----------------------------------------------------------------------------
EventLoop ==
  \/ HandleReceive \/ HandleReceiveFailed \/ HandleReceiveAborted
  \/ HandleSend \/ HandleSendFailed
  \/ HandleTimeout \/ HandleTimeoutThrows
  \/ HandleShutdown \/ OnFaceShutdown

Next ==
  \/ EventLoop
  \/ Send \/ FaceDel
  \/ ReadCompletes \/ PeerCloses \/ ConnectionLost \/ WriteCompletes \/ TimerExpires

(* The loop runs, an armed timer expires. *)
Fairness == WF_vars(EventLoop) /\ WF_vars(TimerExpires)

Spec == Init /\ [][Next]_vars /\ Fairness

-----------------------------------------------------------------------------
ReadUnits ==
  LET reads == {i \in 1..Len(queue) : queue[i].op = "read"}
  IN  IF reads = {} THEN <<>> ELSE queue[CHOOSE i \in reads : \A j \in reads : i <= j].units

(* Packets are written one by one in the order of send(), none twice, and  *)
(* until the socket is closed none is lost.  While it is open exactly one  *)
(* write is under way when there are packets, of the first of them, so     *)
(* none is forgotten and none mixes with another on the wire; and          *)
(* handleSend never pops an empty queue, although handleShutdown empties   *)
(* it while completions of writes may be waiting.                          *)
SentOneByOne ==
  /\ \A i \in 1..Len(wire) : wire[i] = i
  /\ ~(writing /\ Queued("written"))
  /\ Queued("written") => sendQueue # <<>>
  /\ sock = "open" =>
       /\ ~(Queued("writeFailed") /\ (writing \/ Queued("written")))
       /\ (sendQueue # <<>>) = (writing \/ Queued("written") \/ Queued("writeFailed"))
  /\ sock # "closed" =>
       /\ Len(wire) + Len(sendQueue) = sends + (IF Queued("written") THEN 1 ELSE 0)
       /\ \A i \in 1..Len(sendQueue) : sendQueue[i] = sends - Len(sendQueue) + i

(* The face gets the packets the peer sent, whole and in order, whatever   *)
(* pieces the stream comes in, and no unit is lost between two reads.  The *)
(* buffer is never overrun, and a read never starts into a full one:       *)
(* async_receive of no bytes would complete at once, for ever.             *)
WholePacketsInOrder ==
  /\ IsPrefix(delivered, Incoming)
  /\ FlattenSeq(delivered) \o buffer \o ReadUnits = SubSeq(Bytes, 1, taken)
  /\ Len(buffer \o ReadUnits) <= MaxPacketSize
  /\ reading => Len(buffer) < MaxPacketSize

(* A peer that stops in the middle of a packet is cut off.                 *)
StalledPeerIsCutOff ==
  \A n \in 0..Len(Bytes) :
    (buffer # <<>> /\ taken = n) ~> (taken # n \/ buffer = <<>> \/ sock # "open" \/ ~alive)

(* A lost connection removes the face from the face table (or ends the     *)
(* process, when a receive timeout is handled after the connection is      *)
(* gone).                                                                  *)
LostConnectionIsNoticed == ~peerUp ~> (~face \/ ~alive)

=============================================================================

------------------------------- MODULE Router -------------------------------
(***************************************************************************)
(* The router process: Forwarder, the subscription table (St), the         *)
(* forwarding table (Fib), FaceManager with its Faces, and the event loop  *)
(* that drives them.                                                       *)
(*                                                                         *)
(* The process has one thread in io_service::run.  Every completion (a     *)
(* finished read, an expired timer, a failed write) and every posted       *)
(* function is appended to one queue, and handlers run from its head to    *)
(* completion, one after the other.  What a step sees may therefore be     *)
(* older than what earlier handlers did: a timer that fired before its     *)
(* next hop was refreshed still has its onExpired in the queue, a packet   *)
(* may be handled after the transport it came from was shut down.          *)
(*                                                                         *)
(* Transports are abstracted to the state of their socket and to whether   *)
(* a read is outstanding.  Commands of rtctrl and new connections are      *)
(* handlers too; as nothing limits when they become ready, they are steps  *)
(* that may be taken at any time.                                          *)
(***************************************************************************)
EXTENDS St, Fib, FiniteSets

CONSTANTS
  SubCds,       \* CDs that subscribers send
  PubCds,       \* CDs that publishers send
  FibNames,     \* names that rtctrl routes
  Costs,
  TcpRemotes,   \* remote endpoints (ip, port) of tcp faces
  UdpRemotes,   \* remote endpoints of udp faces
  MaxFaces,     \* bound on the faces ever created
  MaxQueue      \* bound on what the environment adds to the event queue

ASSUME RouterAssumption ==
  /\ SubCds \cup PubCds \cup FibNames \subseteq CdBlocks
  /\ Costs \subseteq Nat
  /\ MaxFaces \in Nat
  /\ MaxQueue \in Nat
  /\ TcpRemotes \cap UdpRemotes = {}

VARIABLES
  faces,      \* the ids in FaceManager::m_faceTable
  serial,     \* FaceManager::m_faceSerial
  peer,       \* remote endpoint of the transport of every face ever created
  link,       \* state of its socket
  reading,    \* faces whose transport has a read outstanding
  queue,      \* what is ready to run in the io_service
  st,         \* StImpl::m_st
  fib,        \* Fib::m_fib
  sent        \* packets the last handler gave to Face::send

tables == <<st, fib>>
transports == <<peer, link, reading>>
vars == <<faces, serial, peer, link, reading, queue, st, fib, sent>>

FirstSerial == 100
LastSerial  == FirstSerial + MaxFaces
FaceIds     == FirstSerial+1 .. LastSerial
Created     == FirstSerial+1 .. serial
Remotes     == TcpRemotes \cup UdpRemotes

Packets ==
  [type : {"Sub"}, cd : SubCds] \cup [type : {"PubToRp", "PubFromRp"}, cd : PubCds]

(***************************************************************************)
(* What may wait in the queue.  A failed read consumes the outstanding     *)
(* read; a failed write or a receive timeout does not, and all end in      *)
(* Transport::shutdown.                                                    *)
(***************************************************************************)
Received(f, p)      == [op |-> "handleReceive", face |-> f, packet |-> p]
Failed(f)           == [op |-> "failed", face |-> f]
ShutdownPosted(f)   == [op |-> "handleShutdown", face |-> f]
FaceShutdownPosted(f) == [op |-> "onFaceShutdown", face |-> f]
Expired(c, f)       == [op |-> "onExpired", face |-> f, cd |-> c]

Events ==
  {Received(f, p) : f \in FaceIds, p \in Packets}
    \cup {Failed(f) : f \in FaceIds}
    \cup {ShutdownPosted(f) : f \in FaceIds}
    \cup {FaceShutdownPosted(f) : f \in FaceIds}
    \cup {Expired(c, f) : c \in SubCds, f \in FaceIds}

Queued(e) == \E i \in 1..Len(queue) : queue[i] = e

Running(e) == queue # <<>> /\ e = Head(queue)

Room == Len(queue) < MaxQueue

Init ==
  /\ faces = {}
  /\ serial = FirstSerial
  /\ peer = [f \in {} |-> {}]
  /\ link = [f \in {} |-> {}]
  /\ reading = {}
  /\ queue = <<>>
  /\ st = EmptyTable
  /\ fib = EmptyTable
  /\ sent = {}

-----------------------------------------------------------------------------
(* FaceManager *)

FacesTo(r) == {f \in faces : peer[f] = r}

(* find(type, ip, port) walks the table from the lowest id. *)
Find(r) == CHOOSE f \in FacesTo(r) : \A g \in FacesTo(r) : f <= g

(* Mutant: createFaceId returns m_faceSerial++. *)
CreateFacePostIncrement(r, state) ==
  LET id == serial
  IN  /\ serial < LastSerial
      /\ serial' = serial + 1
      /\ faces' = faces \cup {id}
      /\ peer' = [f \in Created \cup {id} |-> IF f = id THEN r ELSE peer[f]]
      /\ link' = [f \in Created \cup {id} |-> IF f = id THEN state ELSE link[f]]

(* createFaceId, the new transport and its entry in the table. *)
CreateFace(r, state) ==
  LET id == serial + 1
  IN  /\ serial < LastSerial
      /\ serial' = id
      /\ faces' = faces \cup {id}
      /\ peer' = [f \in Created \cup {id} |-> IF f = id THEN r ELSE peer[f]]
      /\ link' = [f \in Created \cup {id} |-> IF f = id THEN state ELSE link[f]]

-----------------------------------------------------------------------------
(* Forwarder.  A packet goes to the matching faces that the table of the   *)
(* FaceManager still holds.                                                *)

SendTo(type, cd, ids) ==
  {[face |-> f, packet |-> [type |-> type, cd |-> cd]] : f \in ids \cap faces}

(* Mutant: a Sub that has no route is dropped before it is recorded. *)
OnSubReceivedIfRouted(f, cd) ==
  /\ st' = IF FibMatch(fib, cd) = {} THEN st ELSE StAdd(st, cd, f)
  /\ sent' = SendTo("Sub", cd, FibMatch(fib, cd))

OnSubReceived(f, cd) ==
  /\ st' = StAdd(st, cd, f)
  /\ sent' = SendTo("Sub", cd, FibMatch(fib, cd))

OnPubToRpReceived(f, cd) ==
  /\ sent' = SendTo("PubToRp", cd, FibMatch(fib, cd))
  /\ UNCHANGED st

OnPubFromRpReceived(f, cd) ==
  /\ sent' = SendTo("PubFromRp", cd, StMatch(st, cd))
  /\ UNCHANGED st

OnPacketReceived(f, p) ==
  \/ p.type = "Sub" /\ OnSubReceived(f, p.cd)
  \/ p.type = "PubToRp" /\ OnPubToRpReceived(f, p.cd)
  \/ p.type = "PubFromRp" /\ OnPubFromRpReceived(f, p.cd)

-----------------------------------------------------------------------------
(* Transports *)

(* Mutant: shutdown calls the callback of the face before the socket is    *)
(* closed.                                                                 *)
ShutdownOfAtOnce(f, rest) ==
  /\ link' = [link EXCEPT ![f] = IF @ = "open" THEN "closing" ELSE @]
  /\ reading' = reading \ {f}
  /\ queue' = Append(rest, FaceShutdownPosted(f))

(* shutdown(): the outstanding read is cancelled, which completes with     *)
(* operation_aborted and has no effect; the rest is posted.  It may be     *)
(* called again on a transport that is already closing or closed.          *)
ShutdownOf(f, rest) ==
  /\ link' = [link EXCEPT ![f] = IF @ = "open" THEN "closing" ELSE @]
  /\ reading' = reading \ {f}
  /\ queue' = Append(rest, ShutdownPosted(f))

(* Mutant: a packet left in the buffer is handled later, but the next read *)
(* starts at once.                                                         *)
RearmTwice(f, rest) ==
  /\ reading' = reading \cup {f}
  /\ \/ queue' = rest
     \/ \E p \in Packets : queue' = Append(rest, Received(f, p))

(* asyncReceive() at the end of handleReceive.  A tcp socket that was shut *)
(* down still gives what its buffer holds, then end of file, at once; a    *)
(* udp socket was only cancelled and reads on; a closed one gives an error.*)
Rearm(f, rest) ==
  \/ /\ link[f] = "open" \/ (link[f] = "closing" /\ peer[f] \in UdpRemotes)
     /\ reading' = reading \cup {f}
     /\ queue' = rest
  \/ /\ link[f] = "closed" \/ (link[f] = "closing" /\ peer[f] \in TcpRemotes)
     /\ queue' = Append(rest, Failed(f))
     /\ UNCHANGED reading
  \/ /\ link[f] = "closing" /\ peer[f] \in TcpRemotes
     /\ \E p \in Packets : queue' = Append(rest, Received(f, p))
     /\ UNCHANGED reading

-----------------------------------------------------------------------------
(* Events of the environment: they make a handler ready to run. *)

PacketArrives(f, p) ==
  /\ f \in reading
  /\ Room
  /\ reading' = reading \ {f}
  /\ queue' = Append(queue, Received(f, p))
  /\ sent' = {}
  /\ UNCHANGED <<faces, serial, peer, link, tables>>

(* End of file, a reset connection, or bytes that are no packet. *)
ReadFails(f) ==
  /\ f \in reading
  /\ Room
  /\ reading' = reading \ {f}
  /\ queue' = Append(queue, Failed(f))
  /\ sent' = {}
  /\ UNCHANGED <<faces, serial, peer, link, tables>>

(* A write fails, or the rest of a partial packet does not come in time. *)
WriteFailsOrTimeout(f) ==
  /\ f \in faces
  /\ Room
  /\ queue' = Append(queue, Failed(f))
  /\ sent' = {}
  /\ UNCHANGED <<faces, serial, transports, tables>>

TimerFires(cd, f) ==
  /\ <<cd, f>> \in Hops(st)
  /\ st[cd][f] = "armed"
  /\ st' = StFire(st, cd, f)
  /\ queue' = Append(queue, Expired(cd, f))
  /\ sent' = {}
  /\ UNCHANGED <<faces, serial, transports, fib>>

-----------------------------------------------------------------------------
(* Handlers that the event loop takes from the head of the queue. *)

(* The packet is handed to the face only while the face exists: the        *)
(* transport holds a weak_ptr, the face table the only shared_ptr.         *)
HandleReceive(f, p) ==
  /\ Running(Received(f, p))
  /\ \/ f \in faces /\ OnPacketReceived(f, p)
     \/ f \notin faces /\ sent' = {} /\ UNCHANGED st
  /\ Rearm(f, Tail(queue))
  /\ UNCHANGED <<faces, serial, peer, link, fib>>

HandleFailure(f) ==
  /\ Running(Failed(f))
  /\ ShutdownOf(f, Tail(queue))
  /\ sent' = {}
  /\ UNCHANGED <<faces, serial, peer, tables>>

(* Mutant: the shutdown callback is not called. *)
HandleShutdownSilently(f) ==
  /\ Running(ShutdownPosted(f))
  /\ link' = [link EXCEPT ![f] = "closed"]
  /\ reading' = reading \ {f}
  /\ queue' = Tail(queue)
  /\ sent' = {}
  /\ UNCHANGED <<faces, serial, peer, tables>>

HandleShutdown(f) ==
  /\ Running(ShutdownPosted(f))
  /\ link' = [link EXCEPT ![f] = "closed"]
  /\ reading' = reading \ {f}
  /\ queue' = IF f \in faces
              THEN Append(Tail(queue), FaceShutdownPosted(f))
              ELSE Tail(queue)
  /\ sent' = {}
  /\ UNCHANGED <<faces, serial, peer, tables>>

(* Mutant: the routes of the face are forgotten in the purge. *)
OnFaceShutdownKeepsRoutes(f) ==
  /\ Running(FaceShutdownPosted(f))
  /\ queue' = Tail(queue)
  /\ st' = StRemoveFace(st, f)
  /\ faces' = faces \ {f}
  /\ sent' = {}
  /\ UNCHANGED <<serial, transports, fib>>

OnFaceShutdown(f) ==
  /\ Running(FaceShutdownPosted(f))
  /\ queue' = Tail(queue)
  /\ st' = StRemoveFace(st, f)
  /\ fib' = FibRemoveFace(fib, f)
  /\ faces' = faces \ {f}
  /\ sent' = {}
  /\ UNCHANGED <<serial, transports>>

(* Mutant: onExpired looks whether the timer is still armed, the wrong way *)
(* round.                                                                  *)
OnExpiredIfArmed(cd, f) ==
  /\ Running(Expired(cd, f))
  /\ queue' = Tail(queue)
  /\ st' = IF <<cd, f>> \in Hops(st) /\ st[cd][f] = "armed" THEN StRemoveHop(st, cd, f) ELSE st
  /\ sent' = {}
  /\ UNCHANGED <<faces, serial, transports, fib>>

(* onExpired does not ask whether the timer is still that of the next hop. *)
OnExpired(cd, f) ==
  /\ Running(Expired(cd, f))
  /\ queue' = Tail(queue)
  /\ st' = StRemoveHop(st, cd, f)
  /\ sent' = {}
  /\ UNCHANGED <<faces, serial, transports, fib>>

EventLoop ==
  \/ \E f \in FaceIds, p \in Packets : HandleReceive(f, p)
  \/ \E f \in FaceIds : HandleFailure(f) \/ HandleShutdown(f) \/ OnFaceShutdown(f)
  \/ \E cd \in SubCds, f \in FaceIds : OnExpired(cd, f)

-----------------------------------------------------------------------------
(* New faces *)

AcceptTcp(r) ==
  /\ CreateFace(r, "open")
  /\ reading' = reading \cup {serial + 1}
  /\ sent' = {}
  /\ UNCHANGED <<queue, tables>>

(* UdpServer makes a face for every datagram its own socket gets, also     *)
(* when a face for the same remote exists; start() handles the datagram    *)
(* that made the face before anything else runs.                           *)
AcceptUdp(r, p) ==
  /\ CreateFace(r, "open")
  /\ OnPacketReceived(serial + 1, p)
  /\ reading' = reading \cup {serial + 1}
  /\ UNCHANGED <<queue, fib>>

(* The datagram is no packet: the new transport is shut down at once. *)
AcceptUdpGarbage(r) ==
  /\ Room
  /\ CreateFace(r, "closing")
  /\ queue' = Append(queue, ShutdownPosted(serial + 1))
  /\ sent' = {}
  /\ UNCHANGED <<reading, tables>>

-----------------------------------------------------------------------------
(* Commands of rtctrl, as CmdServer carries them out. *)

FibAddToFace(name, r, cost) ==
  /\ FacesTo(r) # {}
  /\ fib' = FibAdd(fib, name, Find(r), cost)
  /\ sent' = {}
  /\ UNCHANGED <<faces, serial, transports, queue, st>>

(* No face leads to r: one is made, at once for udp and when the           *)
(* connection is up for tcp, and fibAdd looks the face up again.  While a  *)
(* tcp connection was being made another face to r may have come up, and   *)
(* then the lookup finds that one.                                         *)
FibAddNewFace(name, r, cost) ==
  /\ r \in UdpRemotes => FacesTo(r) = {}
  /\ CreateFace(r, "open")
  /\ reading' = reading \cup {serial + 1}
  /\ fib' = FibAdd(fib, name, IF FacesTo(r) = {} THEN serial + 1 ELSE Find(r), cost)
  /\ sent' = {}
  /\ UNCHANGED <<queue, st>>

FibDelHop(name, r) ==
  /\ FacesTo(r) # {}
  /\ fib' = FibRemoveHop(fib, name, Find(r))
  /\ sent' = {}
  /\ UNCHANGED <<faces, serial, transports, queue, st>>

FibDelName(name) ==
  /\ fib' = FibRemoveName(fib, name)
  /\ sent' = {}
  /\ UNCHANGED <<faces, serial, transports, queue, st>>

(* Mutant: the faces of the routes are removed with them. *)
FibDelAllAndFaces ==
  /\ fib' = FibClear
  /\ faces' = faces \ {hop[2] : hop \in Hops(fib)}
  /\ sent' = {}
  /\ UNCHANGED <<serial, transports, queue, st>>

FibDelAll ==
  /\ fib' = FibClear
  /\ sent' = {}
  /\ UNCHANGED <<faces, serial, transports, queue, st>>

StDel ==
  /\ st' = StClear
  /\ sent' = {}
  /\ UNCHANGED <<faces, serial, transports, queue, fib>>

FaceDel(f) ==
  /\ f \in faces
  /\ Room
  /\ ShutdownOf(f, queue)
  /\ sent' = {}
  /\ UNCHANGED <<faces, serial, peer, tables>>

-----------------------------------------------------------------------------
Environment ==
  \/ \E f \in FaceIds, p \in Packets : PacketArrives(f, p)
  \/ \E f \in FaceIds : ReadFails(f) \/ WriteFailsOrTimeout(f)
  \/ \E cd \in SubCds, f \in FaceIds : TimerFires(cd, f)

NewFaces ==
  \/ \E r \in TcpRemotes : AcceptTcp(r)
  \/ \E r \in UdpRemotes : AcceptUdpGarbage(r) \/ \E p \in Packets : AcceptUdp(r, p)

Commands ==
  \/ \E name \in FibNames, r \in Remotes, cost \in Costs :
       FibAddToFace(name, r, cost) \/ FibAddNewFace(name, r, cost)
  \/ \E name \in FibNames, r \in Remotes : FibDelHop(name, r)
  \/ \E name \in FibNames : FibDelName(name)
  \/ FibDelAll
  \/ StDel
  \/ \E f \in FaceIds : FaceDel(f)

Next == EventLoop \/ Environment \/ NewFaces \/ Commands

(* The loop runs whatever is ready, and every deadline_timer expires.      *)
Fairness ==
  /\ WF_vars(EventLoop)
  /\ \A cd \in SubCds, f \in FaceIds : WF_vars(TimerFires(cd, f))

Spec == Init /\ [][Next]_vars /\ Fairness

=============================================================================

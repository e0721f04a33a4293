---------------------------- MODULE RouterProofs ----------------------------
(***************************************************************************)
(* Proofs about the router, for every set of CDs, names, costs and remotes *)
(* and every bound: the safety properties of its tables, and what its      *)
(* steps do with subscriptions and with packets; how faces go, by the      *)
(* shutdown of a face and the reads of its transport; and, with those,     *)
(* that the router implements the abstract table of PubSubTable: its       *)
(* initial state is that of the table, and every step is a step of the     *)
(* table or leaves it as it is.                                            *)
(***************************************************************************)
EXTENDS RouterProperties, DataProofs

USE RouterAssumption

(***************************************************************************)
(* The event queue, and the reads that wait in it.                         *)
(***************************************************************************)
ReadsIn(q, f) == {i \in 1..Len(q) : q[i].op = "handleReceive" /\ q[i].face = f}

LEMMA AppendReads ==
  ASSUME NEW S, NEW q \in Seq(S), NEW x \in S, NEW f
  PROVE  /\ x.op # "handleReceive" \/ x.face # f => ReadsIn(Append(q, x), f) = ReadsIn(q, f)
         /\ x.op = "handleReceive" /\ x.face = f
              => ReadsIn(Append(q, x), f) = ReadsIn(q, f) \cup {Len(q) + 1}
<1>1. /\ Len(Append(q, x)) = Len(q) + 1
      /\ Append(q, x)[Len(q) + 1] = x
      /\ \A i \in 1..Len(q) : Append(q, x)[i] = q[i]
      /\ Len(q) \in Nat
  BY AppendProperties
<1>2. 1..Len(Append(q, x)) = 1..Len(q) \cup {Len(q) + 1}
  BY <1>1
<1>3. ASSUME x.op # "handleReceive" \/ x.face # f
      PROVE  ReadsIn(Append(q, x), f) = ReadsIn(q, f)
  BY <1>1, <1>2, <1>3 DEF ReadsIn
<1>4. ASSUME x.op = "handleReceive", x.face = f
      PROVE  ReadsIn(Append(q, x), f) = ReadsIn(q, f) \cup {Len(q) + 1}
  BY <1>1, <1>2, <1>4 DEF ReadsIn
<1> QED BY <1>3, <1>4

LEMMA TailReads ==
  ASSUME NEW S, NEW q \in Seq(S), q # <<>>, NEW f
  PROVE  /\ \A i \in ReadsIn(Tail(q), f) : i \in Nat /\ i + 1 \in ReadsIn(q, f)
         /\ \A i \in ReadsIn(q, f) : i # 1 => i - 1 \in ReadsIn(Tail(q), f)
         /\ 1 \in ReadsIn(q, f) <=> Head(q).op = "handleReceive" /\ Head(q).face = f
         /\ ReadsIn(q, f) \subseteq Nat
<1>1. /\ Head(q) = q[1]
      /\ Len(Tail(q)) = Len(q) - 1
      /\ \A i \in 1..Len(Tail(q)) : Tail(q)[i] = q[i+1]
      /\ Len(q) \in Nat /\ Len(q) >= 1
  BY HeadTailProperties, EmptySeq, LenProperties
<1> QED BY <1>1 DEF ReadsIn

-----------------------------------------------------------------------------
(***************************************************************************)
(* Types.                                                                  *)
(***************************************************************************)
FacesOK == /\ faces \subseteq Created
           /\ serial \in FirstSerial..LastSerial
           /\ peer \in [Created -> Remotes]
           /\ link \in [Created -> {"open", "closing", "closed"}]
           /\ reading \subseteq Created

QueueOK == /\ queue \in Seq(Events)
           /\ \A e : Holds(queue, e) => e.face \in Created

TablesOK == IsTable(st, SubCds, TimerStates) /\ IsTable(fib, FibNames, Costs)

SentOK == sent \subseteq [face : FaceIds, packet : Packets]

LEMMA TypeParts == TypeOK <=> FacesOK /\ QueueOK /\ TablesOK /\ SentOK
  BY DEF TypeOK, FacesOK, QueueOK, TablesOK, SentOK, Holds

LEMMA CreatedFaces ==
  ASSUME FacesOK
  PROVE  /\ Created \subseteq FaceIds
         /\ FaceIds \subseteq Nat
         /\ serial \in Nat /\ serial + 1 \notin Created
         /\ serial < LastSerial => serial + 1 \in FaceIds
  BY DEF FacesOK, Created, FaceIds, FirstSerial, LastSerial

LEMMA EventsOfFaces ==
  ASSUME NEW f \in FaceIds
  PROVE  /\ Failed(f) \in Events /\ ShutdownPosted(f) \in Events /\ FaceShutdownPosted(f) \in Events
         /\ \A p \in Packets : Received(f, p) \in Events
         /\ \A cd \in SubCds : Expired(cd, f) \in Events
  BY DEF Events

LEMMA EventFields ==
  ASSUME NEW f
  PROVE  /\ Failed(f).face = f /\ Failed(f).op = "failed"
         /\ ShutdownPosted(f).face = f /\ ShutdownPosted(f).op = "handleShutdown"
         /\ FaceShutdownPosted(f).face = f /\ FaceShutdownPosted(f).op = "onFaceShutdown"
         /\ \A p : Received(f, p).face = f /\ Received(f, p).op = "handleReceive"
         /\ \A cd : Expired(cd, f).face = f /\ Expired(cd, f).op = "onExpired" /\ Expired(cd, f).cd = cd
  BY DEF Failed, ShutdownPosted, FaceShutdownPosted, Received, Expired

(* CreateFace adds one id, and it is the only change to the face table.    *)
LEMMA CreateFaceOK ==
  ASSUME FacesOK, NEW r \in Remotes, NEW state \in {"open", "closing", "closed"},
         CreateFace(r, state)
  PROVE  /\ Created' = Created \cup {serial + 1}
         /\ serial + 1 \notin Created
         /\ faces' = faces \cup {serial + 1}
         /\ serial' \in FirstSerial..LastSerial
         /\ peer' \in [Created' -> Remotes]
         /\ link' \in [Created' -> {"open", "closing", "closed"}]
         /\ link'[serial + 1] = state
         /\ \A f \in Created : link'[f] = link[f] /\ peer'[f] = peer[f]
<1>1. /\ serial \in Nat /\ serial >= FirstSerial /\ serial < LastSerial /\ serial' = serial + 1
      /\ LastSerial \in Nat
  BY DEF FacesOK, CreateFace, FirstSerial, LastSerial
<1>2. Created' = Created \cup {serial + 1} /\ serial + 1 \notin Created
  BY <1>1 DEF Created, FirstSerial
<1>3. serial' \in FirstSerial..LastSerial
  BY <1>1 DEF FirstSerial
<1> QED BY <1>2, <1>3 DEF FacesOK, CreateFace

LEMMA SendToOK ==
  ASSUME FacesOK, NEW p \in Packets, NEW ids
  PROVE  SendTo(p.type, p.cd, ids) \subseteq [face : FaceIds, packet : Packets]
<1>1. p = [type |-> p.type, cd |-> p.cd]
  BY DEF Packets
<1>2. faces \subseteq FaceIds
  BY CreatedFaces DEF FacesOK
<1> QED BY <1>1, <1>2 DEF SendTo

LEMMA OnPacketReceivedOK ==
  ASSUME FacesOK, TablesOK, NEW f, NEW p \in Packets, OnPacketReceived(f, p)
  PROVE  SentOK' /\ IsTable(st', SubCds, TimerStates)
<1>1. SentOK'
  BY SendToOK DEF SentOK, OnPacketReceived, OnSubReceived, OnPubToRpReceived, OnPubFromRpReceived
<1>2. IsTable(st', SubCds, TimerStates)
  <2>1. CASE p.type = "Sub"
    <3>1. p.cd \in SubCds
      BY <2>1 DEF Packets
    <3>2. st' = AddHop(st, p.cd, f, "armed")
      BY <2>1 DEF OnPacketReceived, OnSubReceived, StAdd
    <3> QED BY <3>1, <3>2, AddHopTable DEF TablesOK, TimerStates
  <2>2. CASE p.type # "Sub"
    BY <2>2 DEF OnPacketReceived, OnPubToRpReceived, OnPubFromRpReceived, TablesOK
  <2> QED BY <2>1, <2>2
<1> QED BY <1>1, <1>2

LEMMA RunningFacts ==
  ASSUME FacesOK, QueueOK, NEW e, Running(e)
  PROVE  /\ queue # <<>> /\ e = Head(queue) /\ e \in Events
         /\ Tail(queue) \in Seq(Events)
         /\ Holds(queue, e)
         /\ e.face \in Created
         /\ \A x : Holds(queue, x) <=> Holds(Tail(queue), x) \/ x = e
  BY TailHolds DEF Running, QueueOK

(* QueueOK survives the four ways a step changes the queue.                *)
LEMMA QueueStep ==
  ASSUME FacesOK, QueueOK, Created \subseteq Created',
         NEW q \in Seq(Events), \A e : Holds(q, e) => Holds(queue, e),
         \/ queue' = q
         \/ \E x \in Events : x.face \in Created' /\ queue' = Append(q, x)
  PROVE  QueueOK'
<1>1. CASE queue' = q
  BY <1>1 DEF QueueOK, Holds
<1>2. CASE \E x \in Events : x.face \in Created' /\ queue' = Append(q, x)
  <2>1. PICK x \in Events : x.face \in Created' /\ queue' = Append(q, x)
    BY <1>2
  <2>2. queue' \in Seq(Events) /\ \A e : Holds(queue', e) <=> Holds(q, e) \/ e = x
    BY <2>1, AppendHolds
  <2> QED BY <2>1, <2>2 DEF QueueOK, Holds
<1> QED BY <1>1, <1>2

LEMMA RearmOK ==
  ASSUME FacesOK, QueueOK, UNCHANGED <<serial, peer, link>>, NEW f \in Created,
         NEW q \in Seq(Events), \A e : Holds(q, e) => Holds(queue, e),
         Rearm(f, q)
  PROVE  reading' \subseteq Created /\ QueueOK'
<1>1. reading' \subseteq Created
  BY DEF Rearm, FacesOK
<1>2. \/ queue' = q
      \/ \E x \in Events : x.face \in Created' /\ queue' = Append(q, x)
  BY CreatedFaces, EventsOfFaces, EventFields DEF Rearm, Created
<1>3. QueueOK'
  BY <1>2, QueueStep DEF Created
<1> QED BY <1>1, <1>3

LEMMA ShutdownOfOK ==
  ASSUME FacesOK, QueueOK, UNCHANGED serial, NEW f \in Created,
         NEW q \in Seq(Events), \A e : Holds(q, e) => Holds(queue, e),
         ShutdownOf(f, q)
  PROVE  /\ reading' \subseteq Created
         /\ link' \in [Created -> {"open", "closing", "closed"}]
         /\ QueueOK'
<1>1. reading' \subseteq Created
  BY DEF ShutdownOf, FacesOK
<1>2. link' \in [Created -> {"open", "closing", "closed"}]
  BY DEF ShutdownOf, FacesOK
<1>3. \E x \in Events : x.face \in Created' /\ queue' = Append(q, x)
  BY CreatedFaces, EventsOfFaces, EventFields DEF ShutdownOf, Created
<1>4. QueueOK'
  BY <1>3, QueueStep DEF Created
<1> QED BY <1>1, <1>2, <1>4

(* A step that leaves the ids alone keeps FacesOK if it keeps its parts.   *)
LEMMA SameFaces ==
  ASSUME FacesOK, UNCHANGED <<serial, peer>>,
         faces' \subseteq faces, reading' \subseteq Created,
         link' \in [Created -> {"open", "closing", "closed"}]
  PROVE  FacesOK'
  BY DEF FacesOK, Created

LEMMA EventLoopTypes ==
  ASSUME FacesOK, QueueOK, TablesOK, SentOK, EventLoop
  PROVE  FacesOK' /\ QueueOK' /\ TablesOK' /\ SentOK'
<1> USE DEF SentOK
<1>0. link \in [Created -> {"open", "closing", "closed"}] /\ reading \subseteq Created
  BY DEF FacesOK
<1>1. ASSUME NEW f \in FaceIds, NEW p \in Packets, HandleReceive(f, p)
      PROVE  FacesOK' /\ QueueOK' /\ TablesOK' /\ SentOK'
  <2>1. f \in Created /\ Tail(queue) \in Seq(Events) /\ \A e : Holds(Tail(queue), e) => Holds(queue, e)
    <3>1. Running(Received(f, p)) /\ Received(f, p).face = f
      BY <1>1 DEF HandleReceive, Received
    <3> QED BY <3>1, RunningFacts
  <2>2. reading' \subseteq Created /\ QueueOK'
    BY <1>1, <2>1, RearmOK DEF HandleReceive
  <2>3. FacesOK'
    BY <1>0, <1>1, <2>2, SameFaces DEF HandleReceive
  <2>4. CASE f \in faces /\ OnPacketReceived(f, p)
    BY <1>1, <2>2, <2>3, <2>4, OnPacketReceivedOK DEF HandleReceive, TablesOK
  <2>5. CASE f \notin faces /\ sent' = {} /\ UNCHANGED st
    BY <1>1, <2>2, <2>3, <2>5 DEF HandleReceive, TablesOK
  <2> QED BY <1>1, <2>4, <2>5 DEF HandleReceive
<1>2. ASSUME NEW f \in FaceIds, HandleFailure(f)
      PROVE  FacesOK' /\ QueueOK' /\ TablesOK' /\ SentOK'
  <2>1. f \in Created /\ Tail(queue) \in Seq(Events) /\ \A e : Holds(Tail(queue), e) => Holds(queue, e)
    BY <1>2, RunningFacts, EventFields DEF HandleFailure
  <2>2. /\ reading' \subseteq Created
        /\ link' \in [Created -> {"open", "closing", "closed"}]
        /\ QueueOK'
    BY <1>2, <2>1, ShutdownOfOK DEF HandleFailure
  <2> QED BY <1>2, <2>2, SameFaces DEF HandleFailure, TablesOK, tables
<1>3. ASSUME NEW f \in FaceIds, HandleShutdown(f)
      PROVE  FacesOK' /\ QueueOK' /\ TablesOK' /\ SentOK'
  <2>1. f \in Created /\ Tail(queue) \in Seq(Events) /\ \A e : Holds(Tail(queue), e) => Holds(queue, e)
    BY <1>3, RunningFacts, EventFields DEF HandleShutdown
  <2>2. /\ reading' \subseteq Created
        /\ link' \in [Created -> {"open", "closing", "closed"}]
    BY <1>0, <1>3 DEF HandleShutdown
  <2>3. \/ queue' = Tail(queue)
        \/ \E x \in Events : x.face \in Created' /\ queue' = Append(Tail(queue), x)
    BY <1>3, <2>1, EventsOfFaces, EventFields DEF HandleShutdown, Created
  <2>4. QueueOK'
    BY <1>3, <2>1, <2>3, QueueStep DEF HandleShutdown, Created
  <2> QED BY <1>3, <2>2, <2>4, SameFaces DEF HandleShutdown, TablesOK, tables
<1>4. ASSUME NEW f \in FaceIds, OnFaceShutdown(f)
      PROVE  FacesOK' /\ QueueOK' /\ TablesOK' /\ SentOK'
  <2>1. Tail(queue) \in Seq(Events) /\ \A e : Holds(Tail(queue), e) => Holds(queue, e)
    BY <1>4, RunningFacts DEF OnFaceShutdown
  <2>2. QueueOK'
    BY <1>4, <2>1, QueueStep DEF OnFaceShutdown, Created
  <2>3. FacesOK'
    BY <1>0, <1>4, SameFaces DEF OnFaceShutdown, transports
  <2>4. TablesOK'
    BY <1>4, RemoveFaceTable DEF OnFaceShutdown, TablesOK, StRemoveFace, FibRemoveFace
  <2> QED BY <1>4, <2>2, <2>3, <2>4 DEF OnFaceShutdown
<1>5. ASSUME NEW cd \in SubCds, NEW f \in FaceIds, OnExpired(cd, f)
      PROVE  FacesOK' /\ QueueOK' /\ TablesOK' /\ SentOK'
  <2>1. Tail(queue) \in Seq(Events) /\ \A e : Holds(Tail(queue), e) => Holds(queue, e)
    BY <1>5, RunningFacts DEF OnExpired
  <2>2. QueueOK'
    BY <1>5, <2>1, QueueStep DEF OnExpired, Created
  <2>3. FacesOK'
    BY <1>0, <1>5, SameFaces DEF OnExpired, transports
  <2>4. TablesOK'
    BY <1>5, RemoveHopTable DEF OnExpired, TablesOK, StRemoveHop
  <2> QED BY <1>5, <2>2, <2>3, <2>4 DEF OnExpired
<1> QED BY <1>1, <1>2, <1>3, <1>4, <1>5 DEF EventLoop

LEMMA EnvironmentTypes ==
  ASSUME FacesOK, QueueOK, TablesOK, SentOK, HopsAreFaces, Environment
  PROVE  FacesOK' /\ QueueOK' /\ TablesOK' /\ SentOK'
<1> USE DEF SentOK
<1>0. link \in [Created -> {"open", "closing", "closed"}] /\ reading \subseteq Created /\ faces \subseteq Created
  BY DEF FacesOK
<1>1. ASSUME NEW f \in FaceIds, NEW p \in Packets, PacketArrives(f, p)
      PROVE  FacesOK' /\ QueueOK' /\ TablesOK' /\ SentOK'
  <2>1. Received(f, p) \in Events /\ Received(f, p).face \in Created
    BY <1>0, <1>1, EventsOfFaces DEF PacketArrives, Received
  <2>2. QueueOK'
    BY <1>1, <2>1, QueueStep DEF PacketArrives, Created, QueueOK
  <2> QED BY <1>0, <1>1, <2>2, SameFaces DEF PacketArrives, TablesOK, tables
<1>2. ASSUME NEW f \in FaceIds, ReadFails(f)
      PROVE  FacesOK' /\ QueueOK' /\ TablesOK' /\ SentOK'
  <2>1. Failed(f) \in Events /\ Failed(f).face \in Created
    BY <1>0, <1>2, EventsOfFaces DEF ReadFails, Failed
  <2>2. QueueOK'
    BY <1>2, <2>1, QueueStep DEF ReadFails, Created, QueueOK
  <2> QED BY <1>0, <1>2, <2>2, SameFaces DEF ReadFails, TablesOK, tables
<1>3. ASSUME NEW f \in FaceIds, WriteFailsOrTimeout(f)
      PROVE  FacesOK' /\ QueueOK' /\ TablesOK' /\ SentOK'
  <2>1. Failed(f) \in Events /\ Failed(f).face \in Created
    BY <1>0, <1>3, EventsOfFaces DEF WriteFailsOrTimeout, Failed
  <2>2. QueueOK'
    BY <1>3, <2>1, QueueStep DEF WriteFailsOrTimeout, Created, QueueOK
  <2> QED BY <1>0, <1>3, <2>2, SameFaces DEF WriteFailsOrTimeout, TablesOK, tables, transports
<1>4. ASSUME NEW cd \in SubCds, NEW f \in FaceIds, TimerFires(cd, f)
      PROVE  FacesOK' /\ QueueOK' /\ TablesOK' /\ SentOK'
  <2>0. cd \in DOMAIN st /\ f \in DOMAIN st[cd] /\ st' = StFire(st, cd, f)
    BY <1>4, HopsMembership DEF TimerFires
  <2>1. TablesOK'
    BY <1>4, <2>0 DEF TimerFires, TablesOK, IsTable, StFire, TimerStates
  <2>2. f \in Created
    BY <1>0, <1>4 DEF TimerFires, HopsAreFaces
  <2>3. Expired(cd, f) \in Events /\ Expired(cd, f).face \in Created
    BY <2>2, EventsOfFaces DEF Expired
  <2>4. QueueOK'
    BY <1>4, <2>3, QueueStep DEF TimerFires, transports, Created, QueueOK
  <2> QED BY <1>0, <1>4, <2>1, <2>4, SameFaces DEF TimerFires, transports
<1> QED BY <1>1, <1>2, <1>3, <1>4 DEF Environment

(* A new face leaves everything about the others as it is.                 *)
LEMMA NewFaceOK ==
  ASSUME FacesOK, NEW r \in Remotes, NEW state \in {"open", "closing", "closed"},
         CreateFace(r, state), reading' \subseteq reading \cup {serial + 1}
  PROVE  FacesOK'
  BY CreateFaceOK DEF FacesOK

LEMMA SameQueueOK ==
  ASSUME QueueOK, Created \subseteq Created', UNCHANGED queue
  PROVE  QueueOK'
  BY DEF QueueOK, Holds

LEMMA NewFacesTypes ==
  ASSUME FacesOK, QueueOK, TablesOK, SentOK, NewFaces
  PROVE  FacesOK' /\ QueueOK' /\ TablesOK' /\ SentOK'
<1> USE DEF SentOK
<1>0. TcpRemotes \subseteq Remotes /\ UdpRemotes \subseteq Remotes
  BY DEF Remotes
<1>1. ASSUME NEW r \in TcpRemotes, AcceptTcp(r)
      PROVE  FacesOK' /\ QueueOK' /\ TablesOK' /\ SentOK'
  <2>1. FacesOK' /\ Created \subseteq Created'
    BY <1>0, <1>1, NewFaceOK, CreateFaceOK DEF AcceptTcp
  <2> QED BY <1>1, <2>1, SameQueueOK DEF AcceptTcp, TablesOK, tables
<1>2. ASSUME NEW r \in UdpRemotes, AcceptUdpGarbage(r)
      PROVE  FacesOK' /\ QueueOK' /\ TablesOK' /\ SentOK'
  <2>1. FacesOK' /\ Created' = Created \cup {serial + 1} /\ serial + 1 \in FaceIds
    BY <1>0, <1>2, NewFaceOK, CreateFaceOK, CreatedFaces DEF AcceptUdpGarbage, CreateFace
  <2>2. ShutdownPosted(serial + 1) \in Events /\ ShutdownPosted(serial + 1).face \in Created'
    BY <2>1, EventsOfFaces DEF ShutdownPosted
  <2>3. queue \in Seq(Events) /\ queue' = Append(queue, ShutdownPosted(serial + 1))
    BY <1>2 DEF AcceptUdpGarbage, QueueOK
  <2>4. QueueOK'
    BY <2>1, <2>2, <2>3, QueueStep
  <2> QED BY <1>2, <2>1, <2>4 DEF AcceptUdpGarbage, TablesOK, tables
<1>3. ASSUME NEW r \in UdpRemotes, NEW p \in Packets, AcceptUdp(r, p)
      PROVE  FacesOK' /\ QueueOK' /\ TablesOK' /\ SentOK'
  <2>1. FacesOK' /\ Created \subseteq Created'
    BY <1>0, <1>3, NewFaceOK, CreateFaceOK DEF AcceptUdp
  <2>2. SentOK' /\ IsTable(st', SubCds, TimerStates)
    BY <1>3, OnPacketReceivedOK DEF AcceptUdp
  <2> QED BY <1>3, <2>1, <2>2, SameQueueOK DEF AcceptUdp, TablesOK
<1> QED BY <1>1, <1>2, <1>3 DEF NewFaces

LEMMA CommandsTypes ==
  ASSUME FacesOK, QueueOK, TablesOK, SentOK, Commands
  PROVE  FacesOK' /\ QueueOK' /\ TablesOK' /\ SentOK'
<1> USE DEF SentOK
<1>1. ASSUME NEW name \in FibNames, NEW r \in Remotes, NEW cost \in Costs, FibAddNewFace(name, r, cost)
      PROVE  FacesOK' /\ QueueOK' /\ TablesOK' /\ SentOK'
  <2>1. FacesOK' /\ Created \subseteq Created'
    BY <1>1, NewFaceOK, CreateFaceOK DEF FibAddNewFace
  <2>2. TablesOK'
    BY <1>1, AddHopTable DEF FibAddNewFace, TablesOK, FibAdd
  <2> QED BY <1>1, <2>1, <2>2, SameQueueOK DEF FibAddNewFace
<1>2. ASSUME NEW f \in FaceIds, FaceDel(f)
      PROVE  FacesOK' /\ QueueOK' /\ TablesOK' /\ SentOK'
  <2>1. f \in Created
    BY <1>2 DEF FaceDel, FacesOK
  <2>2. /\ reading' \subseteq Created
        /\ link' \in [Created -> {"open", "closing", "closed"}]
        /\ QueueOK'
    BY <1>2, <2>1, ShutdownOfOK DEF FaceDel, QueueOK
  <2> QED BY <1>2, <2>2, SameFaces DEF FaceDel, TablesOK, tables
<1>3. ASSUME UNCHANGED <<faces, serial, transports, queue>>, TablesOK', sent' = {}
      PROVE  FacesOK' /\ QueueOK' /\ TablesOK' /\ SentOK'
  BY <1>3, SameQueueOK DEF FacesOK, Created, transports
<1>4. ASSUME NEW name \in FibNames, NEW r \in Remotes, NEW cost \in Costs, FibAddToFace(name, r, cost)
      PROVE  FacesOK' /\ QueueOK' /\ TablesOK' /\ SentOK'
  <2>1. TablesOK'
    BY <1>4, AddHopTable DEF FibAddToFace, TablesOK, FibAdd
  <2> QED BY <1>3, <1>4, <2>1 DEF FibAddToFace
<1>5. ASSUME NEW name \in FibNames, NEW r \in Remotes, FibDelHop(name, r)
      PROVE  FacesOK' /\ QueueOK' /\ TablesOK' /\ SentOK'
  <2>1. TablesOK'
    BY <1>5, RemoveHopTable DEF FibDelHop, TablesOK, FibRemoveHop
  <2> QED BY <1>3, <1>5, <2>1 DEF FibDelHop
<1>6. ASSUME NEW name \in FibNames, FibDelName(name)
      PROVE  FacesOK' /\ QueueOK' /\ TablesOK' /\ SentOK'
  <2>1. TablesOK'
    BY <1>6, RemoveEntryTable DEF FibDelName, TablesOK, FibRemoveName
  <2> QED BY <1>3, <1>6, <2>1 DEF FibDelName
<1>7. ASSUME FibDelAll
      PROVE  FacesOK' /\ QueueOK' /\ TablesOK' /\ SentOK'
  <2>1. TablesOK'
    BY <1>7, EmptyTableHops DEF FibDelAll, TablesOK, FibClear
  <2> QED BY <1>3, <1>7, <2>1 DEF FibDelAll
<1>8. ASSUME StDel
      PROVE  FacesOK' /\ QueueOK' /\ TablesOK' /\ SentOK'
  <2>1. TablesOK'
    BY <1>8, EmptyTableHops DEF StDel, TablesOK, StClear
  <2> QED BY <1>3, <1>8, <2>1 DEF StDel
<1> QED BY <1>1, <1>2, <1>4, <1>5, <1>6, <1>7, <1>8 DEF Commands

LEMMA InitTypes == Init => TypeOK
<1> SUFFICES ASSUME Init PROVE FacesOK /\ QueueOK /\ TablesOK /\ SentOK
  BY TypeParts
<1>1. FacesOK
  BY DEF Init, FacesOK, Created, FirstSerial, LastSerial
<1>2. QueueOK
  BY DEF Init, QueueOK, Holds
<1>3. TablesOK /\ SentOK
  BY EmptyTableHops DEF Init, TablesOK, SentOK
<1> QED BY <1>1, <1>2, <1>3

LEMMA NextTypes == TypeOK /\ HopsAreFaces /\ [Next]_vars => TypeOK'
<1> SUFFICES ASSUME TypeOK, HopsAreFaces, [Next]_vars
             PROVE  FacesOK' /\ QueueOK' /\ TablesOK' /\ SentOK'
  BY TypeParts DEF TypeOK, FacesOK, QueueOK, TablesOK, SentOK, Holds
<1>1. FacesOK /\ QueueOK /\ TablesOK /\ SentOK
  BY TypeParts
<1>2. CASE EventLoop
  BY <1>1, <1>2, EventLoopTypes
<1>3. CASE Environment
  BY <1>1, <1>3, EnvironmentTypes
<1>4. CASE NewFaces
  BY <1>1, <1>4, NewFacesTypes
<1>5. CASE Commands
  BY <1>1, <1>5, CommandsTypes
<1>6. CASE UNCHANGED vars
  BY <1>1, <1>6 DEF vars, FacesOK, Created, QueueOK, Holds, TablesOK, SentOK
<1> QED BY <1>2, <1>3, <1>4, <1>5, <1>6 DEF Next

-----------------------------------------------------------------------------
(***************************************************************************)
(* The tables name faces only, and have no empty entry.                    *)
(***************************************************************************)

LEMMA FindOK ==
  ASSUME FacesOK, NEW r, FacesTo(r) # {}
  PROVE  Find(r) \in faces
<1>1. FacesTo(r) \in SUBSET Nat
  BY CreatedFaces DEF FacesTo, FacesOK
<1>2. \E f \in FacesTo(r) : \A g \in FacesTo(r) : f <= g
  BY <1>1, LeastExists
<1>3. Find(r) \in FacesTo(r)
  BY <1>2 DEF Find
<1> QED BY <1>3 DEF FacesTo

LEMMA FireHops ==
  ASSUME NEW cd, NEW f, <<cd, f>> \in Hops(st)
  PROVE  /\ Hops(StFire(st, cd, f)) = Hops(st)
         /\ StFire(st, cd, f)[cd][f] = "fired"
         /\ \A h \in Hops(st) : h # <<cd, f>> => StFire(st, cd, f)[h[1]][h[2]] = st[h[1]][h[2]]
         /\ AllEntriesUsed(st) => AllEntriesUsed(StFire(st, cd, f))
<1> DEFINE n == StFire(st, cd, f)
<1>1. cd \in DOMAIN st /\ f \in DOMAIN st[cd]
  BY HopsMembership
<1>2. DOMAIN n = DOMAIN st /\ \A c \in DOMAIN st : DOMAIN n[c] = DOMAIN st[c]
  BY <1>1 DEF StFire
<1>3. n[cd][f] = "fired"
  BY <1>1 DEF StFire
<1>4. \A c \in DOMAIN st : \A i \in DOMAIN st[c] : c # cd \/ i # f => n[c][i] = st[c][i]
  BY <1>1 DEF StFire
<1> HIDE DEF n
<1>5. ASSUME NEW c, NEW i PROVE <<c, i>> \in Hops(n) <=> <<c, i>> \in Hops(st)
  <2>1. <<c, i>> \in Hops(n) <=> c \in DOMAIN n /\ i \in DOMAIN n[c]
    BY HopsMembership
  <2>2. <<c, i>> \in Hops(st) <=> c \in DOMAIN st /\ i \in DOMAIN st[c]
    BY HopsMembership
  <2> QED BY <1>2, <2>1, <2>2
<1>6. Hops(n) = Hops(st)
  BY <1>5, HopsMembership, HopsEquality
<1>7. \A h \in Hops(st) : h # <<cd, f>> => n[h[1]][h[2]] = st[h[1]][h[2]]
  BY <1>4, HopsMembership
<1>8. AllEntriesUsed(st) => AllEntriesUsed(n)
  BY <1>2 DEF AllEntriesUsed
<1> QED BY <1>3, <1>6, <1>7, <1>8 DEF n

(* What a step can do to the subscriptions, to the routes and to the set   *)
(* of faces, in terms of next hops.  Every case that adds a next hop adds  *)
(* one of a face that is in the face table after the step.                 *)
SubsGrow ==
  \E cd \in SubCds, f \in faces' :
    /\ Hops(st') = Hops(st) \cup {<<cd, f>>}
    /\ st'[cd][f] = "armed"
    /\ \A h \in Hops(st) : h # <<cd, f>> => st'[h[1]][h[2]] = st[h[1]][h[2]]

RoutesGrow ==
  \E name \in FibNames, f \in faces' : Hops(fib') = Hops(fib) \cup {<<name, f>>}

LEMMA PacketHops ==
  ASSUME NEW f \in faces', NEW p \in Packets, OnPacketReceived(f, p), UNCHANGED fib
  PROVE  /\ UNCHANGED st \/ SubsGrow
         /\ AllEntriesUsed(st) => AllEntriesUsed(st')
<1>1. CASE p.type = "Sub"
  <2>1. p.cd \in SubCds /\ st' = AddHop(st, p.cd, f, "armed")
    BY <1>1 DEF Packets, OnPacketReceived, OnSubReceived, StAdd
  <2>2. SubsGrow
    BY <2>1, AddHopHops, AddHopValues DEF SubsGrow
  <2>3. AllEntriesUsed(st) => AllEntriesUsed(st')
    BY <2>1, AddHopTable
  <2> QED BY <2>2, <2>3
<1>2. CASE p.type # "Sub"
  BY <1>2 DEF OnPacketReceived, OnPubToRpReceived, OnPubFromRpReceived
<1> QED BY <1>1, <1>2

LEMMA GrowKeepsFaces ==
  ASSUME HopsAreFaces, faces \subseteq faces',
         UNCHANGED st \/ SubsGrow, UNCHANGED fib \/ RoutesGrow
  PROVE  HopsAreFaces'
<1>1. \A h \in Hops(st') : h[2] \in faces'
  BY DEF SubsGrow, HopsAreFaces
<1>2. \A h \in Hops(fib') : h[2] \in faces'
  BY DEF RoutesGrow, HopsAreFaces
<1> QED BY <1>1, <1>2 DEF HopsAreFaces

LEMMA ShrinkKeepsFaces ==
  ASSUME HopsAreFaces, UNCHANGED faces,
         Hops(st') \subseteq Hops(st), Hops(fib') \subseteq Hops(fib)
  PROVE  HopsAreFaces'
  BY DEF HopsAreFaces

(* The effect of every step on the tables, in one of four forms: nothing   *)
(* goes, faces and next hops may come; or faces stay and next hops may go; *)
(* or a face goes with all its next hops; or a timer fires.                *)
TablesMayGrow ==
  /\ faces \subseteq faces'
  /\ UNCHANGED st \/ SubsGrow
  /\ UNCHANGED fib \/ RoutesGrow

TablesMayShrink ==
  /\ UNCHANGED faces
  /\ Hops(st') \subseteq Hops(st)
  /\ \A h \in Hops(st') : st'[h[1]][h[2]] = st[h[1]][h[2]]
  /\ Hops(fib') \subseteq Hops(fib)

FaceGoes(f) ==
  /\ faces' = faces \ {f}
  /\ Hops(st') = {h \in Hops(st) : h[2] # f}
  /\ \A h \in Hops(st') : st'[h[1]][h[2]] = st[h[1]][h[2]]
  /\ Hops(fib') = {h \in Hops(fib) : h[2] # f}

OneTimerFires(cd, f) ==
  /\ TimerFires(cd, f)
  /\ UNCHANGED <<faces, fib>>
  /\ <<cd, f>> \in Hops(st)
  /\ Hops(st') = Hops(st)
  /\ \A h \in Hops(st) : h # <<cd, f>> => st'[h[1]][h[2]] = st[h[1]][h[2]]

TablesEffect ==
  \/ TablesMayGrow
  \/ TablesMayShrink
  \/ \E f \in FaceIds : FaceGoes(f)
  \/ \E cd \in SubCds, f \in FaceIds : OneTimerFires(cd, f)

LEMMA SameTables ==
  ASSUME UNCHANGED <<st, fib>>, faces \subseteq faces', NoEmptyEntry
  PROVE  TablesEffect /\ NoEmptyEntry'
  BY DEF TablesEffect, TablesMayGrow, NoEmptyEntry

LEMMA EventLoopTables ==
  ASSUME FacesOK, NoEmptyEntry, EventLoop
  PROVE  TablesEffect /\ NoEmptyEntry'
<1>1. ASSUME NEW f \in FaceIds, NEW p \in Packets, HandleReceive(f, p)
      PROVE  TablesEffect /\ NoEmptyEntry'
  <2>1. CASE f \in faces /\ OnPacketReceived(f, p)
    <3>1. UNCHANGED <<faces, fib>> /\ f \in faces'
      BY <1>1, <2>1 DEF HandleReceive
    <3>2. (UNCHANGED st \/ SubsGrow) /\ (AllEntriesUsed(st) => AllEntriesUsed(st'))
      BY <2>1, <3>1, PacketHops
    <3> QED BY <3>1, <3>2 DEF TablesEffect, TablesMayGrow, NoEmptyEntry
  <2>2. CASE UNCHANGED st
    BY <1>1, <2>2, SameTables DEF HandleReceive
  <2> QED BY <1>1, <2>1, <2>2 DEF HandleReceive
<1>2. ASSUME NEW f \in FaceIds, HandleFailure(f) \/ HandleShutdown(f)
      PROVE  TablesEffect /\ NoEmptyEntry'
  BY <1>2, SameTables DEF HandleFailure, HandleShutdown, tables
<1>3. ASSUME NEW f \in FaceIds, OnFaceShutdown(f)
      PROVE  TablesEffect /\ NoEmptyEntry'
  <2>1. FaceGoes(f) /\ NoEmptyEntry'
    BY <1>3, RemoveFaceHops DEF OnFaceShutdown, StRemoveFace, FibRemoveFace, FaceGoes, NoEmptyEntry
  <2> QED BY <2>1 DEF TablesEffect
<1>4. ASSUME NEW cd \in SubCds, NEW f \in FaceIds, OnExpired(cd, f)
      PROVE  TablesEffect /\ NoEmptyEntry'
  <2>1. /\ Hops(st') = Hops(st) \ {<<cd, f>>}
        /\ \A h \in Hops(st') : st'[h[1]][h[2]] = st[h[1]][h[2]]
    BY <1>4, RemoveHopHops DEF OnExpired, StRemoveHop
  <2>2. TablesMayShrink
    BY <1>4, <2>1 DEF OnExpired, TablesMayShrink
  <2>3. NoEmptyEntry'
    BY <1>4, RemoveHopTable DEF OnExpired, StRemoveHop, NoEmptyEntry
  <2> QED BY <2>2, <2>3 DEF TablesEffect
<1> QED BY <1>1, <1>2, <1>3, <1>4 DEF EventLoop

LEMMA EnvironmentTables ==
  ASSUME FacesOK, NoEmptyEntry, Environment
  PROVE  TablesEffect /\ NoEmptyEntry'
<1>1. ASSUME NEW f \in FaceIds, NEW p \in Packets, PacketArrives(f, p)
      PROVE  TablesEffect /\ NoEmptyEntry'
  BY <1>1, SameTables DEF PacketArrives, tables
<1>2. ASSUME NEW f \in FaceIds, ReadFails(f) \/ WriteFailsOrTimeout(f)
      PROVE  TablesEffect /\ NoEmptyEntry'
  BY <1>2, SameTables DEF ReadFails, WriteFailsOrTimeout, tables
<1>3. ASSUME NEW cd \in SubCds, NEW f \in FaceIds, TimerFires(cd, f)
      PROVE  TablesEffect /\ NoEmptyEntry'
  <2>1. OneTimerFires(cd, f) /\ NoEmptyEntry'
    BY <1>3, FireHops DEF TimerFires, OneTimerFires, NoEmptyEntry
  <2> QED BY <2>1 DEF TablesEffect
<1> QED BY <1>1, <1>2, <1>3 DEF Environment

LEMMA NewFacesTables ==
  ASSUME FacesOK, NoEmptyEntry, NewFaces
  PROVE  TablesEffect /\ NoEmptyEntry'
<1>1. ASSUME NEW r \in Remotes, AcceptTcp(r) \/ AcceptUdpGarbage(r)
      PROVE  TablesEffect /\ NoEmptyEntry'
  BY <1>1, SameTables DEF AcceptTcp, AcceptUdpGarbage, CreateFace, tables
<1>2. ASSUME NEW r \in UdpRemotes, NEW p \in Packets, AcceptUdp(r, p)
      PROVE  TablesEffect /\ NoEmptyEntry'
  <2>1. faces' = faces \cup {serial + 1} /\ UNCHANGED fib /\ OnPacketReceived(serial + 1, p)
    BY <1>2 DEF AcceptUdp, CreateFace
  <2>2. (UNCHANGED st \/ SubsGrow) /\ (AllEntriesUsed(st) => AllEntriesUsed(st'))
    BY <2>1, PacketHops
  <2> QED BY <2>1, <2>2 DEF TablesEffect, TablesMayGrow, NoEmptyEntry
<1> QED BY <1>1, <1>2 DEF NewFaces, Remotes

LEMMA CommandsTables ==
  ASSUME FacesOK, NoEmptyEntry, Commands
  PROVE  TablesEffect /\ NoEmptyEntry'
<1>1. ASSUME NEW name \in FibNames, NEW r \in Remotes, NEW cost \in Costs, FibAddToFace(name, r, cost)
      PROVE  TablesEffect /\ NoEmptyEntry'
  <2>1. Find(r) \in faces' /\ UNCHANGED <<faces, st>> /\ fib' = AddHop(fib, name, Find(r), cost)
    BY <1>1, FindOK DEF FibAddToFace, FibAdd
  <2>2. RoutesGrow
    BY <2>1, AddHopHops DEF RoutesGrow
  <2>3. NoEmptyEntry'
    BY <2>1, AddHopTable DEF NoEmptyEntry
  <2> QED BY <2>1, <2>2, <2>3 DEF TablesEffect, TablesMayGrow
<1>2. ASSUME NEW name \in FibNames, NEW r \in Remotes, NEW cost \in Costs, FibAddNewFace(name, r, cost)
      PROVE  TablesEffect /\ NoEmptyEntry'
  <2> DEFINE g == IF FacesTo(r) = {} THEN serial + 1 ELSE Find(r)
  <2>1. faces' = faces \cup {serial + 1} /\ UNCHANGED st /\ fib' = AddHop(fib, name, g, cost)
    BY <1>2 DEF FibAddNewFace, FibAdd, CreateFace
  <2>2. g \in faces'
    BY <2>1, FindOK
  <2> HIDE DEF g
  <2>3. RoutesGrow
    BY <2>1, <2>2, AddHopHops DEF RoutesGrow
  <2>4. NoEmptyEntry'
    BY <2>1, AddHopTable DEF NoEmptyEntry
  <2> QED BY <2>1, <2>3, <2>4 DEF TablesEffect, TablesMayGrow
<1>3. ASSUME UNCHANGED <<faces, st>>, Hops(fib') \subseteq Hops(fib), AllEntriesUsed(fib) => AllEntriesUsed(fib')
      PROVE  TablesEffect /\ NoEmptyEntry'
  BY <1>3 DEF TablesEffect, TablesMayShrink, NoEmptyEntry
<1>4. ASSUME NEW name \in FibNames, NEW r \in Remotes, FibDelHop(name, r)
      PROVE  TablesEffect /\ NoEmptyEntry'
  <2>1. UNCHANGED <<faces, st>> /\ fib' = RemoveHop(fib, name, Find(r))
    BY <1>4 DEF FibDelHop, FibRemoveHop
  <2>2. Hops(fib') \subseteq Hops(fib)
    BY <2>1, RemoveHopHops
  <2>3. AllEntriesUsed(fib) => AllEntriesUsed(fib')
    BY <2>1, RemoveHopTable
  <2> QED BY <1>3, <2>1, <2>2, <2>3
<1>5. ASSUME NEW name \in FibNames, FibDelName(name)
      PROVE  TablesEffect /\ NoEmptyEntry'
  BY <1>3, <1>5, RemoveEntryHops, RemoveEntryTable DEF FibDelName, FibRemoveName
<1>6. ASSUME FibDelAll
      PROVE  TablesEffect /\ NoEmptyEntry'
  BY <1>3, <1>6, EmptyTableHops DEF FibDelAll, FibClear
<1>7. ASSUME StDel
      PROVE  TablesEffect /\ NoEmptyEntry'
  BY <1>7, EmptyTableHops DEF StDel, StClear, TablesEffect, TablesMayShrink, NoEmptyEntry
<1>8. ASSUME NEW f \in FaceIds, FaceDel(f)
      PROVE  TablesEffect /\ NoEmptyEntry'
  BY <1>8, SameTables DEF FaceDel, tables
<1> QED BY <1>1, <1>2, <1>4, <1>5, <1>6, <1>7, <1>8 DEF Commands

LEMMA NextTables ==
  ASSUME TypeOK, NoEmptyEntry, [Next]_vars
  PROVE  TablesEffect /\ NoEmptyEntry'
<1>1. FacesOK
  BY TypeParts
<1>2. CASE UNCHANGED vars
  BY <1>2, SameTables DEF vars
<1> QED BY <1>1, <1>2, EventLoopTables, EnvironmentTables, NewFacesTables, CommandsTables DEF Next

LEMMA EffectKeepsHopsAreFaces ==
  ASSUME HopsAreFaces, TablesEffect
  PROVE  HopsAreFaces'
<1>1. CASE TablesMayGrow
  BY <1>1, GrowKeepsFaces DEF TablesMayGrow
<1>2. CASE TablesMayShrink
  BY <1>2, ShrinkKeepsFaces DEF TablesMayShrink
<1>3. ASSUME NEW f \in FaceIds, FaceGoes(f) PROVE HopsAreFaces'
  BY <1>3 DEF FaceGoes, HopsAreFaces
<1>4. ASSUME NEW cd \in SubCds, NEW f \in FaceIds, OneTimerFires(cd, f) PROVE HopsAreFaces'
  BY <1>4 DEF OneTimerFires, HopsAreFaces
<1> QED BY <1>1, <1>2, <1>3, <1>4 DEF TablesEffect

-----------------------------------------------------------------------------
(***************************************************************************)
(* The event queue: an event leaves it only by being handled.              *)
(***************************************************************************)
Handled(e) ==
  \/ \E f \in FaceIds, p \in Packets : e = Received(f, p) /\ HandleReceive(f, p)
  \/ \E f \in FaceIds : e = Failed(f) /\ HandleFailure(f)
  \/ \E f \in FaceIds : e = ShutdownPosted(f) /\ HandleShutdown(f)
  \/ \E f \in FaceIds : e = FaceShutdownPosted(f) /\ OnFaceShutdown(f)
  \/ \E cd \in SubCds, f \in FaceIds : e = Expired(cd, f) /\ OnExpired(cd, f)

(* The queue after a step is one of these, with x of the faces created.    *)
QueueMove(q) == queue' = q \/ \E x \in Events : queue' = Append(q, x)

LEMMA QueueMoveKeeps ==
  ASSUME NEW q \in Seq(Events), QueueMove(q), NEW e, Holds(q, e)
  PROVE  Holds(queue', e)
<1>1. CASE queue' = q
  BY <1>1 DEF Holds
<1>2. CASE \E x \in Events : queue' = Append(q, x)
  <2>1. PICK x \in Events : queue' = Append(q, x)
    BY <1>2
  <2>2. Holds(Append(q, x), e)
    BY AppendHolds
  <2> QED BY <2>1, <2>2 DEF Holds
<1> QED BY <1>1, <1>2 DEF QueueMove

LEMMA EventLoopMove ==
  ASSUME FacesOK, QueueOK, EventLoop
  PROVE  /\ queue # <<>> /\ Handled(Head(queue))
         /\ QueueMove(Tail(queue))
<1>1. ASSUME NEW f \in FaceIds, NEW p \in Packets, HandleReceive(f, p)
      PROVE  queue # <<>> /\ Handled(Head(queue)) /\ QueueMove(Tail(queue))
  <2>1. queue # <<>> /\ Handled(Head(queue))
    BY <1>1 DEF HandleReceive, Running, Handled
  <2>2. QueueMove(Tail(queue))
    BY <1>1, EventsOfFaces DEF HandleReceive, Rearm, QueueMove
  <2> QED BY <2>1, <2>2
<1>2. ASSUME NEW f \in FaceIds, HandleFailure(f)
      PROVE  queue # <<>> /\ Handled(Head(queue)) /\ QueueMove(Tail(queue))
  BY <1>2, EventsOfFaces DEF HandleFailure, ShutdownOf, Running, Handled, QueueMove
<1>3. ASSUME NEW f \in FaceIds, HandleShutdown(f)
      PROVE  queue # <<>> /\ Handled(Head(queue)) /\ QueueMove(Tail(queue))
  BY <1>3, EventsOfFaces DEF HandleShutdown, Running, Handled, QueueMove
<1>4. ASSUME NEW f \in FaceIds, OnFaceShutdown(f)
      PROVE  queue # <<>> /\ Handled(Head(queue)) /\ QueueMove(Tail(queue))
  BY <1>4 DEF OnFaceShutdown, Running, Handled, QueueMove
<1>5. ASSUME NEW cd \in SubCds, NEW f \in FaceIds, OnExpired(cd, f)
      PROVE  queue # <<>> /\ Handled(Head(queue)) /\ QueueMove(Tail(queue))
  BY <1>5 DEF OnExpired, Running, Handled, QueueMove
<1> QED BY <1>1, <1>2, <1>3, <1>4, <1>5 DEF EventLoop

LEMMA OtherMoves ==
  ASSUME FacesOK, QueueOK, HopsAreFaces, Environment \/ NewFaces \/ Commands \/ UNCHANGED vars
  PROVE  QueueMove(queue)
<1>1. CASE Environment
  BY <1>1, EventsOfFaces
  DEF Environment, PacketArrives, ReadFails, WriteFailsOrTimeout, TimerFires, QueueMove
<1>2. CASE NewFaces
  BY <1>2, EventsOfFaces, CreatedFaces
  DEF NewFaces, AcceptTcp, AcceptUdp, AcceptUdpGarbage, CreateFace, QueueMove
<1>3. CASE Commands
  BY <1>3, EventsOfFaces
  DEF Commands, FibAddToFace, FibAddNewFace, FibDelHop, FibDelName, FibDelAll, StDel,
      FaceDel, ShutdownOf, QueueMove
<1>4. CASE UNCHANGED vars
  BY <1>4 DEF vars, QueueMove
<1> QED BY <1>1, <1>2, <1>3, <1>4

LEMMA QueueKeeps ==
  ASSUME TypeOK, HopsAreFaces, [Next]_vars, NEW e, Holds(queue, e)
  PROVE  Holds(queue', e) \/ Handled(e)
<1>1. FacesOK /\ QueueOK
  BY TypeParts
<1>2. CASE EventLoop
  <2>1. queue # <<>> /\ Handled(Head(queue)) /\ QueueMove(Tail(queue))
    BY <1>1, <1>2, EventLoopMove
  <2>2. Tail(queue) \in Seq(Events) /\ (Holds(Tail(queue), e) \/ e = Head(queue))
    BY <1>1, <2>1, TailHolds DEF QueueOK
  <2> QED BY <2>1, <2>2, QueueMoveKeeps
<1>3. CASE Environment \/ NewFaces \/ Commands \/ UNCHANGED vars
  BY <1>1, <1>3, OtherMoves, QueueMoveKeeps DEF QueueOK
<1> QED BY <1>2, <1>3 DEF Next

-----------------------------------------------------------------------------
(***************************************************************************)
(* Every next hop of the subscription table will expire.                   *)
(***************************************************************************)
HopExpires(cd, f) == st[cd][f] = "armed" \/ Holds(queue, Expired(cd, f))

LEMMA ExpiryHops ==
  EveryHopWillExpire <=> \A h \in Hops(st) : HopExpires(h[1], h[2])
  BY DEF EveryHopWillExpire, HopExpires, Queued, Holds

LEMMA ExpiredHandled ==
  ASSUME NEW cd, NEW f, Handled(Expired(cd, f))
  PROVE  <<cd, f>> \notin Hops(st')
<1>1. OnExpired(cd, f)
  BY DEF Handled, Expired, Received, Failed, ShutdownPosted, FaceShutdownPosted
<1>2. st' = RemoveHop(st, cd, f)
  BY <1>1 DEF OnExpired, StRemoveHop
<1> QED BY <1>2, RemoveHopHops

LEMMA NextKeepsExpiry ==
  ASSUME TypeOK, HopsAreFaces, NoEmptyEntry, EveryHopWillExpire, [Next]_vars
  PROVE  EveryHopWillExpire'
<1>1. TablesEffect
  BY NextTables
<1>2. \A cd, f : Holds(queue, Expired(cd, f)) /\ <<cd, f>> \in Hops(st') => Holds(queue', Expired(cd, f))
  BY QueueKeeps, ExpiredHandled
<1>3. \A h \in Hops(st) : HopExpires(h[1], h[2])
  BY ExpiryHops
<1>4. \A h \in Hops(st') : h = <<h[1], h[2]>>
  BY HopsMembership
<1> SUFFICES ASSUME NEW h \in Hops(st')
             PROVE  st'[h[1]][h[2]] = "armed" \/ Holds(queue', Expired(h[1], h[2]))
  BY DEF EveryHopWillExpire, Queued, Holds
<1>5. ASSUME h \in Hops(st), st'[h[1]][h[2]] = st[h[1]][h[2]]
      PROVE  st'[h[1]][h[2]] = "armed" \/ Holds(queue', Expired(h[1], h[2]))
  BY <1>2, <1>3, <1>4, <1>5 DEF HopExpires
<1>6. CASE TablesMayGrow
  BY <1>4, <1>5, <1>6 DEF TablesMayGrow, SubsGrow
<1>7. CASE TablesMayShrink
  BY <1>5, <1>7 DEF TablesMayShrink
<1>8. ASSUME NEW g \in FaceIds, FaceGoes(g)
      PROVE  st'[h[1]][h[2]] = "armed" \/ Holds(queue', Expired(h[1], h[2]))
  BY <1>5, <1>8 DEF FaceGoes
<1>9. ASSUME NEW cd \in SubCds, NEW f \in FaceIds, OneTimerFires(cd, f)
      PROVE  st'[h[1]][h[2]] = "armed" \/ Holds(queue', Expired(h[1], h[2]))
  <2>1. CASE h # <<cd, f>>
    BY <1>5, <1>9, <2>1 DEF OneTimerFires
  <2>2. CASE h = <<cd, f>>
    <3>1. queue \in Seq(Events) /\ Expired(cd, f) \in Events /\ queue' = Append(queue, Expired(cd, f))
      BY <1>9, TypeParts, EventsOfFaces DEF OneTimerFires, TimerFires, QueueOK
    <3> QED BY <2>2, <3>1, AppendHolds
  <2> QED BY <2>1, <2>2
<1> QED BY <1>1, <1>6, <1>7, <1>8, <1>9 DEF TablesEffect

-----------------------------------------------------------------------------
(***************************************************************************)
(* The theorems about the tables.                                          *)
(***************************************************************************)

(* The inductive invariant: the types need HopsAreFaces, because a timer   *)
(* that fires must be that of a face; the tables need the types; and that  *)
(* every next hop will expire needs both.                                  *)
TablesInv ==
  /\ TypeOK
  /\ HopsAreFaces
  /\ NoEmptyEntry
  /\ EveryHopWillExpire

LEMMA InitTablesInv ==
  ASSUME Init
  PROVE  TablesInv
<1>1. Hops(st) = {} /\ Hops(fib) = {} /\ AllEntriesUsed(st) /\ AllEntriesUsed(fib)
  BY EmptyTableHops DEF Init
<1>2. TypeOK
  BY InitTypes
<1> QED BY <1>1, <1>2 DEF TablesInv, HopsAreFaces, NoEmptyEntry, EveryHopWillExpire

LEMMA NextTablesInv ==
  ASSUME TablesInv, [Next]_vars
  PROVE  TablesInv'
<1>1. TypeOK'
  BY NextTypes DEF TablesInv
<1>2. TablesEffect /\ NoEmptyEntry'
  BY NextTables DEF TablesInv
<1>3. HopsAreFaces'
  BY <1>2, EffectKeepsHopsAreFaces DEF TablesInv
<1>4. EveryHopWillExpire'
  BY NextKeepsExpiry DEF TablesInv
<1> QED BY <1>1, <1>2, <1>3, <1>4 DEF TablesInv

(* The inductive invariant of the tables is one.                           *)
THEOREM TablesInvariant == Spec => []TablesInv
<1>1. Init => TablesInv
  BY InitTablesInv
<1>2. TablesInv /\ [Next]_vars => TablesInv'
  BY NextTablesInv
<1> QED BY <1>1, <1>2, PTL DEF Spec

(* Every variable of the router keeps its type, and every event in the     *)
(* queue names a face that was created.                                    *)
THEOREM RouterTypeOK == Spec => []TypeOK
<1>1. TablesInv => TypeOK
  BY DEF TablesInv
<1> QED BY <1>1, TablesInvariant, PTL

(* No table names a face that FaceManager does not hold.                   *)
THEOREM RouterHopsAreFaces == Spec => []HopsAreFaces
<1>1. TablesInv => HopsAreFaces
  BY DEF TablesInv
<1> QED BY <1>1, TablesInvariant, PTL

(* min_element in Fib::match is never taken of an empty set.               *)
THEOREM RouterNoEmptyEntry == Spec => []NoEmptyEntry
<1>1. TablesInv => NoEmptyEntry
  BY DEF TablesInv
<1> QED BY <1>1, TablesInvariant, PTL

(* No subscription is without a timer that will remove it.                 *)
THEOREM RouterEveryHopWillExpire == Spec => []EveryHopWillExpire
<1>1. TablesInv => EveryHopWillExpire
  BY DEF TablesInv
<1> QED BY <1>1, TablesInvariant, PTL

-----------------------------------------------------------------------------
(***************************************************************************)
(* Subscriptions.                                                          *)
(***************************************************************************)

(* Only three handlers remove a subscription. *)
LEMMA HopLeaves ==
  ASSUME TypeOK, NoEmptyEntry, [Next]_vars, NEW cd, NEW f, <<cd, f>> \in Hops(st), f \in faces'
  PROVE  <<cd, f>> \in Hops(st') \/ OnExpired(cd, f) \/ StDel
<1>1. ASSUME UNCHANGED st \/ SubsGrow PROVE <<cd, f>> \in Hops(st')
  BY <1>1 DEF SubsGrow
<1>2. CASE EventLoop
  <2>1. ASSUME NEW g \in FaceIds, NEW p \in Packets, HandleReceive(g, p)
        PROVE  <<cd, f>> \in Hops(st')
    <3>1. CASE g \in faces /\ OnPacketReceived(g, p)
      <4>1. g \in faces' /\ UNCHANGED fib
        BY <2>1, <3>1 DEF HandleReceive
      <4> QED BY <1>1, <3>1, <4>1, PacketHops
    <3>2. CASE UNCHANGED st
      BY <1>1, <3>2
    <3> QED BY <2>1, <3>1, <3>2 DEF HandleReceive
  <2>2. ASSUME NEW g \in FaceIds, HandleFailure(g) \/ HandleShutdown(g)
        PROVE  <<cd, f>> \in Hops(st')
    BY <1>1, <2>2 DEF HandleFailure, HandleShutdown, tables
  <2>3. ASSUME NEW g \in FaceIds, OnFaceShutdown(g)
        PROVE  <<cd, f>> \in Hops(st')
    <3>1. st' = RemoveFace(st, g) /\ g # f
      BY <2>3 DEF OnFaceShutdown, StRemoveFace
    <3> QED BY <3>1, RemoveFaceHops
  <2>4. ASSUME NEW c \in SubCds, NEW g \in FaceIds, OnExpired(c, g)
        PROVE  <<cd, f>> \in Hops(st') \/ OnExpired(cd, f)
    <3>1. st' = RemoveHop(st, c, g)
      BY <2>4 DEF OnExpired, StRemoveHop
    <3>2. <<cd, f>> # <<c, g>> => <<cd, f>> \in Hops(st')
      BY <3>1, RemoveHopHops
    <3> QED BY <2>4, <3>2
  <2> QED BY <1>2, <2>1, <2>2, <2>3, <2>4 DEF EventLoop
<1>3. CASE Environment
  <2>1. ASSUME NEW c \in SubCds, NEW g \in FaceIds, TimerFires(c, g)
        PROVE  <<cd, f>> \in Hops(st')
    BY <2>1, FireHops DEF TimerFires
  <2> QED BY <1>1, <1>3, <2>1 DEF Environment, PacketArrives, ReadFails, WriteFailsOrTimeout, tables
<1>4. CASE NewFaces
  <2>1. ASSUME NEW r \in UdpRemotes, NEW p \in Packets, AcceptUdp(r, p)
        PROVE  <<cd, f>> \in Hops(st')
    <3>1. serial + 1 \in faces' /\ UNCHANGED fib /\ OnPacketReceived(serial + 1, p)
      BY <2>1 DEF AcceptUdp, CreateFace
    <3> QED BY <1>1, <3>1, PacketHops
  <2> QED BY <1>1, <1>4, <2>1 DEF NewFaces, AcceptTcp, AcceptUdpGarbage, tables
<1>5. CASE Commands
  BY <1>1, <1>5 DEF Commands, FibAddToFace, FibAddNewFace, FibDelHop, FibDelName, FibDelAll,
                    FaceDel, tables
<1>6. CASE UNCHANGED vars
  BY <1>1, <1>6 DEF vars
<1> QED BY <1>2, <1>3, <1>4, <1>5, <1>6 DEF Next

(* A fresh subscription survives everything but ST-DEL and its face.       *)
THEOREM RouterFreshHopSurvives == Spec => FreshHopSurvives
<1> DEFINE A == \A cd \in SubCds, f \in faces :
                  /\ <<cd, f>> \in Hops(st)
                  /\ st[cd][f] = "armed"
                  /\ ~Queued(Expired(cd, f))
                  /\ ~StDel
                  => <<cd, f>> \in Hops(st') \/ f \notin faces'
<1>1. TablesInv /\ [Next]_vars => [A]_vars
  <2> SUFFICES ASSUME TypeOK, NoEmptyEntry, [Next]_vars, NEW cd \in SubCds, NEW f \in faces,
                      <<cd, f>> \in Hops(st), ~Queued(Expired(cd, f)), ~StDel, f \in faces'
               PROVE  <<cd, f>> \in Hops(st')
    BY DEF TablesInv
  <2>1. OnExpired(cd, f) => Holds(queue, Expired(cd, f))
    BY TypeParts, RunningFacts DEF OnExpired
  <2>2. ~OnExpired(cd, f)
    BY <2>1 DEF Queued, Holds
  <2> QED BY <2>2, HopLeaves
<1> QED BY <1>1, TablesInvariant, PTL DEF Spec, FreshHopSurvives

-----------------------------------------------------------------------------
(***************************************************************************)
(* Forwarding.                                                             *)
(***************************************************************************)

LEMMA FibMatchOK ==
  ASSUME TypeOK, HopsAreFaces, NoEmptyEntry, NEW cd \in PubCds \cup SubCds,
         NEW name \in DOMAIN fib, IsPrefixOf(name, cd)
  PROVE  \E g \in faces : FibMatch(fib, cd) = {g}
<1>1. IsTable(fib, FibNames, Costs) /\ AllEntriesUsed(fib) /\ FacesOK
  BY TypeParts DEF TablesOK, NoEmptyEntry
<1>2. PrefixEntries(fib, cd) # {}
  BY DEF PrefixEntries
<1> DEFINE longest == LongestPrefix(fib, cd)
<1>3. longest \in DOMAIN fib
  <2>1. longest \in PrefixEntries(fib, cd)
    <3>1. DOMAIN fib \subseteq FibNames /\ FibNames \in SUBSET CdBlocks /\ cd \in CdBlocks
      BY <1>1 DEF IsTable
    <3> QED BY <1>2, <3>1, LongestPrefixOK
  <2> QED BY <2>1 DEF PrefixEntries
<1> HIDE DEF longest
<1>4. \A id \in DOMAIN fib[longest] : <<longest, id>> \in Hops(fib)
  BY <1>3, HopsMembership
<1>5. DOMAIN fib[longest] \in SUBSET faces /\ faces \in SUBSET Nat /\ DOMAIN fib[longest] # {}
  BY <1>1, <1>3, <1>4, CreatedFaces DEF HopsAreFaces, AllEntriesUsed, FacesOK
<1>6. fib[longest] \in [DOMAIN fib[longest] -> Nat]
  <2>1. fib[longest] \in [DOMAIN fib[longest] -> Costs]
    BY <1>1, <1>3 DEF IsTable
  <2> QED BY <2>1
<1>7. Cheapest(fib[longest]) \in DOMAIN fib[longest]
  BY <1>5, <1>6, CheapestOK
<1> QED BY <1>2, <1>5, <1>7 DEF FibMatch, longest

LEMMA ReceiveForwards ==
  ASSUME TypeOK, HopsAreFaces, NoEmptyEntry,
         NEW f \in faces, NEW p \in Packets, HandleReceive(f, p)
  PROVE  IF p.type = "PubFromRp"
         THEN \A hop \in Hops(st) :
                MatchRegex(hop[1], p.cd) => [face |-> hop[2], packet |-> p] \in sent'
         ELSE (\E name \in DOMAIN fib : IsPrefixOf(name, p.cd)) =>
                \E g \in faces : sent' = {[face |-> g, packet |-> p]}
<1>1. OnPacketReceived(f, p)
  BY DEF HandleReceive
<1>2. p = [type |-> p.type, cd |-> p.cd] /\ p.type \in {"Sub", "PubToRp", "PubFromRp"}
      /\ p.cd \in PubCds \cup SubCds
  BY DEF Packets
<1>3. CASE p.type = "PubFromRp"
  <2>1. sent' = SendTo("PubFromRp", p.cd, StMatch(st, p.cd))
    BY <1>1, <1>3 DEF OnPacketReceived, OnPubFromRpReceived
  <2>2. ASSUME NEW hop \in Hops(st), MatchRegex(hop[1], p.cd)
        PROVE  [face |-> hop[2], packet |-> p] \in sent'
    <3>1. hop[1] \in DOMAIN st /\ hop[2] \in DOMAIN st[hop[1]]
      BY HopsMembership
    <3>2. hop[2] \in StMatch(st, p.cd)
      BY <2>2, <3>1 DEF StMatch
    <3>3. hop[2] \in faces
      BY DEF HopsAreFaces
    <3> QED BY <1>2, <1>3, <2>1, <3>2, <3>3 DEF SendTo
  <2> QED BY <1>3, <2>2
<1>4. CASE p.type # "PubFromRp"
  <2>1. sent' = SendTo(p.type, p.cd, FibMatch(fib, p.cd))
    BY <1>1, <1>4 DEF OnPacketReceived, OnSubReceived, OnPubToRpReceived
  <2>2. ASSUME NEW name \in DOMAIN fib, IsPrefixOf(name, p.cd)
        PROVE  \E g \in faces : sent' = {[face |-> g, packet |-> p]}
    <3>1. PICK g \in faces : FibMatch(fib, p.cd) = {g}
      BY <1>2, <2>2, FibMatchOK
    <3>2. sent' = {[face |-> g, packet |-> p]}
      BY <1>2, <2>1, <3>1 DEF SendTo
    <3> QED BY <3>2
  <2> QED BY <1>4, <2>2
<1> QED BY <1>3, <1>4

(* A packet that a table matches leaves.                                   *)
THEOREM RouterMatchedPacketsLeave == Spec => MatchedPacketsLeave
<1> DEFINE A == \A f \in faces, p \in Packets :
                  HandleReceive(f, p) =>
                    IF p.type = "PubFromRp"
                    THEN \A hop \in Hops(st) :
                           MatchRegex(hop[1], p.cd) => [face |-> hop[2], packet |-> p] \in sent'
                    ELSE (\E name \in DOMAIN fib : IsPrefixOf(name, p.cd)) =>
                           \E g \in faces : sent' = {[face |-> g, packet |-> p]}
<1>1. TablesInv /\ [Next]_vars => [A]_vars
  BY ReceiveForwards DEF TablesInv
<1> QED BY <1>1, TablesInvariant, PTL DEF Spec, MatchedPacketsLeave

-----------------------------------------------------------------------------
(***************************************************************************)
(* The order of a shutdown.                                                *)
(***************************************************************************)
ShutdownInv ==
  /\ NoZombieFace
  /\ RemovedFaceIsClosed
  /\ ShutdownInOrder

(* The queue changes without a new call of onFaceShutdown. *)
QuietMove(q) ==
  \/ queue' = q
  \/ \E x \in Events : x.op # "onFaceShutdown" /\ queue' = Append(q, x)

LEMMA QuietMoveAdds ==
  ASSUME NEW q \in Seq(Events), \A e : Holds(q, e) => Holds(queue, e), QuietMove(q)
  PROVE  \A f : Holds(queue', FaceShutdownPosted(f)) => Holds(queue, FaceShutdownPosted(f))
<1>1. CASE queue' = q
  BY <1>1 DEF Holds
<1>2. CASE \E x \in Events : x.op # "onFaceShutdown" /\ queue' = Append(q, x)
  <2>1. PICK x \in Events : x.op # "onFaceShutdown" /\ queue' = Append(q, x)
    BY <1>2
  <2>2. \A e : Holds(queue', e) <=> Holds(q, e) \/ e = x
    BY <2>1, AppendHolds
  <2>3. \A f : FaceShutdownPosted(f) # x
    BY <2>1, EventFields
  <2> QED BY <2>2, <2>3
<1> QED BY <1>1, <1>2 DEF QuietMove

(***************************************************************************)
(* What a step does to one face that exists: nothing that matters, a       *)
(* transport that begins to close, one that closes, or a face that leaves. *)
(***************************************************************************)
Remains(f) ==
  /\ f \in faces' <=> f \in faces
  /\ \/ link'[f] = link[f]
     \/ link[f] = "open" /\ link'[f] = "closing" /\ Holds(queue', ShutdownPosted(f))
  /\ f \in reading' => f \in reading \/ link[f] # "closed"
  /\ Holds(queue', FaceShutdownPosted(f)) => Holds(queue, FaceShutdownPosted(f))

Closes(f) ==
  /\ f \in faces' <=> f \in faces
  /\ link'[f] = "closed"
  /\ f \notin reading'
  /\ f \in faces => Holds(queue', FaceShutdownPosted(f))

Leaves(f) ==
  /\ Holds(queue, FaceShutdownPosted(f))
  /\ f \notin faces'
  /\ UNCHANGED <<link, reading>>

Comes(f) ==
  /\ f \in faces'
  /\ \/ link'[f] = "open"
     \/ link'[f] = "closing" /\ Holds(queue', ShutdownPosted(f))
  /\ ~Holds(queue', FaceShutdownPosted(f))

TransportsEffect ==
  \A f \in Created' :
    \/ f \in Created /\ (Remains(f) \/ Closes(f) \/ Leaves(f))
    \/ f \notin Created /\ Comes(f)

(* Steps that change no face and no socket, only quiet events and reads. *)
LEMMA SameTransports ==
  ASSUME UNCHANGED <<serial, faces, link>>,
         \A f \in reading' \ reading : link[f] # "closed",
         \A f : Holds(queue', FaceShutdownPosted(f)) => Holds(queue, FaceShutdownPosted(f))
  PROVE  TransportsEffect
  BY DEF TransportsEffect, Remains, Created

LEMMA ShutdownOfTransports ==
  ASSUME FacesOK, QueueOK, UNCHANGED <<serial, faces>>, NEW f \in Created,
         NEW q \in Seq(Events), \A e : Holds(q, e) => Holds(queue, e),
         ShutdownOf(f, q)
  PROVE  TransportsEffect
<1>1. ShutdownPosted(f) \in Events /\ queue' = Append(q, ShutdownPosted(f))
  BY CreatedFaces, EventsOfFaces DEF ShutdownOf
<1>2. Holds(queue', ShutdownPosted(f))
  BY <1>1, AppendHolds
<1>3. QuietMove(q)
  BY <1>1, EventFields DEF QuietMove
<1>4. \A g : Holds(queue', FaceShutdownPosted(g)) => Holds(queue, FaceShutdownPosted(g))
  BY <1>3, QuietMoveAdds
<1>5. link' = [link EXCEPT ![f] = IF @ = "open" THEN "closing" ELSE @] /\ reading' \subseteq reading
  BY DEF ShutdownOf
<1>6. Created' = Created /\ link \in [Created -> {"open", "closing", "closed"}]
  BY DEF Created, FacesOK
<1>7. \A g \in Created : Remains(g)
  BY <1>2, <1>4, <1>5, <1>6 DEF Remains
<1> QED BY <1>6, <1>7 DEF TransportsEffect

LEMMA EventLoopTransports ==
  ASSUME FacesOK, QueueOK, EventLoop
  PROVE  TransportsEffect
<1>0. link \in [Created -> {"open", "closing", "closed"}]
  BY DEF FacesOK
<1>1. ASSUME NEW f \in FaceIds, NEW p \in Packets, HandleReceive(f, p)
      PROVE  TransportsEffect
  <2>1. Tail(queue) \in Seq(Events) /\ \A e : Holds(Tail(queue), e) => Holds(queue, e)
    BY <1>1, RunningFacts DEF HandleReceive
  <2>2. QuietMove(Tail(queue))
    BY <1>1, EventsOfFaces, EventFields DEF HandleReceive, Rearm, QuietMove
  <2>3. \A g : Holds(queue', FaceShutdownPosted(g)) => Holds(queue, FaceShutdownPosted(g))
    BY <2>1, <2>2, QuietMoveAdds
  <2>4. \A g \in reading' \ reading : link[g] # "closed"
    BY <1>1 DEF HandleReceive, Rearm
  <2> QED BY <1>1, <2>3, <2>4, SameTransports DEF HandleReceive
<1>2. ASSUME NEW f \in FaceIds, HandleFailure(f)
      PROVE  TransportsEffect
  <2>1. f \in Created /\ Tail(queue) \in Seq(Events) /\ \A e : Holds(Tail(queue), e) => Holds(queue, e)
    BY <1>2, RunningFacts, EventFields DEF HandleFailure
  <2> QED BY <1>2, <2>1, ShutdownOfTransports DEF HandleFailure
<1>3. ASSUME NEW f \in FaceIds, HandleShutdown(f)
      PROVE  TransportsEffect
  <2>1. /\ f \in Created
        /\ Tail(queue) \in Seq(Events)
        /\ \A e : Holds(Tail(queue), e) => Holds(queue, e)
    BY <1>3, RunningFacts, EventFields DEF HandleShutdown
  <2>2. f \in faces => Holds(queue', FaceShutdownPosted(f))
    BY <1>3, <2>1, EventsOfFaces, AppendHolds DEF HandleShutdown
  <2>3. UNCHANGED <<faces, serial>> /\ link' = [link EXCEPT ![f] = "closed"] /\ reading' = reading \ {f}
    BY <1>3 DEF HandleShutdown
  <2>4. Closes(f)
    BY <1>0, <2>1, <2>2, <2>3 DEF Closes
  <2>5. ASSUME NEW g \in Created, g # f PROVE Remains(g)
    <3>1. Holds(queue', FaceShutdownPosted(g)) => Holds(queue, FaceShutdownPosted(g))
      <4>1. CASE f \in faces
        <5>1. queue' = Append(Tail(queue), FaceShutdownPosted(f)) /\ FaceShutdownPosted(f) \in Events
          BY <1>3, <4>1, EventsOfFaces DEF HandleShutdown
        <5>2. \A e : Holds(queue', e) <=> Holds(Tail(queue), e) \/ e = FaceShutdownPosted(f)
          BY <2>1, <5>1, AppendHolds
        <5>3. FaceShutdownPosted(g) # FaceShutdownPosted(f)
          BY <2>5, EventFields
        <5> QED BY <2>1, <5>2, <5>3
      <4>2. CASE f \notin faces
        <5>1. queue' = Tail(queue)
          BY <1>3, <4>2 DEF HandleShutdown
        <5> QED BY <2>1, <5>1 DEF Holds
      <4> QED BY <4>1, <4>2
    <3> QED BY <1>0, <2>3, <2>5, <3>1 DEF Remains
  <2>6. Created' = Created
    BY <2>3 DEF Created
  <2> QED BY <2>4, <2>5, <2>6 DEF TransportsEffect
<1>4. ASSUME NEW f \in FaceIds, OnFaceShutdown(f)
      PROVE  TransportsEffect
  <2>1. /\ Tail(queue) \in Seq(Events)
        /\ \A e : Holds(Tail(queue), e) => Holds(queue, e)
        /\ Holds(queue, FaceShutdownPosted(f))
    BY <1>4, RunningFacts DEF OnFaceShutdown
  <2>2. queue' = Tail(queue) /\ faces' = faces \ {f} /\ UNCHANGED <<serial, link, reading>>
    BY <1>4 DEF OnFaceShutdown, transports
  <2>3. Leaves(f)
    BY <2>1, <2>2 DEF Leaves
  <2>4. \A g : Holds(queue', FaceShutdownPosted(g)) => Holds(queue, FaceShutdownPosted(g))
    BY <2>1, <2>2 DEF Holds
  <2>5. \A g \in Created : g # f => Remains(g)
    BY <2>2, <2>4 DEF Remains
  <2>6. Created' = Created
    BY <2>2 DEF Created
  <2> QED BY <2>3, <2>5, <2>6 DEF TransportsEffect
<1>5. ASSUME NEW cd \in SubCds, NEW f \in FaceIds, OnExpired(cd, f)
      PROVE  TransportsEffect
  <2>1. Tail(queue) \in Seq(Events) /\ \A e : Holds(Tail(queue), e) => Holds(queue, e)
    BY <1>5, RunningFacts DEF OnExpired
  <2>2. QuietMove(Tail(queue))
    BY <1>5 DEF OnExpired, QuietMove
  <2>3. \A g : Holds(queue', FaceShutdownPosted(g)) => Holds(queue, FaceShutdownPosted(g))
    BY <2>1, <2>2, QuietMoveAdds
  <2> QED BY <1>5, <2>3, SameTransports DEF OnExpired, transports
<1> QED BY <1>1, <1>2, <1>3, <1>4, <1>5 DEF EventLoop

LEMMA EnvironmentTransports ==
  ASSUME FacesOK, QueueOK, Environment
  PROVE  TransportsEffect
<1>1. QuietMove(queue)
  BY EventsOfFaces, EventFields
  DEF Environment, PacketArrives, ReadFails, WriteFailsOrTimeout, TimerFires, QuietMove
<1>2. \A g : Holds(queue', FaceShutdownPosted(g)) => Holds(queue, FaceShutdownPosted(g))
  BY <1>1, QuietMoveAdds DEF QueueOK
<1>3. UNCHANGED <<serial, faces, link>> /\ reading' \subseteq reading
  BY DEF Environment, PacketArrives, ReadFails, WriteFailsOrTimeout, TimerFires, transports
<1> QED BY <1>2, <1>3, SameTransports

LEMMA NewFaceTransports ==
  ASSUME FacesOK, QueueOK, NEW r \in Remotes, NEW state \in {"open", "closing"}, CreateFace(r, state),
         QuietMove(queue),
         reading' \subseteq reading \cup {serial + 1},
         state = "closing" => Holds(queue', ShutdownPosted(serial + 1))
  PROVE  TransportsEffect
<1>1. /\ Created' = Created \cup {serial + 1}
      /\ serial + 1 \notin Created
      /\ faces' = faces \cup {serial + 1}
      /\ link'[serial + 1] = state
      /\ \A f \in Created : link'[f] = link[f] /\ f # serial + 1
  BY CreateFaceOK
<1>2. \A g : Holds(queue', FaceShutdownPosted(g)) => Holds(queue, FaceShutdownPosted(g))
  BY QuietMoveAdds DEF QueueOK
<1>3. \A f \in Created : Remains(f)
  BY <1>1, <1>2 DEF Remains
<1>4. Comes(serial + 1)
  BY <1>1, <1>2, EventFields DEF Comes, QueueOK
<1> QED BY <1>1, <1>3, <1>4 DEF TransportsEffect

LEMMA NewFacesTransports ==
  ASSUME FacesOK, QueueOK, NewFaces
  PROVE  TransportsEffect
<1>1. ASSUME NEW r \in TcpRemotes, AcceptTcp(r) PROVE TransportsEffect
  BY <1>1, NewFaceTransports DEF AcceptTcp, Remotes, QuietMove
<1>2. ASSUME NEW r \in UdpRemotes, NEW p \in Packets, AcceptUdp(r, p) PROVE TransportsEffect
  BY <1>2, NewFaceTransports DEF AcceptUdp, Remotes, QuietMove
<1>3. ASSUME NEW r \in UdpRemotes, AcceptUdpGarbage(r) PROVE TransportsEffect
  <2>1. /\ CreateFace(r, "closing") /\ UNCHANGED reading
        /\ queue' = Append(queue, ShutdownPosted(serial + 1))
        /\ serial + 1 \in FaceIds
    BY <1>3, CreatedFaces DEF AcceptUdpGarbage, CreateFace
  <2>2. ShutdownPosted(serial + 1) \in Events
    BY <2>1, EventsOfFaces
  <2>3. QuietMove(queue)
    BY <2>1, <2>2, EventFields DEF QuietMove
  <2>4. Holds(queue', ShutdownPosted(serial + 1))
    BY <2>1, <2>2, AppendHolds DEF QueueOK
  <2> QED BY <2>1, <2>3, <2>4, NewFaceTransports DEF Remotes
<1> QED BY <1>1, <1>2, <1>3 DEF NewFaces

LEMMA CommandsTransports ==
  ASSUME FacesOK, QueueOK, Commands
  PROVE  TransportsEffect
<1>1. ASSUME UNCHANGED <<faces, serial, transports, queue>> PROVE TransportsEffect
  BY <1>1, SameTransports DEF transports, Holds
<1>2. ASSUME NEW name \in FibNames, NEW r \in Remotes, NEW cost \in Costs, FibAddNewFace(name, r, cost)
      PROVE  TransportsEffect
  BY <1>2, NewFaceTransports DEF FibAddNewFace, QuietMove
<1>3. ASSUME NEW f \in FaceIds, FaceDel(f)
      PROVE  TransportsEffect
  <2>1. f \in Created /\ queue \in Seq(Events)
    BY <1>3 DEF FaceDel, FacesOK, QueueOK
  <2> QED BY <1>3, <2>1, ShutdownOfTransports DEF FaceDel
<1> QED BY <1>1, <1>2, <1>3 DEF Commands, FibAddToFace, FibDelHop, FibDelName, FibDelAll, StDel

LEMMA NextTransports ==
  ASSUME TypeOK, [Next]_vars
  PROVE  TransportsEffect
<1>1. FacesOK /\ QueueOK
  BY TypeParts
<1>2. CASE UNCHANGED vars
  BY <1>2, SameTransports DEF vars, Holds
<1> QED BY <1>1, <1>2, EventLoopTransports, EnvironmentTransports, NewFacesTransports,
           CommandsTransports DEF Next

(* The two stages of a shutdown end only when their handlers run.          *)
LEMMA ShutdownHandled ==
  ASSUME TypeOK, NEW f \in Created, Handled(ShutdownPosted(f))
  PROVE  link'[f] = "closed"
<1>1. HandleShutdown(f)
  BY DEF Handled, Expired, Received, Failed, ShutdownPosted, FaceShutdownPosted
<1> QED BY <1>1 DEF HandleShutdown, TypeOK

LEMMA FaceShutdownHandled ==
  ASSUME NEW f, Handled(FaceShutdownPosted(f))
  PROVE  f \notin faces'
<1>1. OnFaceShutdown(f)
  BY DEF Handled, Expired, Received, Failed, ShutdownPosted, FaceShutdownPosted
<1> QED BY <1>1 DEF OnFaceShutdown

LEMMA NextShutdownInv ==
  ASSUME TypeOK, HopsAreFaces, ShutdownInv, [Next]_vars
  PROVE  ShutdownInv'
<1>1. TransportsEffect
  BY NextTransports
<1>2. \A f \in Created : Holds(queue, ShutdownPosted(f)) =>
        Holds(queue', ShutdownPosted(f)) \/ link'[f] = "closed"
  BY QueueKeeps, ShutdownHandled
<1>3. \A f \in Created : Holds(queue, FaceShutdownPosted(f)) =>
        Holds(queue', FaceShutdownPosted(f)) \/ f \notin faces'
  BY QueueKeeps, FaceShutdownHandled
<1>4. ASSUME NEW f \in Created'
      PROVE  /\ link'[f] = "closing" => Holds(queue', ShutdownPosted(f))
             /\ link'[f] = "closed" /\ f \in faces' => Holds(queue', FaceShutdownPosted(f))
             /\ f \notin faces' => link'[f] = "closed" /\ f \notin reading'
             /\ Holds(queue', FaceShutdownPosted(f)) => link'[f] = "closed"
             /\ link'[f] = "closed" => f \notin reading'
  <2>1. CASE f \in Created
    <3>1. /\ link[f] = "closing" => Holds(queue, ShutdownPosted(f))
          /\ link[f] = "closed" /\ f \in faces => Holds(queue, FaceShutdownPosted(f))
          /\ f \notin faces => link[f] = "closed" /\ f \notin reading
          /\ Holds(queue, FaceShutdownPosted(f)) => link[f] = "closed"
          /\ link[f] = "closed" => f \notin reading
      BY <2>1 DEF ShutdownInv, NoZombieFace, RemovedFaceIsClosed, ShutdownInOrder, Queued, Holds
    <3>2. CASE Remains(f)
      BY <1>2, <1>3, <2>1, <3>1, <3>2 DEF Remains
    <3>3. CASE Closes(f)
      BY <3>1, <3>3 DEF Closes
    <3>4. CASE Leaves(f)
      BY <3>1, <3>4 DEF Leaves
    <3> QED BY <1>1, <2>1, <3>2, <3>3, <3>4 DEF TransportsEffect
  <2>2. CASE f \notin Created
    BY <1>1, <2>2 DEF TransportsEffect, Comes
  <2> QED BY <2>1, <2>2
<1> QED BY <1>4 DEF ShutdownInv, NoZombieFace, RemovedFaceIsClosed, ShutdownInOrder, Queued, Holds

-----------------------------------------------------------------------------
(***************************************************************************)
(* One read at a time.                                                     *)
(***************************************************************************)
ReadsInv == OneReadAtMost /\ OpenFaceIsRead

OneRead(q, r, f) ==
  /\ \A i, j \in ReadsIn(q, f) : i = j
  /\ f \in r => ReadsIn(q, f) = {}

LEMMA ReadsParts ==
  /\ OneReadAtMost <=> \A f \in Created : OneRead(queue, reading, f)
  /\ OpenFaceIsRead <=> \A f \in Created :
       link[f] = "open" => f \in reading \/ ReadsIn(queue, f) # {} \/ Holds(queue, Failed(f))
  BY DEF OneReadAtMost, OpenFaceIsRead, OneRead, ReadCompletions, ReadsIn, Queued, Holds

(* The queue changes without a new completion of a read. *)
NoReadMove(q) ==
  \/ queue' = q
  \/ \E x \in Events : x.op # "handleReceive" /\ queue' = Append(q, x)

LEMMA NoReadMoveReads ==
  ASSUME NEW q \in Seq(Events), NoReadMove(q), NEW f
  PROVE  ReadsIn(queue', f) = ReadsIn(q, f)
<1>1. CASE queue' = q
  BY <1>1 DEF ReadsIn
<1>2. CASE \E x \in Events : x.op # "handleReceive" /\ queue' = Append(q, x)
  <2>1. PICK x \in Events : x.op # "handleReceive" /\ queue' = Append(q, x)
    BY <1>2
  <2>2. ReadsIn(Append(q, x), f) = ReadsIn(q, f)
    BY <2>1, AppendReads
  <2> QED BY <2>1, <2>2
<1> QED BY <1>1, <1>2 DEF NoReadMove

LEMMA TailOneRead ==
  ASSUME QueueOK, queue # <<>>, NEW f, OneRead(queue, reading, f)
  PROVE  /\ OneRead(Tail(queue), reading, f)
         /\ Head(queue).op = "handleReceive" /\ Head(queue).face = f
              => ReadsIn(Tail(queue), f) = {} /\ f \notin reading
         /\ ~(Head(queue).op = "handleReceive" /\ Head(queue).face = f)
              => (ReadsIn(queue, f) # {} => ReadsIn(Tail(queue), f) # {})
<1>1. /\ \A i \in ReadsIn(Tail(queue), f) : i \in Nat /\ i + 1 \in ReadsIn(queue, f)
      /\ \A i \in ReadsIn(queue, f) : i # 1 => i - 1 \in ReadsIn(Tail(queue), f)
      /\ 1 \in ReadsIn(queue, f) <=> Head(queue).op = "handleReceive" /\ Head(queue).face = f
  BY TailReads DEF QueueOK
<1>2. ASSUME NEW i \in ReadsIn(Tail(queue), f), NEW j \in ReadsIn(Tail(queue), f) PROVE i = j
  <2>1. i \in Nat /\ j \in Nat /\ i + 1 = j + 1
    BY <1>1, <1>2 DEF OneRead
  <2> QED BY <2>1
<1>3. f \in reading => ReadsIn(Tail(queue), f) = {}
  BY <1>1 DEF OneRead
<1>4. ASSUME 1 \in ReadsIn(queue, f), NEW i \in ReadsIn(Tail(queue), f) PROVE FALSE
  <2>1. i \in 1..Len(Tail(queue)) /\ i + 1 = 1
    BY <1>1, <1>4 DEF OneRead, ReadsIn
  <2> QED BY <2>1
<1> QED BY <1>1, <1>2, <1>3, <1>4 DEF OneRead

(* A new id has no completion in the queue. *)
LEMMA NewIdUnread ==
  ASSUME QueueOK, NEW f, f \notin Created
  PROVE  ReadsIn(queue, f) = {}
<1>1. \A i \in 1..Len(queue) : queue[i].face \in Created
  BY DEF QueueOK, Holds
<1> QED BY <1>1 DEF ReadsIn

(* What a step does to the reads of one face. *)
ReadsEffect(f) ==
  /\ OneRead(queue', reading', f)
  /\ link'[f] = "open" => f \in reading' \/ ReadsIn(queue', f) # {} \/ Holds(queue', Failed(f))

(* Steps without a completion of a read: if f stays open its read stays.   *)
LEMMA CalmReads ==
  ASSUME QueueOK, ReadsInv, NEW f \in Created,
         NEW q \in Seq(Events), NoReadMove(q),
         \/ q = queue
         \/ queue # <<>> /\ q = Tail(queue) /\ Head(queue).op # "handleReceive",
         f \in reading' => f \in reading,
         link'[f] = "open" => /\ link[f] = "open"
                              /\ f \in reading => f \in reading'
                              /\ Holds(queue, Failed(f)) => Holds(queue', Failed(f))
  PROVE  ReadsEffect(f)
<1>1. OneRead(queue, reading, f)
  BY ReadsParts DEF ReadsInv
<1>2. OneRead(q, reading, f) /\ (ReadsIn(queue, f) # {} => ReadsIn(q, f) # {})
  BY <1>1, TailOneRead
<1>3. ReadsIn(queue', f) = ReadsIn(q, f)
  BY NoReadMoveReads
<1>4. link[f] = "open" => f \in reading \/ ReadsIn(queue, f) # {} \/ Holds(queue, Failed(f))
  BY ReadsParts DEF ReadsInv
<1> QED BY <1>2, <1>3, <1>4 DEF ReadsEffect, OneRead

LEMMA FailureHandled ==
  ASSUME TypeOK, NEW f \in Created, Handled(Failed(f))
  PROVE  link'[f] # "open"
<1>1. HandleFailure(f)
  BY DEF Handled, Expired, Received, Failed, ShutdownPosted, FaceShutdownPosted
<1>2. link' = [link EXCEPT ![f] = IF @ = "open" THEN "closing" ELSE @] /\ link \in [Created -> {"open", "closing", "closed"}]
  BY <1>1 DEF HandleFailure, ShutdownOf, TypeOK
<1> QED BY <1>2

(* FailuresStay is what QueueKeeps says about failures.                    *)
FailuresStay ==
  \A f \in Created :
    Holds(queue, Failed(f)) /\ link'[f] = "open" => Holds(queue', Failed(f))

LEMMA ReceivedReads ==
  ASSUME NEW q \in Seq(Events), NEW f \in FaceIds, NEW x \in Packets, NEW g
  PROVE  /\ g # f => ReadsIn(Append(q, Received(f, x)), g) = ReadsIn(q, g)
         /\ g = f => ReadsIn(Append(q, Received(f, x)), g) = ReadsIn(q, g) \cup {Len(q) + 1}
<1>1. Received(f, x) \in Events /\ Received(f, x).op = "handleReceive" /\ Received(f, x).face = f
  BY EventsOfFaces, EventFields
<1> HIDE DEF Received
<1> DEFINE e == Received(f, x)
<1>2. e \in Events /\ e.op = "handleReceive" /\ e.face = f
  BY <1>1
<1> HIDE DEF e
<1>3. /\ g # f => ReadsIn(Append(q, e), g) = ReadsIn(q, g)
      /\ g = f => ReadsIn(Append(q, e), g) = ReadsIn(q, g) \cup {Len(q) + 1}
  BY <1>2, AppendReads
<1> QED BY <1>3 DEF e

LEMMA ReceiveReads ==
  ASSUME FacesOK, QueueOK, ReadsInv, FailuresStay,
         NEW f \in FaceIds, NEW p \in Packets, HandleReceive(f, p), NEW g \in Created
  PROVE  ReadsEffect(g)
<1>1. /\ queue # <<>> /\ Head(queue) = Received(f, p)
      /\ Tail(queue) \in Seq(Events) /\ Rearm(f, Tail(queue)) /\ UNCHANGED link
      /\ f \in Created
  <2>1. Running(Received(f, p)) /\ Rearm(f, Tail(queue)) /\ UNCHANGED link
    BY DEF HandleReceive
  <2>2. Received(f, p).face = f
    BY EventFields
  <2> QED BY <2>1, <2>2, RunningFacts
<1>2. OneRead(queue, reading, g)
  BY ReadsParts DEF ReadsInv
<1>3. Head(queue).op = "handleReceive" /\ Head(queue).face = f
  <2>1. Received(f, p).op = "handleReceive" /\ Received(f, p).face = f
    BY DEF Received
  <2> QED BY <1>1, <2>1
<1>4. link[g] = "open" => g \in reading \/ ReadsIn(queue, g) # {} \/ Holds(queue, Failed(g))
  BY ReadsParts DEF ReadsInv
<1>5. \/ /\ reading' = reading \cup {f} /\ queue' = Tail(queue)
      \/ /\ UNCHANGED reading /\ queue' = Append(Tail(queue), Failed(f))
         /\ link[f] # "open"
      \/ /\ UNCHANGED reading /\ link[f] # "open"
         /\ \E x \in Packets : queue' = Append(Tail(queue), Received(f, x))
  BY <1>1 DEF Rearm
<1>6. CASE g = f
  <2>1. ReadsIn(Tail(queue), f) = {} /\ f \notin reading
    BY <1>1, <1>2, <1>3, <1>6, TailOneRead
  <2>2. CASE reading' = reading \cup {f} /\ queue' = Tail(queue)
    BY <1>6, <2>1, <2>2 DEF ReadsEffect, OneRead
  <2>3. ASSUME UNCHANGED reading, queue' = Append(Tail(queue), Failed(f)), link[f] # "open"
        PROVE  ReadsEffect(f)
    <3>1. NoReadMove(Tail(queue))
      BY <2>3, EventsOfFaces, EventFields DEF NoReadMove
    <3>2. ReadsIn(queue', f) = {}
      BY <1>1, <2>1, <3>1, NoReadMoveReads
    <3> QED BY <1>1, <2>3, <3>2 DEF ReadsEffect, OneRead
  <2>4. ASSUME UNCHANGED reading, link[f] # "open", NEW x \in Packets, queue' = Append(Tail(queue), Received(f, x))
        PROVE  ReadsEffect(f)
    <3>0. \A q \in Seq(Events) : ReadsIn(Append(q, Received(f, x)), f) = ReadsIn(q, f) \cup {Len(q) + 1}
      BY ReceivedReads
    <3>1. ReadsIn(Append(Tail(queue), Received(f, x)), f) = {Len(Tail(queue)) + 1}
      BY <1>1, <2>1, <3>0, Zenon
    <3> QED BY <1>1, <2>1, <2>4, <3>1 DEF ReadsEffect, OneRead
  <2> QED BY <1>5, <1>6, <2>2, <2>3, <2>4
<1>7. CASE g # f
  <2>1. /\ OneRead(Tail(queue), reading, g)
        /\ ReadsIn(queue, g) # {} => ReadsIn(Tail(queue), g) # {}
    BY <1>1, <1>2, <1>3, <1>7, TailOneRead
  <2>2. g \in reading' <=> g \in reading
    BY <1>5, <1>7
  <2>3. ReadsIn(queue', g) = ReadsIn(Tail(queue), g)
    <3>1. CASE queue' = Tail(queue)
      BY <3>1
    <3>2. CASE queue' = Append(Tail(queue), Failed(f))
      <4>1. NoReadMove(Tail(queue))
        BY <3>2, EventsOfFaces, EventFields DEF NoReadMove
      <4> QED BY <1>1, <4>1, NoReadMoveReads
    <3>3. ASSUME NEW x \in Packets, queue' = Append(Tail(queue), Received(f, x))
          PROVE  ReadsIn(queue', g) = ReadsIn(Tail(queue), g)
      <4>0. \A q \in Seq(Events) : ReadsIn(Append(q, Received(f, x)), g) = ReadsIn(q, g)
        BY <1>7, ReceivedReads
      <4>1. ReadsIn(Append(Tail(queue), Received(f, x)), g) = ReadsIn(Tail(queue), g)
        BY <1>1, <4>0, Zenon
      <4> QED BY <3>3, <4>1
    <3> QED BY <1>5, <3>1, <3>2, <3>3
  <2>4. link'[g] = "open" => link[g] = "open" /\ (Holds(queue, Failed(g)) => Holds(queue', Failed(g)))
    BY <1>1 DEF FailuresStay
  <2> QED BY <1>4, <2>1, <2>2, <2>3, <2>4 DEF ReadsEffect, OneRead
<1> QED BY <1>6, <1>7

LEMMA EventLoopReads ==
  ASSUME FacesOK, QueueOK, ReadsInv, FailuresStay, EventLoop, NEW g \in Created
  PROVE  ReadsEffect(g)
<1>0. link \in [Created -> {"open", "closing", "closed"}]
  BY DEF FacesOK
<1>1. ASSUME NEW f \in FaceIds, NEW p \in Packets, HandleReceive(f, p)
      PROVE  ReadsEffect(g)
  BY <1>1, ReceiveReads
<1>2. ASSUME NEW e, Running(e), e.op # "handleReceive", NoReadMove(Tail(queue)),
             g \in reading' => g \in reading,
             link'[g] = "open" => link[g] = "open" /\ (g \in reading => g \in reading')
      PROVE  ReadsEffect(g)
  <2>1. Tail(queue) \in Seq(Events) /\ queue # <<>> /\ Head(queue).op # "handleReceive"
    BY <1>2, RunningFacts
  <2>2. link'[g] = "open" => (Holds(queue, Failed(g)) => Holds(queue', Failed(g)))
    BY DEF FailuresStay
  <2> QED BY <1>2, <2>1, <2>2, CalmReads
<1>3. ASSUME NEW f \in FaceIds, HandleFailure(f)
      PROVE  ReadsEffect(g)
  <2>1. Running(Failed(f)) /\ NoReadMove(Tail(queue))
    BY <1>3, EventsOfFaces, EventFields DEF HandleFailure, ShutdownOf, NoReadMove
  <2>2. /\ reading' = reading \ {f}
        /\ link' = [link EXCEPT ![f] = IF @ = "open" THEN "closing" ELSE @]
    BY <1>3 DEF HandleFailure, ShutdownOf
  <2> QED BY <1>0, <1>2, <2>1, <2>2, EventFields
<1>4. ASSUME NEW f \in FaceIds, HandleShutdown(f)
      PROVE  ReadsEffect(g)
  <2>1. Running(ShutdownPosted(f)) /\ NoReadMove(Tail(queue))
    BY <1>4, EventsOfFaces, EventFields DEF HandleShutdown, NoReadMove
  <2>2. reading' = reading \ {f} /\ link' = [link EXCEPT ![f] = "closed"]
    BY <1>4 DEF HandleShutdown
  <2> QED BY <1>0, <1>2, <2>1, <2>2, EventFields
<1>5. ASSUME NEW f \in FaceIds, OnFaceShutdown(f)
      PROVE  ReadsEffect(g)
  <2>1. Running(FaceShutdownPosted(f)) /\ NoReadMove(Tail(queue)) /\ UNCHANGED <<link, reading>>
    BY <1>5 DEF OnFaceShutdown, NoReadMove, transports
  <2> QED BY <1>2, <2>1, EventFields
<1>6. ASSUME NEW cd \in SubCds, NEW f \in FaceIds, OnExpired(cd, f)
      PROVE  ReadsEffect(g)
  <2>1. Running(Expired(cd, f)) /\ NoReadMove(Tail(queue)) /\ UNCHANGED <<link, reading>>
    BY <1>6 DEF OnExpired, NoReadMove, transports
  <2> QED BY <1>2, <2>1, EventFields
<1> QED BY <1>1, <1>3, <1>4, <1>5, <1>6 DEF EventLoop

(* Steps outside of the event loop that add no completion of a read.       *)
LEMMA QuietReads ==
  ASSUME QueueOK, ReadsInv, FailuresStay, NEW g \in Created, NoReadMove(queue),
         g \in reading' => g \in reading,
         link'[g] = "open" => link[g] = "open" /\ (g \in reading => g \in reading')
  PROVE  ReadsEffect(g)
<1>1. queue \in Seq(Events)
  BY DEF QueueOK
<1>2. link'[g] = "open" => (Holds(queue, Failed(g)) => Holds(queue', Failed(g)))
  BY DEF FailuresStay
<1> QED BY <1>1, <1>2, CalmReads

LEMMA EnvironmentReads ==
  ASSUME FacesOK, QueueOK, ReadsInv, FailuresStay, Environment, NEW g \in Created
  PROVE  ReadsEffect(g)
<1>0. OneRead(queue, reading, g) /\ queue \in Seq(Events)
  BY ReadsParts DEF ReadsInv, QueueOK
<1>1. ASSUME NEW f \in FaceIds, NEW p \in Packets, PacketArrives(f, p)
      PROVE  ReadsEffect(g)
  <2>1. queue' = Append(queue, Received(f, p)) /\ reading' = reading \ {f} /\ f \in reading /\ UNCHANGED link
    BY <1>1 DEF PacketArrives
  <2>2. Received(f, p) \in Events /\ Received(f, p).op = "handleReceive" /\ Received(f, p).face = f
    BY EventsOfFaces, EventFields
  <2>3. CASE f = g
    <3>1. ReadsIn(Append(queue, Received(f, p)), g) = ReadsIn(queue, g) \cup {Len(queue) + 1}
      BY <1>0, <2>2, <2>3, AppendReads
    <3> QED BY <1>0, <2>1, <2>3, <3>1 DEF ReadsEffect, OneRead
  <2>4. CASE f # g
    <3>2. ReadsIn(Append(queue, Received(f, p)), g) = ReadsIn(queue, g)
      BY <1>0, <2>2, <2>4, AppendReads
    <3>1. link[g] = "open" => g \in reading \/ ReadsIn(queue, g) # {} \/ Holds(queue, Failed(g))
      BY ReadsParts DEF ReadsInv
    <3> QED BY <1>0, <2>1, <3>2, <2>4, <3>1 DEF ReadsEffect, OneRead, FailuresStay
  <2> QED BY <2>3, <2>4
<1>2. ASSUME NEW f \in FaceIds, ReadFails(f)
      PROVE  ReadsEffect(g)
  <2>1. /\ queue' = Append(queue, Failed(f)) /\ reading' = reading \ {f} /\ UNCHANGED link
        /\ Failed(f) \in Events
    BY <1>2, EventsOfFaces DEF ReadFails
  <2>2. NoReadMove(queue)
    BY <2>1, EventFields DEF NoReadMove
  <2>3. CASE f = g
    <3>1. Holds(queue', Failed(f))
      BY <1>0, <2>1, AppendHolds
    <3>2. ReadsIn(queue', g) = ReadsIn(queue, g)
      BY <1>0, <2>2, NoReadMoveReads
    <3> QED BY <1>0, <2>1, <2>3, <3>1, <3>2 DEF ReadsEffect, OneRead
  <2>4. CASE f # g
    BY <2>1, <2>2, <2>4, QuietReads
  <2> QED BY <2>3, <2>4
<1>3. ASSUME NEW f \in FaceIds, WriteFailsOrTimeout(f)
      PROVE  ReadsEffect(g)
  BY <1>3, QuietReads, EventsOfFaces, EventFields DEF WriteFailsOrTimeout, NoReadMove, transports
<1>4. ASSUME NEW cd \in SubCds, NEW f \in FaceIds, TimerFires(cd, f)
      PROVE  ReadsEffect(g)
  BY <1>4, QuietReads, EventsOfFaces, EventFields DEF TimerFires, NoReadMove, transports
<1> QED BY <1>1, <1>2, <1>3, <1>4 DEF Environment

(* A new face is read from the start, or closes from the start.            *)
LEMMA NewFaceReads ==
  ASSUME FacesOK, QueueOK, ReadsInv, FailuresStay,
         NEW r \in Remotes, NEW state \in {"open", "closing"}, CreateFace(r, state),
         NoReadMove(queue),
         reading' = reading \cup (IF state = "open" THEN {serial + 1} ELSE {}),
         NEW g \in Created'
  PROVE  ReadsEffect(g)
<1>1. /\ Created' = Created \cup {serial + 1}
      /\ serial + 1 \notin Created
      /\ link'[serial + 1] = state
      /\ \A f \in Created : link'[f] = link[f] /\ f # serial + 1
  BY CreateFaceOK
<1>2. CASE g \in Created
  BY <1>1, <1>2, QuietReads
<1>3. CASE g = serial + 1
  <2>1. ReadsIn(queue', g) = {}
    BY <1>1, <1>3, NewIdUnread, NoReadMoveReads DEF QueueOK
  <2> QED BY <1>1, <1>3, <2>1 DEF ReadsEffect, OneRead
<1> QED BY <1>1, <1>2, <1>3

LEMMA NewFacesReads ==
  ASSUME FacesOK, QueueOK, ReadsInv, FailuresStay, NewFaces, NEW g \in Created'
  PROVE  ReadsEffect(g)
<1>1. ASSUME NEW r \in TcpRemotes, AcceptTcp(r) PROVE ReadsEffect(g)
  BY <1>1, NewFaceReads DEF AcceptTcp, Remotes, NoReadMove
<1>2. ASSUME NEW r \in UdpRemotes, NEW p \in Packets, AcceptUdp(r, p) PROVE ReadsEffect(g)
  BY <1>2, NewFaceReads DEF AcceptUdp, Remotes, NoReadMove
<1>3. ASSUME NEW r \in UdpRemotes, AcceptUdpGarbage(r) PROVE ReadsEffect(g)
  <2>1. /\ CreateFace(r, "closing") /\ UNCHANGED reading
        /\ queue' = Append(queue, ShutdownPosted(serial + 1))
        /\ serial + 1 \in FaceIds
    BY <1>3, CreatedFaces DEF AcceptUdpGarbage, CreateFace
  <2>2. NoReadMove(queue)
    BY <2>1, EventsOfFaces, EventFields DEF NoReadMove
  <2> QED BY <2>1, <2>2, NewFaceReads DEF Remotes
<1> QED BY <1>1, <1>2, <1>3 DEF NewFaces

LEMMA CommandsReads ==
  ASSUME FacesOK, QueueOK, ReadsInv, FailuresStay, Commands, NEW g \in Created'
  PROVE  ReadsEffect(g)
<1>1. ASSUME UNCHANGED <<faces, serial, transports, queue>> PROVE ReadsEffect(g)
  BY <1>1, QuietReads DEF transports, NoReadMove, Created
<1>2. ASSUME NEW name \in FibNames, NEW r \in Remotes, NEW cost \in Costs, FibAddNewFace(name, r, cost)
      PROVE  ReadsEffect(g)
  BY <1>2, NewFaceReads DEF FibAddNewFace, NoReadMove
<1>3. ASSUME NEW f \in FaceIds, FaceDel(f)
      PROVE  ReadsEffect(g)
  <2>1. /\ g \in Created
        /\ reading' = reading \ {f}
        /\ link' = [link EXCEPT ![f] = IF @ = "open" THEN "closing" ELSE @]
        /\ link \in [Created -> {"open", "closing", "closed"}]
    BY <1>3 DEF FaceDel, ShutdownOf, Created, FacesOK
  <2>2. NoReadMove(queue)
    BY <1>3, EventsOfFaces, EventFields DEF FaceDel, ShutdownOf, NoReadMove
  <2> QED BY <2>1, <2>2, QuietReads
<1> QED BY <1>1, <1>2, <1>3 DEF Commands, FibAddToFace, FibDelHop, FibDelName, FibDelAll, StDel

LEMMA NextReadsInv ==
  ASSUME TypeOK, HopsAreFaces, ReadsInv, [Next]_vars
  PROVE  ReadsInv'
<1>1. FacesOK /\ QueueOK
  BY TypeParts
<1>2. FailuresStay
  BY QueueKeeps, FailureHandled DEF FailuresStay
<1>3. ASSUME NEW g \in Created' PROVE ReadsEffect(g)
  <2>1. CASE EventLoop \/ Environment
    <3>1. Created' = Created
      BY <2>1 DEF EventLoop, Environment, HandleReceive, HandleFailure, HandleShutdown,
                  OnFaceShutdown, OnExpired, PacketArrives, ReadFails, WriteFailsOrTimeout,
                  TimerFires, Created
    <3> QED BY <1>1, <1>2, <2>1, <3>1, EventLoopReads, EnvironmentReads
  <2>2. CASE NewFaces \/ Commands
    BY <1>1, <1>2, <2>2, NewFacesReads, CommandsReads
  <2>3. CASE UNCHANGED vars
    BY <1>1, <1>2, <2>3, QuietReads DEF vars, Created, NoReadMove
  <2> QED BY <2>1, <2>2, <2>3 DEF Next
<1>4. \A g \in Created' :
        /\ OneRead(queue', reading', g)
        /\ link'[g] = "open" => g \in reading' \/ ReadsIn(queue', g) # {} \/ Holds(queue', Failed(g))
  BY <1>3 DEF ReadsEffect
<1> QED BY <1>4 DEF ReadsInv, OneReadAtMost, OpenFaceIsRead, ReadCompletions, Queued, OneRead, ReadsIn, Holds

-----------------------------------------------------------------------------
(***************************************************************************)
(* The theorems.                                                           *)
(***************************************************************************)

(* The inductive invariant: that of the tables, the order of a shutdown    *)
(* and the reads.  Whether a face that left the table is closed depends on *)
(* what the queue held when it left, so NoZombieFace, RemovedFaceIsClosed  *)
(* and ShutdownInOrder are inductive only together.                        *)
RouterInv == TablesInv /\ ShutdownInv /\ ReadsInv

(* The tables, the order of a shutdown and the reads stay as RouterInv     *)
(* says, whatever order the handlers run in.                               *)
THEOREM RouterInvariant == Spec => []RouterInv
<1>1. Init => RouterInv
  <2> SUFFICES ASSUME Init PROVE ShutdownInv /\ ReadsInv
    BY InitTablesInv DEF RouterInv
  <2>1. Created = {} /\ faces = {}
    BY DEF Init, Created, FirstSerial
  <2> QED BY <2>1 DEF ShutdownInv, NoZombieFace, RemovedFaceIsClosed, ShutdownInOrder,
                      ReadsInv, OneReadAtMost, OpenFaceIsRead
<1>2. RouterInv /\ [Next]_vars => RouterInv'
  BY NextTablesInv, NextShutdownInv, NextReadsInv DEF RouterInv, TablesInv
<1> QED BY <1>1, <1>2, PTL DEF Spec

(* A face that closes stays in the tables only as long as the next stage   *)
(* of its removal is in the queue.                                         *)
THEOREM RouterNoZombieFace == Spec => []NoZombieFace
<1>1. RouterInv => NoZombieFace
  BY DEF RouterInv, ShutdownInv
<1> QED BY <1>1, RouterInvariant, PTL

(* A face leaves the table after its socket is closed, never before.       *)
THEOREM RouterRemovedFaceIsClosed == Spec => []RemovedFaceIsClosed
<1>1. RouterInv => RemovedFaceIsClosed
  BY DEF RouterInv, ShutdownInv
<1> QED BY <1>1, RouterInvariant, PTL

(* Both together: a removal is neither forgotten nor ahead of itself.      *)
THEOREM RouterRemovalIsOrderly == Spec => []RemovalIsOrderly
<1>1. NoZombieFace /\ RemovedFaceIsClosed => RemovalIsOrderly
  BY DEF RemovalIsOrderly
<1> QED BY <1>1, RouterNoZombieFace, RouterRemovedFaceIsClosed, PTL

(* onFaceShutdown is in the queue only once the socket is closed, and a    *)
(* closed socket is not read.                                              *)
THEOREM RouterShutdownInOrder == Spec => []ShutdownInOrder
<1>1. RouterInv => ShutdownInOrder
  BY DEF RouterInv, ShutdownInv
<1> QED BY <1>1, RouterInvariant, PTL

(* No two reads of one transport are ever under way.                       *)
THEOREM RouterOneReadAtMost == Spec => []OneReadAtMost
<1>1. RouterInv => OneReadAtMost
  BY DEF RouterInv, ReadsInv
<1> QED BY <1>1, RouterInvariant, PTL

(* No open face is deaf.                                                   *)
THEOREM RouterOpenFaceIsRead == Spec => []OpenFaceIsRead
<1>1. RouterInv => OpenFaceIsRead
  BY DEF RouterInv, ReadsInv
<1> QED BY <1>1, RouterInvariant, PTL

(* Both together: an open face is read, once at a time.                    *)
THEOREM RouterFaceIsReadOnce == Spec => []FaceIsReadOnce
<1>1. OneReadAtMost /\ OpenFaceIsRead => FaceIsReadOnce
  BY DEF FaceIsReadOnce
<1> QED BY <1>1, RouterOneReadAtMost, RouterOpenFaceIsRead, PTL

-----------------------------------------------------------------------------
(***************************************************************************)
(* The refinement.                                                         *)
(***************************************************************************)

Doomed == {f \in faces : link[f] # "open"}

AbstractStep == PubSub!Next \/ UNCHANGED PubSub!vars

(* What the abstract variables are, with and without a change of the ids.  *)
SameIds == UNCHANGED <<faces, serial>>

LEMMA Stutters ==
  ASSUME SameIds, Doomed' = Doomed, Hops(st') = Hops(st), Hops(fib') = Hops(fib)
  PROVE  AbstractStep
  BY DEF SameIds, Doomed, Created, AbstractStep, PubSub!vars

LEMMA Subscribes ==
  ASSUME SameIds, UNCHANGED link, NEW cd \in SubCds, NEW f \in FaceIds, f \in faces,
         Hops(st') = Hops(st) \cup {<<cd, f>>}, UNCHANGED fib
  PROVE  AbstractStep
<1>1. PubSub!Subscribe(cd, f)
  BY DEF SameIds, Created, PubSub!Subscribe
<1> QED BY <1>1 DEF AbstractStep, PubSub!Next

LEMMA Forgets ==
  ASSUME SameIds, UNCHANGED link, UNCHANGED fib,
         Hops(st') \in {{}} \cup {Hops(st) \ {s} : s \in Hops(st)}
  PROVE  AbstractStep
<1>1. PubSub!Forget
  BY DEF SameIds, Created, PubSub!Forget
<1> QED BY <1>1 DEF AbstractStep, PubSub!Next

LEMMA Routes ==
  ASSUME SameIds, UNCHANGED link, NEW name \in FibNames, NEW f \in FaceIds, f \in faces,
         Hops(fib') = Hops(fib) \cup {<<name, f>>}, UNCHANGED st
  PROVE  AbstractStep
<1>1. PubSub!Route(name, f)
  BY DEF SameIds, Created, PubSub!Route
<1> QED BY <1>1 DEF AbstractStep, PubSub!Next

LEMMA Unroutes ==
  ASSUME SameIds, UNCHANGED link, UNCHANGED st,
         \/ Hops(fib') = {}
         \/ \E name \in FibNames : Hops(fib') = {h \in Hops(fib) : h[1] # name}
         \/ \E h \in Hops(fib) : Hops(fib') = Hops(fib) \ {h}
  PROVE  AbstractStep
<1>1. PubSub!Unroute
  BY DEF SameIds, Created, PubSub!Unroute
<1> QED BY <1>1 DEF AbstractStep, PubSub!Next

(* The transport of a face starts to close, or closes: from then on the    *)
(* face is doomed.  A face that left the table is of no interest.          *)
LEMMA Loses ==
  ASSUME SameIds, UNCHANGED <<st, fib>>, FacesOK, NEW f \in Created,
         \A g \in Created : g # f => link'[g] = link[g],
         link'[f] # "open"
  PROVE  AbstractStep
<1>1. CASE f \in faces
  <2>1. Doomed' = Doomed \cup {f}
    BY <1>1 DEF Doomed, SameIds, FacesOK
  <2>2. PubSub!Lose(f)
    BY <1>1, <2>1 DEF SameIds, Created, Doomed, PubSub!Lose
  <2>3. f \in FaceIds
    BY CreatedFaces
  <2> QED BY <2>2, <2>3 DEF AbstractStep, PubSub!Next
<1>2. CASE f \notin faces
  <2>1. Doomed' = Doomed
    BY <1>2 DEF Doomed, SameIds, FacesOK
  <2> QED BY <2>1, Stutters
<1> QED BY <1>1, <1>2

(* A face comes into being, perhaps already closing.                       *)
LEMMA Attaches ==
  ASSUME FacesOK, NEW r \in Remotes, NEW state \in {"open", "closing"}, CreateFace(r, state),
         \/ Hops(st') = Hops(st) /\ Hops(fib') = Hops(fib)
         \/ /\ \E cd \in SubCds : Hops(st') = Hops(st) \cup {<<cd, serial + 1>>}
            /\ Hops(fib') = Hops(fib)
         \/ /\ \E name \in FibNames, g \in faces' : Hops(fib') = Hops(fib) \cup {<<name, g>>}
            /\ Hops(st') = Hops(st)
  PROVE  AbstractStep
<1>1. /\ Created' = Created \cup {serial + 1}
      /\ serial + 1 \notin Created
      /\ faces' = faces \cup {serial + 1}
      /\ link'[serial + 1] = state
      /\ \A f \in Created : link'[f] = link[f]
  BY CreateFaceOK
<1>2. serial + 1 \in FaceIds
  BY CreatedFaces DEF CreateFace
<1>3. Doomed' \in {Doomed, Doomed \cup {serial + 1}}
  BY <1>1 DEF Doomed, FacesOK
<1>4. (Created \ faces)' = Created \ faces /\ serial + 1 \notin faces \cup (Created \ faces)
  BY <1>1 DEF FacesOK
<1>5. PICK id \in FaceIds : id = serial + 1
  BY <1>2
<1>6. PubSub!Attach(id)
  BY <1>1, <1>3, <1>4, <1>5 DEF Doomed, PubSub!Attach
<1> QED BY <1>6 DEF AbstractStep, PubSub!Next

LEMMA Detaches ==
  ASSUME RouterInv, FacesOK, NEW f \in FaceIds, OnFaceShutdown(f)
  PROVE  AbstractStep
<1>1. /\ UNCHANGED <<serial, link>>
      /\ faces' = faces \ {f}
      /\ Hops(st') = {h \in Hops(st) : h[2] # f}
      /\ Hops(fib') = {h \in Hops(fib) : h[2] # f}
  BY RemoveFaceHops DEF OnFaceShutdown, StRemoveFace, FibRemoveFace, transports
<1>2. f \in Created /\ link[f] = "closed"
  <2>1. Holds(queue, FaceShutdownPosted(f)) /\ f \in Created
    BY RunningFacts, EventFields, TypeParts DEF OnFaceShutdown, RouterInv, TablesInv
  <2> QED BY <2>1 DEF RouterInv, ShutdownInv, ShutdownInOrder, Queued, Holds
<1>3. CASE f \in faces
  <2>1. f \in Doomed /\ Doomed' = Doomed \ {f}
    BY <1>1, <1>2, <1>3 DEF Doomed
  <2>2. (Created \ faces)' = (Created \ faces) \cup {f}
    BY <1>1, <1>2, <1>3 DEF Created
  <2>3. PubSub!Detach(f)
    BY <1>1, <2>1, <2>2 DEF Doomed, PubSub!Detach
  <2> QED BY <2>3 DEF AbstractStep, PubSub!Next
<1>4. CASE f \notin faces
  <2>1. SameIds /\ Doomed' = Doomed
    BY <1>1, <1>4 DEF SameIds, Doomed
  <2>2. Hops(st') = Hops(st) /\ Hops(fib') = Hops(fib)
    BY <1>1, <1>4 DEF RouterInv, TablesInv, HopsAreFaces
  <2> QED BY <2>1, <2>2, Stutters
<1> QED BY <1>3, <1>4

(* A packet that a face receives is a subscription, or changes nothing.    *)
LEMMA PacketSubscribes ==
  ASSUME NEW f, NEW p \in Packets, OnPacketReceived(f, p)
  PROVE  \/ UNCHANGED st
         \/ \E cd \in SubCds : Hops(st') = Hops(st) \cup {<<cd, f>>}
<1>1. CASE p.type = "Sub"
  <2>1. p.cd \in SubCds /\ st' = AddHop(st, p.cd, f, "armed")
    BY <1>1 DEF Packets, OnPacketReceived, OnSubReceived, StAdd
  <2> QED BY <2>1, AddHopHops
<1>2. CASE p.type # "Sub"
  BY <1>2 DEF OnPacketReceived, OnPubToRpReceived, OnPubFromRpReceived
<1> QED BY <1>1, <1>2

LEMMA ShutdownOfLoses ==
  ASSUME FacesOK, SameIds, UNCHANGED <<st, fib>>, NEW f \in Created, NEW q, ShutdownOf(f, q)
  PROVE  AbstractStep
<1>1. link' = [link EXCEPT ![f] = IF @ = "open" THEN "closing" ELSE @]
      /\ link \in [Created -> {"open", "closing", "closed"}]
  BY DEF ShutdownOf, FacesOK
<1> QED BY <1>1, Loses

LEMMA EventLoopImplements ==
  ASSUME RouterInv, FacesOK, QueueOK, EventLoop
  PROVE  AbstractStep
<1>1. ASSUME NEW f \in FaceIds, NEW p \in Packets, HandleReceive(f, p)
      PROVE  AbstractStep
  <2>1. SameIds /\ UNCHANGED <<link, fib>> /\ Doomed' = Doomed
    BY <1>1 DEF HandleReceive, SameIds, Doomed
  <2>2. CASE UNCHANGED st
    BY <2>1, <2>2, Stutters
  <2>3. CASE f \in faces /\ OnPacketReceived(f, p)
    BY <2>1, <2>2, <2>3, PacketSubscribes, Subscribes
  <2> QED BY <1>1, <2>2, <2>3 DEF HandleReceive
<1>2. ASSUME NEW f \in FaceIds, HandleFailure(f)
      PROVE  AbstractStep
  <2>1. f \in Created
    BY <1>2, RunningFacts, EventFields DEF HandleFailure
  <2> QED BY <1>2, <2>1, ShutdownOfLoses DEF HandleFailure, SameIds, tables
<1>3. ASSUME NEW f \in FaceIds, HandleShutdown(f)
      PROVE  AbstractStep
  <2>1. f \in Created
    BY <1>3, RunningFacts, EventFields DEF HandleShutdown
  <2>2. SameIds /\ UNCHANGED <<st, fib>> /\ link' = [link EXCEPT ![f] = "closed"]
        /\ link \in [Created -> {"open", "closing", "closed"}]
    BY <1>3 DEF HandleShutdown, SameIds, tables, FacesOK
  <2> QED BY <2>1, <2>2, Loses
<1>4. ASSUME NEW f \in FaceIds, OnFaceShutdown(f)
      PROVE  AbstractStep
  BY <1>4, Detaches
<1>5. ASSUME NEW cd \in SubCds, NEW f \in FaceIds, OnExpired(cd, f)
      PROVE  AbstractStep
  <2>1. SameIds /\ UNCHANGED <<link, fib>> /\ Doomed' = Doomed
    BY <1>5 DEF OnExpired, SameIds, Doomed, transports
  <2>2. Hops(st') = Hops(st) \ {<<cd, f>>}
    BY <1>5, RemoveHopHops DEF OnExpired, StRemoveHop
  <2>3. CASE <<cd, f>> \in Hops(st)
    BY <2>1, <2>2, <2>3, Forgets
  <2>4. CASE <<cd, f>> \notin Hops(st)
    BY <2>1, <2>2, <2>4, Stutters
  <2> QED BY <2>3, <2>4
<1> QED BY <1>1, <1>2, <1>3, <1>4, <1>5 DEF EventLoop

LEMMA EnvironmentImplements ==
  ASSUME Environment
  PROVE  AbstractStep
<1>1. SameIds /\ UNCHANGED <<link, fib>> /\ Doomed' = Doomed
  BY DEF Environment, PacketArrives, ReadFails, WriteFailsOrTimeout, TimerFires, SameIds,
         Doomed, tables, transports
<1>2. Hops(st') = Hops(st)
  <2>1. ASSUME NEW cd \in SubCds, NEW f \in FaceIds, TimerFires(cd, f)
        PROVE  Hops(st') = Hops(st)
    BY <2>1, FireHops DEF TimerFires
  <2> QED BY <2>1 DEF Environment, PacketArrives, ReadFails, WriteFailsOrTimeout, tables
<1> QED BY <1>1, <1>2, Stutters

LEMMA NewFacesImplements ==
  ASSUME FacesOK, NewFaces
  PROVE  AbstractStep
<1>1. ASSUME NEW r \in TcpRemotes, AcceptTcp(r) PROVE AbstractStep
  BY <1>1, Attaches DEF AcceptTcp, Remotes, tables
<1>2. ASSUME NEW r \in UdpRemotes, AcceptUdpGarbage(r) PROVE AbstractStep
  BY <1>2, Attaches DEF AcceptUdpGarbage, Remotes, tables
<1>3. ASSUME NEW r \in UdpRemotes, NEW p \in Packets, AcceptUdp(r, p) PROVE AbstractStep
  BY <1>3, PacketSubscribes, Attaches DEF AcceptUdp, Remotes
<1> QED BY <1>1, <1>2, <1>3 DEF NewFaces

LEMMA CommandsImplement ==
  ASSUME FacesOK, Commands
  PROVE  AbstractStep
<1>1. ASSUME NEW name \in FibNames, NEW r \in Remotes, NEW cost \in Costs, FibAddToFace(name, r, cost)
      PROVE  AbstractStep
  <2>1. SameIds /\ UNCHANGED <<link, st>> /\ fib' = AddHop(fib, name, Find(r), cost)
    BY <1>1 DEF FibAddToFace, FibAdd, SameIds, transports
  <2>2. Find(r) \in faces /\ Find(r) \in FaceIds
    BY <1>1, FindOK, CreatedFaces DEF FibAddToFace, FacesOK
  <2>3. Hops(fib') = Hops(fib) \cup {<<name, Find(r)>>}
    BY <2>1, AddHopHops
  <2> QED BY <2>1, <2>2, <2>3, Routes
<1>2. ASSUME NEW name \in FibNames, NEW r \in Remotes, NEW cost \in Costs, FibAddNewFace(name, r, cost)
      PROVE  AbstractStep
  <2> DEFINE g == IF FacesTo(r) = {} THEN serial + 1 ELSE Find(r)
  <2>1. /\ CreateFace(r, "open") /\ UNCHANGED st
        /\ faces' = faces \cup {serial + 1} /\ fib' = AddHop(fib, name, g, cost)
    BY <1>2 DEF FibAddNewFace, FibAdd, CreateFace
  <2>2. g \in faces'
    BY <2>1, FindOK
  <2> HIDE DEF g
  <2>3. Hops(fib') = Hops(fib) \cup {<<name, g>>}
    BY <2>1, AddHopHops
  <2> QED BY <2>1, <2>2, <2>3, Attaches
<1>3. ASSUME NEW name \in FibNames, NEW r \in Remotes, FibDelHop(name, r)
      PROVE  AbstractStep
  <2>1. SameIds /\ UNCHANGED <<link, st>> /\ fib' = RemoveHop(fib, name, Find(r)) /\ Doomed' = Doomed
    BY <1>3 DEF FibDelHop, FibRemoveHop, SameIds, transports, Doomed
  <2>2. Hops(fib') = Hops(fib) \ {<<name, Find(r)>>}
    BY <2>1, RemoveHopHops
  <2>3. CASE <<name, Find(r)>> \in Hops(fib)
    BY <2>1, <2>2, <2>3, Unroutes
  <2>4. CASE <<name, Find(r)>> \notin Hops(fib)
    BY <2>1, <2>2, <2>4, Stutters
  <2> QED BY <2>3, <2>4
<1>4. ASSUME NEW name \in FibNames, FibDelName(name)
      PROVE  AbstractStep
  BY <1>4, RemoveEntryHops, Unroutes DEF FibDelName, FibRemoveName, SameIds, transports
<1>5. ASSUME FibDelAll PROVE AbstractStep
  BY <1>5, EmptyTableHops, Unroutes DEF FibDelAll, FibClear, SameIds, transports
<1>6. ASSUME StDel PROVE AbstractStep
  BY <1>6, EmptyTableHops, Forgets DEF StDel, StClear, SameIds, transports
<1>7. ASSUME NEW f \in FaceIds, FaceDel(f)
      PROVE  AbstractStep
  <2>1. f \in Created
    BY <1>7 DEF FaceDel, FacesOK
  <2> QED BY <1>7, <2>1, ShutdownOfLoses DEF FaceDel, SameIds, tables
<1> QED BY <1>1, <1>2, <1>3, <1>4, <1>5, <1>6, <1>7 DEF Commands

LEMMA NextImplements ==
  ASSUME RouterInv, [Next]_vars
  PROVE  AbstractStep
<1>1. FacesOK /\ QueueOK
  BY TypeParts DEF RouterInv, TablesInv
<1>2. CASE UNCHANGED vars
  BY <1>2, Stutters DEF vars, SameIds, Doomed
<1> QED BY <1>1, <1>2, EventLoopImplements, EnvironmentImplements, NewFacesImplements,
           CommandsImplement DEF Next

LEMMA InitImplements ==
  ASSUME Init
  PROVE  PubSub!Init
<1>1. Created = {} /\ faces = {}
  BY DEF Init, Created, FirstSerial
<1>2. Hops(st) = {} /\ Hops(fib) = {}
  BY EmptyTableHops DEF Init
<1> QED BY <1>1, <1>2 DEF PubSub!Init

(* Only attached faces have subscriptions and routes; a face is detached   *)
(* in one step with all it has, only after its connection was lost, and    *)
(* its id never comes back.                                                *)
THEOREM RouterImplementsPubSubTable == Spec => ImplementsPubSubTable
<1>1. Init => PubSub!Init
  BY InitImplements
<1>2. RouterInv /\ [Next]_vars => [PubSub!Next]_(PubSub!vars)
  BY NextImplements DEF AbstractStep
<1> QED BY <1>1, <1>2, RouterInvariant, PTL DEF Spec, ImplementsPubSubTable, PubSub!Spec

=============================================================================

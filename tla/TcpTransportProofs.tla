------------------------- MODULE TcpTransportProofs -------------------------
(***************************************************************************)
(* Proof that a tcp transport writes its packets one by one, for every     *)
(* number of packets, and that the face gets the packets of the peer, for  *)
(* every stream, whole and in order.                                       *)
(***************************************************************************)
EXTENDS TcpTransport, DataProofs

(***************************************************************************)
(* Types of what the sending of packets depends on.                        *)
(***************************************************************************)
Units == {Bytes[i] : i \in Nat}

Events ==
  [op : {"readFailed", "readAborted", "written", "writeFailed", "timedOut", "handleShutdown",
         "onFaceShutdown"}]
  \cup [op : {"read"}, units : Seq(Units)]

SendTypeOK ==
  /\ sock \in {"open", "shut", "closed"}
  /\ {peerUp, face, alive, writing, reading} \subseteq BOOLEAN
  /\ sends \in Nat
  /\ sendQueue \in Seq(Nat)
  /\ wire \in Seq(Nat)
  /\ taken \in Nat
  /\ queue \in Seq(Events)

-----------------------------------------------------------------------------
(***************************************************************************)
(* Where the sending of packets is.                                        *)
(***************************************************************************)
SendOps == {"written", "writeFailed"}

(* The packets on the wire, those that wait and the one that is both, with *)
(* n = 1, are those of all calls of send().                                *)
Numbered(n) ==
  /\ Len(wire) + Len(sendQueue) = sends + n
  /\ \A i \in 1..Len(sendQueue) : sendQueue[i] = sends - Len(sendQueue) + i

(* No write is under way, one is of the head of the queue, has completed   *)
(* or has failed.                                                          *)
Idle    == ~writing /\ sendQueue = <<>> /\ Free(queue, SendOps) /\ Numbered(0)
Writes  == writing /\ sendQueue # <<>> /\ Free(queue, SendOps) /\ Numbered(0)
Wrote   == ~writing /\ sendQueue # <<>> /\ Only(queue, SendOps, Written) /\ Numbered(1)
Failed  == ~writing /\ sendQueue # <<>> /\ Only(queue, SendOps, WriteFailed) /\ Numbered(0)

(* The completions of writes are handled before the socket is closed.      *)
WrittenBeforeShutdown(q) ==
  \A i, j \in 1..Len(q) : q[i].op = "written" /\ q[j].op = "handleShutdown" => i < j

(* No write is under way, and one may have completed. *)
NoWrite(q) ==
  \/ Free(q, {"written"}) /\ Numbered(0)
  \/ /\ Only(q, {"written"}, Written) /\ sendQueue # <<>> /\ Numbered(1)
     /\ WrittenBeforeShutdown(q)

SendTurn ==
  \/ sock = "open" /\ Free(queue, {"handleShutdown"}) /\ (Idle \/ Writes \/ Wrote \/ Failed)
  \/ sock = "shut" /\ ~writing /\ NoWrite(queue)
  \/ sock = "closed" /\ ~writing /\ Free(queue, {"written"})

WireInOrder == \A i \in 1..Len(wire) : wire[i] = i

SendInv == SendTypeOK /\ SendTurn /\ WireInOrder

-----------------------------------------------------------------------------
(***************************************************************************)
(* Events and types.                                                       *)
(***************************************************************************)
LEMMA EventTypes ==
  /\ ReadFailed \in Events /\ ReadAborted \in Events /\ Written \in Events /\ WriteFailed \in Events
  /\ TimedOut \in Events /\ ShutdownPosted \in Events /\ FaceShutdownPosted \in Events
  /\ \A units \in Seq(Units) : Read(units) \in Events
  BY DEF Events, Event, Read, ReadFailed, ReadAborted, Written, WriteFailed, TimedOut, ShutdownPosted,
       FaceShutdownPosted

LEMMA EventOps ==
  /\ ReadFailed.op = "readFailed" /\ ReadAborted.op = "readAborted" /\ Written.op = "written"
  /\ WriteFailed.op = "writeFailed" /\ TimedOut.op = "timedOut" /\ ShutdownPosted.op = "handleShutdown"
  /\ FaceShutdownPosted.op = "onFaceShutdown"
  /\ \A units : Read(units).op = "read"
  BY DEF Event, Read, ReadFailed, ReadAborted, Written, WriteFailed, TimedOut, ShutdownPosted,
       FaceShutdownPosted

(* What arrives are units of the stream. *)
LEMMA ArrivingUnits ==
  ASSUME taken \in Nat, NEW units \in Arriving
  PROVE  units \in Seq(Units) /\ taken + Len(units) \in Nat
<1>1. PICK n \in taken + 1 .. Len(Bytes) : units = SubSeq(Bytes, taken + 1, n)
  BY DEF Arriving
<1>2. n \in Int /\ taken + 1 \in Int /\ \A i \in taken + 1 .. n : Bytes[i] \in Units
  BY DEF Units
<1>3. units \in Seq(Units)
  BY <1>1, <1>2, SubSeqProperties
<1> QED BY <1>3, LenProperties

LEMMA FittingUnits ==
  ASSUME taken \in Nat, NEW buf, NEW units \in Fitting(buf)
  PROVE  units \in Seq(Units) /\ taken + Len(units) \in Nat
  BY ArrivingUnits DEF Fitting

(* Events that the queue may get without a write having completed.         *)
LEMMA QuietConcat ==
  ASSUME NEW p \in Seq(Events), NEW rest \in Seq(Events), Free(rest, {"written"})
  PROVE  /\ p \o rest \in Seq(Events)
         /\ SameFor({"written"}, p, p \o rest)
         /\ WrittenBeforeShutdown(p) => WrittenBeforeShutdown(p \o rest)
<1>1. p \o rest \in Seq(Events) /\ SameFor({"written"}, p, p \o rest)
  BY ConcatSame
<1>2. /\ Len(p \o rest) = Len(p) + Len(rest)
      /\ \A i \in 1..Len(p) + Len(rest) : (p \o rest)[i] = IF i <= Len(p) THEN p[i] ELSE rest[i - Len(p)]
      /\ Len(p) \in Nat /\ Len(rest) \in Nat
  BY ConcatProperties, LenProperties
<1>3. ASSUME WrittenBeforeShutdown(p), NEW i \in 1..Len(p \o rest), NEW j \in 1..Len(p \o rest),
             (p \o rest)[i].op = "written", (p \o rest)[j].op = "handleShutdown"
      PROVE  i < j
  <2>1. i <= Len(p) /\ p[i].op = "written"
    <3>1. CASE ~(i <= Len(p))
      <4>1. i - Len(p) \in 1..Len(rest) /\ rest[i - Len(p)].op = "written"
        BY <1>2, <1>3, <3>1
      <4> QED BY <4>1 DEF Free
    <3> QED BY <1>2, <1>3, <3>1
  <2>2. CASE j <= Len(p)
    BY <1>2, <1>3, <2>1, <2>2 DEF WrittenBeforeShutdown
  <2>3. CASE ~(j <= Len(p))
    BY <1>2, <2>1, <2>3
  <2> QED BY <2>2, <2>3
<1> QED BY <1>1, <1>3 DEF WrittenBeforeShutdown

LEMMA QuietTail ==
  ASSUME NEW p \in Seq(Events), p # <<>>
  PROVE  /\ Tail(p) \in Seq(Events)
         /\ Head(p).op # "written" => SameFor({"written"}, p, Tail(p))
         /\ WrittenBeforeShutdown(p) => WrittenBeforeShutdown(Tail(p))
<1>1. /\ Tail(p) \in Seq(Events)
      /\ Len(Tail(p)) = Len(p) - 1
      /\ \A i \in 1..Len(Tail(p)) : Tail(p)[i] = p[i+1]
      /\ Len(p) \in Nat
  BY HeadTailProperties, LenProperties
<1>2. ASSUME WrittenBeforeShutdown(p), NEW i \in 1..Len(Tail(p)), NEW j \in 1..Len(Tail(p)),
             Tail(p)[i].op = "written", Tail(p)[j].op = "handleShutdown"
      PROVE  i < j
  <2>1. i + 1 \in 1..Len(p) /\ j + 1 \in 1..Len(p) /\ p[i+1].op = "written" /\ p[j+1].op = "handleShutdown"
    BY <1>1, <1>2
  <2>2. i + 1 < j + 1
    BY <1>2, <2>1 DEF WrittenBeforeShutdown
  <2> QED BY <2>2
<1>3. Head(p).op # "written" => SameFor({"written"}, p, Tail(p))
  BY TailSame
<1> QED BY <1>1, <1>2, <1>3 DEF WrittenBeforeShutdown

LEMMA IfEvents ==
  ASSUME NEW b, NEW e \in Events
  PROVE  /\ If(b, <<e>>) \in Seq(Events)
         /\ \A ops : e.op \notin ops => Free(If(b, <<e>>), ops)
         /\ ~b => If(b, <<e>>) = <<>>
         /\ b => If(b, <<e>>) = <<e>>
<1>1. <<e>> \in Seq(Events) /\ <<>> \in Seq(Events) /\ Len(<<e>>) = 1 /\ <<e>>[1] = e /\ Len(<<>>) = 0
  OBVIOUS
<1> QED BY <1>1 DEF If, Free

(* What shutdown() puts in the queue moves no write on. *)
LEMMA ShutdownQueue ==
  ASSUME NEW rest \in Seq(Events), Shutdown(rest)
  PROVE  /\ queue' \in Seq(Events)
         /\ SameFor({"written"}, rest, queue')
         /\ WrittenBeforeShutdown(rest) => WrittenBeforeShutdown(queue')
<1> DEFINE A == If(reading, <<ReadAborted>>)
           B == If(writing, <<WriteFailed>>)
           C == <<ShutdownPosted>>
<1>1. A \in Seq(Events) /\ Free(A, {"written"})
  BY IfEvents, EventTypes, EventOps
<1>2. B \in Seq(Events) /\ Free(B, {"written"})
  BY IfEvents, EventTypes, EventOps
<1>3. C \in Seq(Events) /\ Free(C, {"written"})
  BY EventTypes, EventOps DEF Free
<1>4. queue' = ((rest \o A) \o B) \o C
  BY DEF Shutdown
<1> HIDE DEF A, B, C
<1> DEFINE p == rest \o A
           q == p \o B
<1>5. /\ p \in Seq(Events) /\ SameFor({"written"}, rest, p)
      /\ WrittenBeforeShutdown(rest) => WrittenBeforeShutdown(p)
  BY <1>1, QuietConcat
<1> HIDE DEF p
<1>6. /\ q \in Seq(Events) /\ SameFor({"written"}, p, q)
      /\ WrittenBeforeShutdown(p) => WrittenBeforeShutdown(q)
  BY <1>2, <1>5, QuietConcat
<1> HIDE DEF q
<1>7. /\ q \o C \in Seq(Events) /\ SameFor({"written"}, q, q \o C)
      /\ WrittenBeforeShutdown(q) => WrittenBeforeShutdown(q \o C)
  BY <1>3, <1>6, QuietConcat
<1>8. queue' = q \o C
  BY <1>4 DEF q, p
<1> QED BY <1>5, <1>6, <1>7, <1>8 DEF SameFor

LEMMA AsyncSendType ==
  ASSUME NEW rest \in Seq(Events), AsyncSend(rest)
  PROVE  writing' \in BOOLEAN /\ queue' \in Seq(Events)
<1>1. If(~(sock = "open" /\ peerUp), <<WriteFailed>>) \in Seq(Events)
  BY IfEvents, EventTypes
<1>2. writing' = (sock = "open" /\ peerUp)
      /\ queue' = rest \o If(~(sock = "open" /\ peerUp), <<WriteFailed>>)
  BY DEF AsyncSend
<1>3. queue' \in Seq(Events)
  BY <1>1, <1>2, ConcatProperties
<1>4. writing' \in BOOLEAN
  BY <1>2
<1> QED BY <1>3, <1>4

LEMMA AsyncReceiveType ==
  ASSUME SendTypeOK, NEW buf, NEW rest \in Seq(Events), AsyncReceive(buf, rest)
  PROVE  taken' \in Nat /\ reading' \in BOOLEAN /\ queue' \in Seq(Events)
<1>1. \A e \in Events : Append(rest, e) \in Seq(Events)
  BY AppendProperties
<1>2. \A units \in Fitting(buf) : Read(units) \in Events /\ taken + Len(units) \in Nat
  BY FittingUnits, EventTypes DEF SendTypeOK
<1> QED BY <1>1, <1>2, EventTypes DEF AsyncReceive, SendTypeOK

LEMMA SendInit == Init => SendInv
<1> SUFFICES ASSUME Init PROVE SendInv
  OBVIOUS
<1>1. sendQueue \in Seq(Nat) /\ wire \in Seq(Nat) /\ queue \in Seq(Events)
  BY EmptySeq DEF Init
<1>2. {peerUp, face, alive, writing, reading} \subseteq BOOLEAN
  BY DEF Init
<1>3. SendTypeOK
  BY <1>1, <1>2 DEF Init, SendTypeOK
<1>4. \A ops : Free(queue, ops)
  BY DEF Init, Free
<1>5. Numbered(0) /\ WireInOrder
  BY DEF Init, Numbered, WireInOrder
<1>6. SendTurn
  BY <1>4, <1>5 DEF Init, SendTurn, Idle
<1> QED BY <1>3, <1>5, <1>6 DEF SendInv

LEMMA ShutdownType ==
  ASSUME SendTypeOK, NEW rest \in Seq(Events), Shutdown(rest)
  PROVE  sock' \in {"open", "shut", "closed"} /\ writing' \in BOOLEAN /\ reading' \in BOOLEAN
         /\ queue' \in Seq(Events)
  BY ShutdownQueue DEF Shutdown, SendTypeOK

LEMMA SendTypeEventLoop ==
  ASSUME SendTypeOK, EventLoop
  PROVE  SendTypeOK'
<1>1. queue # <<>> /\ queue \in Seq(Events) /\ Tail(queue) \in Seq(Events)
  <2>1. queue # <<>>
    BY DEF EventLoop, HandleReceive, HandleReceiveFailed, HandleReceiveAborted, HandleSend,
         HandleSendFailed, HandleTimeout, HandleTimeoutThrows, HandleShutdown, OnFaceShutdown, Running
  <2> QED BY <2>1, HeadTailProperties DEF SendTypeOK
<1>2. CASE HandleReceive
  <2> DEFINE all == buffer \o Head(queue).units
  <2>1. \/ Shutdown(Tail(queue)) /\ UNCHANGED taken
        \/ AsyncReceive(SubSeq(all, Offset(all) + 1, Len(all)), Tail(queue)) /\ UNCHANGED <<sock, writing>>
    BY <1>2 DEF HandleReceive
  <2>2. UNCHANGED <<peerUp, face, alive, sends, sendQueue, wire>>
    BY <1>2 DEF HandleReceive, sendVars
  <2> HIDE DEF all
  <2>3. CASE Shutdown(Tail(queue)) /\ UNCHANGED taken
    BY <1>1, <2>2, <2>3, ShutdownType DEF SendTypeOK
  <2>4. CASE AsyncReceive(SubSeq(all, Offset(all) + 1, Len(all)), Tail(queue)) /\ UNCHANGED <<sock, writing>>
    BY <1>1, <2>2, <2>4, AsyncReceiveType DEF SendTypeOK
  <2> QED BY <2>1, <2>3, <2>4
<1>3. CASE HandleReceiveFailed
  BY <1>1, <1>3, ShutdownType DEF HandleReceiveFailed, SendTypeOK, sendVars, receiveVars
<1>4. CASE HandleReceiveAborted
  BY <1>1, <1>4 DEF HandleReceiveAborted, SendTypeOK, sendVars, receiveVars
<1>5. CASE HandleSend
  <2>1. sendQueue' \in Seq(Nat)
    <3>1. <<Garbage>> \in Seq(Nat)
      BY DEF Garbage
    <3>2. sendQueue # <<>> => Tail(sendQueue) \in Seq(Nat)
      BY HeadTailProperties DEF SendTypeOK
    <3> QED BY <1>5, <3>1, <3>2 DEF HandleSend
  <2>2. writing' \in BOOLEAN /\ queue' \in Seq(Events)
    BY <1>1, <1>5, AsyncSendType DEF HandleSend, SendTypeOK
  <2> QED BY <1>5, <2>1, <2>2 DEF HandleSend, SendTypeOK, receiveVars
<1>6. CASE HandleSendFailed
  BY <1>1, <1>6, ShutdownType DEF HandleSendFailed, SendTypeOK, sendVars, receiveVars
<1>7. CASE HandleTimeout
  BY <1>1, <1>7, ShutdownType DEF HandleTimeout, SendTypeOK, sendVars, receiveVars
<1>8. CASE HandleTimeoutThrows
  BY <1>1, <1>8 DEF HandleTimeoutThrows, SendTypeOK, sendVars, receiveVars
<1>9. CASE HandleShutdown
  <2> DEFINE A == If(reading, <<ReadAborted>>)
             B == If(writing, <<WriteFailed>>)
             C == If(face, <<FaceShutdownPosted>>)
  <2>1. A \in Seq(Events) /\ B \in Seq(Events) /\ C \in Seq(Events)
    BY IfEvents, EventTypes
  <2>2. queue' = ((Tail(queue) \o A) \o B) \o C
    BY <1>9 DEF HandleShutdown
  <2> HIDE DEF A, B, C
  <2>3. queue' \in Seq(Events)
    BY <1>1, <2>1, <2>2, ConcatProperties
  <2> QED BY <1>9, <2>3, EmptySeq DEF HandleShutdown, SendTypeOK, receiveVars
<1>10. CASE OnFaceShutdown
  BY <1>1, <1>10 DEF OnFaceShutdown, SendTypeOK, sendVars, receiveVars
<1> QED BY <1>2, <1>3, <1>4, <1>5, <1>6, <1>7, <1>8, <1>9, <1>10 DEF EventLoop

(* A write has a head to write. *)
LEMMA WritesHead ==
  ASSUME SendTurn, writing
  PROVE  sendQueue # <<>> /\ Writes /\ sock = "open"
  BY DEF SendTurn, Idle, Writes, Wrote, Failed

LEMMA SendTypeEnvironment ==
  ASSUME SendTypeOK, SendTurn,
         \/ Send \/ FaceDel
         \/ ReadCompletes \/ PeerCloses \/ ConnectionLost \/ WriteCompletes \/ TimerExpires
  PROVE  SendTypeOK'
<1>1. queue \in Seq(Events) /\ \A e \in Events : Append(queue, e) \in Seq(Events)
  BY AppendProperties DEF SendTypeOK
<1>2. CASE Send
  <2>1. sendQueue' \in Seq(Nat) /\ sends' \in Nat
    BY <1>2, AppendProperties DEF Send, SendTypeOK
  <2>2. writing' \in BOOLEAN /\ queue' \in Seq(Events)
    BY <1>1, <1>2, AsyncSendType DEF Send, SendTypeOK
  <2> QED BY <1>2, <2>1, <2>2 DEF Send, SendTypeOK, receiveVars
<1>3. CASE FaceDel
  BY <1>1, <1>3, ShutdownType DEF FaceDel, SendTypeOK, sendVars, receiveVars
<1>4. CASE ReadCompletes
  <2>1. PICK units \in Fitting(buffer) : taken' = taken + Len(units) /\ queue' = Append(queue, Read(units))
    BY <1>4 DEF ReadCompletes
  <2>2. taken' \in Nat /\ queue' \in Seq(Events)
    BY <1>1, <2>1, FittingUnits, EventTypes DEF SendTypeOK
  <2> QED BY <1>4, <2>2 DEF ReadCompletes, SendTypeOK, sendVars
<1>5. CASE PeerCloses
  BY <1>1, <1>5, EventTypes DEF PeerCloses, SendTypeOK, sendVars, receiveVars
<1>6. CASE ConnectionLost
  <2> DEFINE A == If(reading, <<ReadFailed>>)
             B == If(writing, <<WriteFailed>>)
  <2>1. A \in Seq(Events) /\ B \in Seq(Events)
    BY IfEvents, EventTypes
  <2>2. queue' = (queue \o A) \o B
    BY <1>6 DEF ConnectionLost
  <2> HIDE DEF A, B
  <2>3. queue' \in Seq(Events)
    BY <1>1, <2>1, <2>2, ConcatProperties
  <2> QED BY <1>6, <2>3 DEF ConnectionLost, SendTypeOK, sendVars, receiveVars
<1>7. CASE TimerExpires
  BY <1>1, <1>7, EventTypes DEF TimerExpires, SendTypeOK, sendVars, receiveVars
<1>8. CASE WriteCompletes /\ sendQueue # <<>>
  <2>1. Head(sendQueue) \in Nat
    BY <1>8, HeadTailProperties DEF SendTypeOK
  <2>2. wire' \in Seq(Nat)
    BY <1>8, <2>1, AppendProperties DEF WriteCompletes, SendTypeOK
  <2> QED BY <1>1, <1>8, <2>2, EventTypes DEF WriteCompletes, SendTypeOK, receiveVars
<1>9. WriteCompletes => sendQueue # <<>>
  BY WritesHead DEF WriteCompletes
<1> QED BY <1>2, <1>3, <1>4, <1>5, <1>6, <1>7, <1>8, <1>9

-----------------------------------------------------------------------------
(***************************************************************************)
(* Steps that move no write on.                                            *)
(***************************************************************************)

(* Two queues are the same for the sending of packets. *)
Alike(p, q) ==
  /\ SameFor(SendOps, p, q) /\ SameFor({"written"}, p, q) /\ SameFor({"handleShutdown"}, p, q)
  /\ WrittenBeforeShutdown(p) => WrittenBeforeShutdown(q)

LEMMA TurnKept ==
  ASSUME SendTurn, Alike(queue, queue'), UNCHANGED <<sock, writing, sends, sendQueue, wire>>
  PROVE  SendTurn'
<1>1. \A n : Numbered(n) => Numbered(n)'
  BY DEF Numbered
<1>2. (Idle => Idle') /\ (Writes => Writes') /\ (Wrote => Wrote') /\ (Failed => Failed')
  BY <1>1 DEF Alike, SameFor, Idle, Writes, Wrote, Failed
<1>3. PICK q : q = queue'
  OBVIOUS
<1>4. NoWrite(queue) => NoWrite(q)'
  BY <1>1, <1>3 DEF Alike, SameFor, NoWrite
<1>5. Free(queue, {"handleShutdown"}) => Free(queue', {"handleShutdown"})
  BY DEF Alike, SameFor
<1>6. Free(queue, {"written"}) => Free(queue', {"written"})
  BY DEF Alike, SameFor
<1> QED BY <1>2, <1>3, <1>4, <1>5, <1>6 DEF SendTurn

LEMMA AppendAlike ==
  ASSUME NEW p \in Seq(Events), NEW e \in Events, e.op \notin {"written", "writeFailed", "handleShutdown"}
  PROVE  Alike(p, Append(p, e))
<1>1. /\ SameFor(SendOps, p, Append(p, e)) /\ SameFor({"written"}, p, Append(p, e))
      /\ SameFor({"handleShutdown"}, p, Append(p, e))
  BY AppendSame DEF SendOps
<1>2. WrittenBeforeShutdown(p) => WrittenBeforeShutdown(Append(p, e))
  <2>1. <<e>> \in Seq(Events) /\ Free(<<e>>, {"written"})
    BY DEF Free
  <2>2. Append(p, e) = p \o <<e>>
    BY AppendIsConcat
  <2> QED BY <2>1, <2>2, QuietConcat
<1> QED BY <1>1, <1>2 DEF Alike

LEMMA TailAlike ==
  ASSUME NEW p \in Seq(Events), p # <<>>, Head(p).op \notin {"written", "writeFailed", "handleShutdown"}
  PROVE  Alike(p, Tail(p))
<1>1. /\ SameFor(SendOps, p, Tail(p)) /\ SameFor({"written"}, p, Tail(p))
      /\ SameFor({"handleShutdown"}, p, Tail(p))
  BY TailSame DEF SendOps
<1> QED BY <1>1, QuietTail DEF Alike

LEMMA AlikeTransitive ==
  ASSUME NEW p, NEW q, NEW r, Alike(p, q), Alike(q, r)
  PROVE  Alike(p, r)
  BY DEF Alike, SameFor

(* As long as the socket is not closed. *)
LEMMA OpenNoWrite ==
  ASSUME SendTurn, sock # "closed"
  PROVE  NoWrite(queue)
<1>1. Free(queue, SendOps) => Free(queue, {"written"})
  BY DEF Free, SendOps
<1>2. Only(queue, SendOps, WriteFailed) => Free(queue, {"written"})
  BY EventOps DEF Free, Only, SendOps
<1>3. Only(queue, SendOps, Written) => Only(queue, {"written"}, Written)
  BY EventOps DEF Only, SendOps
<1>4. Free(queue, {"handleShutdown"}) => WrittenBeforeShutdown(queue)
  BY DEF Free, WrittenBeforeShutdown
<1> QED BY <1>1, <1>2, <1>3, <1>4 DEF SendTurn, Idle, Writes, Wrote, Failed, NoWrite

LEMMA NoWriteTail ==
  ASSUME queue \in Seq(Events), queue # <<>>, Head(queue).op # "written", NoWrite(queue)
  PROVE  NoWrite(Tail(queue))
  BY QuietTail DEF NoWrite, SameFor

(* shutdown(), wherever it is called. *)
LEMMA TurnShutdown ==
  ASSUME SendTypeOK, SendTurn, NEW rest \in Seq(Events), Shutdown(rest),
         UNCHANGED <<sends, sendQueue, wire>>,
         sock # "closed" => NoWrite(rest),
         sock = "closed" => Free(rest, {"written"})
  PROVE  SendTurn'
<1>1. ~writing' /\ sock' = (IF sock = "open" THEN "shut" ELSE sock)
  BY DEF Shutdown
<1>2. /\ SameFor({"written"}, rest, queue')
      /\ WrittenBeforeShutdown(rest) => WrittenBeforeShutdown(queue')
  BY ShutdownQueue
<1>3. \A n : Numbered(n) => Numbered(n)'
  BY DEF Numbered
<1>4. CASE sock = "closed"
  BY <1>1, <1>2, <1>4 DEF SendTurn, SameFor
<1>5. CASE sock # "closed"
  <2>1. PICK q : q = queue'
    OBVIOUS
  <2>2. NoWrite(q)'
    BY <1>2, <1>3, <1>5, <2>1 DEF NoWrite, SameFor
  <2>3. sock' = "shut"
    BY <1>1, <1>5 DEF SendTypeOK
  <2> QED BY <1>1, <2>1, <2>2, <2>3 DEF SendTurn
<1> QED BY <1>4, <1>5

(* shutdown() of a handler, but for that of a write that completed.        *)
LEMMA TurnHandlerShutsDown ==
  ASSUME SendTypeOK, SendTurn, queue # <<>>, Head(queue).op # "written", Shutdown(Tail(queue)),
         UNCHANGED <<sends, sendQueue, wire>>
  PROVE  SendTurn'
<1>1. queue \in Seq(Events) /\ Tail(queue) \in Seq(Events)
  BY HeadTailProperties DEF SendTypeOK
<1>2. sock # "closed" => NoWrite(Tail(queue))
  BY <1>1, OpenNoWrite, NoWriteTail
<1>3. sock = "closed" => Free(Tail(queue), {"written"})
  BY <1>1, TailOnly DEF SendTurn
<1> QED BY <1>1, <1>2, <1>3, TurnShutdown

-----------------------------------------------------------------------------
(***************************************************************************)
(* Steps that move a write on.                                             *)
(***************************************************************************)
LEMMA TurnAsyncSend ==
  ASSUME SendTypeOK, NEW rest \in Seq(Events), AsyncSend(rest), sock' = sock,
         sock # "closed" => sendQueue' # <<>> /\ Numbered(0)',
         sock = "open" => Free(rest, SendOps) /\ Free(rest, {"handleShutdown"}),
         Free(rest, {"written"})
  PROVE  SendTurn'
<1> DEFINE works == sock = "open" /\ peerUp
<1>1. writing' = works /\ queue' = rest \o If(~works, <<WriteFailed>>)
  BY DEF AsyncSend
<1>2. CASE works
  <2>1. If(~works, <<WriteFailed>>) = <<>>
    BY <1>2, IfEvents, EventTypes
  <2>2. queue' = rest
    BY <1>1, <2>1, ConcatEmptySeq
  <2> QED BY <1>1, <1>2, <2>2 DEF SendTurn, Writes
<1>3. CASE ~works
  <2>1. If(~works, <<WriteFailed>>) = <<WriteFailed>>
    BY <1>3, IfEvents, EventTypes
  <2> HIDE DEF works
  <2>2. queue' = Append(rest, WriteFailed)
    BY <1>1, <2>1, AppendIsConcat, EventTypes, Zenon
  <2>3. Free(queue', {"written"})
    BY <2>2, AppendOnly, EventOps, EventTypes
  <2>4. ~writing'
    BY <1>1, <1>3
  <2>5. CASE sock = "open"
    <3>1. Only(queue', SendOps, WriteFailed)
      BY <2>2, <2>5, AppendOnly, EventOps, EventTypes DEF SendOps
    <3>2. Free(queue', {"handleShutdown"})
      BY <2>2, <2>5, AppendOnly, EventOps, EventTypes
    <3>3. Failed'
      BY <2>4, <2>5, <3>1 DEF Failed
    <3> QED BY <2>5, <3>2, <3>3 DEF SendTurn
  <2>6. CASE sock = "shut"
    <3>1. PICK q : q = queue'
      OBVIOUS
    <3>2. NoWrite(q)'
      BY <2>3, <2>6, <3>1 DEF NoWrite
    <3> QED BY <2>4, <2>6, <3>1, <3>2 DEF SendTurn
  <2>7. CASE sock = "closed"
    BY <2>3, <2>4, <2>7 DEF SendTurn
  <2> QED BY <2>5, <2>6, <2>7 DEF SendTypeOK
<1> QED BY <1>2, <1>3

LEMMA TurnSend ==
  ASSUME SendTypeOK, SendTurn, Send
  PROVE  SendTurn'
<1>1. /\ sends' = sends + 1 /\ sendQueue' = Append(sendQueue, sends + 1)
      /\ UNCHANGED <<sock, wire>>
      /\ queue \in Seq(Events) /\ sends \in Nat /\ sendQueue \in Seq(Nat) /\ wire \in Seq(Nat)
  BY DEF Send, SendTypeOK
<1>2. /\ Len(sendQueue') = Len(sendQueue) + 1
      /\ sendQueue'[Len(sendQueue) + 1] = sends + 1
      /\ \A i \in 1..Len(sendQueue) : sendQueue'[i] = sendQueue[i]
      /\ Len(sendQueue) \in Nat /\ Len(wire) \in Nat
  BY <1>1, AppendProperties, LenProperties
<1>3. sendQueue' # <<>>
  BY <1>2
<1>4. ASSUME NEW n \in Nat, Numbered(n) PROVE Numbered(n)'
  <2>1. Len(wire') + Len(sendQueue') = sends' + n
    <3>1. Len(wire) + Len(sendQueue) = sends + n
      BY <1>4 DEF Numbered
    <3>2. Len(wire') = Len(wire) /\ Len(sendQueue') = Len(sendQueue) + 1 /\ sends' = sends + 1
      BY <1>1, <1>2
    <3>3. sends \in Nat /\ Len(sendQueue) \in Nat /\ Len(wire) \in Nat
      BY <1>1, <1>2
    <3>4. Len(wire) + (Len(sendQueue) + 1) = (sends + 1) + n
      BY <3>1, <3>3
    <3> QED BY <3>2, <3>4, Zenon
  <2>2. \A i \in 1..Len(sendQueue') : sendQueue'[i] = sends' - Len(sendQueue') + i
    <3> SUFFICES ASSUME NEW i \in 1..Len(sendQueue') PROVE sendQueue'[i] = sends' - Len(sendQueue') + i
      OBVIOUS
    <3>1. CASE i = Len(sendQueue) + 1
      BY <1>1, <1>2, <3>1
    <3>2. CASE i \in 1..Len(sendQueue)
      BY <1>1, <1>2, <1>4, <3>2 DEF Numbered
    <3> QED BY <1>2, <3>1, <3>2
  <2> QED BY <2>1, <2>2 DEF Numbered
<1>5. CASE sendQueue = <<>>
  <2>1. AsyncSend(queue)
    BY <1>5 DEF Send
  <2>2. sock = "open" => Idle /\ Free(queue, {"handleShutdown"})
    BY <1>5 DEF SendTurn, Writes, Wrote, Failed
  <2>3. sock = "shut" => Free(queue, {"written"}) /\ Numbered(0)
    BY <1>5 DEF SendTurn, NoWrite
  <2>4. Free(queue, {"written"})
    BY <2>2, <2>3 DEF SendTurn, Idle, Free, SendOps
  <2>5. sock # "closed" => Numbered(0)'
    BY <1>4, <2>2, <2>3 DEF SendTurn, Idle
  <2> QED BY <1>1, <1>3, <2>1, <2>2, <2>4, <2>5, TurnAsyncSend DEF Idle
<1>6. CASE sendQueue # <<>>
  <2>1. UNCHANGED <<writing, queue>>
    BY <1>6 DEF Send
  <2>2. (Writes => Writes') /\ (Wrote => Wrote') /\ (Failed => Failed') /\ ~Idle
    BY <1>3, <1>4, <1>6, <2>1 DEF Writes, Wrote, Failed, Idle
  <2>3. PICK q : q = queue
    OBVIOUS
  <2>4. NoWrite(q) => NoWrite(q)'
    BY <1>3, <1>4 DEF NoWrite
  <2> QED BY <1>1, <2>1, <2>2, <2>3, <2>4 DEF SendTurn
<1> QED BY <1>5, <1>6

LEMMA TurnWriteCompletes ==
  ASSUME SendTypeOK, SendTurn, WireInOrder, WriteCompletes
  PROVE  SendTurn' /\ WireInOrder'
<1>1. /\ UNCHANGED <<sock, sends, sendQueue>> /\ ~writing'
      /\ wire' = Append(wire, Head(sendQueue)) /\ queue' = Append(queue, Written)
      /\ queue \in Seq(Events) /\ sends \in Nat /\ sendQueue \in Seq(Nat) /\ wire \in Seq(Nat)
  BY DEF WriteCompletes, SendTypeOK
<1>2. Writes /\ sock = "open" /\ Free(queue, {"handleShutdown"})
  BY WritesHead DEF WriteCompletes, SendTurn
<1>3. Head(sendQueue) = sendQueue[1] /\ Head(sendQueue) \in Nat /\ 1 \in 1..Len(sendQueue)
  BY <1>1, <1>2, HeadTailProperties, EmptySeq DEF Writes
<1>4. /\ Len(wire') = Len(wire) + 1
      /\ wire'[Len(wire) + 1] = Head(sendQueue)
      /\ \A i \in 1..Len(wire) : wire'[i] = wire[i]
      /\ Len(wire) \in Nat /\ Len(sendQueue) \in Nat
  BY <1>1, <1>3, AppendProperties, LenProperties
<1>5. Numbered(0) /\ Head(sendQueue) = Len(wire) + 1
  BY <1>1, <1>2, <1>3, <1>4 DEF Writes, Numbered
<1>6. WireInOrder'
  BY <1>4, <1>5 DEF WireInOrder
<1>7. Numbered(1)'
  <2>1. Len(wire) + Len(sendQueue) = sends
    BY <1>1, <1>5 DEF Numbered
  <2>2. Len(wire') + Len(sendQueue') = sends' + 1
    <3>1. Len(wire') = Len(wire) + 1 /\ Len(sendQueue') = Len(sendQueue) /\ sends' = sends
      BY <1>1, <1>4
    <3>2. sends \in Nat /\ Len(sendQueue) \in Nat /\ Len(wire) \in Nat
      BY <1>1, <1>4
    <3>3. (Len(wire) + 1) + Len(sendQueue) = sends + 1
      BY <2>1, <3>2
    <3> QED BY <3>1, <3>3, Zenon
  <2>3. \A i \in 1..Len(sendQueue') : sendQueue'[i] = sends' - Len(sendQueue') + i
    BY <1>1, <1>5 DEF Numbered
  <2> QED BY <2>2, <2>3 DEF Numbered
<1>8. Only(queue', SendOps, Written) /\ Free(queue', {"handleShutdown"})
  <2>1. Only(Append(queue, Written), SendOps, Written)
    BY <1>1, <1>2, AppendOnly, EventTypes, EventOps DEF Writes, SendOps
  <2>2. Free(Append(queue, Written), {"handleShutdown"})
    BY <1>1, <1>2, AppendOnly, EventTypes, EventOps
  <2> QED BY <1>1, <2>1, <2>2
<1>9. Wrote'
  BY <1>1, <1>2, <1>7, <1>8 DEF Wrote, Writes
<1> QED BY <1>1, <1>2, <1>6, <1>8, <1>9 DEF SendTurn

LEMMA TurnHandleSend ==
  ASSUME SendTypeOK, SendTurn, HandleSend
  PROVE  SendTurn'
<1>1. /\ queue \in Seq(Events) /\ queue # <<>> /\ Head(queue).op = "written" /\ Tail(queue) \in Seq(Events)
      /\ UNCHANGED <<sock, sends, wire>>
      /\ sends \in Nat /\ sendQueue \in Seq(Nat) /\ wire \in Seq(Nat)
  BY HeadTailProperties DEF HandleSend, Running, SendTypeOK
<1>2. \A ops : "written" \in ops => ~Free(queue, ops)
  BY <1>1, TailOnly
<1>3. sock # "closed" /\ ~writing
  BY <1>2 DEF SendTurn, Idle, Writes, Wrote, Failed, SendOps
<1>4. sock = "open" => Wrote /\ Free(queue, {"handleShutdown"})
  <2>1. ~Only(queue, SendOps, WriteFailed)
    <3> SUFFICES ASSUME Only(queue, SendOps, WriteFailed) PROVE FALSE
      OBVIOUS
    <3>1. Head(queue).op \in SendOps
      BY <1>1 DEF SendOps
    <3>2. Head(queue) = WriteFailed
      BY <1>1, <3>1, TailOnly
    <3> QED BY <1>1, <3>2, EventOps
  <2> QED BY <1>2, <2>1 DEF SendTurn, Idle, Writes, Failed, SendOps
<1>5. sendQueue # <<>> /\ Numbered(1) /\ Free(Tail(queue), {"written"})
  <2>1. NoWrite(queue)
    BY <1>3, OpenNoWrite
  <2>2. Only(queue, {"written"}, Written) /\ sendQueue # <<>> /\ Numbered(1)
    BY <1>2, <2>1 DEF NoWrite
  <2> QED BY <1>1, <2>2, TailOnly
<1>6. sock = "open" => Free(Tail(queue), SendOps) /\ Free(Tail(queue), {"handleShutdown"})
  BY <1>1, <1>4, TailOnly DEF Wrote, SendOps
<1>7. sendQueue' = Tail(sendQueue)
  BY <1>5 DEF HandleSend
<1>8. Numbered(0)'
  <2>1. /\ Len(sendQueue') = Len(sendQueue) - 1
        /\ \A i \in 1..Len(sendQueue') : sendQueue'[i] = sendQueue[i+1]
        /\ Len(sendQueue) \in Nat /\ Len(wire) \in Nat
    BY <1>1, <1>5, <1>7, HeadTailProperties, LenProperties
  <2>2. Len(wire') + Len(sendQueue') = sends'
    BY <1>1, <1>5, <2>1 DEF Numbered
  <2>3. \A i \in 1..Len(sendQueue') : sendQueue'[i] = sends' - Len(sendQueue') + i
    <3> SUFFICES ASSUME NEW i \in 1..Len(sendQueue') PROVE sendQueue'[i] = sends' - Len(sendQueue') + i
      OBVIOUS
    <3>1. i + 1 \in 1..Len(sendQueue)
      BY <2>1
    <3>2. sendQueue[i+1] = sends - Len(sendQueue) + (i + 1)
      BY <1>5, <3>1 DEF Numbered
    <3> QED BY <1>1, <2>1, <3>2
  <2> QED BY <1>1, <2>2, <2>3 DEF Numbered
<1>9. CASE sendQueue' # <<>>
  <2>1. AsyncSend(Tail(queue))
    BY <1>9 DEF HandleSend
  <2> QED BY <1>1, <1>5, <1>6, <1>8, <1>9, <2>1, TurnAsyncSend
<1>10. CASE sendQueue' = <<>>
  <2>1. queue' = Tail(queue) /\ ~writing'
    BY <1>3, <1>10 DEF HandleSend
  <2>2. CASE sock = "open"
    <3>1. Idle'
      BY <1>6, <1>8, <1>10, <2>1, <2>2 DEF Idle
    <3> QED BY <1>1, <1>6, <2>1, <2>2, <3>1 DEF SendTurn
  <2>3. CASE sock = "shut"
    <3>1. PICK q : q = queue'
      OBVIOUS
    <3>2. NoWrite(q)'
      BY <1>5, <1>8, <2>1, <3>1 DEF NoWrite
    <3> QED BY <1>1, <2>1, <2>3, <3>1, <3>2 DEF SendTurn
  <2> QED BY <1>3, <2>2, <2>3 DEF SendTypeOK
<1> QED BY <1>9, <1>10

(* The socket is closed only after the last completion of a write was      *)
(* handled.                                                                *)
LEMMA TurnHandleShutdown ==
  ASSUME SendTypeOK, SendTurn, HandleShutdown
  PROVE  SendTurn'
<1>1. /\ queue \in Seq(Events) /\ queue # <<>> /\ Head(queue).op = "handleShutdown" /\ Tail(queue) \in Seq(Events)
      /\ ~writing' /\ sock' = "closed"
  BY HeadTailProperties DEF HandleShutdown, Running, SendTypeOK
<1>2. sock # "open"
  <2>1. ~Free(queue, {"handleShutdown"})
    BY <1>1, TailOnly
  <2> QED BY <2>1 DEF SendTurn
<1>3. ~WrittenBeforeShutdown(queue) \/ ~Only(queue, {"written"}, Written)
  <2> SUFFICES ASSUME WrittenBeforeShutdown(queue), Only(queue, {"written"}, Written) PROVE FALSE
    OBVIOUS
  <2>1. PICK i \in 1..Len(queue) : queue[i] = Written
    BY DEF Only
  <2>2. 1 \in 1..Len(queue) /\ queue[1] = Head(queue)
    BY <1>1, HeadTailProperties, EmptySeq
  <2>3. i < 1
    BY <1>1, <2>1, <2>2, EventOps DEF WrittenBeforeShutdown
  <2> QED BY <2>1, <2>3
<1>4. Free(queue, {"written"})
  BY <1>2, <1>3 DEF SendTurn, NoWrite
<1>5. Free(queue', {"written"})
  <2> DEFINE A == If(reading, <<ReadAborted>>)
             B == If(writing, <<WriteFailed>>)
             C == If(face, <<FaceShutdownPosted>>)
  <2>1. /\ A \in Seq(Events) /\ Free(A, {"written"})
        /\ B \in Seq(Events) /\ Free(B, {"written"})
        /\ C \in Seq(Events) /\ Free(C, {"written"})
    <3>1. ReadAborted.op # "written" /\ WriteFailed.op # "written" /\ FaceShutdownPosted.op # "written"
      BY EventOps
    <3>2. A \in Seq(Events) /\ Free(A, {"written"})
      BY <3>1, IfEvents, EventTypes
    <3>3. B \in Seq(Events) /\ Free(B, {"written"})
      BY <3>1, IfEvents, EventTypes
    <3>4. C \in Seq(Events) /\ Free(C, {"written"})
      BY <3>1, IfEvents, EventTypes
    <3> QED BY <3>2, <3>3, <3>4
  <2>2. queue' = ((Tail(queue) \o A) \o B) \o C
    BY DEF HandleShutdown
  <2>3. Free(Tail(queue), {"written"})
    BY <1>1, <1>4, TailOnly
  <2> HIDE DEF A, B, C
  <2>4. Tail(queue) \o A \in Seq(Events) /\ Free(Tail(queue) \o A, {"written"})
    BY <1>1, <2>1, <2>3, ConcatOnly
  <2>5. (Tail(queue) \o A) \o B \in Seq(Events) /\ Free((Tail(queue) \o A) \o B, {"written"})
    BY <2>1, <2>4, ConcatOnly
  <2>6. Free(((Tail(queue) \o A) \o B) \o C, {"written"})
    BY <2>1, <2>5, ConcatOnly
  <2> QED BY <2>2, <2>6
<1> QED BY <1>1, <1>5 DEF SendTurn

(* The loss of the connection fails a write that is under way. *)
LEMMA TurnConnectionLost ==
  ASSUME SendTypeOK, SendTurn, ConnectionLost
  PROVE  SendTurn'
<1> DEFINE A == If(reading, <<ReadFailed>>)
           p == queue \o A
<1>1. /\ UNCHANGED <<sock, sends, sendQueue, wire>> /\ ~writing'
      /\ queue' = p \o If(writing, <<WriteFailed>>)
      /\ queue \in Seq(Events)
  BY DEF ConnectionLost, SendTypeOK, sendVars
<1>2. p \in Seq(Events) /\ Alike(queue, p)
  <2>1. A \in Seq(Events) /\ \A ops : "readFailed" \notin ops => Free(A, ops)
    BY IfEvents, EventTypes, EventOps
  <2>2. Free(A, SendOps) /\ Free(A, {"written"}) /\ Free(A, {"handleShutdown"})
    BY <2>1 DEF SendOps
  <2> HIDE DEF A
  <2>3. p \in Seq(Events) /\ SameFor(SendOps, queue, p)
    BY <1>1, <2>1, <2>2, ConcatSame
  <2>4. SameFor({"handleShutdown"}, queue, p)
    BY <1>1, <2>1, <2>2, ConcatSame
  <2>5. SameFor({"written"}, queue, p) /\ (WrittenBeforeShutdown(queue) => WrittenBeforeShutdown(p))
    BY <1>1, <2>1, <2>2, QuietConcat
  <2> QED BY <2>3, <2>4, <2>5 DEF Alike
<1> HIDE DEF p, A
<1>3. CASE ~writing
  <2>1. If(writing, <<WriteFailed>>) = <<>>
    BY <1>3, IfEvents, EventTypes
  <2>2. queue' = p
    BY <1>1, <1>2, <2>1, ConcatEmptySeq
  <2>3. writing \in BOOLEAN /\ writing' = FALSE
    BY DEF SendTypeOK, ConnectionLost
  <2>4. writing' = writing
    BY <1>3, <2>3
  <2> QED BY <1>1, <1>2, <2>2, <2>4, TurnKept
<1>4. CASE writing
  <2>1. Writes /\ sock = "open" /\ Free(queue, {"handleShutdown"})
    BY <1>4, WritesHead DEF SendTurn
  <2>2. If(writing, <<WriteFailed>>) = <<WriteFailed>>
    BY <1>4, IfEvents, EventTypes
  <2>3. queue' = Append(p, WriteFailed)
    BY <1>1, <1>2, <2>2, AppendIsConcat, EventTypes, Zenon
  <2>4. Free(p, SendOps) /\ Free(p, {"handleShutdown"})
    BY <1>2, <2>1 DEF Alike, SameFor, Writes
  <2>5. Only(queue', SendOps, WriteFailed)
    BY <1>2, <2>3, <2>4, AppendOnly, EventTypes, EventOps DEF SendOps
  <2>6. Free(queue', {"handleShutdown"})
    BY <1>2, <2>3, <2>4, AppendOnly, EventTypes, EventOps
  <2>7. Failed'
    <3>1. Numbered(0)'
      BY <1>1, <2>1 DEF Writes, Numbered
    <3> QED BY <1>1, <2>1, <2>5, <3>1 DEF Failed, Writes
  <2> QED BY <1>1, <2>1, <2>6, <2>7 DEF SendTurn
<1> QED BY <1>3, <1>4

-----------------------------------------------------------------------------
(***************************************************************************)
(* The theorem.                                                            *)
(***************************************************************************)
LEMMA TurnEventLoop ==
  ASSUME SendTypeOK, SendTurn, EventLoop
  PROVE  SendTurn'
<1>1. queue \in Seq(Events) /\ Tail(queue) \in Seq(Events) /\ queue # <<>>
  <2>1. queue # <<>>
    BY DEF EventLoop, HandleReceive, HandleReceiveFailed, HandleReceiveAborted, HandleSend,
         HandleSendFailed, HandleTimeout, HandleTimeoutThrows, HandleShutdown, OnFaceShutdown, Running
  <2> QED BY <2>1, HeadTailProperties DEF SendTypeOK
<1>2. CASE HandleReceive
  <2>1. Head(queue).op = "read" /\ UNCHANGED <<sends, sendQueue, wire>>
    BY <1>2 DEF HandleReceive, Running, sendVars
  <2>2. CASE Shutdown(Tail(queue))
    BY <1>1, <2>1, <2>2, TurnHandlerShutsDown
  <2>3. CASE ~Shutdown(Tail(queue))
    <3>1. PICK buf : AsyncReceive(buf, Tail(queue)) /\ UNCHANGED <<sock, writing>>
      BY <1>2, <2>3 DEF HandleReceive
    <3>2. Alike(queue, Tail(queue))
      BY <1>1, <2>1, TailAlike
    <3>3. CASE queue' = Tail(queue)
      BY <2>1, <3>1, <3>2, <3>3, TurnKept
    <3>4. CASE queue' = Append(Tail(queue), ReadFailed)
      <4>1. Alike(Tail(queue), queue')
        BY <1>1, <3>4, AppendAlike, EventTypes, EventOps
      <4>2. Alike(queue, queue')
        BY <3>2, <4>1, AlikeTransitive
      <4> QED BY <2>1, <3>1, <4>2, TurnKept
    <3>5. CASE \E units \in Fitting(buf) : queue' = Append(Tail(queue), Read(units))
      <4>1. PICK units \in Fitting(buf) : queue' = Append(Tail(queue), Read(units))
        BY <3>5
      <4>2. Read(units) \in Events
        BY FittingUnits, EventTypes DEF SendTypeOK
      <4>3. Alike(Tail(queue), queue')
        BY <1>1, <4>1, <4>2, AppendAlike, EventOps
      <4>4. Alike(queue, queue')
        BY <3>2, <4>3, AlikeTransitive
      <4> QED BY <2>1, <3>1, <4>4, TurnKept
    <3> QED BY <3>1, <3>3, <3>4, <3>5 DEF AsyncReceive
  <2> QED BY <2>2, <2>3
<1>3. CASE HandleReceiveFailed \/ HandleSendFailed \/ HandleTimeout
  BY <1>1, <1>3, TurnHandlerShutsDown DEF HandleReceiveFailed, HandleSendFailed, HandleTimeout, Running, sendVars
<1>4. CASE HandleReceiveAborted \/ HandleTimeoutThrows \/ OnFaceShutdown
  <2>1. /\ Head(queue).op \in {"readAborted", "timedOut", "onFaceShutdown"}
        /\ queue' = Tail(queue) /\ UNCHANGED <<sock, writing, sends, sendQueue, wire>>
    BY <1>4 DEF HandleReceiveAborted, HandleTimeoutThrows, OnFaceShutdown, Running, sendVars
  <2>2. Alike(queue, queue')
    BY <1>1, <2>1, TailAlike
  <2> QED BY <2>1, <2>2, TurnKept
<1> QED BY <1>2, <1>3, <1>4, TurnHandleSend, TurnHandleShutdown DEF EventLoop

LEMMA TurnEnvironment ==
  ASSUME SendTypeOK, SendTurn, FaceDel \/ ReadCompletes \/ PeerCloses \/ TimerExpires
  PROVE  SendTurn'
<1>1. queue \in Seq(Events)
  BY DEF SendTypeOK
<1>2. CASE FaceDel
  <2>1. Shutdown(queue) /\ UNCHANGED <<sends, sendQueue, wire>>
    BY <1>2 DEF FaceDel, sendVars
  <2>2. sock # "closed" => NoWrite(queue)
    BY OpenNoWrite
  <2>3. sock = "closed" => Free(queue, {"written"})
    BY DEF SendTurn
  <2> QED BY <1>1, <2>1, <2>2, <2>3, TurnShutdown
<1>3. CASE ReadCompletes \/ PeerCloses \/ TimerExpires
  <2>1. UNCHANGED <<sock, writing, sends, sendQueue, wire>>
    BY <1>3 DEF ReadCompletes, PeerCloses, TimerExpires, sendVars
  <2>2. \E e \in Events : queue' = Append(queue, e) /\ e.op \in {"read", "readFailed", "timedOut"}
    <3>1. CASE ReadCompletes
      <4>1. PICK units \in Fitting(buffer) : queue' = Append(queue, Read(units))
        BY <3>1 DEF ReadCompletes
      <4>2. Read(units) \in Events
        BY FittingUnits, EventTypes DEF SendTypeOK
      <4> QED BY <4>1, <4>2, EventOps
    <3>2. CASE PeerCloses \/ TimerExpires
      BY <3>2, EventTypes, EventOps DEF PeerCloses, TimerExpires
    <3> QED BY <1>3, <3>1, <3>2
  <2>3. Alike(queue, queue')
    BY <1>1, <2>2, AppendAlike
  <2> QED BY <2>1, <2>3, TurnKept
<1> QED BY <1>2, <1>3

(* The wire changes with the completion of a write only. *)
LEMMA WireKept ==
  ASSUME EventLoop \/ Send \/ FaceDel \/ ReadCompletes \/ PeerCloses \/ ConnectionLost \/ TimerExpires
  PROVE  wire' = wire
<1>1. EventLoop => wire' = wire
  BY DEF EventLoop, HandleReceive, HandleReceiveFailed, HandleReceiveAborted, HandleSend,
       HandleSendFailed, HandleTimeout, HandleTimeoutThrows, HandleShutdown, OnFaceShutdown, sendVars
<1> QED BY <1>1 DEF Send, FaceDel, ReadCompletes, PeerCloses, ConnectionLost, TimerExpires, sendVars

(* In every reachable state: the types of what sending depends on, the one *)
(* place where it is, and the packets on the wire in the order of the      *)
(* calls of send().                                                        *)
THEOREM TcpTransportInvariant == Spec => []SendInv
<1>1. Init => SendInv
  BY SendInit
<1>2. SendInv /\ [Next]_vars => SendInv'
  <2> SUFFICES ASSUME SendTypeOK, SendTurn, WireInOrder, [Next]_vars PROVE SendInv'
    BY DEF SendInv
  <2>1. CASE EventLoop
    <3>1. WireInOrder'
      BY <2>1, WireKept DEF WireInOrder
    <3> QED BY <2>1, <3>1, SendTypeEventLoop, TurnEventLoop DEF SendInv
  <2>2. CASE Send \/ FaceDel \/ ReadCompletes \/ PeerCloses \/ ConnectionLost \/ TimerExpires
    <3>1. WireInOrder'
      BY <2>2, WireKept DEF WireInOrder
    <3> QED BY <2>2, <3>1, SendTypeEnvironment, TurnEnvironment, TurnSend, TurnConnectionLost DEF SendInv
  <2>3. CASE WriteCompletes
    BY <2>3, SendTypeEnvironment, TurnWriteCompletes DEF SendInv
  <2>4. CASE UNCHANGED vars
    <3>1. UNCHANGED <<sock, peerUp, face, alive, sends, sendQueue, wire, writing, taken, reading, queue>>
      BY <2>4 DEF vars, sendVars, receiveVars
    <3>2. SendTypeOK' /\ WireInOrder'
      BY <3>1 DEF SendTypeOK, WireInOrder
    <3>3. Alike(queue, queue')
      BY <3>1 DEF Alike, SameFor
    <3> QED BY <3>1, <3>2, <3>3, TurnKept DEF SendInv
  <2> QED BY <2>1, <2>2, <2>3, <2>4 DEF Next
<1> QED BY <1>1, <1>2, PTL DEF Spec

(* Packets are written one by one in the order of send(), none twice and   *)
(* none lost or forgotten before the socket is closed, and handleSend      *)
(* never pops an empty queue.                                              *)
THEOREM TcpTransportSentOneByOne == Spec => []SentOneByOne
<1>1. SendInv => SentOneByOne
  <2> SUFFICES ASSUME SendTypeOK, SendTurn, WireInOrder PROVE SentOneByOne
    BY DEF SendInv
  <2>1. \A op : Free(queue, {op}) => ~Queued(op)
    BY DEF Free, Queued
  <2>2. Free(queue, SendOps) => ~Queued("written") /\ ~Queued("writeFailed")
    BY DEF Free, Queued, SendOps
  <2>3. Only(queue, SendOps, Written) => Queued("written") /\ ~Queued("writeFailed")
    BY EventOps DEF Only, Queued, SendOps
  <2>4. Only(queue, SendOps, WriteFailed) => Queued("writeFailed") /\ ~Queued("written")
    BY EventOps DEF Only, Queued, SendOps
  <2>5. Only(queue, {"written"}, Written) => Queued("written")
    BY EventOps DEF Only, Queued
  <2>6. sends \in Nat /\ Len(wire) \in Nat /\ Len(sendQueue) \in Nat
    BY LenProperties DEF SendTypeOK
  <2>7. CASE sock = "open"
    <3>1. CASE Idle
      BY <2>2, <2>6, <2>7, <3>1 DEF Idle, Numbered, SentOneByOne, WireInOrder
    <3>2. CASE Writes
      BY <2>2, <2>6, <2>7, <3>2 DEF Writes, Numbered, SentOneByOne, WireInOrder
    <3>3. CASE Wrote
      BY <2>3, <2>6, <2>7, <3>3 DEF Wrote, Numbered, SentOneByOne, WireInOrder
    <3>4. CASE Failed
      BY <2>4, <2>6, <2>7, <3>4 DEF Failed, Numbered, SentOneByOne, WireInOrder
    <3> QED BY <2>7, <3>1, <3>2, <3>3, <3>4 DEF SendTurn
  <2>8. CASE sock = "shut"
    <3>1. ~writing /\ NoWrite(queue)
      BY <2>8 DEF SendTurn
    <3>2. CASE Free(queue, {"written"}) /\ Numbered(0)
      BY <2>1, <2>6, <2>8, <3>1, <3>2 DEF Numbered, SentOneByOne, WireInOrder
    <3>3. CASE Only(queue, {"written"}, Written) /\ sendQueue # <<>> /\ Numbered(1)
      BY <2>5, <2>6, <2>8, <3>1, <3>3 DEF Numbered, SentOneByOne, WireInOrder
    <3> QED BY <3>1, <3>2, <3>3 DEF NoWrite
  <2>9. CASE sock = "closed"
    BY <2>1, <2>9 DEF SendTurn, SentOneByOne, WireInOrder
  <2> QED BY <2>7, <2>8, <2>9 DEF SendTypeOK
<1> QED BY <1>1, TcpTransportInvariant, PTL


-----------------------------------------------------------------------------
(*****************************************************************************)
(* The stream of the peer: the packets one after another.                    *)
(*****************************************************************************)
(* FlattenSeq is the recursive function it is defined by: that exists.    *)
LEMMA FlattenIs ==
  ASSUME NEW X, NEW seqs \in Seq(Seq(X)), seqs # <<>>
  PROVE  \E f : /\ f = [i \in 1..Len(seqs) |-> IF i = 1 THEN seqs[i] ELSE f[i-1] \o seqs[i]]
                /\ FlattenSeq(seqs) = f[Len(seqs)]
<1> DEFINE n == Len(seqs)
           D == 1..n
           IsFlat(f) == f = [i \in 1..Len(seqs) |-> IF i = 1 THEN seqs[i] ELSE f[i-1] \o seqs[i]]
           flat == CHOOSE f : IsFlat(f)
<1>1. n \in Nat /\ n # 0 /\ \A i \in D : seqs[i] \in Seq(X)
  BY LenProperties, EmptySeq, ElementOfSeq
<1>2. \E f : IsFlat(f)
  <2> DEFINE measure == [i \in D |-> i]
             more == D \ {1}
             next == [i \in more |-> i - 1]
             base == [i \in D |-> seqs[i]]
             step == [i \in D |-> [v \in Seq(X) |-> v \o seqs[i]]]
  <2>1. measure \in [D -> 0..n] /\ more \in SUBSET D /\ next \in [more -> D] /\ base \in [D -> Seq(X)]
    BY <1>1
  <2>2. \A x \in more : measure[next[x]] < measure[x]
    BY <1>1
  <2>3. step \in [D -> [Seq(X) -> Seq(X)]]
    <3>1. \A i \in D : \A v \in Seq(X) : v \o seqs[i] \in Seq(X)
      BY <1>1, ConcatProperties
    <3> QED BY <3>1
  <2> HIDE DEF D, n, measure, more, next, base, step
  <2>4. \E f \in [D -> Seq(X)] : Recursion(f, D, more, next, base, step)
    <3>1. n \in Nat
      BY <1>1
    <3>2. measure \in [D -> 0..n]
      BY <2>1
    <3>3. more \in SUBSET D
      BY <2>1
    <3>4. next \in [more -> D]
      BY <2>1
    <3>5. base \in [D -> Seq(X)]
      BY <2>1
    <3> QED BY <2>2, <2>3, <3>1, <3>2, <3>3, <3>4, <3>5, RecursionExists
  <2>5. PICK f \in [D -> Seq(X)] : Recursion(f, D, more, next, base, step)
    BY <2>4
  <2>6. ASSUME NEW x \in D
        PROVE  (IF x \in more THEN step[x][f[next[x]]] ELSE base[x])
                 = IF x = 1 THEN seqs[x] ELSE f[x-1] \o seqs[x]
    <3>1. CASE x = 1
      BY <3>1 DEF more, base
    <3>2. CASE x # 1
      <4>1. x \in more /\ next[x] = x - 1
        BY <3>2 DEF more, next
      <4>2. f[x-1] \in Seq(X)
        BY <4>1, <2>1, <2>5
      <4> QED BY <3>2, <4>1, <4>2 DEF step
    <3> QED BY <3>1, <3>2
  <2>7. IsFlat(f)
    BY <2>5, <2>6 DEF D, n, Recursion
  <2> QED BY <2>7
<1>3. FlattenSeq(seqs) = flat[Len(seqs)]
  BY <1>1, Zenon DEF FlattenSeq
<1> QED BY <1>2, <1>3

(* ... and what it is on all indices.                                      *)
LEMMA FlattenFunction ==
  ASSUME NEW X, NEW seqs \in Seq(Seq(X)), seqs # <<>>
  PROVE  \E f \in [1..Len(seqs) -> Seq(X)] :
           /\ \A i \in 1..Len(seqs) : f[i] = IF i = 1 THEN seqs[i] ELSE f[i-1] \o seqs[i]
           /\ FlattenSeq(seqs) = f[Len(seqs)]
<1> DEFINE n == Len(seqs)
<1>1. n \in Nat /\ \A i \in 1..n : seqs[i] \in Seq(X)
  BY LenProperties, ElementOfSeq
<1>2. PICK f : /\ f = [i \in 1..n |-> IF i = 1 THEN seqs[i] ELSE f[i-1] \o seqs[i]]
               /\ FlattenSeq(seqs) = f[n]
  BY FlattenIs
<1> HIDE DEF n
<1>3. \A i \in 1..n : f[i] = IF i = 1 THEN seqs[i] ELSE f[i-1] \o seqs[i]
  BY <1>2
<1> DEFINE T == {i \in Nat : i \in 1..n => f[i] \in Seq(X)}
<1>4. 0 \in T
  OBVIOUS
<1>5. ASSUME NEW i \in Nat, i \in T PROVE i + 1 \in T
  <2>1. CASE i + 1 \in 1..n
    <3>1. CASE i = 0
      BY <1>1, <1>3, <2>1, <3>1
    <3>2. CASE i # 0
      <4>1. i \in 1..n /\ (i + 1) - 1 = i /\ i + 1 # 1
        BY <1>1, <2>1, <3>2
      <4>2. f[i + 1] = f[i] \o seqs[i + 1]
        BY <1>3, <2>1, <4>1
      <4>3. f[i] \in Seq(X) /\ seqs[i + 1] \in Seq(X)
        BY <1>1, <1>5, <2>1, <4>1
      <4>4. f[i] \o seqs[i + 1] \in Seq(X)
        BY <4>3, ConcatProperties
      <4>5. f[i + 1] \in Seq(X)
        BY <4>2, <4>4
      <4> QED BY <4>5
    <3> QED BY <3>1, <3>2
  <2> QED BY <2>1
<1> HIDE DEF T
<1>6. \A i \in Nat : i \in T
  BY <1>4, <1>5, NatSetInduction
<1>7. f \in [1..n -> Seq(X)]
  <2>1. \A i \in 1..n : f[i] \in Seq(X)
    BY <1>1, <1>6 DEF T
  <2> QED BY <1>2, <2>1
<1> QED BY <1>2, <1>3, <1>7 DEF n

LEMMA FlattenAppend ==
  ASSUME NEW X, NEW seqs \in Seq(Seq(X)), NEW p \in Seq(X)
  PROVE  /\ FlattenSeq(<<>>) = <<>>
         /\ FlattenSeq(seqs) \in Seq(X)
         /\ FlattenSeq(Append(seqs, p)) = FlattenSeq(seqs) \o p
<1> DEFINE n == Len(seqs)
           more == Append(seqs, p)
<1>1. FlattenSeq(<<>>) = <<>>
  BY DEF FlattenSeq
<1>2. /\ n \in Nat /\ more \in Seq(Seq(X)) /\ Len(more) = n + 1 /\ more # <<>>
      /\ \A i \in 1..n : more[i] = seqs[i]
      /\ more[n + 1] = p
  BY AppendProperties, LenProperties
<1>3. PICK g \in [1..Len(more) -> Seq(X)] :
        /\ \A i \in 1..Len(more) : g[i] = IF i = 1 THEN more[i] ELSE g[i-1] \o more[i]
        /\ FlattenSeq(more) = g[Len(more)]
  <2> HIDE DEF more
  <2> QED BY <1>2, FlattenFunction
<1> HIDE DEF more
<1>4. g[n + 1] = IF n + 1 = 1 THEN p ELSE g[n] \o p
  <2>1. n + 1 \in 1..Len(more) /\ (n + 1) - 1 = n
    BY <1>2
  <2>2. g[n + 1] = IF n + 1 = 1 THEN more[n + 1] ELSE g[(n + 1) - 1] \o more[n + 1]
    BY <1>3, <2>1
  <2> QED BY <1>2, <2>1, <2>2
<1>5. CASE seqs = <<>>
  <2>1. n = 0
    BY <1>5
  <2>2. FlattenSeq(more) = p
    BY <1>2, <1>3, <1>4, <2>1
  <2>3. <<>> \o p = p
    BY ConcatEmptySeq
  <2>4. <<>> \in Seq(X)
    OBVIOUS
  <2> QED BY <1>1, <1>5, <2>2, <2>3, <2>4 DEF more
<1>6. CASE seqs # <<>>
  <2>1. PICK f \in [1..n -> Seq(X)] :
          /\ \A i \in 1..n : f[i] = IF i = 1 THEN seqs[i] ELSE f[i-1] \o seqs[i]
          /\ FlattenSeq(seqs) = f[n]
    BY <1>6, FlattenFunction
  <2>2. n # 0
    BY <1>6, EmptySeq
  <2> HIDE DEF n
  <2> DEFINE T == {i \in Nat : i \in 1..n => f[i] = g[i]}
  <2>3. 0 \in T
    OBVIOUS
  <2>4. ASSUME NEW i \in Nat, i \in T PROVE i + 1 \in T
    <3>1. CASE i + 1 \in 1..n
      <4>1. i + 1 \in 1..Len(more) /\ (i + 1) - 1 = i
        BY <1>2, <3>1
      <4>2. f[i + 1] = IF i + 1 = 1 THEN seqs[i + 1] ELSE f[(i + 1) - 1] \o seqs[i + 1]
        BY <2>1, <3>1
      <4>3. g[i + 1] = IF i + 1 = 1 THEN more[i + 1] ELSE g[(i + 1) - 1] \o more[i + 1]
        BY <1>3, <4>1
      <4>4. more[i + 1] = seqs[i + 1]
        BY <1>2, <3>1
      <4>5. i + 1 # 1 => f[i] = g[i]
        <5>1. i + 1 # 1 => i \in 1..n
          BY <1>2, <3>1
        <5> QED BY <2>4, <5>1
      <4> QED BY <3>1, <4>1, <4>2, <4>3, <4>4, <4>5
    <3> QED BY <3>1
  <2> HIDE DEF T
  <2>5. \A i \in Nat : i \in T
    BY <2>3, <2>4, NatSetInduction
  <2>6. n \in 1..n /\ n + 1 # 1
    BY <1>2, <2>2
  <2>7. f[n] = g[n]
    BY <1>2, <2>5, <2>6 DEF T
  <2>8. FlattenSeq(seqs) \in Seq(X)
    BY <2>1, <2>6
  <2>9. FlattenSeq(more) = FlattenSeq(seqs) \o p
    BY <1>2, <1>3, <1>4, <2>1, <2>6, <2>7
  <2> QED BY <1>1, <2>8, <2>9 DEF more
<1> QED BY <1>5, <1>6

(* A unit of a packet.                                                     *)
Unit == [id : Nat, size : Nat \ {0}]

(* The first k packets, and how many units they have. *)
Pre(k) == SubSeq(Incoming, 1, k)
Start(k) == Len(FlattenSeq(Pre(k)))

LEMMA PacketsOfPeer ==
  /\ Incoming \in Seq(Seq(Unit)) /\ Len(Incoming) \in Nat
  /\ \A k \in 1..Len(Incoming) :
       /\ Incoming[k] \in Seq(Unit) /\ Len(Incoming[k]) \in Nat \ {0}
       /\ \A i \in 1..Len(Incoming[k]) : Incoming[k][i].size = Len(Incoming[k])
<1>1. ASSUME NEW p \in Packets
      PROVE  /\ p \in Seq(Unit) /\ Len(p) \in Nat \ {0}
             /\ \A i \in 1..Len(p) : p[i].size = Len(p)
  <2>1. /\ p \in Seq([id : Nat, size : Nat]) /\ p # <<>>
        /\ \A i \in 1..Len(p) : p[i].size = Len(p)
    BY DEF Packets
  <2>2. Len(p) \in Nat \ {0}
    BY <2>1, EmptySeq, LenProperties
  <2>3. \A i \in 1..Len(p) : p[i] \in Unit
    <3>1. \A i \in 1..Len(p) : p[i] \in [id : Nat, size : Nat]
      BY <2>1, ElementOfSeq
    <3> QED BY <2>1, <2>2, <3>1 DEF Unit
  <2>4. p \in Seq(Unit)
    BY <2>1, <2>2, <2>3
  <2> QED BY <2>1, <2>2, <2>4
<1>2. Incoming \in Seq(Packets)
  BY TransportAssumption
<1>3. \A k \in 1..Len(Incoming) : Incoming[k] \in Packets
  BY <1>2, ElementOfSeq
<1>4. Incoming \in Seq(Seq(Unit))
  BY <1>1, <1>2, <1>3
<1> QED BY <1>1, <1>2, <1>3, <1>4, LenProperties

LEMMA FirstPackets ==
  /\ Pre(0) = <<>> /\ Pre(Len(Incoming)) = Incoming
  /\ \A k \in 0..Len(Incoming) : Pre(k) \in Seq(Seq(Unit)) /\ Len(Pre(k)) = k
  /\ \A k \in 1..Len(Incoming) : Pre(k) = Append(Pre(k-1), Incoming[k])
<1>1. Incoming \in Seq(Seq(Unit)) /\ Len(Incoming) \in Nat
  BY PacketsOfPeer
<1>2. Pre(0) = <<>>
  BY SubSeqEmpty DEF Pre
<1>3. Pre(Len(Incoming)) = Incoming
  BY <1>1, SubSeqFull DEF Pre
<1>4. ASSUME NEW k \in 0..Len(Incoming)
      PROVE  Pre(k) \in Seq(Seq(Unit)) /\ Len(Pre(k)) = k /\ \A i \in 1..k : Pre(k)[i] = Incoming[i]
  <2>1. k \in Int /\ 1 \in Int /\ \A i \in 1..k : Incoming[i] \in Seq(Unit)
    BY <1>1, ElementOfSeq
  <2>2. /\ SubSeq(Incoming, 1, k) \in Seq(Seq(Unit))
        /\ Len(SubSeq(Incoming, 1, k)) = IF 1 <= k THEN k-1+1 ELSE 0
        /\ \A i \in 1 .. k-1+1 : SubSeq(Incoming, 1, k)[i] = Incoming[1+i-1]
    BY <2>1, SubSeqProperties
  <2>3. (IF 1 <= k THEN k-1+1 ELSE 0) = k /\ k-1+1 = k /\ \A i \in 1..k : 1+i-1 = i
    OBVIOUS
  <2> QED BY <2>2, <2>3 DEF Pre
<1>5. ASSUME NEW k \in 1..Len(Incoming) PROVE Pre(k) = Append(Pre(k-1), Incoming[k])
  <2>1. SubSeq(Incoming, 1, k) = SubSeq(Incoming, 1, k-1) \o <<Incoming[k]>>
    <3>1. 1 \in 1..Len(Incoming) /\ k \in 1..Len(Incoming)
      BY <1>1
    <3> QED BY <1>1, <3>1, SubSeqRecursiveSecond
  <2>2. k - 1 \in 0..Len(Incoming)
    BY <1>1
  <2>3. Append(Pre(k-1), Incoming[k]) = Pre(k-1) \o <<Incoming[k]>>
    <3>1. Pre(k-1) \in Seq(Seq(Unit)) /\ Incoming[k] \in Seq(Unit)
      BY <1>1, <1>4, <2>2, ElementOfSeq
    <3> QED BY <3>1, AppendIsConcat
  <2> QED BY <2>1, <2>3 DEF Pre
<1> QED BY <1>2, <1>3, <1>4, <1>5

LEMMA Starts ==
  /\ Start(0) = 0 /\ Start(Len(Incoming)) = Len(Bytes) /\ Bytes \in Seq(Unit)
  /\ \A k \in 0..Len(Incoming) : FlattenSeq(Pre(k)) \in Seq(Unit) /\ Start(k) \in Nat
  /\ \A k \in 1..Len(Incoming) :
       /\ FlattenSeq(Pre(k)) = FlattenSeq(Pre(k-1)) \o Incoming[k]
       /\ Start(k) = Start(k-1) + Len(Incoming[k])
       /\ Start(k-1) < Start(k)
<1>1. ASSUME NEW k \in 0..Len(Incoming)
      PROVE  FlattenSeq(Pre(k)) \in Seq(Unit) /\ Start(k) \in Nat
  <2>1. Pre(k) \in Seq(Seq(Unit))
    BY FirstPackets
  <2>2. <<>> \in Seq(Unit)
    OBVIOUS
  <2>3. FlattenSeq(Pre(k)) \in Seq(Unit)
    BY <2>1, <2>2, FlattenAppend
  <2> QED BY <2>3, LenProperties DEF Start
<1>2. ASSUME NEW k \in 1..Len(Incoming)
      PROVE  /\ FlattenSeq(Pre(k)) = FlattenSeq(Pre(k-1)) \o Incoming[k]
             /\ Start(k) = Start(k-1) + Len(Incoming[k])
             /\ Start(k-1) < Start(k)
  <2>1. k - 1 \in 0..Len(Incoming) /\ k \in 0..Len(Incoming)
    BY PacketsOfPeer
  <2>2. Pre(k-1) \in Seq(Seq(Unit)) /\ Incoming[k] \in Seq(Unit) /\ Len(Incoming[k]) \in Nat \ {0}
    BY <2>1, FirstPackets, PacketsOfPeer
  <2>3. FlattenSeq(Append(Pre(k-1), Incoming[k])) = FlattenSeq(Pre(k-1)) \o Incoming[k]
    BY <2>2, FlattenAppend
  <2>4. Pre(k) = Append(Pre(k-1), Incoming[k])
    BY FirstPackets
  <2>5. Len(FlattenSeq(Pre(k-1)) \o Incoming[k]) = Len(FlattenSeq(Pre(k-1))) + Len(Incoming[k])
    BY <1>1, <2>1, <2>2, ConcatProperties
  <2>6. Start(k-1) \in Nat /\ Start(k) \in Nat
    BY <1>1, <2>1
  <2>7. FlattenSeq(Pre(k)) = FlattenSeq(Pre(k-1)) \o Incoming[k]
    BY <2>3, <2>4
  <2>8. Start(k) = Start(k-1) + Len(Incoming[k])
    BY <2>5, <2>7 DEF Start
  <2>9. Start(k-1) < Start(k)
    BY <2>2, <2>6, <2>8
  <2> QED BY <2>7, <2>8, <2>9
<1>3. Start(0) = 0
  <2>1. <<>> \in Seq(Seq(Unit)) /\ <<>> \in Seq(Unit)
    OBVIOUS
  <2>2. FlattenSeq(<<>>) = <<>>
    BY <2>1, FlattenAppend
  <2> QED BY <2>2, FirstPackets DEF Start
<1>4. Start(Len(Incoming)) = Len(Bytes) /\ Bytes \in Seq(Unit)
  <2>1. Len(Incoming) \in 0..Len(Incoming)
    BY PacketsOfPeer
  <2>2. FlattenSeq(Pre(Len(Incoming))) = Bytes
    BY FirstPackets DEF Bytes
  <2> QED BY <1>1, <2>1, <2>2 DEF Start
<1> QED BY <1>1, <1>2, <1>3, <1>4

(* Where the packets are in the stream. *)
LEMMA StartsInStream ==
  ASSUME NEW k \in 0..Len(Incoming)
  PROVE  /\ Start(k) <= Len(Bytes)
         /\ \A i \in 1..Start(k) : Bytes[i] = FlattenSeq(Pre(k))[i]
<1> DEFINE K == Len(Incoming)
           Fits(j) == /\ Start(j) <= Len(Bytes)
                      /\ \A i \in 1..Start(j) : Bytes[i] = FlattenSeq(Pre(j))[i]
           T == {d \in Nat : d <= K => Fits(K - d)}
<1>1. K \in Nat /\ Len(Bytes) \in Nat /\ \A j \in 0..K : Start(j) \in Nat
  BY PacketsOfPeer, Starts, LenProperties
<1>2. 0 \in T
  <2>1. FlattenSeq(Pre(K)) = Bytes
    BY FirstPackets DEF Bytes
  <2>2. Fits(K)
    BY <1>1, <2>1, Starts
  <2>3. K - 0 = K
    BY <1>1
  <2> HIDE DEF Fits, K
  <2> QED BY <2>2, <2>3
<1>3. ASSUME NEW d \in Nat, d \in T PROVE d + 1 \in T
  <2> SUFFICES ASSUME d + 1 <= K PROVE Fits(K - (d + 1))
    OBVIOUS
  <2>1. PICK j \in 1..K : j = K - d
    <3> HIDE DEF K, Fits
    <3>1. K - d \in 1..K
      BY <1>1
    <3> QED BY <3>1
  <2>2. K - (d + 1) = j - 1 /\ j - 1 \in 0..K /\ j \in 0..K
    BY <1>1, <2>1
  <2>3. Fits(j)
    BY <1>1, <1>3, <2>1
  <2>4. FlattenSeq(Pre(j)) = FlattenSeq(Pre(j-1)) \o Incoming[j] /\ Start(j-1) < Start(j)
    BY Starts
  <2>5. FlattenSeq(Pre(j-1)) \in Seq(Unit) /\ Incoming[j] \in Seq(Unit)
    BY <2>2, Starts, PacketsOfPeer
  <2>6. \A i \in 1..Start(j-1) : FlattenSeq(Pre(j))[i] = FlattenSeq(Pre(j-1))[i]
    <3>1. PICK s : s = FlattenSeq(Pre(j-1))
      OBVIOUS
    <3>2. PICK p : p = Incoming[j]
      OBVIOUS
    <3>3. s \in Seq(Unit) /\ p \in Seq(Unit) /\ Start(j-1) = Len(s) /\ FlattenSeq(Pre(j)) = s \o p
      BY <2>4, <2>5, <3>1, <3>2 DEF Start
    <3>4. \A i \in 1..Len(s) + Len(p) : (s \o p)[i] = IF i <= Len(s) THEN s[i] ELSE p[i - Len(s)]
      BY <3>3, ConcatProperties
    <3>5. \A i \in 1..Len(s) : i \in 1..Len(s) + Len(p) /\ i <= Len(s)
      BY <3>3, LenProperties
    <3> QED BY <3>1, <3>3, <3>4, <3>5
  <2>7. Start(j-1) \in Nat /\ Start(j) \in Nat /\ Len(Bytes) \in Nat
    BY <1>1, <2>2
  <2>8. Fits(j-1)
    <3>1. Start(j-1) <= Len(Bytes) /\ Start(j-1) <= Start(j)
      BY <2>3, <2>4, <2>7
    <3>2. \A i \in 1..Start(j-1) : i \in 1..Start(j)
      BY <2>7, <3>1
    <3> QED BY <2>3, <2>6, <3>1, <3>2
  <2> QED BY <2>2, <2>8
<1> HIDE DEF T
<1>4. \A d \in Nat : d \in T
  BY <1>2, <1>3, NatSetInduction
<1>5. K - k \in Nat /\ K - k <= K /\ K - (K - k) = k
  BY <1>1
<1>6. Fits(K - (K - k))
  BY <1>4, <1>5 DEF T
<1> QED BY <1>5, <1>6

LEMMA StreamPackets ==
  ASSUME NEW k \in 1..Len(Incoming)
  PROVE  \A i \in 1..Len(Incoming[k]) : Bytes[Start(k-1) + i] = Incoming[k][i]
<1> SUFFICES ASSUME NEW i \in 1..Len(Incoming[k]) PROVE Bytes[Start(k-1) + i] = Incoming[k][i]
  OBVIOUS
<1> DEFINE s == FlattenSeq(Pre(k-1))
<1>1. k \in 0..Len(Incoming) /\ k - 1 \in 0..Len(Incoming)
  BY PacketsOfPeer
<1>2. /\ s \in Seq(Unit) /\ Incoming[k] \in Seq(Unit) /\ Len(s) = Start(k-1)
      /\ Start(k-1) \in Nat /\ Len(Incoming[k]) \in Nat /\ Start(k) = Start(k-1) + Len(Incoming[k])
  BY <1>1, Starts, PacketsOfPeer DEF Start
<1>3. FlattenSeq(Pre(k)) = s \o Incoming[k]
  BY Starts
<1> HIDE DEF s
<1>4. (s \o Incoming[k])[Len(s) + i] = Incoming[k][i]
  <2>1. Len(s) + i \in 1..Len(s) + Len(Incoming[k]) /\ ~(Len(s) + i <= Len(s)) /\ (Len(s) + i) - Len(s) = i
    BY <1>2
  <2> QED BY <1>2, <2>1, ConcatProperties
<1>5. Start(k-1) + i \in 1..Start(k)
  BY <1>2
<1>6. Bytes[Start(k-1) + i] = FlattenSeq(Pre(k))[Start(k-1) + i]
  BY <1>1, <1>5, StartsInStream
<1> QED BY <1>2, <1>3, <1>4, <1>6

LEMMA StartsRise ==
  ASSUME NEW j \in 0..Len(Incoming), NEW k \in 0..j
  PROVE  Start(k) <= Start(j)
<1> DEFINE T == {d \in Nat : k + d <= j => Start(k) <= Start(k + d)}
<1>1. Len(Incoming) \in Nat /\ \A i \in 0..Len(Incoming) : Start(i) \in Nat
  BY PacketsOfPeer, Starts
<1>2. 0 \in T
  <2>1. k + 0 = k /\ Start(k) \in Nat
    BY <1>1
  <2> QED BY <2>1
<1>3. ASSUME NEW d \in Nat, d \in T PROVE d + 1 \in T
  <2> SUFFICES ASSUME k + (d + 1) <= j PROVE Start(k) <= Start(k + (d + 1))
    OBVIOUS
  <2>1. PICK i \in 1..Len(Incoming) : i = k + (d + 1)
    BY <1>1
  <2>2. i - 1 = k + d /\ k + d <= j /\ i \in 0..Len(Incoming) /\ i - 1 \in 0..Len(Incoming)
    BY <1>1, <2>1
  <2>3. Start(k) <= Start(i - 1)
    BY <1>3, <2>2
  <2>4. Start(i - 1) < Start(i)
    BY Starts
  <2>5. Start(k) \in Nat /\ Start(i - 1) \in Nat /\ Start(i) \in Nat
    BY <1>1, <2>2
  <2> QED BY <2>1, <2>3, <2>4, <2>5
<1> HIDE DEF T
<1>4. j - k \in Nat /\ k + (j - k) = j
  OBVIOUS
<1>5. j - k \in T
  BY <1>2, <1>3, <1>4, NatSetInduction
<1> QED BY <1>4, <1>5 DEF T

(* The units behind the first from, up to number to.                       *)
Piece(from, to) == SubSeq(Bytes, from + 1, to)

LEMMA PieceOK ==
  ASSUME NEW from \in Nat, NEW to \in from..Len(Bytes)
  PROVE  /\ Piece(from, to) \in Seq(Unit) /\ Len(Piece(from, to)) = to - from
         /\ \A i \in 1..to - from : Piece(from, to)[i] = Bytes[from + i]
<1>1. Bytes \in Seq(Unit) /\ Len(Bytes) \in Nat
  BY Starts, LenProperties
<1>2. from + 1 \in Int /\ to \in Int /\ \A i \in from + 1 .. to : Bytes[i] \in Unit
  <2>1. \A i \in from + 1 .. to : i \in 1..Len(Bytes)
    BY <1>1
  <2> QED BY <1>1, <2>1, ElementOfSeq
<1>3. /\ SubSeq(Bytes, from + 1, to) \in Seq(Unit)
      /\ Len(SubSeq(Bytes, from + 1, to)) = IF from + 1 <= to THEN to - (from + 1) + 1 ELSE 0
      /\ \A i \in 1 .. to - (from + 1) + 1 : SubSeq(Bytes, from + 1, to)[i] = Bytes[(from + 1) + i - 1]
  BY <1>2, SubSeqProperties
<1>4. /\ (IF from + 1 <= to THEN to - (from + 1) + 1 ELSE 0) = to - from
      /\ to - (from + 1) + 1 = to - from
      /\ \A i \in 1..to - from : (from + 1) + i - 1 = from + i
  OBVIOUS
<1> QED BY <1>3, <1>4 DEF Piece

(* A piece and what follows it, and a piece of a piece. *)
LEMMA PieceConcat ==
  ASSUME NEW from \in Nat, NEW at \in from..Len(Bytes), NEW to \in at..Len(Bytes)
  PROVE  Piece(from, at) \o Piece(at, to) = Piece(from, to)
<1>1. Bytes \in Seq(Unit) /\ Len(Bytes) \in Nat
  BY Starts, LenProperties
<1>2. from + 1 \in 1..Len(Bytes) + 1 /\ at \in (from + 1) - 1 .. Len(Bytes) /\ to \in at..Len(Bytes)
  BY <1>1
<1> QED BY <1>1, <1>2, ConcatAdjacentSubSeq DEF Piece

LEMMA PieceOfPiece ==
  ASSUME NEW from \in Nat, NEW to \in from..Len(Bytes), NEW a \in 0..to - from, NEW b \in a..to - from
  PROVE  SubSeq(Piece(from, to), a + 1, b) = Piece(from + a, from + b)
<1>1. Piece(from, to) \in Seq(Unit) /\ Len(Piece(from, to)) = to - from
      /\ \A i \in 1..to - from : Piece(from, to)[i] = Bytes[from + i]
  BY PieceOK
<1>2. Len(Bytes) \in Nat
  BY Starts, LenProperties
<1>3. from + a \in Nat /\ from + b \in from + a .. Len(Bytes)
  BY <1>2
<1>4. /\ Piece(from + a, from + b) \in Seq(Unit) /\ Len(Piece(from + a, from + b)) = b - a
      /\ \A i \in 1..b - a : Piece(from + a, from + b)[i] = Bytes[(from + a) + i]
  <2>1. (from + b) - (from + a) = b - a
    BY <1>3
  <2>2. PICK f : f = from + a
    OBVIOUS
  <2>3. PICK t : t = from + b
    OBVIOUS
  <2>4. Piece(f, t) \in Seq(Unit) /\ Len(Piece(f, t)) = t - f /\ \A i \in 1..t - f : Piece(f, t)[i] = Bytes[f + i]
    BY <1>3, <2>2, <2>3, PieceOK
  <2> QED BY <2>1, <2>2, <2>3, <2>4
<1> DEFINE s == Piece(from, to)
<1>5. /\ SubSeq(s, a + 1, b) \in Seq(Unit) /\ Len(SubSeq(s, a + 1, b)) = b - a
      /\ \A i \in 1..b - a : SubSeq(s, a + 1, b)[i] = s[a + i]
  <2>1. a + 1 \in Int /\ b \in Int /\ \A i \in a + 1 .. b : s[i] \in Unit
    <3>1. \A i \in a + 1 .. b : i \in 1..Len(s)
      BY <1>1
    <3> QED BY <1>1, <3>1, ElementOfSeq
  <2> HIDE DEF s
  <2>2. /\ SubSeq(s, a + 1, b) \in Seq(Unit)
        /\ Len(SubSeq(s, a + 1, b)) = IF a + 1 <= b THEN b - (a + 1) + 1 ELSE 0
        /\ \A i \in 1 .. b - (a + 1) + 1 : SubSeq(s, a + 1, b)[i] = s[(a + 1) + i - 1]
    BY <2>1, SubSeqProperties
  <2>3. /\ (IF a + 1 <= b THEN b - (a + 1) + 1 ELSE 0) = b - a
        /\ b - (a + 1) + 1 = b - a
        /\ \A i \in 1..b - a : (a + 1) + i - 1 = a + i
    OBVIOUS
  <2> QED BY <2>2, <2>3
<1>6. \A i \in 1..b - a : SubSeq(s, a + 1, b)[i] = Piece(from + a, from + b)[i]
  <2> SUFFICES ASSUME NEW i \in 1..b - a PROVE SubSeq(s, a + 1, b)[i] = Piece(from + a, from + b)[i]
    OBVIOUS
  <2>1. a + i \in 1..to - from /\ from + (a + i) = (from + a) + i
    OBVIOUS
  <2>2. s[a + i] = Bytes[from + (a + i)]
    BY <1>1, <2>1
  <2>3. SubSeq(s, a + 1, b)[i] = s[a + i]
    BY <1>5
  <2>4. Piece(from + a, from + b)[i] = Bytes[(from + a) + i]
    BY <1>4
  <2> QED BY <2>1, <2>2, <2>3, <2>4
<1> HIDE DEF s
<1>7. SubSeq(s, a + 1, b) = Piece(from + a, from + b)
  BY <1>4, <1>5, <1>6, SeqEqual
<1> QED BY <1>7 DEF s

(* A packet is the piece from its start to the start of the next one.     *)
LEMMA PacketIsPiece ==
  ASSUME NEW k \in 1..Len(Incoming)
  PROVE  Incoming[k] = Piece(Start(k-1), Start(k))
<1>1. k - 1 \in 0..Len(Incoming) /\ k \in 0..Len(Incoming)
  BY PacketsOfPeer
<1>2. /\ Start(k-1) \in Nat /\ Start(k) \in Nat /\ Start(k) <= Len(Bytes) /\ Len(Bytes) \in Nat
      /\ Start(k) = Start(k-1) + Len(Incoming[k]) /\ Len(Incoming[k]) \in Nat
  BY <1>1, Starts, StartsInStream, PacketsOfPeer, LenProperties
<1>3. PICK from, to : from = Start(k-1) /\ to = Start(k)
  OBVIOUS
<1>4. from \in Nat /\ to \in from..Len(Bytes) /\ to - from = Len(Incoming[k])
  BY <1>2, <1>3
<1>5. /\ Piece(from, to) \in Seq(Unit) /\ Len(Piece(from, to)) = to - from
      /\ \A i \in 1..to - from : Piece(from, to)[i] = Bytes[from + i]
  BY <1>4, PieceOK
<1>6. Incoming[k] \in Seq(Unit) /\ \A i \in 1..Len(Incoming[k]) : Bytes[from + i] = Incoming[k][i]
  BY <1>3, PacketsOfPeer, StreamPackets
<1>7. Incoming[k] = Piece(from, to)
  <2>1. PICK p : p = Incoming[k]
    OBVIOUS
  <2>2. p \in Seq(Unit) /\ Len(p) = Len(Piece(from, to)) /\ \A i \in 1..Len(p) : p[i] = Piece(from, to)[i]
    BY <1>4, <1>5, <1>6, <2>1
  <2> QED BY <1>5, <2>1, <2>2, SeqEqual
<1> QED BY <1>3, <1>7

-----------------------------------------------------------------------------
(*****************************************************************************)
(* The loop of handleReceive over the buffer.                                *)
(*****************************************************************************)
(* The loop over the buffer is well-founded: a packet has units.           *)
NextAt(buf, o) == o + buf[o + 1].size

LEMMA LoopMoves ==
  ASSUME NEW buf \in Seq(Unit), NEW o \in 0..Len(buf), PacketAt(buf, o)
  PROVE  NextAt(buf, o) \in 0..Len(buf) /\ NextAt(buf, o) > o
<1>1. Len(buf) \in Nat /\ o < Len(buf) /\ NextAt(buf, o) <= Len(buf)
  BY LenProperties DEF PacketAt, NextAt
<1>2. o + 1 \in 1..Len(buf)
  BY <1>1
<1>3. buf[o + 1].size \in Nat \ {0}
  <2>1. buf[o + 1] \in Unit
    BY <1>2, ElementOfSeq
  <2> QED BY <2>1 DEF Unit
<1> QED BY <1>1, <1>3 DEF NextAt

LEMMA LoopExists ==
  ASSUME NEW buf \in Seq(Unit), NEW V, NEW base \in [0..Len(buf) -> V],
         NEW step \in [0..Len(buf) -> [V -> V]]
  PROVE  \E f \in [0..Len(buf) -> V] :
           \A o \in 0..Len(buf) : f[o] = IF PacketAt(buf, o) THEN step[o][f[NextAt(buf, o)]] ELSE base[o]
<1> DEFINE n == Len(buf)
           D == 0..n
           measure == [o \in D |-> n - o]
           more == {o \in D : PacketAt(buf, o)}
           next == [o \in more |-> NextAt(buf, o)]
<1>1. n \in Nat
  BY LenProperties
<1>2. \A o \in more : NextAt(buf, o) \in D /\ NextAt(buf, o) > o
  BY LoopMoves
<1> HIDE DEF n
<1>3. measure \in [D -> 0..n] /\ more \in SUBSET D /\ next \in [more -> D]
  BY <1>1, <1>2
<1>4. \A o \in more : measure[next[o]] < measure[o]
  <2> SUFFICES ASSUME NEW o \in more PROVE measure[next[o]] < measure[o]
    OBVIOUS
  <2>1. o \in D /\ next[o] = NextAt(buf, o)
    OBVIOUS
  <2>2. PICK p \in D : p = NextAt(buf, o) /\ p > o
    BY <1>2
  <2>3. n - p < n - o
    BY <1>1, <2>1, <2>2
  <2> QED BY <2>1, <2>2, <2>3
<1>5. base \in [D -> V] /\ step \in [D -> [V -> V]]
  BY DEF n
<1> HIDE DEF D, measure, more, next
<1>6. \E f \in [D -> V] : Recursion(f, D, more, next, base, step)
  BY <1>1, <1>3, <1>4, <1>5, RecursionExists
<1>7. PICK f \in [D -> V] : Recursion(f, D, more, next, base, step)
  BY <1>6
<1>8. ASSUME NEW o \in D
      PROVE  f[o] = IF PacketAt(buf, o) THEN step[o][f[NextAt(buf, o)]] ELSE base[o]
  <2>1. f[o] = IF o \in more THEN step[o][f[next[o]]] ELSE base[o]
    BY <1>7 DEF Recursion
  <2>2. o \in more <=> PacketAt(buf, o)
    BY DEF more
  <2>3. o \in more => next[o] = NextAt(buf, o)
    BY DEF next
  <2> QED BY <2>1, <2>2, <2>3
<1> QED BY <1>7, <1>8 DEF D, n

LEMMA OffsetLoop ==
  ASSUME NEW buf \in Seq(Unit)
  PROVE  \E f : /\ \A o \in 0..Len(buf) : f[o] = IF PacketAt(buf, o) THEN f[NextAt(buf, o)] ELSE o
                /\ Offset(buf) = f[0]
<1> DEFINE IsLoop(f) == f = [o \in 0..Len(buf) |-> IF PacketAt(buf, o) THEN f[o + buf[o + 1].size] ELSE o]
           loop == CHOOSE f : IsLoop(f)
<1>1. \E f : IsLoop(f)
  <2> DEFINE D == 0..Len(buf)
             base == [o \in D |-> o]
             step == [o \in D |-> [v \in D |-> v]]
  <2>1. base \in [D -> D] /\ step \in [D -> [D -> D]]
    OBVIOUS
  <2> HIDE DEF base, step
  <2>2. PICK f \in [D -> D] :
          \A o \in D : f[o] = IF PacketAt(buf, o) THEN step[o][f[NextAt(buf, o)]] ELSE base[o]
    BY <2>1, LoopExists
  <2>3. ASSUME NEW o \in D PROVE f[o] = IF PacketAt(buf, o) THEN f[o + buf[o + 1].size] ELSE o
    <3>1. CASE PacketAt(buf, o)
      <4>1. NextAt(buf, o) \in D
        BY <3>1, LoopMoves
      <4>2. f[NextAt(buf, o)] \in D
        BY <4>1
      <4>3. step[o][f[NextAt(buf, o)]] = f[NextAt(buf, o)]
        BY <4>2 DEF step
      <4>4. NextAt(buf, o) = o + buf[o + 1].size
        BY DEF NextAt
      <4>5. f[o] = step[o][f[NextAt(buf, o)]]
        BY <2>2, <3>1
      <4> QED BY <3>1, <4>3, <4>4, <4>5
    <3>2. CASE ~PacketAt(buf, o)
      BY <2>2, <3>2 DEF base
    <3> QED BY <3>1, <3>2
  <2>4. IsLoop(f)
    BY <2>3
  <2> QED BY <2>4
<1>2. Offset(buf) = loop[0]
  BY Zenon DEF Offset
<1>3. IsLoop(loop)
  BY <1>1
<1> HIDE DEF loop
<1>4. \A o \in 0..Len(buf) : loop[o] = IF PacketAt(buf, o) THEN loop[NextAt(buf, o)] ELSE o
  BY <1>3 DEF NextAt
<1> QED BY <1>2, <1>4

LEMMA PacketsLoop ==
  ASSUME NEW buf \in Seq(Unit)
  PROVE  \E f : /\ \A o \in 0..Len(buf) :
                     f[o] = IF PacketAt(buf, o)
                            THEN <<SubSeq(buf, o + 1, NextAt(buf, o))>> \o f[NextAt(buf, o)]
                            ELSE <<>>
                /\ PacketsIn(buf) = f[0]
<1> DEFINE IsLoop(f) == f = [o \in 0..Len(buf) |->
                               IF PacketAt(buf, o)
                               THEN <<SubSeq(buf, o + 1, o + buf[o + 1].size)>> \o f[o + buf[o + 1].size]
                               ELSE <<>>]
           loop == CHOOSE f : IsLoop(f)
<1>1. \E f : IsLoop(f)
  <2> DEFINE D == 0..Len(buf)
             first(o) == <<SubSeq(buf, o + 1, NextAt(buf, o))>>
             X == {SubSeq(buf, o + 1, NextAt(buf, o)) : o \in D}
             base == [o \in D |-> <<>>]
             step == [o \in D |-> [v \in Seq(X) |-> first(o) \o v]]
  <2>1. base \in [D -> Seq(X)]
    OBVIOUS
  <2>2. \A o \in D : \A v \in Seq(X) : first(o) \o v \in Seq(X)
    <3> SUFFICES ASSUME NEW o \in D, NEW v \in Seq(X) PROVE first(o) \o v \in Seq(X)
      OBVIOUS
    <3>1. SubSeq(buf, o + 1, NextAt(buf, o)) \in X
      OBVIOUS
    <3> HIDE DEF X
    <3>2. first(o) \in Seq(X)
      BY <3>1
    <3> HIDE DEF first
    <3> QED BY <3>2, ConcatProperties
  <2>3. step \in [D -> [Seq(X) -> Seq(X)]]
    BY <2>2
  <2> HIDE DEF base, step, X
  <2>4. PICK f \in [D -> Seq(X)] :
          \A o \in D : f[o] = IF PacketAt(buf, o) THEN step[o][f[NextAt(buf, o)]] ELSE base[o]
    BY <2>1, <2>3, LoopExists
  <2>5. ASSUME NEW o \in D
        PROVE  f[o] = IF PacketAt(buf, o)
                      THEN <<SubSeq(buf, o + 1, o + buf[o + 1].size)>> \o f[o + buf[o + 1].size]
                      ELSE <<>>
    <3>1. CASE PacketAt(buf, o)
      <4>1. NextAt(buf, o) \in D
        BY <3>1, LoopMoves
      <4>2. f[NextAt(buf, o)] \in Seq(X)
        BY <4>1
      <4>3. step[o][f[NextAt(buf, o)]] = first(o) \o f[NextAt(buf, o)]
        BY <4>2 DEF step
      <4>4. NextAt(buf, o) = o + buf[o + 1].size
        BY DEF NextAt
      <4>5. f[o] = step[o][f[NextAt(buf, o)]]
        BY <2>4, <3>1
      <4> QED BY <3>1, <4>3, <4>4, <4>5
    <3>2. CASE ~PacketAt(buf, o)
      BY <2>4, <3>2 DEF base
    <3> QED BY <3>1, <3>2
  <2>6. IsLoop(f)
    BY <2>5
  <2> QED BY <2>6
<1>2. PacketsIn(buf) = loop[0]
  BY Zenon DEF PacketsIn
<1>3. IsLoop(loop)
  BY <1>1
<1> HIDE DEF loop
<1>4. \A o \in 0..Len(buf) :
        loop[o] = IF PacketAt(buf, o)
                  THEN <<SubSeq(buf, o + 1, NextAt(buf, o))>> \o loop[NextAt(buf, o)]
                  ELSE <<>>
  BY <1>3 DEF NextAt
<1> QED BY <1>2, <1>4

(* From the start of a packet on, the loop finds that packet if all of it  *)
(* is in the buffer.                                                       *)
LEMMA PacketFound ==
  ASSUME NEW k \in 0..Len(Incoming), NEW to \in Start(k)..Len(Bytes), NEW j \in k..Len(Incoming), Start(j) <= to
  PROVE  LET buf == Piece(Start(k), to)
             o   == Start(j) - Start(k)
         IN  /\ buf \in Seq(Unit) /\ Len(buf) = to - Start(k) /\ o \in 0..Len(buf)
             /\ PacketAt(buf, o) <=> j < Len(Incoming) /\ Start(j + 1) <= to
             /\ PacketAt(buf, o) => /\ NextAt(buf, o) = Start(j + 1) - Start(k)
                                   /\ SubSeq(buf, o + 1, NextAt(buf, o)) = Incoming[j + 1]
<1> DEFINE K == Len(Incoming)
<1>1. PICK a \in Nat : a = Start(k)
  BY Starts
<1>2. PICK b \in Nat : b = Start(j)
  BY Starts
<1>3. /\ K \in Nat /\ Len(Bytes) \in Nat /\ to \in a..Len(Bytes) /\ b <= to /\ a <= b
      /\ Start(K) = Len(Bytes)
  BY <1>1, <1>2, PacketsOfPeer, Starts, LenProperties, StartsRise
<1> DEFINE buf == Piece(a, to)
           o   == b - a
<1>4. buf \in Seq(Unit) /\ Len(buf) = to - a /\ \A i \in 1..to - a : buf[i] = Bytes[a + i]
  BY <1>3, PieceOK
<1> HIDE DEF buf
<1>5. o \in 0..Len(buf) /\ a + o = b
  BY <1>3, <1>4
<1>6. CASE j = K
  <2>1. ~(o < Len(buf))
    BY <1>2, <1>3, <1>4, <1>6
  <2>2. ~PacketAt(buf, o)
    BY <2>1 DEF PacketAt
  <2> QED BY <1>1, <1>2, <1>3, <1>4, <1>5, <1>6, <2>2 DEF buf
<1>7. CASE j < K
  <2>1. j + 1 \in 1..K /\ (j + 1) - 1 = j
    BY <1>3, <1>7
  <2>2. PICK c \in Nat : c = Start(j + 1) /\ c = b + Len(Incoming[j + 1]) /\ b < c /\ c <= Len(Bytes)
    <3>1. /\ Start(j + 1) \in Nat /\ Start(j + 1) = Start((j + 1) - 1) + Len(Incoming[j + 1])
          /\ Start((j + 1) - 1) < Start(j + 1) /\ Start(j + 1) <= Len(Bytes)
      <4>1. PICK m \in 1..Len(Incoming) : m = j + 1
        BY <2>1
      <4>2. m \in 0..Len(Incoming)
        BY PacketsOfPeer
      <4>3. Start(m) \in Nat /\ Start(m) = Start(m - 1) + Len(Incoming[m]) /\ Start(m - 1) < Start(m)
        BY <4>2, Starts
      <4>4. Start(m) <= Len(Bytes)
        BY <4>2, StartsInStream
      <4> QED BY <4>1, <4>3, <4>4
    <3> QED BY <1>2, <2>1, <3>1
  <2>3. ASSUME o < Len(buf) PROVE buf[o + 1].size = c - b
    <3>1. o + 1 \in 1..to - a /\ a + (o + 1) = b + 1
      BY <1>3, <1>4, <1>5, <2>3
    <3>2. buf[o + 1] = Bytes[b + 1]
      BY <1>4, <3>1
    <3>3. 1 \in 1..Len(Incoming[j + 1]) /\ Len(Incoming[j + 1]) = c - b
      BY <2>1, <2>2, PacketsOfPeer
    <3>4. Bytes[Start((j + 1) - 1) + 1] = Incoming[j + 1][1]
      BY <2>1, <3>3, StreamPackets
    <3>5. Incoming[j + 1][1].size = Len(Incoming[j + 1])
      BY <2>1, <3>3, PacketsOfPeer
    <3> QED BY <1>2, <2>1, <3>2, <3>3, <3>4, <3>5
  <2>4. PacketAt(buf, o) <=> c <= to
    <3>1. CASE o < Len(buf)
      <4>1. o + buf[o + 1].size = c - a
        BY <1>3, <2>2, <2>3, <3>1
      <4>2. PacketAt(buf, o) <=> c - a <= Len(buf)
        BY <3>1, <4>1 DEF PacketAt
      <4> QED BY <1>3, <1>4, <4>2
    <3>2. CASE ~(o < Len(buf))
      <4>1. ~(c <= to)
        BY <1>3, <1>4, <2>2, <3>2
      <4> QED BY <3>2, <4>1 DEF PacketAt
    <3> QED BY <3>1, <3>2
  <2>5. ASSUME PacketAt(buf, o)
        PROVE  NextAt(buf, o) = c - a /\ SubSeq(buf, o + 1, NextAt(buf, o)) = Incoming[j + 1]
    <3>1. o < Len(buf)
      BY <2>5 DEF PacketAt
    <3>2. NextAt(buf, o) = c - a
      BY <1>3, <2>2, <2>3, <3>1 DEF NextAt
    <3>3. c <= to
      BY <2>4, <2>5
    <3>4. SubSeq(buf, o + 1, c - a) = Piece(a + o, a + (c - a))
      <4>1. c - a \in o..to - a /\ o \in 0..to - a
        BY <1>3, <2>2, <3>3
      <4> HIDE DEF o
      <4> QED BY <1>3, <4>1, PieceOfPiece DEF buf
    <3>5. a + o = b /\ a + (c - a) = c
      BY <1>3, <2>2
    <3>6. Incoming[j + 1] = Piece(Start((j + 1) - 1), Start(j + 1))
      BY <2>1, PacketIsPiece
    <3> QED BY <1>2, <2>1, <2>2, <3>2, <3>4, <3>5, <3>6
  <2>6. PacketAt(buf, o) <=> j < K /\ Start(j + 1) <= to
    BY <1>7, <2>2, <2>4
  <2>7. PacketAt(buf, o) => /\ NextAt(buf, o) = Start(j + 1) - a
                           /\ SubSeq(buf, o + 1, NextAt(buf, o)) = Incoming[j + 1]
    BY <2>2, <2>5
  <2> QED BY <1>1, <1>2, <1>4, <1>5, <2>6, <2>7 DEF buf
<1> QED BY <1>3, <1>6, <1>7

(* The loop over a buffer that begins with a packet finds the packets that *)
(* are there as a whole, and stops behind the last of them.                *)
LEMMA WholePacketsFound ==
  ASSUME NEW k \in 0..Len(Incoming), NEW to \in Start(k)..Len(Bytes)
  PROVE  \E l \in k..Len(Incoming) :
           /\ PacketsIn(Piece(Start(k), to)) = SubSeq(Incoming, k + 1, l)
           /\ Offset(Piece(Start(k), to)) = Start(l) - Start(k)
           /\ Start(l) <= to
           /\ l < Len(Incoming) => to < Start(l + 1)
<1> DEFINE K == Len(Incoming)
           buf == Piece(Start(k), to)
           At(j) == Start(j) - Start(k)
<1>1. /\ K \in Nat /\ Len(Bytes) \in Nat /\ to \in Nat
      /\ \A j \in 0..K : Start(j) \in Nat
      /\ \A j \in 1..K : Incoming[j] \in Seq(Unit)
      /\ Incoming \in Seq(Seq(Unit))
  <2>1. Start(k) \in Nat
    BY Starts
  <2> QED BY <2>1, PacketsOfPeer, Starts, LenProperties
<1>2. buf \in Seq(Unit)
  BY <1>1, PieceOK
<1>3. ASSUME NEW j \in k..K, Start(j) <= to
      PROVE  /\ At(j) \in 0..Len(buf)
             /\ PacketAt(buf, At(j)) <=> j < K /\ Start(j + 1) <= to
             /\ PacketAt(buf, At(j)) => /\ NextAt(buf, At(j)) = At(j + 1)
                                       /\ SubSeq(buf, At(j) + 1, NextAt(buf, At(j))) = Incoming[j + 1]
  BY <1>3, PacketFound
<1> HIDE DEF buf
<1>4. PICK f : /\ \A o \in 0..Len(buf) : f[o] = IF PacketAt(buf, o) THEN f[NextAt(buf, o)] ELSE o
               /\ Offset(buf) = f[0]
  BY <1>2, OffsetLoop
<1>5. PICK g : /\ \A o \in 0..Len(buf) :
                     g[o] = IF PacketAt(buf, o)
                            THEN <<SubSeq(buf, o + 1, NextAt(buf, o))>> \o g[NextAt(buf, o)]
                            ELSE <<>>
               /\ PacketsIn(buf) = g[0]
  BY <1>2, PacketsLoop
<1> DEFINE Found(j, l) == /\ g[At(j)] = SubSeq(Incoming, j + 1, l)
                          /\ f[At(j)] = At(l)
                          /\ Start(l) <= to
                          /\ l < K => to < Start(l + 1)
           T == {d \in Nat : \A j \in k..K : j + d = K /\ Start(j) <= to => \E l \in j..K : Found(j, l)}
<1> HIDE DEF K, At, Found
(* No packet is found: the loop stops. *)
<1>6. ASSUME NEW j \in k..K, Start(j) <= to, ~(j < K /\ Start(j + 1) <= to) PROVE \E l \in j..K : Found(j, l)
  <2>1. At(j) \in 0..Len(buf) /\ ~PacketAt(buf, At(j))
    BY <1>3, <1>6
  <2>2. g[At(j)] = <<>> /\ f[At(j)] = At(j)
    BY <1>4, <1>5, <2>1
  <2>3. SubSeq(Incoming, j + 1, j) = <<>>
    BY SubSeqEmpty
  <2>4. j < K => to < Start(j + 1)
    <3> SUFFICES ASSUME j < K PROVE to < Start(j + 1)
      OBVIOUS
    <3>1. PICK m \in 0..K : m = j + 1
      BY <1>1
    <3>2. Start(m) \in Nat
      BY <1>1
    <3>3. ~(Start(m) <= to)
      BY <1>6, <3>1
    <3> QED BY <1>1, <3>1, <3>2, <3>3
  <2>5. Found(j, j)
    BY <1>6, <2>2, <2>3, <2>4 DEF Found
  <2>6. j \in j..K
    BY <1>1
  <2> QED BY <2>5, <2>6
<1>7. 0 \in T
  <2> SUFFICES ASSUME NEW j \in k..K, j + 0 = K, Start(j) <= to PROVE \E l \in j..K : Found(j, l)
    OBVIOUS
  <2>1. ~(j < K)
    BY <1>1
  <2> QED BY <1>6, <2>1
<1>8. ASSUME NEW d \in Nat, d \in T PROVE d + 1 \in T
  <2> SUFFICES ASSUME NEW j \in k..K, j + (d + 1) = K, Start(j) <= to PROVE \E l \in j..K : Found(j, l)
    OBVIOUS
  <2>1. CASE ~(j < K /\ Start(j + 1) <= to)
    <3> QED BY <1>6, <2>1
  <2>2. CASE j < K /\ Start(j + 1) <= to
    <3>1. PICK m \in k..K : m = j + 1 /\ m + d = K
      BY <1>1, <2>2
    <3>2. PICK l \in m..K : Found(m, l)
      BY <1>8, <2>2, <3>1
    <3>3. /\ At(j) \in 0..Len(buf) /\ PacketAt(buf, At(j)) /\ NextAt(buf, At(j)) = At(m)
          /\ SubSeq(buf, At(j) + 1, NextAt(buf, At(j))) = Incoming[m]
      BY <1>3, <2>2, <3>1
    <3>4. f[At(j)] = At(l)
      BY <1>4, <3>2, <3>3 DEF Found
    <3>5. g[At(j)] = <<Incoming[m]>> \o SubSeq(Incoming, m + 1, l)
      <4>1. g[At(j)] = <<SubSeq(buf, At(j) + 1, NextAt(buf, At(j)))>> \o g[NextAt(buf, At(j))]
        BY <1>5, <3>3
      <4> QED BY <3>2, <3>3, <4>1 DEF Found
    <3>6. <<Incoming[m]>> \o SubSeq(Incoming, m + 1, l) = SubSeq(Incoming, j + 1, l)
      <4>1. m \in 1..Len(Incoming) /\ l \in m..Len(Incoming)
        BY <1>1, <3>1 DEF K
      <4>2. SubSeq(Incoming, m, l) = <<Incoming[m]>> \o SubSeq(Incoming, m + 1, l)
        BY <1>1, <4>1, SubSeqRecursiveFirst
      <4> QED BY <3>1, <4>2
    <3>7. Found(j, l)
      BY <3>2, <3>4, <3>5, <3>6 DEF Found
    <3>8. l \in j..K
      BY <1>1, <3>1
    <3> QED BY <3>7, <3>8
  <2> QED BY <2>1, <2>2
<1> HIDE DEF T
<1>9. \A d \in Nat : d \in T
  BY <1>7, <1>8, NatSetInduction
<1>10. K - k \in T /\ k + (K - k) = K /\ k \in k..K /\ Start(k) <= to
  <2>1. K - k \in Nat
    BY <1>1 DEF K
  <2>2. Start(k) \in Nat
    BY <1>1 DEF K
  <2> QED BY <1>1, <1>9, <2>1, <2>2 DEF K
<1>11. PICK l \in k..K : Found(k, l)
  BY <1>10 DEF T
<1>12. At(k) = 0
  <2>1. PICK a \in Nat : a = Start(k)
    BY <1>1 DEF K
  <2> QED BY <2>1 DEF At
<1> QED BY <1>4, <1>5, <1>11, <1>12 DEF Found, K, At, buf

-----------------------------------------------------------------------------
(***************************************************************************)
(* Where the stream is: k packets were delivered, the units up to at are   *)
(* in the buffer, those up to taken in the event queue, if any.            *)
(***************************************************************************)
InPlace(k, at) ==
  /\ delivered = Pre(k)
  /\ Start(k) <= at /\ at <= taken /\ taken <= Len(Bytes)
  /\ buffer = Piece(Start(k), at)
  /\ taken - Start(k) <= MaxPacketSize
  /\ k < Len(Incoming) => at < Start(k + 1)

ReadTurn(k, at) ==
  \/ taken = at /\ Free(queue, {"read"}) /\ (reading => at - Start(k) < MaxPacketSize)
  \/ at < taken /\ ~reading /\ Only(queue, {"read"}, Read(Piece(at, taken)))

ReceiveInv == \E k \in 0..Len(Incoming) : \E at \in Nat : InPlace(k, at) /\ ReadTurn(k, at)

LEMMA ReceiveInit == Init => ReceiveInv
<1> SUFFICES ASSUME Init PROVE ReceiveInv
  OBVIOUS
<1>1. /\ 0 \in 0..Len(Incoming) /\ Start(0) = 0 /\ Pre(0) = <<>> /\ Len(Bytes) \in Nat
      /\ Len(Incoming) \in Nat
  BY PacketsOfPeer, Starts, FirstPackets, LenProperties
<1>2. Piece(0, 0) = <<>>
  BY SubSeqEmpty DEF Piece
<1>3. 0 < Len(Incoming) => 0 < Start(0 + 1)
  <2> SUFFICES ASSUME 0 < Len(Incoming) PROVE 0 < Start(1)
    OBVIOUS
  <2>1. 1 \in 1..Len(Incoming) /\ 1 - 1 = 0
    BY <1>1
  <2>2. Start(1 - 1) < Start(1)
    BY <2>1, Starts
  <2> QED BY <1>1, <2>1, <2>2
<1>4. InPlace(0, 0)
  BY <1>1, <1>2, <1>3, TransportAssumption DEF InPlace, Init
<1>5. ReadTurn(0, 0)
  BY <1>1, TransportAssumption DEF ReadTurn, Init, Free
<1> QED BY <1>1, <1>4, <1>5 DEF ReceiveInv

(* Steps that read nothing. *)
LEMMA ReceiveKept ==
  ASSUME ReceiveInv, UNCHANGED receiveVars, reading' => reading, SameFor({"read"}, queue, queue')
  PROVE  ReceiveInv'
<1>1. PICK k \in 0..Len(Incoming), at \in Nat : InPlace(k, at) /\ ReadTurn(k, at)
  BY DEF ReceiveInv
<1>2. InPlace(k, at)'
  BY <1>1 DEF InPlace, receiveVars
<1>3. PICK e : e = Read(Piece(at, taken))
  OBVIOUS
<1>4. taken' = taken
  BY DEF receiveVars
<1>5. Free(queue, {"read"}) => Free(queue', {"read"})
  BY DEF SameFor
<1>6. Only(queue, {"read"}, e) => Only(queue', {"read"}, e)
  BY DEF SameFor
<1>7. ReadTurn(k, at)'
  <2>1. CASE taken = at /\ Free(queue, {"read"}) /\ (reading => at - Start(k) < MaxPacketSize)
    BY <1>4, <1>5, <2>1 DEF ReadTurn
  <2>2. CASE at < taken /\ ~reading /\ Only(queue, {"read"}, Read(Piece(at, taken)))
    BY <1>3, <1>4, <1>6, <2>2 DEF ReadTurn
  <2> QED BY <1>1, <2>1, <2>2 DEF ReadTurn
<1> QED BY <1>2, <1>7 DEF ReceiveInv

LEMMA IfNoRead ==
  ASSUME NEW rest \in Seq(Events), NEW b, NEW e \in Events, e.op # "read"
  PROVE  rest \o If(b, <<e>>) \in Seq(Events) /\ SameFor({"read"}, rest, rest \o If(b, <<e>>))
<1>1. If(b, <<e>>) \in Seq(Events) /\ Free(If(b, <<e>>), {"read"})
  BY IfEvents
<1> QED BY <1>1, ConcatSame

LEMMA SameTransitive ==
  ASSUME NEW ops, NEW p, NEW q, NEW r, SameFor(ops, p, q), SameFor(ops, q, r)
  PROVE  SameFor(ops, p, r)
  BY DEF SameFor

LEMMA ShutdownNoRead ==
  ASSUME NEW rest \in Seq(Events), Shutdown(rest)
  PROVE  reading' = FALSE /\ SameFor({"read"}, rest, queue')
<1>1. PICK p : p = rest \o If(reading, <<ReadAborted>>)
  OBVIOUS
<1>2. PICK q : q = p \o If(writing, <<WriteFailed>>)
  OBVIOUS
<1>3. p \in Seq(Events) /\ SameFor({"read"}, rest, p)
  BY <1>1, EventTypes, EventOps, IfNoRead
<1>4. q \in Seq(Events) /\ SameFor({"read"}, p, q)
  BY <1>2, <1>3, EventTypes, EventOps, IfNoRead
<1>5. <<ShutdownPosted>> \in Seq(Events) /\ Free(<<ShutdownPosted>>, {"read"})
  BY EventTypes, EventOps DEF Free
<1>6. SameFor({"read"}, q, q \o <<ShutdownPosted>>)
  BY <1>4, <1>5, ConcatSame
<1>7. queue' = q \o <<ShutdownPosted>> /\ reading' = FALSE
  BY <1>1, <1>2 DEF Shutdown
<1>8. SameFor({"read"}, rest, q \o <<ShutdownPosted>>)
  BY <1>3, <1>4, <1>6, SameTransitive
<1> QED BY <1>7, <1>8

LEMMA AsyncSendNoRead ==
  ASSUME NEW rest \in Seq(Events), AsyncSend(rest)
  PROVE  SameFor({"read"}, rest, queue')
<1>1. queue' = rest \o If(~(sock = "open" /\ peerUp), <<WriteFailed>>)
  BY DEF AsyncSend
<1> QED BY <1>1, EventTypes, EventOps, IfNoRead

LEMMA TailNoRead ==
  ASSUME queue \in Seq(Events), NEW op, Running(op), op # "read"
  PROVE  Tail(queue) \in Seq(Events) /\ SameFor({"read"}, queue, Tail(queue))
<1>1. queue # <<>> /\ Head(queue).op \notin {"read"}
  BY DEF Running
<1> QED BY <1>1, HeadTailProperties, TailSame

LEMMA NoReadEventLoop ==
  ASSUME SendTypeOK, ReceiveInv, EventLoop, ~HandleReceive
  PROVE  ReceiveInv'
<1>1. queue \in Seq(Events)
  BY DEF SendTypeOK
<1>2. ASSUME HandleSendFailed \/ HandleTimeout \/ HandleReceiveFailed PROVE ReceiveInv'
  <2>1. PICK op : Running(op) /\ op # "read"
    BY <1>2 DEF HandleSendFailed, HandleTimeout, HandleReceiveFailed
  <2>2. Shutdown(Tail(queue)) /\ UNCHANGED receiveVars
    BY <1>2 DEF HandleSendFailed, HandleTimeout, HandleReceiveFailed
  <2>3. Tail(queue) \in Seq(Events) /\ SameFor({"read"}, queue, Tail(queue))
    BY <1>1, <2>1, TailNoRead
  <2>4. reading' = FALSE /\ SameFor({"read"}, Tail(queue), queue')
    BY <2>2, <2>3, ShutdownNoRead
  <2>5. SameFor({"read"}, queue, queue')
    BY <2>3, <2>4, SameTransitive
  <2> QED BY <2>2, <2>4, <2>5, ReceiveKept
<1>3. ASSUME HandleReceiveAborted \/ HandleTimeoutThrows \/ OnFaceShutdown PROVE ReceiveInv'
  <2>1. PICK op : Running(op) /\ op # "read"
    BY <1>3 DEF HandleReceiveAborted, HandleTimeoutThrows, OnFaceShutdown
  <2>2. queue' = Tail(queue) /\ UNCHANGED receiveVars /\ UNCHANGED reading
    BY <1>3 DEF HandleReceiveAborted, HandleTimeoutThrows, OnFaceShutdown
  <2>3. SameFor({"read"}, queue, queue')
    BY <1>1, <2>1, <2>2, TailNoRead
  <2> QED BY <2>2, <2>3, ReceiveKept
<1>4. ASSUME HandleSend PROVE ReceiveInv'
  <2>1. Running("written") /\ "written" # "read"
    BY <1>4 DEF HandleSend
  <2>2. AsyncSend(Tail(queue)) \/ queue' = Tail(queue)
    BY <1>4 DEF HandleSend
  <2>3. UNCHANGED receiveVars /\ UNCHANGED reading
    BY <1>4 DEF HandleSend
  <2>4. Tail(queue) \in Seq(Events) /\ SameFor({"read"}, queue, Tail(queue))
    BY <1>1, <2>1, TailNoRead
  <2>5. SameFor({"read"}, queue, queue')
    <3>1. CASE AsyncSend(Tail(queue))
      <4>1. SameFor({"read"}, Tail(queue), queue')
        BY <2>4, <3>1, AsyncSendNoRead
      <4> QED BY <2>4, <4>1, SameTransitive
    <3>2. CASE queue' = Tail(queue)
      BY <2>4, <3>2
    <3> QED BY <2>2, <3>1, <3>2
  <2> QED BY <2>3, <2>5, ReceiveKept
<1>5. ASSUME HandleShutdown PROVE ReceiveInv'
  <2>1. Running("handleShutdown") /\ "handleShutdown" # "read"
    BY <1>5 DEF HandleShutdown
  <2>2. UNCHANGED receiveVars /\ reading' = FALSE
    BY <1>5 DEF HandleShutdown
  <2>3. Tail(queue) \in Seq(Events) /\ SameFor({"read"}, queue, Tail(queue))
    BY <1>1, <2>1, TailNoRead
  <2>4. PICK p : p = Tail(queue) \o If(reading, <<ReadAborted>>)
    OBVIOUS
  <2>5. PICK q : q = p \o If(writing, <<WriteFailed>>)
    OBVIOUS
  <2>6. PICK r : r = q \o If(face, <<FaceShutdownPosted>>)
    OBVIOUS
  <2>7. p \in Seq(Events) /\ SameFor({"read"}, Tail(queue), p)
    BY <2>3, <2>4, EventTypes, EventOps, IfNoRead
  <2>8. q \in Seq(Events) /\ SameFor({"read"}, p, q)
    BY <2>5, <2>7, EventTypes, EventOps, IfNoRead
  <2>9. r \in Seq(Events) /\ SameFor({"read"}, q, r)
    BY <2>6, <2>8, EventTypes, EventOps, IfNoRead
  <2>10. queue' = r
    BY <1>5, <2>4, <2>5, <2>6 DEF HandleShutdown
  <2>11. SameFor({"read"}, queue, queue')
    BY <2>3, <2>7, <2>8, <2>9, <2>10, SameTransitive
  <2> QED BY <2>2, <2>11, ReceiveKept
<1> QED BY <1>2, <1>3, <1>4, <1>5 DEF EventLoop

LEMMA NoReadEnvironment ==
  ASSUME SendTypeOK, ReceiveInv,
         Send \/ FaceDel \/ PeerCloses \/ ConnectionLost \/ WriteCompletes \/ TimerExpires
  PROVE  ReceiveInv'
<1>1. queue \in Seq(Events)
  BY DEF SendTypeOK
<1>2. ASSUME Send PROVE ReceiveInv'
  <2>1. AsyncSend(queue) \/ queue' = queue
    BY <1>2 DEF Send
  <2>2. UNCHANGED receiveVars /\ UNCHANGED reading
    BY <1>2 DEF Send
  <2>3. SameFor({"read"}, queue, queue')
    <3>1. queue' = queue => SameFor({"read"}, queue, queue')
      BY DEF SameFor
    <3> QED BY <1>1, <2>1, <3>1, AsyncSendNoRead
  <2> QED BY <2>2, <2>3, ReceiveKept
<1>3. ASSUME FaceDel PROVE ReceiveInv'
  <2>1. Shutdown(queue) /\ UNCHANGED receiveVars
    BY <1>3 DEF FaceDel
  <2>2. reading' = FALSE /\ SameFor({"read"}, queue, queue')
    BY <1>1, <2>1, ShutdownNoRead
  <2> QED BY <2>1, <2>2, ReceiveKept
<1>4. ASSUME PeerCloses \/ WriteCompletes \/ TimerExpires PROVE ReceiveInv'
  <2>1. PICK e \in Events : e.op \notin {"read"} /\ queue' = Append(queue, e)
    BY <1>4, EventTypes, EventOps DEF PeerCloses, WriteCompletes, TimerExpires
  <2>2. UNCHANGED receiveVars /\ (reading' => reading)
    BY <1>4 DEF PeerCloses, WriteCompletes, TimerExpires
  <2>3. SameFor({"read"}, queue, queue')
    BY <1>1, <2>1, AppendSame
  <2> QED BY <2>2, <2>3, ReceiveKept
<1>5. ASSUME ConnectionLost PROVE ReceiveInv'
  <2>1. PICK p : p = queue \o If(reading, <<ReadFailed>>)
    OBVIOUS
  <2>2. PICK q : q = p \o If(writing, <<WriteFailed>>)
    OBVIOUS
  <2>3. p \in Seq(Events) /\ SameFor({"read"}, queue, p)
    BY <1>1, <2>1, EventTypes, EventOps, IfNoRead
  <2>4. q \in Seq(Events) /\ SameFor({"read"}, p, q)
    BY <2>2, <2>3, EventTypes, EventOps, IfNoRead
  <2>5. queue' = q /\ UNCHANGED receiveVars /\ reading' = FALSE
    BY <1>5, <2>1, <2>2 DEF ConnectionLost
  <2>6. SameFor({"read"}, queue, queue')
    BY <2>3, <2>4, <2>5, SameTransitive
  <2> QED BY <2>5, <2>6, ReceiveKept
<1> QED BY <1>2, <1>3, <1>4, <1>5

(* What a read gets is the next piece of the stream. *)
LEMMA NextPiece ==
  ASSUME NEW from \in Nat, taken \in Nat, from <= taken, taken <= Len(Bytes),
         NEW units \in Fitting(Piece(from, taken))
  PROVE  \E to \in Nat : /\ units = Piece(taken, to) /\ taken + Len(units) = to
                         /\ taken < to /\ to <= Len(Bytes) /\ to - from <= MaxPacketSize
<1>1. Len(Bytes) \in Nat
  BY Starts, LenProperties
<1>2. units \in Arriving /\ Len(Piece(from, taken)) + Len(units) <= MaxPacketSize
  BY DEF Fitting
<1>3. PICK to \in taken + 1 .. Len(Bytes) : units = Piece(taken, to)
  BY <1>2 DEF Arriving, Piece
<1>4. to \in Nat /\ taken < to /\ to <= Len(Bytes)
  BY <1>1, <1>3
<1>5. Len(units) = to - taken /\ Len(Piece(from, taken)) = taken - from
  <2>1. PICK t \in Nat : t = taken
    OBVIOUS
  <2>2. t \in from..Len(Bytes) /\ to \in t..Len(Bytes)
    BY <1>1, <1>4, <2>1
  <2>3. Len(Piece(t, to)) = to - t /\ Len(Piece(from, t)) = t - from
    BY <2>1, <2>2, PieceOK
  <2> QED BY <1>3, <2>1, <2>3
<1> QED BY <1>2, <1>3, <1>4, <1>5

LEMMA ReadCompletesKeeps ==
  ASSUME SendTypeOK, ReceiveInv, ReadCompletes
  PROVE  ReceiveInv'
<1>1. PICK k \in 0..Len(Incoming), at \in Nat : InPlace(k, at) /\ ReadTurn(k, at)
  BY DEF ReceiveInv
<1>2. PICK units \in Fitting(buffer) : taken' = taken + Len(units) /\ queue' = Append(queue, Read(units))
  BY DEF ReadCompletes
<1>3. /\ reading /\ reading' = FALSE /\ UNCHANGED <<buffer, delivered>>
      /\ taken \in Nat /\ queue \in Seq(Events)
  BY DEF ReadCompletes, SendTypeOK
<1>4. taken = at /\ Free(queue, {"read"})
  BY <1>1, <1>3 DEF ReadTurn
<1>5. Start(k) \in Nat /\ Start(k) <= at /\ taken <= Len(Bytes) /\ buffer = Piece(Start(k), at)
  BY <1>1, Starts DEF InPlace
<1>6. PICK to \in Nat : /\ units = Piece(at, to) /\ taken + Len(units) = to
                        /\ taken < to /\ to <= Len(Bytes) /\ to - Start(k) <= MaxPacketSize
  BY <1>2, <1>3, <1>4, <1>5, NextPiece
<1>7. InPlace(k, at)'
  BY <1>1, <1>2, <1>3, <1>4, <1>6 DEF InPlace
<1>8. Only(queue', {"read"}, Read(Piece(at, to)))
  <2>1. PICK e \in Events : e = Read(units) /\ e.op = "read"
    <3>1. units \in Seq(Units)
      BY <1>2, <1>3, FittingUnits
    <3> QED BY <3>1, EventTypes, EventOps
  <2>2. Only(Append(queue, e), {"read"}, e)
    BY <1>3, <1>4, <2>1, AppendOnly
  <2> QED BY <1>2, <1>6, <2>1, <2>2
<1>9. ReadTurn(k, at)'
  BY <1>2, <1>3, <1>4, <1>6, <1>8 DEF ReadTurn
<1> QED BY <1>7, <1>9 DEF ReceiveInv

(* What handleReceive finds. *)
LEMMA HeadIsRead ==
  ASSUME SendTypeOK, Running("read"), NEW k, NEW at, ReadTurn(k, at)
  PROVE  /\ at < taken /\ ~reading /\ Head(queue).units = Piece(at, taken)
         /\ Tail(queue) \in Seq(Events) /\ Free(Tail(queue), {"read"})
<1>1. queue \in Seq(Events) /\ queue # <<>> /\ Head(queue).op \in {"read"}
  BY DEF Running, SendTypeOK
<1>2. ~Free(queue, {"read"})
  BY <1>1, TailOnly
<1>3. at < taken /\ ~reading /\ Only(queue, {"read"}, Read(Piece(at, taken)))
  BY <1>2 DEF ReadTurn
<1>4. PICK e : e = Read(Piece(at, taken))
  OBVIOUS
<1>5. Head(queue) = e /\ Free(Tail(queue), {"read"})
  BY <1>1, <1>3, <1>4, TailOnly
<1>6. e.units = Piece(at, taken)
  BY <1>4 DEF Read
<1>7. Tail(queue) \in Seq(Events)
  BY <1>1, HeadTailProperties
<1> QED BY <1>3, <1>5, <1>6, <1>7

LEMMA BufferWithRead ==
  ASSUME SendTypeOK, Running("read"), NEW k \in 0..Len(Incoming), NEW at \in Nat, InPlace(k, at), ReadTurn(k, at)
  PROVE  /\ buffer \o Head(queue).units = Piece(Start(k), taken)
         /\ Start(k) \in Nat /\ taken \in Start(k)..Len(Bytes) /\ taken - Start(k) <= MaxPacketSize
         /\ Len(Piece(Start(k), taken)) = taken - Start(k)
<1>1. PICK from \in Nat : from = Start(k)
  BY Starts
<1>2. /\ from <= at /\ at <= taken /\ taken <= Len(Bytes) /\ buffer = Piece(from, at)
      /\ taken - from <= MaxPacketSize /\ taken \in Nat /\ Len(Bytes) \in Nat
  BY <1>1, Starts, LenProperties DEF InPlace, SendTypeOK
<1>3. from \in Nat /\ at \in from..Len(Bytes) /\ taken \in at..Len(Bytes) /\ taken \in from..Len(Bytes)
  BY <1>2
<1>4. Piece(from, at) \o Piece(at, taken) = Piece(from, taken) /\ Len(Piece(from, taken)) = taken - from
  BY <1>3, PieceConcat, PieceOK
<1> QED BY <1>1, <1>2, <1>3, <1>4, HeadIsRead

(* asyncReceive() from where handleReceive left the buffer. *)
LEMMA AsyncReceiveKeeps ==
  ASSUME SendTypeOK, NEW k \in 0..Len(Incoming), Start(k) <= taken, taken <= Len(Bytes),
         k < Len(Incoming) => taken < Start(k + 1),
         taken - Start(k) < MaxPacketSize, ~reading,
         NEW rest \in Seq(Events), Free(rest, {"read"}),
         delivered' = Pre(k), buffer' = Piece(Start(k), taken),
         AsyncReceive(Piece(Start(k), taken), rest)
  PROVE  ReceiveInv'
<1>1. PICK at \in Nat : at = taken
  BY DEF SendTypeOK
<1>2. Start(k) \in Nat
  BY Starts
<1>3. CASE taken' = taken /\ Free(queue', {"read"})
  <2>1. InPlace(k, at)'
    BY <1>1, <1>2, <1>3, TransportAssumption DEF InPlace
  <2>2. ReadTurn(k, at)'
    BY <1>1, <1>3 DEF ReadTurn
  <2> QED BY <2>1, <2>2 DEF ReceiveInv
<1>4. CASE \E units \in Fitting(Piece(Start(k), taken)) :
             taken' = taken + Len(units) /\ queue' = Append(rest, Read(units)) /\ UNCHANGED reading
  <2>1. PICK units \in Fitting(Piece(Start(k), taken)) :
          taken' = taken + Len(units) /\ queue' = Append(rest, Read(units)) /\ UNCHANGED reading
    BY <1>4
  <2>2. PICK to \in Nat : /\ units = Piece(taken, to) /\ taken + Len(units) = to
                          /\ taken < to /\ to <= Len(Bytes) /\ to - Start(k) <= MaxPacketSize
    BY <1>1, <1>2, NextPiece
  <2>3. InPlace(k, at)'
    BY <1>1, <1>2, <2>1, <2>2 DEF InPlace
  <2>4. Only(queue', {"read"}, Read(Piece(at, to)))
    <3>1. PICK e \in Events : e = Read(units) /\ e.op = "read"
      <4>1. units \in Seq(Units)
        BY <1>1, FittingUnits
      <4> QED BY <4>1, EventTypes, EventOps
    <3>2. Only(Append(rest, e), {"read"}, e)
      BY <3>1, AppendOnly
    <3> QED BY <1>1, <2>1, <2>2, <3>1, <3>2
  <2>5. ReadTurn(k, at)'
    BY <1>1, <2>1, <2>2, <2>4 DEF ReadTurn
  <2> QED BY <2>3, <2>5 DEF ReceiveInv
<1>5. Free(Append(rest, ReadFailed), {"read"})
  BY EventTypes, EventOps, AppendOnly
<1> QED BY <1>3, <1>4, <1>5 DEF AsyncReceive

LEMMA HandleReceiveKeeps ==
  ASSUME SendTypeOK, ReceiveInv, HandleReceive
  PROVE  ReceiveInv'
<1>1. PICK k \in 0..Len(Incoming), at \in Nat : InPlace(k, at) /\ ReadTurn(k, at)
  BY DEF ReceiveInv
<1>2. Running("read")
  BY DEF HandleReceive
<1>3. /\ at < taken /\ ~reading /\ Tail(queue) \in Seq(Events) /\ Free(Tail(queue), {"read"})
      /\ delivered = Pre(k)
  BY <1>1, <1>2, HeadIsRead DEF InPlace
<1>4. PICK all : all = Piece(Start(k), taken)
  OBVIOUS
<1>5. PICK from \in Nat : from = Start(k)
  BY Starts
<1>6. /\ buffer \o Head(queue).units = all /\ taken \in from..Len(Bytes)
      /\ taken - from <= MaxPacketSize /\ Len(all) = taken - from
  BY <1>1, <1>2, <1>4, <1>5, BufferWithRead
<1>7. PICK l \in k..Len(Incoming) :
        /\ PacketsIn(all) = SubSeq(Incoming, k + 1, l)
        /\ Offset(all) = Start(l) - from
        /\ Start(l) <= taken
        /\ l < Len(Incoming) => taken < Start(l + 1)
  BY <1>4, <1>5, <1>6, WholePacketsFound
<1>8. l \in 0..Len(Incoming) /\ Len(Incoming) \in Nat
  BY PacketsOfPeer
<1>9. PICK start \in Nat : start = Start(l) /\ from <= start
  BY <1>5, <1>8, Starts, StartsRise
<1>10. taken \in Nat /\ taken <= Len(Bytes) /\ Len(Bytes) \in Nat
  BY <1>5, <1>6, Starts, LenProperties
<1>11. delivered' = Pre(l)
  <2>1. delivered' = Pre(k) \o SubSeq(Incoming, k + 1, l)
    BY <1>3, <1>6, <1>7 DEF HandleReceive
  <2>2. 1 \in 1..Len(Incoming) + 1 /\ k \in 1 - 1 .. Len(Incoming) /\ l \in k..Len(Incoming)
    BY <1>8
  <2>3. SubSeq(Incoming, 1, k) \o SubSeq(Incoming, k + 1, l) = SubSeq(Incoming, 1, l)
    BY <2>2, PacketsOfPeer, ConcatAdjacentSubSeq
  <2> QED BY <2>1, <2>3 DEF Pre
<1>12. SubSeq(all, Offset(all) + 1, Len(all)) = Piece(start, taken)
  <2>1. start - from \in 0..taken - from /\ taken - from \in start - from .. taken - from
    BY <1>6, <1>7, <1>9, <1>10
  <2>2. SubSeq(Piece(from, taken), (start - from) + 1, taken - from) = Piece(from + (start - from), from + (taken - from))
    BY <1>6, <2>1, PieceOfPiece
  <2>3. from + (start - from) = start /\ from + (taken - from) = taken
    BY <1>10
  <2> QED BY <1>4, <1>5, <1>6, <1>7, <1>9, <2>2, <2>3
<1>13. CASE Offset(all) = 0 /\ Len(all) = MaxPacketSize
  <2>1. buffer' = all /\ Shutdown(Tail(queue)) /\ UNCHANGED taken
    BY <1>6, <1>13 DEF HandleReceive
  <2>2. start = from
    BY <1>7, <1>9, <1>13
  <2>3. reading' = FALSE /\ SameFor({"read"}, Tail(queue), queue')
    BY <1>3, <2>1, ShutdownNoRead
  <2>4. Free(queue', {"read"})
    BY <1>3, <2>3 DEF SameFor
  <2>5. InPlace(l, taken)'
    BY <1>4, <1>5, <1>6, <1>7, <1>9, <1>10, <1>11, <2>1, <2>2 DEF InPlace
  <2>6. ReadTurn(l, taken)'
    BY <2>1, <2>3, <2>4 DEF ReadTurn
  <2>7. taken' \in Nat
    BY <1>10, <2>1
  <2> QED BY <1>8, <2>5, <2>6, <2>7 DEF ReceiveInv
<1>14. CASE ~(Offset(all) = 0 /\ Len(all) = MaxPacketSize)
  <2>1. buffer' = SubSeq(all, Offset(all) + 1, Len(all)) /\ AsyncReceive(buffer', Tail(queue))
    BY <1>6, <1>14 DEF HandleReceive
  <2>2. buffer' = Piece(Start(l), taken) /\ AsyncReceive(Piece(Start(l), taken), Tail(queue))
    BY <1>9, <1>12, <2>1
  <2>3. taken - Start(l) < MaxPacketSize
    BY <1>6, <1>7, <1>9, <1>10, <1>14, TransportAssumption
  <2> QED BY <1>3, <1>7, <1>8, <1>10, <1>11, <2>2, <2>3, AsyncReceiveKeeps
<1> QED BY <1>13, <1>14

(* In every reachable state the face got the first packets of the stream,  *)
(* and what of the rest was read is in the buffer, which holds no whole    *)
(* packet, and in the one read that may be queued.                         *)
THEOREM TcpTransportStreamInvariant == Spec => []ReceiveInv
<1>1. Init => ReceiveInv
  BY ReceiveInit
<1>2. SendInv /\ ReceiveInv /\ [Next]_vars => ReceiveInv'
  <2> SUFFICES ASSUME SendTypeOK, ReceiveInv, [Next]_vars PROVE ReceiveInv'
    BY DEF SendInv
  <2>1. CASE EventLoop /\ ~HandleReceive
    BY <2>1, NoReadEventLoop
  <2>2. CASE HandleReceive
    BY <2>2, HandleReceiveKeeps
  <2>3. CASE ReadCompletes
    BY <2>3, ReadCompletesKeeps
  <2>4. CASE Send \/ FaceDel \/ PeerCloses \/ ConnectionLost \/ WriteCompletes \/ TimerExpires
    BY <2>4, NoReadEnvironment
  <2>5. CASE UNCHANGED vars
    <3>1. UNCHANGED receiveVars /\ UNCHANGED <<reading, queue>>
      BY <2>5 DEF vars
    <3>2. SameFor({"read"}, queue, queue')
      BY <3>1 DEF SameFor
    <3> QED BY <3>1, <3>2, ReceiveKept
  <2> QED BY <2>1, <2>2, <2>3, <2>4, <2>5 DEF Next
<1> QED BY <1>1, <1>2, TcpTransportInvariant, PTL DEF Spec

(* The units of the read that is queued. *)
LEMMA QueuedRead ==
  ASSUME NEW units
  PROVE  /\ Free(queue, {"read"}) => ReadUnits = <<>>
         /\ Only(queue, {"read"}, Read(units)) => ReadUnits = units
<1> DEFINE reads == {i \in 1..Len(queue) : queue[i].op = "read"}
<1>1. ReadUnits = IF reads = {} THEN <<>> ELSE queue[CHOOSE i \in reads : \A j \in reads : i <= j].units
  BY DEF ReadUnits
<1>2. Free(queue, {"read"}) => reads = {}
  BY DEF Free
<1>3. ASSUME Only(queue, {"read"}, Read(units)) PROVE ReadUnits = units
  <2>1. PICK e : e = Read(units) /\ e.units = units /\ e.op = "read"
    <3>1. Read(units).units = units /\ Read(units).op = "read"
      BY DEF Read
    <3> QED BY <3>1
  <2>2. PICK i \in 1..Len(queue) : queue[i] = e /\ \A j \in 1..Len(queue) : queue[j].op \in {"read"} => j = i
    BY <1>3, <2>1 DEF Only
  <2>3. reads = {i} /\ i <= i
    BY <2>1, <2>2
  <2> HIDE DEF reads
  <2>4. (CHOOSE j \in reads : \A m \in reads : j <= m) = i
    BY <2>3
  <2> QED BY <1>1, <2>1, <2>2, <2>3, <2>4
<1> QED BY <1>1, <1>2, <1>3

(* The face gets the packets the peer sent, whole and in order, and no     *)
(* unit is lost between two reads of handleReceive; the buffer is never    *)
(* overrun, and no read starts into a full one.                            *)
THEOREM TcpTransportWholePackets == Spec => []WholePacketsInOrder
<1>1. SendTypeOK /\ ReceiveInv => WholePacketsInOrder
  <2> SUFFICES ASSUME SendTypeOK, ReceiveInv PROVE WholePacketsInOrder
    OBVIOUS
  <2>1. PICK k \in 0..Len(Incoming), at \in Nat : InPlace(k, at) /\ ReadTurn(k, at)
    BY DEF ReceiveInv
  <2>2. PICK from \in Nat : from = Start(k)
    BY Starts
  <2>3. PICK to \in Nat : to = taken
    BY DEF SendTypeOK
  <2>4. /\ from \in 0..Len(Bytes) /\ at \in from..Len(Bytes) /\ to \in at..Len(Bytes) /\ to \in from..Len(Bytes)
        /\ Len(Bytes) \in Nat /\ 0 \in Nat /\ to - from <= MaxPacketSize
    BY <2>1, <2>2, <2>3, Starts, LenProperties DEF InPlace
  <2>5. delivered = Pre(k) /\ buffer = Piece(from, at)
    BY <2>1, <2>2 DEF InPlace
  <2>6. ReadUnits = Piece(at, to) /\ (reading => at - from < MaxPacketSize)
    <3>1. CASE taken = at /\ Free(queue, {"read"}) /\ (reading => at - Start(k) < MaxPacketSize)
      <4>1. Piece(at, at) = <<>>
        BY SubSeqEmpty DEF Piece
      <4> QED BY <2>2, <2>3, <3>1, <4>1, QueuedRead
    <3>2. CASE at < taken /\ ~reading /\ Only(queue, {"read"}, Read(Piece(at, taken)))
      BY <2>3, <3>2, QueuedRead
    <3> QED BY <2>1, <3>1, <3>2 DEF ReadTurn
  <2>7. IsPrefix(delivered, Incoming)
    <3>1. Pre(k) \in Seq(Seq(Unit)) /\ Len(Pre(k)) = k
      BY FirstPackets
    <3>2. SubSeq(Pre(k), 1, k) = Pre(k)
      BY <3>1, SubSeqFull
    <3> QED BY <2>5, <3>1, <3>2, PacketsOfPeer DEF IsPrefix, Pre
  <2>8. FlattenSeq(delivered) = Piece(0, from)
    <3>1. PICK s : s = FlattenSeq(Pre(k))
      OBVIOUS
    <3>2. s \in Seq(Unit) /\ Len(s) = from /\ \A i \in 1..from : Bytes[i] = s[i]
      BY <2>2, <3>1, Starts, StartsInStream DEF Start
    <3>3. /\ Piece(0, from) \in Seq(Unit) /\ Len(Piece(0, from)) = from - 0
          /\ \A i \in 1..from - 0 : Piece(0, from)[i] = Bytes[0 + i]
      BY <2>4, PieceOK
    <3>4. from - 0 = from /\ \A i \in 1..from : 0 + i = i
      OBVIOUS
    <3>5. s = Piece(0, from)
      BY <3>2, <3>3, <3>4, SeqEqual
    <3> QED BY <2>5, <3>1, <3>5
  <2>9. Piece(0, from) \o Piece(from, at) = Piece(0, at) /\ Piece(0, at) \o Piece(at, to) = Piece(0, to)
    <3>1. at \in 0..Len(Bytes)
      BY <2>4
    <3> QED BY <2>4, <3>1, PieceConcat
  <2>10. FlattenSeq(delivered) \o buffer \o ReadUnits = SubSeq(Bytes, 1, taken)
    <3>1. Piece(0, to) = SubSeq(Bytes, 1, to)
      BY DEF Piece
    <3> QED BY <2>3, <2>5, <2>6, <2>8, <2>9, <3>1
  <2>11. Len(buffer \o ReadUnits) <= MaxPacketSize
    <3>1. Piece(from, at) \o Piece(at, to) = Piece(from, to)
      BY <2>4, PieceConcat
    <3>2. Len(Piece(from, to)) = to - from
      BY <2>4, PieceOK
    <3> QED BY <2>4, <2>5, <2>6, <3>1, <3>2
  <2>12. reading => Len(buffer) < MaxPacketSize
    <3>1. Len(Piece(from, at)) = at - from
      BY <2>4, PieceOK
    <3> QED BY <2>5, <2>6, <3>1
  <2> QED BY <2>7, <2>10, <2>11, <2>12 DEF WholePacketsInOrder
<1> QED BY <1>1, TcpTransportInvariant, TcpTransportStreamInvariant, PTL DEF SendInv

(* Between two events no whole packet waits in the buffer: handleReceive   *)
(* gives the face all that is complete, not only the first.                *)
NoPacketWaits ==
  /\ \A k \in 0..Len(Incoming)-1 : delivered = Pre(k) => Len(buffer) < Len(Incoming[k + 1])
  /\ delivered = Incoming => buffer = <<>>

THEOREM TcpTransportNoPacketWaits == Spec => []NoPacketWaits
<1>1. SendTypeOK /\ ReceiveInv => NoPacketWaits
  <2> SUFFICES ASSUME SendTypeOK, ReceiveInv PROVE NoPacketWaits
    OBVIOUS
  <2>1. PICK k \in 0..Len(Incoming), at \in Nat : InPlace(k, at)
    BY DEF ReceiveInv
  <2>2. PICK from \in Nat : from = Start(k)
    BY Starts
  <2>3. /\ from <= at /\ at \in from..Len(Bytes) /\ buffer = Piece(from, at)
        /\ (k < Len(Incoming) => at < Start(k + 1)) /\ delivered = Pre(k)
        /\ Len(Bytes) \in Nat /\ Len(Incoming) \in Nat
    BY <2>1, <2>2, Starts, LenProperties, PacketsOfPeer DEF InPlace, SendTypeOK
  <2>4. Len(buffer) = at - from
    BY <2>3, PieceOK
  <2>5. ASSUME NEW j \in 0..Len(Incoming)-1, delivered = Pre(j) PROVE Len(buffer) < Len(Incoming[j + 1])
    <3>1. j = k
      <4>1. j \in 0..Len(Incoming) /\ k \in 0..Len(Incoming) /\ Pre(j) = Pre(k)
        BY <2>3, <2>5
      <4>2. Len(Pre(j)) = j /\ Len(Pre(k)) = k
        BY <4>1, FirstPackets
      <4> QED BY <4>1, <4>2
    <3>2. PICK m \in 1..Len(Incoming) : m = k + 1 /\ m - 1 = k
      BY <2>3, <3>1
    <3>3. Start(m) = from + Len(Incoming[m]) /\ Len(Incoming[m]) \in Nat
      BY <2>2, <3>2, Starts, PacketsOfPeer
    <3> QED BY <2>3, <2>4, <3>1, <3>2, <3>3
  <2>6. ASSUME delivered = Incoming PROVE buffer = <<>>
    <3>1. k = Len(Incoming)
      BY <2>3, <2>6, FirstPackets
    <3>2. at = from
      BY <2>2, <2>3, <3>1, Starts
    <3>3. Piece(from, from) = <<>>
      BY SubSeqEmpty DEF Piece
    <3> QED BY <2>3, <3>2, <3>3
  <2> QED BY <2>5, <2>6 DEF NoPacketWaits
<1> QED BY <1>1, TcpTransportInvariant, TcpTransportStreamInvariant, PTL DEF SendInv

(* handleReceive ends a connection for a full buffer only when the next    *)
(* packet of the peer is larger than the buffer, never while one that fits *)
(* is on its way.                                                          *)
TooLarge(k) == k < Len(Incoming) /\ Len(Incoming[k + 1]) > MaxPacketSize

CutOffIsForSize ==
  LET all == buffer \o Head(queue).units
  IN  HandleReceive /\ Offset(all) = 0 /\ Len(all) = MaxPacketSize => TooLarge(Len(delivered))

THEOREM TcpTransportCutOffIsForSize == Spec => [][CutOffIsForSize]_vars
<1>1. SendTypeOK /\ ReceiveInv => CutOffIsForSize
  <2> SUFFICES ASSUME SendTypeOK, ReceiveInv, HandleReceive, NEW all, all = buffer \o Head(queue).units,
                      Offset(all) = 0, Len(all) = MaxPacketSize
               PROVE  TooLarge(Len(delivered))
    BY DEF CutOffIsForSize
  <2>1. PICK k \in 0..Len(Incoming), at \in Nat : InPlace(k, at) /\ ReadTurn(k, at)
    BY DEF ReceiveInv
  <2>2. PICK from \in Nat : from = Start(k)
    BY Starts
  <2>3. all = Piece(from, taken) /\ taken \in from..Len(Bytes) /\ Len(all) = taken - from
    <3>1. Running("read")
      BY DEF HandleReceive
    <3> QED BY <2>1, <2>2, <3>1, BufferWithRead
  <2>4. PICK l \in k..Len(Incoming) : /\ Offset(all) = Start(l) - from
                                      /\ l < Len(Incoming) => taken < Start(l + 1)
    BY <2>2, <2>3, WholePacketsFound
  <2>5. l \in 0..Len(Incoming) /\ Len(Incoming) \in Nat /\ Len(Bytes) \in Nat
    BY PacketsOfPeer, Starts, LenProperties
  <2>6. Start(l) = from
    <3>1. Start(l) \in Nat
      BY <2>5, Starts
    <3> QED BY <2>4, <3>1
  <2>7. l < Len(Incoming)
    <3>1. CASE l = Len(Incoming)
      <4>1. taken = from
        BY <2>3, <2>5, <2>6, <3>1, Starts
      <4> QED BY <2>3, <4>1, TransportAssumption
    <3> QED BY <2>5, <3>1
  <2>8. l = k
    <3>1. CASE k < l
      <4>1. PICK m \in 1..Len(Incoming) : m = k + 1 /\ m - 1 = k /\ m \in 0..l
        BY <2>5, <3>1
      <4>2. Start(k) < Start(m) /\ Start(m) <= Start(l)
        BY <2>5, <4>1, Starts, StartsRise
      <4>3. Start(m) \in Nat
        BY <2>5, <4>1, Starts
      <4> QED BY <2>2, <2>6, <4>2, <4>3
    <3> QED BY <2>5, <3>1
  <2>9. Len(delivered) = k
    BY <2>1, FirstPackets DEF InPlace
  <2>10. Len(Incoming[k + 1]) > MaxPacketSize
    <3>1. PICK m \in 1..Len(Incoming) : m = k + 1 /\ m - 1 = k
      BY <2>5, <2>7, <2>8
    <3>2. Start(m) = from + Len(Incoming[m]) /\ Len(Incoming[m]) \in Nat
      BY <2>2, <3>1, Starts, PacketsOfPeer
    <3>3. taken < Start(m)
      BY <2>4, <2>7, <2>8, <3>1
    <3>4. taken - from = MaxPacketSize /\ taken \in Nat
      BY <2>2, <2>3, <2>5
    <3> QED BY <3>1, <3>2, <3>3, <3>4
  <2> QED BY <2>7, <2>8, <2>9, <2>10 DEF TooLarge
<1> QED BY <1>1, TcpTransportInvariant, TcpTransportStreamInvariant, PTL DEF SendInv

=============================================================================

-------------------------- MODULE CmdServerProofs --------------------------
(***************************************************************************)
(* Proofs of the safety properties of the control server, for every number *)
(* of clients and every sequences of commands.                             *)
(***************************************************************************)
EXTENDS CmdServer, DataProofs, FiniteSetTheorems

(***************************************************************************)
(* Types.                                                                  *)
(***************************************************************************)
Pieces == [from : Clients, command : Nat, ends : BOOLEAN]
CommandIds == (Clients \cup {None}) \X Nat

Events ==
  [op : {"acceptFailed", "read", "readFailed", "readAborted", "receiveTimedOut", "connectTimedOut"}]
  \cup [op : {"accepted"}, client : Clients]
  \cup [op : {"received"}, piece : Pieces]
  \cup [op : {"connected", "connectFailed", "connectAborted"}, command : CommandIds]

TypeOK ==
  /\ client \in [Clients -> {"new", "open", "closed"}]
  /\ asked \in [Clients -> Nat]
  /\ replies \in [Clients -> Seq(CommandIds)]
  /\ backlog \in Seq(Clients)
  /\ accepts \in Nat
  /\ session \in Clients \cup {None}
  /\ taken \in [Clients -> Nat]
  /\ buffer \in Seq(Pieces)
  /\ reads \in Nat
  /\ receiveTimer \in {"armed", "off"}
  /\ connection \in {"null", "connecting", "connected", "failed", "reset"}
  /\ connector \in CommandIds
  /\ connectTimer \in {"armed", "off"}
  /\ status \in {"runs", "ended", "undefined"}
  /\ queue \in Seq(Events)
  /\ raced \in BOOLEAN
  /\ acceptFailed \in BOOLEAN

-----------------------------------------------------------------------------
(***************************************************************************)
(* What is so as long as no timer expired beside the completion it guards. *)
(***************************************************************************)

(* Whose turn it is to accept: a session, an outstanding accept, an accept *)
(* that is done, and never two of them.                                    *)
AcceptTurn ==
  \/ acceptFailed  /\ accepts = 0 /\ session = None /\ Free(queue, {"accepted"})
  \/ ~acceptFailed /\ accepts = 1 /\ session = None /\ Free(queue, {"accepted"})
  \/ ~acceptFailed /\ accepts = 0 /\ session = None
       /\ \E c \in Clients : Only(queue, {"accepted"}, Accepted(c))
  \/ ~acceptFailed /\ accepts = 0 /\ session # None /\ Free(queue, {"accepted"})

(* Everything that moves a session on.                                     *)
TurnOps ==
  {"received", "read", "readFailed", "connected", "connectFailed", "connectAborted",
   "receiveTimedOut", "connectTimedOut"}

(* The command the session has sent in full. *)
Asking == <<session, taken[session] \div 2>>

NoConnect == connection = "null" /\ connectTimer = "off"

(* Every piece in the buffer is a head: of the session, of which n pieces  *)
(* were handled, or of one that is over.                                   *)
UpTo(n) ==
  \A i \in 1..Len(buffer) :
    /\ ~buffer[i].ends
    /\ IF buffer[i].from = session THEN n % 2 = 1 ELSE taken[buffer[i].from] % 2 = 1

Answers(n) == client[session] = "open" => Len(replies[session]) = n

NoSession ==
  /\ session = None
  /\ reads = 0 /\ NoConnect /\ receiveTimer = "off"
  /\ Free(queue, TurnOps)
  /\ UpTo(0)

(* The session waits for a read, or for its timer. *)
IsReading ==
  /\ reads = 1 /\ NoConnect
  /\ Free(queue, TurnOps) \/ (Only(queue, TurnOps, ReceiveTimedOut) /\ receiveTimer = "off")
  /\ UpTo(taken[session])
  /\ Answers(taken[session] \div 2)

(* It has read the next piece. *)
HasPiece ==
  /\ reads = 0 /\ NoConnect
  /\ taken[session] > 0
  /\ Only(queue, TurnOps, Received(Piece(session, taken[session])))
  /\ UpTo(taken[session] - 1)
  /\ Answers((taken[session] - 1) \div 2)

IsOver ==
  /\ reads = 0 /\ NoConnect
  /\ Only(queue, TurnOps, ReadFailed)
  /\ UpTo(taken[session])

(* The last command of the session is not answered yet. *)
IsConnecting ==
  /\ reads = 0 /\ receiveTimer = "off"
  /\ \/ /\ connection = "connecting" /\ connector = Asking
        /\ Free(queue, TurnOps) \/ (Only(queue, TurnOps, ConnectTimedOut) /\ connectTimer = "off")
     \/ connection = "connected" /\ Only(queue, TurnOps, Connected(Asking))
     \/ connection = "failed" /\ Only(queue, TurnOps, ConnectFailed(Asking))
     \/ NoConnect /\ Only(queue, TurnOps, ConnectAborted(Asking))
  /\ taken[session] > 0
  /\ UpTo(taken[session])
  /\ Answers((taken[session] \div 2) - 1)
  /\ taken[session] % 2 = 0

(* One thing at a time: the session reads, has read, is over or waits for  *)
(* a connection; without a session nothing is under way.                   *)
SessionTurn ==
  \/ NoSession
  \/ session # None /\ (IsReading \/ HasPiece \/ IsOver \/ IsConnecting)

(* The replies to each client, r[c], are to its own commands. *)
Own(r) == \A c \in Clients : \A i \in 1..Len(r[c]) : r[c][i] = <<c, i>>

(* A client is accepted once; nothing was read from it before. *)
JustAccepted(c) == Only(queue, {"accepted"}, Accepted(c))

Untouched(c) == c # session /\ taken[c] = 0 /\ Len(replies[c]) = 0

ClientsComeOnce ==
  /\ \A c \in Clients : client[c] = "new" => Untouched(c) /\ ~Holds(backlog, c) /\ ~JustAccepted(c)
  /\ \A c \in Clients : Holds(backlog, c) => Untouched(c) /\ ~JustAccepted(c)
  /\ \A c \in Clients : JustAccepted(c) => Untouched(c)
  /\ Distinct(backlog)

Orderly ==
  /\ status = "runs"
  /\ AcceptTurn
  /\ SessionTurn
  /\ ClientsComeOnce
  /\ Own(replies)

CmdServerInv == TypeOK /\ (~raced => Orderly)

-----------------------------------------------------------------------------
(***************************************************************************)
(* Type correctness.                                                       *)
(***************************************************************************)
LEMMA EventTypes ==
  /\ AcceptFailed \in Events /\ ReadDone \in Events /\ ReadFailed \in Events
  /\ ReadAborted \in Events /\ ReceiveTimedOut \in Events /\ ConnectTimedOut \in Events
  /\ \A c \in Clients : Accepted(c) \in Events
  /\ \A c \in Clients, k \in Nat : Received(Piece(c, k)) \in Events
  /\ \A command \in CommandIds :
       /\ Connected(command) \in Events
       /\ ConnectFailed(command) \in Events
       /\ ConnectAborted(command) \in Events
<1>1. \A c \in Clients, k \in Nat : Piece(c, k) \in Pieces
  BY DEF Piece, Pieces
<1> QED
  BY <1>1 DEF Events, Event, AcceptFailed, ReadDone, ReadFailed, ReadAborted, ReceiveTimedOut,
       ConnectTimedOut, Accepted, Received, Connected, ConnectFailed, ConnectAborted

LEMMA EventFields ==
  ASSUME NEW e \in Events
  PROVE  /\ e.op = "accepted" => e.client \in Clients
         /\ e.op = "received" => e.piece \in Pieces
         /\ e.op \in {"connected", "connectFailed", "connectAborted"} => e.command \in CommandIds
  BY DEF Events

(* Reads that are aborted do not move a session on.                        *)
LEMMA AbortedReads ==
  ASSUME NEW n \in Nat, NEW rest \in Seq(Events)
  PROVE  /\ rest \o [i \in 1..n |-> ReadAborted] \in Seq(Events)
         /\ Free(rest, TurnOps) => Free(rest \o [i \in 1..n |-> ReadAborted], TurnOps)
         /\ Free(rest, {"accepted"}) => Free(rest \o [i \in 1..n |-> ReadAborted], {"accepted"})
<1> DEFINE aborted == [i \in 1..n |-> ReadAborted]
<1>1. aborted \in Seq(Events)
  BY EventTypes
<1>2. Free(aborted, TurnOps) /\ Free(aborted, {"accepted"})
  BY DEF Free, TurnOps, ReadAborted, Event
<1> HIDE DEF aborted
<1>3. rest \o aborted \in Seq(Events) /\ (Free(rest, TurnOps) => Free(rest \o aborted, TurnOps))
  BY <1>1, <1>2, ConcatOnly
<1>4. Free(rest, {"accepted"}) => Free(rest \o aborted, {"accepted"})
  BY <1>1, <1>2, ConcatOnly
<1> QED BY <1>3, <1>4 DEF aborted

(* The first empty line of a buffer that has one.                          *)
LEMMA FirstEndOK ==
  ASSUME NEW buf \in Seq(Pieces), Complete(buf)
  PROVE  /\ FirstEnd(buf) \in 1..Len(buf)
         /\ buf[FirstEnd(buf)].ends
<1> DEFINE E == {i \in 1..Len(buf) : buf[i].ends}
<1>1. E \in SUBSET Nat /\ E # {}
  BY DEF Complete
<1>2. PICK i \in E : \A j \in E : i <= j
  <2> HIDE DEF E
  <2> QED BY <1>1, LeastExists
<1>3. \A j \in 1..i-1 : ~buf[j].ends
  <2> SUFFICES ASSUME NEW j \in 1..i-1, buf[j].ends PROVE FALSE
    OBVIOUS
  <2>1. j \in E /\ j < i
    BY <1>2
  <2> QED BY <1>2, <2>1
<1> QED BY <1>2, <1>3 DEF FirstEnd

LEMMA FilledOK ==
  ASSUME TypeOK, queue # <<>>
  PROVE  /\ Filled \in Seq(Pieces)
         /\ Complete(Filled) =>
              /\ CommandOf(Filled[FirstEnd(Filled)]) \in CommandIds
              /\ SubSeq(Filled, FirstEnd(Filled) + 1, Len(Filled)) \in Seq(Pieces)
<1>1. Head(queue) \in Events
  BY TailHolds DEF TypeOK
<1>2. Filled \in Seq(Pieces)
  BY <1>1, EventFields, AppendProperties DEF TypeOK, Filled
<1>3. ASSUME NEW buf \in Seq(Pieces), Complete(buf)
      PROVE  /\ CommandOf(buf[FirstEnd(buf)]) \in CommandIds
             /\ SubSeq(buf, FirstEnd(buf) + 1, Len(buf)) \in Seq(Pieces)
  <2>1. FirstEnd(buf) \in 1..Len(buf)
    BY <1>3, FirstEndOK
  <2>2. buf[FirstEnd(buf)] \in Pieces
    BY <2>1, ElementOfSeq
  <2>3. CommandOf(buf[FirstEnd(buf)]) \in CommandIds
    BY <2>2 DEF CommandOf, Pieces, CommandIds
  <2> DEFINE m == FirstEnd(buf) + 1
  <2>4. /\ m \in 1..Len(buf)+1 /\ Len(buf) \in Nat
        /\ \A k \in m..Len(buf) : k \in 1..Len(buf)
    BY <2>1, LenProperties
  <2> HIDE DEF m
  <2>5. SubSeq(buf, m, Len(buf)) \in Seq(Pieces)
    BY <2>4, SubSeqProperties
  <2> QED BY <2>3, <2>5 DEF m
<1> QED BY <1>2, <1>3

LEMMA TypeInit == Init => TypeOK
<1> SUFFICES ASSUME Init PROVE TypeOK
  OBVIOUS
<1>1. \A S : <<>> \in Seq(S)
  BY EmptySeq
<1>2. NoCommand \in CommandIds
  BY DEF NoCommand, CommandIds
<1>3. replies \in [Clients -> Seq(CommandIds)]
  BY <1>1 DEF Init
<1> QED BY <1>1, <1>2, <1>3 DEF Init, TypeOK

(* A reply is appended for one client or for none. *)
LEMMA ReplyType ==
  ASSUME TypeOK, NEW command \in CommandIds, Reply(command)
  PROVE  replies' \in [Clients -> Seq(CommandIds)]
<1>1. CASE session = None \/ client[session] # "open"
  BY <1>1 DEF Reply, TypeOK
<1>2. CASE ~(session = None \/ client[session] # "open")
  <2>1. session \in Clients /\ replies[session] \in Seq(CommandIds)
    BY <1>2 DEF TypeOK
  <2>2. Append(replies[session], command) \in Seq(CommandIds)
    BY <2>1, AppendProperties
  <2> QED BY <1>2, <2>1, <2>2 DEF Reply, TypeOK
<1> QED BY <1>1, <1>2

(* The parts of the handlers. *)
LEMMA ReadSomeType ==
  ASSUME TypeOK, NEW on, NEW rest \in Seq(Events), ReadSome(on, rest)
  PROVE  /\ status' \in {"runs", "ended", "undefined"}
         /\ reads' \in Nat
         /\ queue' \in Seq(Events)
<1>1. Append(rest, ReadFailed) \in Seq(Events)
  BY EventTypes, AppendProperties
<1> QED BY <1>1 DEF ReadSome, TypeOK

LEMMA AsyncReceiveType ==
  ASSUME TypeOK, NEW on, NEW buf, NEW rest \in Seq(Events), AsyncReceive(on, buf, rest)
  PROVE  /\ status' \in {"runs", "ended", "undefined"}
         /\ reads' \in Nat
         /\ queue' \in Seq(Events)
         /\ receiveTimer' \in {"armed", "off"}
<1>1. Append(rest, ReadDone) \in Seq(Events)
  BY EventTypes, AppendProperties
<1> QED BY <1>1, ReadSomeType DEF AsyncReceive, TypeOK

LEMMA CloseAndAcceptType ==
  ASSUME TypeOK, NEW rest \in Seq(Events), CloseAndAccept(rest)
  PROVE  /\ session' \in Clients \cup {None}
         /\ reads' \in Nat
         /\ accepts' \in Nat
         /\ queue' \in Seq(Events)
<1>1. rest \o Aborted \in Seq(Events)
  BY AbortedReads DEF Aborted, TypeOK
<1> QED BY <1>1 DEF CloseAndAccept, TypeOK

LEMMA AbandonType ==
  ASSUME TypeOK, NEW rest \in Seq(Events)
  PROVE  Abandon(rest) \in Seq(Events)
<1>1. Append(rest, ConnectAborted(connector)) \in Seq(Events)
  BY EventTypes, AppendProperties DEF TypeOK
<1> QED BY <1>1 DEF Abandon

LEMMA TypeClients ==
  ASSUME TypeOK, NEW c \in Clients, ClientConnects(c) \/ ClientSends(c) \/ ClientCloses(c)
  PROVE  TypeOK'
<1>1. Append(backlog, c) \in Seq(Clients)
  BY AppendProperties DEF TypeOK
<1>2. CASE ClientConnects(c)
  BY <1>1, <1>2 DEF ClientConnects, TypeOK, connectVars
<1>3. CASE ClientSends(c)
  BY <1>3 DEF ClientSends, TypeOK, connectVars, sessionVars
<1>4. CASE ClientCloses(c)
  BY <1>4 DEF ClientCloses, TypeOK, connectVars, sessionVars
<1> QED BY <1>2, <1>3, <1>4

LEMMA TypeKernel ==
  ASSUME TypeOK, Kernel \/ Timers
  PROVE  TypeOK'
<1>1. \A e \in Events : Append(queue, e) \in Seq(Events)
  BY AppendProperties DEF TypeOK
<1>2. raced \in BOOLEAN /\ \A ops : raced \/ Queued(ops) \in BOOLEAN
  BY DEF TypeOK, Queued
<1>3. CASE AcceptCompletes
  <2>1. Head(backlog) \in Clients /\ Tail(backlog) \in Seq(Clients)
    BY <1>3, TailHolds DEF AcceptCompletes, TypeOK
  <2> QED BY <1>1, <1>3, <2>1, EventTypes DEF AcceptCompletes, TypeOK, clientVars, connectVars
<1>4. CASE AcceptFails
  BY <1>1, <1>4, EventTypes DEF AcceptFails, TypeOK, clientVars, connectVars
<1>5. CASE PieceArrives
  <2>1. session \in Clients /\ taken[session] + 1 \in Nat
    BY <1>5 DEF PieceArrives, TypeOK
  <2>2. Received(Piece(session, taken[session] + 1)) \in Events
    BY <2>1, EventTypes
  <2> QED BY <1>1, <1>2, <1>5, <2>1, <2>2 DEF PieceArrives, TypeOK, clientVars, connectVars, TimeoutQueued
<1>6. CASE EndOfFileArrives
  BY <1>1, <1>2, <1>6, EventTypes DEF EndOfFileArrives, TypeOK, clientVars, connectVars, TimeoutQueued
<1>7. CASE ConnectCompletes
  <2>1. connector \in CommandIds
    BY DEF TypeOK
  <2> QED
    BY <1>1, <1>2, <1>7, <2>1, EventTypes
    DEF ConnectCompletes, TypeOK, clientVars, sessionVars, ConnectTimeoutQueued
<1>8. CASE ConnectionResets
  BY <1>8 DEF ConnectionResets, TypeOK, clientVars, sessionVars
<1>9. CASE ReceiveTimerExpires
  BY <1>1, <1>2, <1>9, EventTypes DEF ReceiveTimerExpires, TypeOK, clientVars, connectVars
<1>10. CASE ConnectTimerExpires
  BY <1>1, <1>2, <1>10, EventTypes DEF ConnectTimerExpires, TypeOK, clientVars, sessionVars
<1> QED BY <1>3, <1>4, <1>5, <1>6, <1>7, <1>8, <1>9, <1>10 DEF Kernel, Timers

LEMMA TypeEventLoop ==
  ASSUME TypeOK, EventLoop
  PROVE  TypeOK'
<1>1. queue # <<>> /\ Head(queue) \in Events /\ Tail(queue) \in Seq(Events)
  <2>1. queue # <<>>
    BY DEF EventLoop, HandleAccept, HandleAcceptThrows, HandleAcceptFailed, HandlePiece, HandleCommand,
         HandleReadFailed, HandleReadAborted, HandleReceiveTimeout, HandleConnect, HandleConnectAborted,
         HandleConnectTimeout, HandleNullConnection, Running
  <2> QED BY <2>1, TailHolds DEF TypeOK
<1>2. Abandon(Tail(queue)) \in Seq(Events)
  BY <1>1, AbandonType
<1>3. CASE HandleAccept
  <2>1. Head(queue).client \in Clients
    BY <1>1, <1>3, EventFields DEF HandleAccept, Running
  <2>2. CASE session = None /\ session' = Head(queue).client /\ AsyncReceive(session', buffer, Tail(queue))
    BY <1>1, <1>3, <2>1, <2>2, AsyncReceiveType DEF HandleAccept, TypeOK, clientVars, connectVars
  <2>3. CASE queue' = Tail(queue) /\ UNCHANGED <<session, reads, receiveTimer, status>>
    BY <1>1, <1>3, <2>3 DEF HandleAccept, TypeOK, clientVars, connectVars
  <2> QED BY <1>3, <2>2, <2>3 DEF HandleAccept
<1>4. CASE HandleAcceptThrows
  BY <1>1, <1>4 DEF HandleAcceptThrows, TypeOK, clientVars, sessionVars, connectVars
<1>5. CASE HandleAcceptFailed
  BY <1>1, <1>5 DEF HandleAcceptFailed, TypeOK, clientVars, sessionVars, connectVars
<1>6. CASE HandlePiece
  BY <1>1, <1>6, FilledOK, ReadSomeType DEF HandlePiece, TypeOK, clientVars, connectVars
<1>7. CASE HandleCommand
  <2> DEFINE command == CommandOf(Filled[FirstEnd(Filled)])
             rest == SubSeq(Filled, FirstEnd(Filled) + 1, Len(Filled))
  <2>1. command \in CommandIds /\ rest \in Seq(Pieces)
    BY <1>1, <1>7, FilledOK DEF HandleCommand
  <2>2. /\ buffer' = rest
        /\ \/ Reply(command) /\ AsyncReceive(session, rest, Tail(queue)) /\ UNCHANGED connectVars
           \/ /\ connection' = "connecting"
              /\ connector' = command
              /\ connectTimer' = "armed"
              /\ receiveTimer' = "off"
              /\ queue' = Abandon(Tail(queue))
              /\ UNCHANGED <<replies, reads, status>>
        /\ UNCHANGED <<clientVars, backlog, accepts, session, taken, raced, acceptFailed>>
    BY <1>7 DEF HandleCommand
  <2> HIDE DEF command, rest
  <2>3. CASE Reply(command) /\ AsyncReceive(session, rest, Tail(queue)) /\ UNCHANGED connectVars
    BY <1>1, <2>1, <2>2, <2>3, ReplyType, AsyncReceiveType DEF TypeOK, clientVars, connectVars
  <2>4. CASE ~(Reply(command) /\ AsyncReceive(session, rest, Tail(queue)) /\ UNCHANGED connectVars)
    BY <1>2, <2>1, <2>2, <2>4 DEF TypeOK, clientVars
  <2> QED BY <2>3, <2>4
<1>8. CASE HandleReadFailed
  BY <1>1, <1>8, CloseAndAcceptType DEF HandleReadFailed, TypeOK, clientVars, connectVars
<1>9. CASE HandleReadAborted
  BY <1>1, <1>9 DEF HandleReadAborted, TypeOK, clientVars, connectVars
<1>10. CASE HandleReceiveTimeout
  BY <1>1, <1>10, CloseAndAcceptType DEF HandleReceiveTimeout, TypeOK, clientVars, connectVars
<1>11. CASE HandleConnect
  <2>1. Head(queue).command \in CommandIds
    BY <1>1, <1>11, EventFields DEF HandleConnect, Running
  <2>2. replies' \in [Clients -> Seq(CommandIds)]
    BY <1>11, <2>1, ReplyType DEF HandleConnect
  <2> QED BY <1>2, <1>11, <2>2, AsyncReceiveType DEF HandleConnect, TypeOK, clientVars
<1>12. CASE HandleConnectAborted
  <2>1. Head(queue).command \in CommandIds
    BY <1>1, <1>12, EventFields DEF HandleConnectAborted, Running
  <2>2. replies' \in [Clients -> Seq(CommandIds)]
    BY <1>12, <2>1, ReplyType DEF HandleConnectAborted
  <2> QED BY <1>1, <1>12, <2>2, AsyncReceiveType DEF HandleConnectAborted, TypeOK, clientVars
<1>13. CASE HandleConnectTimeout
  BY <1>2, <1>13 DEF HandleConnectTimeout, TypeOK, clientVars, sessionVars
<1>14. CASE HandleNullConnection
  BY <1>1, <1>14 DEF HandleNullConnection, TypeOK, clientVars, sessionVars, connectVars
<1> QED
  BY <1>3, <1>4, <1>5, <1>6, <1>7, <1>8, <1>9, <1>10, <1>11, <1>12, <1>13, <1>14 DEF EventLoop

LEMMA TypeNext == TypeOK /\ [Next]_vars => TypeOK'
<1> SUFFICES ASSUME TypeOK, [Next]_vars PROVE TypeOK'
  OBVIOUS
<1>1. CASE UNCHANGED vars
  BY <1>1 DEF vars, clientVars, sessionVars, connectVars, TypeOK
<1>2. CASE Next
  BY <1>2, TypeClients, TypeKernel, TypeEventLoop DEF Next
<1> QED BY <1>1, <1>2

-----------------------------------------------------------------------------
(***************************************************************************)
(* What the steps leave alone.                                             *)
(***************************************************************************)

LEMMA AcceptedIsOne ==
  ASSUME NEW q, NEW c, NEW d, Only(q, {"accepted"}, Accepted(c)), Only(q, {"accepted"}, Accepted(d))
  PROVE  c = d
<1>1. Accepted(c) = Accepted(d)
  BY OnlyIsOne
<1> QED BY <1>1 DEF Accepted

(* The names of the events. *)
LEMMA EventOps ==
  /\ AcceptFailed.op = "acceptFailed" /\ ReadDone.op = "read" /\ ReadFailed.op = "readFailed"
  /\ ReadAborted.op = "readAborted" /\ ReceiveTimedOut.op = "receiveTimedOut"
  /\ ConnectTimedOut.op = "connectTimedOut"
  /\ \A c : Accepted(c).op = "accepted"
  /\ \A piece : Received(piece).op = "received" /\ Received(piece).piece = piece
  /\ \A command :
       /\ Connected(command).op = "connected" /\ Connected(command).command = command
       /\ ConnectFailed(command).op = "connectFailed" /\ ConnectFailed(command).command = command
       /\ ConnectAborted(command).op = "connectAborted" /\ ConnectAborted(command).command = command
  BY DEF Event, AcceptFailed, ReadDone, ReadFailed, ReadAborted, ReceiveTimedOut,
       ConnectTimedOut, Accepted, Received, Connected, ConnectFailed, ConnectAborted

LEMMA AcceptKept ==
  ASSUME AcceptTurn, SameFor({"accepted"}, queue, queue'), (session' = None) = (session = None),
         UNCHANGED <<accepts, acceptFailed>>
  PROVE  AcceptTurn'
  BY DEF AcceptTurn, SameFor

LEMMA TurnKept ==
  ASSUME TypeOK, SessionTurn, SameFor(TurnOps, queue, queue'),
         UNCHANGED <<session, taken, buffer, reads, connectVars, replies>>,
         receiveTimer' \in {receiveTimer, "off"},
         session # None => (client'[session] = "open" => client[session] = "open")
  PROVE  SessionTurn'
<1>1. UNCHANGED NoConnect /\ UNCHANGED Asking
  BY DEF NoConnect, Asking, connectVars
<1>2. \A n : UpTo(n)' = UpTo(n)
  BY DEF UpTo
<1>3. session # None => \A n : Answers(n) => Answers(n)'
  BY DEF Answers
<1>4. CASE NoSession
  BY <1>1, <1>2, <1>4 DEF NoSession, SessionTurn, SameFor
<1>5. CASE session # None /\ IsReading
  <2>1. IsReading'
    BY <1>1, <1>2, <1>3, <1>5 DEF IsReading, SameFor
  <2> QED BY <1>5, <2>1 DEF SessionTurn
<1>6. CASE session # None /\ HasPiece
  <2>1. HasPiece'
    BY <1>1, <1>2, <1>3, <1>6 DEF HasPiece, SameFor
  <2> QED BY <1>6, <2>1 DEF SessionTurn
<1>7. CASE session # None /\ IsOver
  <2>1. IsOver'
    BY <1>1, <1>2, <1>7 DEF IsOver, SameFor
  <2> QED BY <1>7, <2>1 DEF SessionTurn
<1>8. CASE session # None /\ IsConnecting
  <2>1. IsConnecting'
    BY <1>1, <1>2, <1>3, <1>8 DEF IsConnecting, SameFor, connectVars
  <2> QED BY <1>8, <2>1 DEF SessionTurn
<1> QED BY <1>4, <1>5, <1>6, <1>7, <1>8 DEF SessionTurn

LEMMA OnceKept ==
  ASSUME TypeOK, AcceptTurn, ClientsComeOnce,
         Free(queue, {"accepted"}) => Free(queue', {"accepted"}),
         \A c \in Clients : Only(queue, {"accepted"}, Accepted(c)) =>
           Only(queue', {"accepted"}, Accepted(c)) \/ Free(queue', {"accepted"}),
         UNCHANGED <<client, backlog>>, session' \in {session, None},
         \A c \in Clients : c # session => taken'[c] = taken[c] /\ replies'[c] = replies[c]
  PROVE  ClientsComeOnce'
<1>1. None \notin Clients
  BY CmdServerAssumption
<1>2. \A c \in Clients : JustAccepted(c)' => JustAccepted(c)
  <2> SUFFICES ASSUME NEW c \in Clients, Only(queue', {"accepted"}, Accepted(c))
               PROVE  Only(queue, {"accepted"}, Accepted(c))
    BY DEF JustAccepted
  <2>1. ~Free(queue', {"accepted"})
    BY OnlyIsOne
  <2>2. PICK d \in Clients : Only(queue, {"accepted"}, Accepted(d))
    BY <2>1 DEF AcceptTurn
  <2>3. Only(queue', {"accepted"}, Accepted(d))
    BY <2>1, <2>2
  <2>4. c = d
    BY <2>3, AcceptedIsOne
  <2> QED BY <2>2, <2>4
<1>3. \A c \in Clients : Untouched(c) => Untouched(c)'
  BY <1>1 DEF Untouched
<1> QED BY <1>2, <1>3 DEF ClientsComeOnce

LEMMA AbortedSame ==
  ASSUME NEW q \in Seq(Events), NEW n \in Nat
  PROVE  SameFor({"accepted"}, q, q \o [i \in 1..n |-> ReadAborted])
<1> DEFINE aborted == [i \in 1..n |-> ReadAborted]
<1>1. aborted \in Seq(Events)
  BY EventTypes
<1>2. Free(aborted, {"accepted"})
  BY DEF Free, ReadAborted, Event
<1> HIDE DEF aborted
<1>3. SameFor({"accepted"}, q, q \o aborted)
  BY <1>1, <1>2, ConcatOnly DEF SameFor
<1> QED BY <1>3 DEF aborted

-----------------------------------------------------------------------------
(***************************************************************************)
(* Every step keeps order.                                                 *)
(***************************************************************************)
LEMMA OrderlyInit == Init => Orderly
<1> SUFFICES ASSUME Init PROVE Orderly
  OBVIOUS
<1>1. \A ops : Free(<<>>, ops) /\ \A e : ~Only(<<>>, ops, e)
  BY DEF Free, Only
<1>2. \A e : ~Holds(<<>>, e)
  BY DEF Holds
<1>3. SessionTurn
  BY <1>1 DEF Init, SessionTurn, NoSession, NoConnect, UpTo
<1>4. AcceptTurn
  BY <1>1 DEF Init, AcceptTurn
<1>5. ClientsComeOnce
  <2>1. \A c \in Clients : Untouched(c)
    BY CmdServerAssumption DEF Init, Untouched
  <2>2. \A c \in Clients : ~Holds(backlog, c) /\ ~JustAccepted(c)
    BY <1>1, <1>2 DEF Init, JustAccepted
  <2>3. Distinct(backlog)
    BY DEF Init, Distinct
  <2> QED BY <2>1, <2>2, <2>3 DEF ClientsComeOnce
<1>6. Own(replies)
  BY DEF Init, Own
<1> QED BY <1>3, <1>4, <1>5, <1>6 DEF Init, Orderly

LEMMA OrderlyClients ==
  ASSUME TypeOK, Orderly, NEW c \in Clients,
         ClientConnects(c) \/ ClientSends(c) \/ ClientCloses(c)
  PROVE  Orderly'
<1>1. /\ UNCHANGED <<replies, accepts, session, taken, buffer, reads, receiveTimer, connectVars,
                     status, queue, acceptFailed>>
  BY DEF ClientConnects, ClientSends, ClientCloses, sessionVars
<1>2. \A ops : SameFor(ops, queue, queue')
  BY <1>1 DEF SameFor
<1>3. AcceptTurn'
  BY <1>1, <1>2, AcceptKept DEF Orderly
<1>4. session # None => (client'[session] = "open" => client[session] = "open")
  <2>1. session # None => session \in Clients
    BY DEF TypeOK
  <2>2. client[c] = "new" => c # session
    BY DEF Orderly, ClientsComeOnce, Untouched
  <2> QED BY <2>1, <2>2 DEF ClientConnects, ClientSends, ClientCloses, TypeOK, clientVars
<1>5. SessionTurn'
  BY <1>1, <1>2, <1>4, TurnKept DEF Orderly
<1>6. \A d \in Clients : UNCHANGED Untouched(d) /\ UNCHANGED JustAccepted(d)
  BY <1>1 DEF Untouched, JustAccepted
<1>7. ClientsComeOnce'
  <2>1. CASE ClientConnects(c)
    <3>1. client[c] = "new" /\ backlog' = Append(backlog, c)
          /\ \A d \in Clients : client'[d] = IF d = c THEN "open" ELSE client[d]
      BY <2>1 DEF ClientConnects, TypeOK
    <3>2. Untouched(c) /\ ~Holds(backlog, c) /\ ~JustAccepted(c)
      BY <3>1 DEF Orderly, ClientsComeOnce
    <3>3. \A d : Holds(backlog', d) <=> Holds(backlog, d) \/ d = c
      BY <3>1, AppendHolds DEF TypeOK
    <3>4. Distinct(backlog')
      BY <3>1, <3>2, AppendDistinct DEF TypeOK, Orderly, ClientsComeOnce
    <3> QED BY <1>6, <3>1, <3>2, <3>3, <3>4 DEF Orderly, ClientsComeOnce
  <2>2. CASE ClientSends(c) \/ ClientCloses(c)
    <3>1. backlog' = backlog /\ \A d \in Clients : client'[d] = "new" => client[d] = "new"
      BY <2>2 DEF ClientSends, ClientCloses, sessionVars, TypeOK
    <3> QED BY <1>6, <3>1 DEF Orderly, ClientsComeOnce
  <2> QED BY <2>1, <2>2
<1> QED BY <1>1, <1>3, <1>5, <1>7 DEF Orderly

LEMMA OrderlyAcceptCompletes ==
  ASSUME TypeOK, Orderly, AcceptCompletes
  PROVE  Orderly'
<1> DEFINE c == Head(backlog)
<1>1. c \in Clients /\ backlog \in Seq(Clients) /\ backlog # <<>> /\ backlog' = Tail(backlog)
  BY TailHolds DEF AcceptCompletes, TypeOK
<1>2. queue \in Seq(Events) /\ queue' = Append(queue, Accepted(c)) /\ Accepted(c) \in Events
  BY <1>1, EventTypes DEF AcceptCompletes, TypeOK
<1>3. /\ UNCHANGED <<client, replies, session, taken, buffer, reads, receiveTimer, connectVars, status,
                     acceptFailed>>
      /\ accepts' = accepts - 1
  BY DEF AcceptCompletes, clientVars
<1> HIDE DEF c
<1>4. ~acceptFailed /\ accepts = 1 /\ session = None /\ Free(queue, {"accepted"})
  BY DEF AcceptCompletes, Orderly, AcceptTurn
<1>5. Only(queue', {"accepted"}, Accepted(c))
  BY <1>2, <1>4, AppendOnly, EventOps
<1>6. AcceptTurn'
  BY <1>1, <1>3, <1>4, <1>5 DEF AcceptTurn
<1>7. SessionTurn'
  <2>1. "accepted" \notin TurnOps
    BY DEF TurnOps
  <2>2. SameFor(TurnOps, queue, queue')
    BY <1>2, <2>1, AppendSame, EventOps
  <2> QED BY <1>3, <2>2, TurnKept DEF Orderly
<1>8. ClientsComeOnce'
  <2>1. \A d \in Clients : UNCHANGED Untouched(d) /\ UNCHANGED client
    BY <1>3 DEF Untouched
  <2>2. \A d \in Clients : JustAccepted(d)' => d = c
    BY <1>1, <1>5, AcceptedIsOne DEF JustAccepted
  <2>3. Distinct(backlog') /\ ~Holds(backlog', c)
    BY <1>1, TailDistinct DEF Orderly, ClientsComeOnce, c
  <2>4. Holds(backlog, c) /\ \A d : Holds(backlog', d) => Holds(backlog, d)
    BY <1>1, TailHolds DEF c
  <2> QED BY <1>1, <2>1, <2>2, <2>3, <2>4 DEF Orderly, ClientsComeOnce
<1> QED BY <1>3, <1>6, <1>7, <1>8 DEF Orderly

LEMMA OrderlyAcceptFails ==
  ASSUME TypeOK, Orderly, AcceptFails
  PROVE  Orderly'
<1>1. queue \in Seq(Events) /\ queue' = Append(queue, AcceptFailed) /\ AcceptFailed \in Events
  BY EventTypes DEF AcceptFails, TypeOK
<1>2. /\ UNCHANGED <<client, backlog, replies, session, taken, buffer, reads, receiveTimer, connectVars, status>>
      /\ accepts' = accepts - 1 /\ acceptFailed'
  BY DEF AcceptFails, clientVars
<1>3. accepts = 1 /\ session = None /\ Free(queue, {"accepted"})
  BY DEF AcceptFails, Orderly, AcceptTurn
<1>4. SameFor({"accepted"}, queue, queue') /\ SameFor(TurnOps, queue, queue')
  BY <1>1, AppendSame, EventOps DEF TurnOps
<1>5. AcceptTurn'
  BY <1>2, <1>3, <1>4 DEF AcceptTurn, SameFor
<1>6. SessionTurn'
  BY <1>2, <1>4, TurnKept DEF Orderly
<1>7. ClientsComeOnce'
  BY <1>2, <1>4, OnceKept DEF Orderly, SameFor
<1> QED BY <1>2, <1>5, <1>6, <1>7 DEF Orderly

(* What a step of the session leaves alone: whose turn it is to accept,    *)
(* and that clients come once.                                             *)
LEMMA SessionStepKeeps ==
  ASSUME TypeOK, Orderly, SameFor({"accepted"}, queue, queue'),
         UNCHANGED <<client, backlog, session, accepts, acceptFailed>>,
         \A c \in Clients : c # session => taken'[c] = taken[c] /\ replies'[c] = replies[c]
  PROVE  AcceptTurn' /\ ClientsComeOnce'
<1>1. AcceptTurn'
  BY AcceptKept DEF Orderly
<1>2. ClientsComeOnce'
  BY OnceKept DEF Orderly, SameFor
<1> QED BY <1>1, <1>2

LEMMA NotQueued ==
  ASSUME NEW ops, ~Queued(ops)
  PROVE  \A all, e : Only(queue, all, e) => e.op \notin ops
  BY DEF Queued, Only

LEMMA OrderlyPieceArrives ==
  ASSUME TypeOK, Orderly, PieceArrives, ~raced'
  PROVE  Orderly'
<1> DEFINE piece == Piece(session, taken[session] + 1)
<1>1. session \in Clients /\ session # None /\ taken[session] \in Nat /\ reads > 0
  BY DEF PieceArrives, TypeOK
<1>2. queue \in Seq(Events) /\ queue' = Append(queue, Received(piece)) /\ Received(piece) \in Events
  BY <1>1, EventTypes DEF PieceArrives, TypeOK
<1>3. /\ UNCHANGED <<client, backlog, replies, session, accepts, buffer, receiveTimer, connectVars, status,
                     acceptFailed>>
      /\ reads' = reads - 1
      /\ taken' = [taken EXCEPT ![session] = @ + 1]
      /\ ~Queued({"receiveTimedOut"})
  BY DEF PieceArrives, clientVars, TimeoutQueued
<1>4. /\ taken'[session] = taken[session] + 1
      /\ \A c \in Clients : c # session => taken'[c] = taken[c]
  BY <1>1, <1>3 DEF TypeOK
<1>5. Received(piece) = Received(Piece(session', taken'[session']))
  BY <1>3, <1>4
<1> HIDE DEF piece
<1>6. IsReading
  BY <1>1 DEF Orderly, SessionTurn, NoSession, HasPiece, IsOver, IsConnecting
<1>7. Free(queue, TurnOps)
  BY <1>3, <1>6, NotQueued, EventOps DEF IsReading
<1>8. Only(queue', TurnOps, Received(piece))
  BY <1>2, <1>7, AppendOnly, EventOps DEF TurnOps
<1>9. SameFor({"accepted"}, queue, queue')
  BY <1>2, AppendSame, EventOps
<1>10. AcceptTurn' /\ ClientsComeOnce'
  BY <1>3, <1>4, <1>9, SessionStepKeeps
<1>11. HasPiece'
  <2> PICK k \in Nat : k = taken[session]
    BY <1>1
  <2>1. taken'[session'] > 0 /\ taken'[session'] - 1 = k
    BY <1>1, <1>3, <1>4
  <2>2. \A n : UpTo(n) => UpTo(n)'
    <3> SUFFICES ASSUME NEW n, UpTo(n), NEW i \in 1..Len(buffer)
                 PROVE  /\ ~buffer'[i].ends
                        /\ IF buffer'[i].from = session' THEN n % 2 = 1 ELSE taken'[buffer'[i].from] % 2 = 1
      BY <1>3 DEF UpTo
    <3>1. buffer[i] \in Pieces
      BY ElementOfSeq DEF TypeOK
    <3>2. buffer[i].from \in Clients
      BY <3>1 DEF Pieces
    <3> QED BY <1>3, <1>4, <3>2 DEF UpTo
  <2>3. \A n : Answers(n) => Answers(n)'
    BY <1>3 DEF Answers
  <2>4. UpTo(k)' /\ Answers(k \div 2)'
    BY <1>6, <2>2, <2>3 DEF IsReading
  <2>5. reads' = 0 /\ NoConnect'
    BY <1>3, <1>6 DEF IsReading, NoConnect, connectVars
  <2> QED BY <1>5, <1>8, <2>1, <2>4, <2>5 DEF HasPiece
<1> QED BY <1>1, <1>3, <1>10, <1>11 DEF Orderly, SessionTurn

LEMMA UpToKept ==
  ASSUME UNCHANGED <<session, taken, buffer>>
  PROVE  \A n : UpTo(n) => UpTo(n)'
  BY DEF UpTo

LEMMA AnswersKept ==
  ASSUME UNCHANGED <<session, client, replies>>
  PROVE  \A n : Answers(n) => Answers(n)'
  BY DEF Answers

LEMMA OrderlyEndOfFileArrives ==
  ASSUME TypeOK, Orderly, EndOfFileArrives, ~raced'
  PROVE  Orderly'
<1>1. session # None /\ reads > 0
  BY DEF EndOfFileArrives
<1>2. queue \in Seq(Events) /\ queue' = Append(queue, ReadFailed) /\ ReadFailed \in Events
  BY EventTypes DEF EndOfFileArrives, TypeOK
<1>3. /\ UNCHANGED <<client, backlog, replies, session, accepts, taken, buffer, receiveTimer, connectVars,
                     status, acceptFailed>>
      /\ reads' = reads - 1
      /\ ~Queued({"receiveTimedOut"})
  BY DEF EndOfFileArrives, clientVars, TimeoutQueued
<1>4. IsReading
  BY <1>1 DEF Orderly, SessionTurn, NoSession, HasPiece, IsOver, IsConnecting
<1>5. Free(queue, TurnOps)
  BY <1>3, <1>4, NotQueued, EventOps DEF IsReading
<1>6. Only(queue', TurnOps, ReadFailed)
  BY <1>2, <1>5, AppendOnly, EventOps DEF TurnOps
<1>7. SameFor({"accepted"}, queue, queue')
  BY <1>2, AppendSame, EventOps
<1>8. AcceptTurn' /\ ClientsComeOnce'
  BY <1>3, <1>7, SessionStepKeeps
<1>9. IsOver'
  <2> PICK k : k = taken[session]
    OBVIOUS
  <2>1. UpTo(k)' /\ k = taken'[session']
    BY <1>3, <1>4, UpToKept DEF IsReading
  <2>2. reads' = 0 /\ NoConnect'
    BY <1>3, <1>4 DEF IsReading, NoConnect, connectVars
  <2> QED BY <1>6, <2>1, <2>2 DEF IsOver
<1> QED BY <1>1, <1>3, <1>8, <1>9 DEF Orderly, SessionTurn

LEMMA OrderlyReceiveTimerExpires ==
  ASSUME TypeOK, Orderly, ReceiveTimerExpires, ~raced'
  PROVE  Orderly'
<1>1. queue \in Seq(Events) /\ queue' = Append(queue, ReceiveTimedOut) /\ ReceiveTimedOut \in Events
  BY EventTypes DEF ReceiveTimerExpires, TypeOK
<1>2. /\ UNCHANGED <<client, backlog, replies, session, accepts, taken, buffer, reads, connectVars,
                     status, acceptFailed>>
      /\ receiveTimer = "armed" /\ receiveTimer' = "off"
      /\ ~Queued({"received", "read", "readFailed"})
  BY DEF ReceiveTimerExpires, clientVars
<1>3. ~HasPiece /\ ~IsOver
  BY <1>2, NotQueued, EventOps DEF HasPiece, IsOver
<1>4. session # None /\ IsReading
  BY <1>2, <1>3 DEF Orderly, SessionTurn, NoSession, IsConnecting
<1>5. Free(queue, TurnOps)
  BY <1>2, <1>4 DEF IsReading
<1>6. Only(queue', TurnOps, ReceiveTimedOut)
  BY <1>1, <1>5, AppendOnly, EventOps DEF TurnOps
<1>7. SameFor({"accepted"}, queue, queue')
  BY <1>1, AppendSame, EventOps
<1>8. AcceptTurn' /\ ClientsComeOnce'
  BY <1>2, <1>7, SessionStepKeeps
<1>9. IsReading'
  <2> PICK k : k = taken[session]
    OBVIOUS
  <2>1. UpTo(k)' /\ Answers(k \div 2)' /\ k = taken'[session']
    BY <1>2, <1>4, UpToKept, AnswersKept DEF IsReading
  <2>2. reads' = 1 /\ NoConnect'
    BY <1>2, <1>4 DEF IsReading, NoConnect, connectVars
  <2> QED BY <1>2, <1>6, <2>1, <2>2 DEF IsReading
<1> QED BY <1>2, <1>4, <1>8, <1>9 DEF Orderly, SessionTurn

LEMMA OrderlyConnectCompletes ==
  ASSUME TypeOK, Orderly, ConnectCompletes, ~raced'
  PROVE  Orderly'
<1>1. /\ UNCHANGED <<client, backlog, replies, session, accepts, taken, buffer, reads, receiveTimer,
                     status, acceptFailed>>
      /\ connection = "connecting"
      /\ ~Queued({"connectTimedOut"})
  BY DEF ConnectCompletes, clientVars, sessionVars, ConnectTimeoutQueued
<1>2. session # None /\ IsConnecting /\ connector = Asking
  BY <1>1 DEF Orderly, SessionTurn, NoSession, IsReading, HasPiece, IsOver, IsConnecting, NoConnect
<1>3. Free(queue, TurnOps)
  <2>1. ~Only(queue, TurnOps, ConnectTimedOut)
    BY <1>1, NotQueued, EventOps
  <2> QED BY <1>1, <1>2, <2>1 DEF IsConnecting, NoConnect
<1>4. PICK command : command = Asking
  OBVIOUS
<1>5. /\ queue \in Seq(Events) /\ command \in CommandIds
      /\ Connected(command) \in Events /\ ConnectFailed(command) \in Events
  BY <1>2, <1>4, EventTypes DEF TypeOK
<1>6. command = Asking'
  BY <1>1, <1>4 DEF Asking
<1>7. \/ connection' = "connected" /\ queue' = Append(queue, Connected(command))
      \/ connection' = "failed" /\ queue' = Append(queue, ConnectFailed(command))
  BY <1>2, <1>4 DEF ConnectCompletes
<1>8. \/ connection' = "connected" /\ Only(queue', TurnOps, Connected(command))
      \/ connection' = "failed" /\ Only(queue', TurnOps, ConnectFailed(command))
  <2>1. Connected(command).op \in TurnOps /\ ConnectFailed(command).op \in TurnOps
    BY EventOps DEF TurnOps
  <2>2. Only(Append(queue, Connected(command)), TurnOps, Connected(command))
    BY <1>3, <1>5, <2>1, AppendOnly
  <2>3. Only(Append(queue, ConnectFailed(command)), TurnOps, ConnectFailed(command))
    BY <1>3, <1>5, <2>1, AppendOnly
  <2> QED BY <1>7, <2>2, <2>3
<1>9. SameFor({"accepted"}, queue, queue')
  <2>1. Connected(command).op # "accepted" /\ ConnectFailed(command).op # "accepted"
    BY EventOps
  <2>2. SameFor({"accepted"}, queue, Append(queue, Connected(command)))
    BY <1>5, <2>1, AppendSame
  <2>3. SameFor({"accepted"}, queue, Append(queue, ConnectFailed(command)))
    BY <1>5, <2>1, AppendSame
  <2> QED BY <1>7, <2>2, <2>3
<1>10. AcceptTurn' /\ ClientsComeOnce'
  BY <1>1, <1>9, SessionStepKeeps
<1>11. IsConnecting'
  <2> PICK k : k = taken[session]
    OBVIOUS
  <2>1. UpTo(k)' /\ Answers((k \div 2) - 1)' /\ k = taken'[session'] /\ k > 0 /\ k % 2 = 0
    BY <1>1, <1>2, UpToKept, AnswersKept DEF IsConnecting
  <2>2. reads' = 0 /\ receiveTimer' = "off"
    BY <1>1, <1>2 DEF IsConnecting
  <2> QED BY <1>6, <1>8, <2>1, <2>2 DEF IsConnecting
<1> QED BY <1>1, <1>2, <1>10, <1>11 DEF Orderly, SessionTurn

LEMMA OrderlyConnectTimerExpires ==
  ASSUME TypeOK, Orderly, ConnectTimerExpires, ~raced'
  PROVE  Orderly'
<1>1. queue \in Seq(Events) /\ queue' = Append(queue, ConnectTimedOut) /\ ConnectTimedOut \in Events
  BY EventTypes DEF ConnectTimerExpires, TypeOK
<1>2. /\ UNCHANGED <<client, backlog, replies, session, accepts, taken, buffer, reads, receiveTimer,
                     connection, connector, status, acceptFailed>>
      /\ connectTimer = "armed" /\ connectTimer' = "off"
      /\ ~Queued({"connected", "connectFailed"})
  BY DEF ConnectTimerExpires, clientVars, sessionVars
<1>3. session # None /\ IsConnecting
  BY <1>2 DEF Orderly, SessionTurn, NoSession, IsReading, HasPiece, IsOver, NoConnect
<1>4. connection = "connecting" /\ connector = Asking /\ Free(queue, TurnOps)
  <2>1. \A command : ~Only(queue, TurnOps, Connected(command)) /\ ~Only(queue, TurnOps, ConnectFailed(command))
    BY <1>2, NotQueued, EventOps
  <2> QED BY <1>2, <1>3, <2>1 DEF IsConnecting, NoConnect
<1>5. Only(queue', TurnOps, ConnectTimedOut)
  BY <1>1, <1>4, AppendOnly, EventOps DEF TurnOps
<1>6. SameFor({"accepted"}, queue, queue')
  BY <1>1, AppendSame, EventOps
<1>7. AcceptTurn' /\ ClientsComeOnce'
  BY <1>2, <1>6, SessionStepKeeps
<1>8. IsConnecting'
  <2> PICK k : k = taken[session]
    OBVIOUS
  <2>1. UpTo(k)' /\ Answers((k \div 2) - 1)' /\ k = taken'[session'] /\ k > 0 /\ k % 2 = 0
    BY <1>2, <1>3, UpToKept, AnswersKept DEF IsConnecting
  <2>2. reads' = 0 /\ receiveTimer' = "off"
    BY <1>2, <1>3 DEF IsConnecting
  <2>3. connection' = "connecting" /\ connector' = Asking'
    BY <1>2, <1>4 DEF Asking
  <2> QED BY <1>2, <1>5, <2>1, <2>2, <2>3 DEF IsConnecting
<1> QED BY <1>2, <1>3, <1>7, <1>8 DEF Orderly, SessionTurn

-----------------------------------------------------------------------------
(***************************************************************************)
(* The handlers.                                                           *)
(***************************************************************************)

(* The event at the head that moves a session on is the only one, and the  *)
(* rest of the queue is without.                                           *)
LEMMA HeadIsTurn ==
  ASSUME TypeOK, Orderly, queue # <<>>, Head(queue).op \in TurnOps
  PROVE  /\ session # None
         /\ Free(Tail(queue), TurnOps)
         /\ ~Free(queue, TurnOps)
         /\ \A e : Only(queue, TurnOps, e) => Head(queue) = e
<1>1. queue \in Seq(Events)
  BY DEF TypeOK
<1>2. ~Free(queue, TurnOps) /\ \A e : Only(queue, TurnOps, e) => Head(queue) = e /\ Free(Tail(queue), TurnOps)
  BY <1>1, TailOnly
<1>3. session # None /\ \E e : Only(queue, TurnOps, e)
  BY <1>2 DEF Orderly, SessionTurn, NoSession, IsReading, HasPiece, IsOver, IsConnecting
<1> QED BY <1>2, <1>3

(* A read that starts when nothing is under way. *)
LEMMA ReadStarts ==
  ASSUME NEW on, on # None, NEW rest, Free(rest, TurnOps), reads = 0, ReadSome(on, rest)
  PROVE  reads' = 1 /\ queue' = rest /\ status' = status
  BY DEF ReadSome, Free, TurnOps

LEMMA ReceiveStarts ==
  ASSUME NEW on, on # None, NEW buf, ~Complete(buf), NEW rest, Free(rest, TurnOps), reads = 0,
         AsyncReceive(on, buf, rest)
  PROVE  reads' = 1 /\ queue' = rest /\ status' = status /\ receiveTimer' = "armed"
  BY ReadStarts DEF AsyncReceive

(* Only a piece completes a command. *)
LEMMA UpToIncomplete ==
  ASSUME NEW n, UpTo(n)
  PROVE  ~Complete(buffer)
  BY DEF UpTo, Complete

(* A reply to the last command that is not answered. *)
LEMMA ReplyIsOwn ==
  ASSUME TypeOK, session \in Clients, NEW n \in Nat, Answers(n), Own(replies), client' = client,
         session' = session, Reply(<<session, n + 1>>)
  PROVE  /\ Own(replies')
         /\ Answers(n + 1)'
         /\ \A c \in Clients : c # session => replies'[c] = replies[c]
<1>1. session # None
  BY CmdServerAssumption
<1>2. CASE client[session] # "open"
  BY <1>2 DEF Reply, Own, Answers
<1>3. CASE client[session] = "open"
  <2> DEFINE r == replies[session]
             x == <<session, n + 1>>
  <2>1. r \in Seq(CommandIds) /\ Len(r) = n /\ \A i \in 1..Len(r) : r[i] = <<session, i>>
    BY <1>3 DEF TypeOK, Answers, Own
  <2>2. x \in CommandIds
    BY DEF CommandIds
  <2>3. replies' = [replies EXCEPT ![session] = Append(r, x)]
    BY <1>1, <1>3 DEF Reply
  <2>4. /\ replies'[session] = Append(r, x)
        /\ \A c \in Clients : c # session => replies'[c] = replies[c]
    BY <2>3 DEF TypeOK
  <2>5. /\ Len(Append(r, x)) = n + 1
        /\ Append(r, x)[n + 1] = x
        /\ \A i \in 1..n : Append(r, x)[i] = r[i]
    BY <2>1, <2>2, AppendProperties
  <2> HIDE DEF r
  <2>6. \A i \in 1..n+1 : Append(r, x)[i] = <<session, i>>
    BY <2>1, <2>5
  <2>7. Own(replies')
    BY <2>4, <2>5, <2>6 DEF Own
  <2>8. Answers(n + 1)'
    BY <2>4, <2>5 DEF Answers
  <2> QED BY <2>4, <2>7, <2>8
<1> QED BY <1>2, <1>3

LEMMA OrderlyAccept ==
  ASSUME TypeOK, Orderly, HandleAccept
  PROVE  Orderly'
<1>1. queue \in Seq(Events) /\ queue # <<>> /\ Head(queue).op = "accepted" /\ Tail(queue) \in Seq(Events)
  BY TailHolds DEF HandleAccept, Running, TypeOK
<1>2. ~Free(queue, {"accepted"})
  BY <1>1, TailOnly
<1>3. PICK c \in Clients : Only(queue, {"accepted"}, Accepted(c))
  BY <1>2 DEF Orderly, AcceptTurn
<1>4. Head(queue) = Accepted(c) /\ Free(Tail(queue), {"accepted"})
  BY <1>1, <1>3, TailOnly
<1>5. Head(queue).client = c
  BY <1>4 DEF Accepted
<1>6. ~acceptFailed /\ accepts = 0 /\ session = None
  BY <1>2 DEF Orderly, AcceptTurn
<1>7. c # None /\ None \notin Clients
  BY CmdServerAssumption
<1>8. /\ NoSession
      /\ Free(Tail(queue), TurnOps)
  <2>1. NoSession
    BY <1>6 DEF Orderly, SessionTurn
  <2> QED BY <1>1, <2>1, TailOnly DEF NoSession
<1>9. session' = c /\ AsyncReceive(c, buffer, Tail(queue))
  BY <1>5, <1>6 DEF HandleAccept
<1>10. /\ UNCHANGED <<client, replies, backlog, accepts, taken, buffer, connectVars, acceptFailed>>
  BY DEF HandleAccept, clientVars
<1>11. ~Complete(buffer)
  BY <1>8, UpToIncomplete DEF NoSession
<1>12. reads' = 1 /\ queue' = Tail(queue) /\ status' = status /\ receiveTimer' = "armed"
  BY <1>7, <1>8, <1>9, <1>11, ReceiveStarts DEF NoSession
<1>13. Untouched(c)
  BY <1>3 DEF Orderly, ClientsComeOnce, JustAccepted
<1>14. AcceptTurn'
  BY <1>4, <1>6, <1>7, <1>9, <1>10, <1>12 DEF AcceptTurn
<1>15. IsReading'
  <2>1. taken'[session'] = 0 /\ Len(replies'[session']) = 0
    BY <1>9, <1>10, <1>13 DEF Untouched
  <2>2. UpTo(0)'
    <3> SUFFICES ASSUME NEW i \in 1..Len(buffer)
                 PROVE  ~buffer[i].ends /\ buffer[i].from # c /\ taken[buffer[i].from] % 2 = 1
      BY <1>9, <1>10 DEF UpTo
    <3>1. buffer[i] \in Pieces
      BY ElementOfSeq DEF TypeOK
    <3>2. buffer[i].from # session
      BY <1>6, <1>7, <3>1 DEF Pieces
    <3>3. ~buffer[i].ends /\ taken[buffer[i].from] % 2 = 1
      BY <1>8, <3>2 DEF NoSession, UpTo
    <3>4. taken[c] % 2 = 0
      BY <1>13 DEF Untouched
    <3> QED BY <3>3, <3>4
  <2>3. Answers(0)'
    BY <2>1 DEF Answers
  <2>4. NoConnect' /\ Free(queue', TurnOps)
    BY <1>8, <1>10, <1>12 DEF NoConnect, NoSession, connectVars
  <2>5. 0 \div 2 = 0
    OBVIOUS
  <2> QED BY <1>12, <2>1, <2>2, <2>3, <2>4, <2>5 DEF IsReading
<1>16. ClientsComeOnce'
  <2>1. \A d \in Clients : ~JustAccepted(d)'
    BY <1>4, <1>12, OnlyIsOne DEF JustAccepted
  <2>2. \A d \in Clients : d # c /\ Untouched(d) => Untouched(d)'
    BY <1>9, <1>10 DEF Untouched
  <2>3. JustAccepted(c) /\ ~Holds(backlog, c) /\ client[c] # "new"
    BY <1>3 DEF JustAccepted, Orderly, ClientsComeOnce
  <2> QED BY <1>10, <2>1, <2>2, <2>3 DEF Orderly, ClientsComeOnce
<1> QED BY <1>7, <1>9, <1>10, <1>12, <1>14, <1>15, <1>16 DEF Orderly, SessionTurn

(* An event is handled that does not concern the session. *)
LEMMA OrderlyNoTurn ==
  ASSUME TypeOK, Orderly, HandleAcceptFailed \/ HandleReadAborted
  PROVE  Orderly'
<1>1. /\ queue \in Seq(Events) /\ queue # <<>> /\ queue' = Tail(queue)
      /\ Head(queue).op \in {"acceptFailed", "readAborted"}
      /\ receiveTimer' \in {receiveTimer, "off"}
      /\ UNCHANGED <<client, replies, backlog, session, accepts, taken, buffer, reads, connectVars,
                     status, acceptFailed>>
  BY DEF HandleAcceptFailed, HandleReadAborted, Running, TypeOK, clientVars, sessionVars
<1>2. Head(queue).op # "accepted" /\ Head(queue).op \notin TurnOps
  BY <1>1 DEF TurnOps
<1>3. SameFor({"accepted"}, queue, queue') /\ SameFor(TurnOps, queue, queue')
  BY <1>1, <1>2, TailSame
<1>4. AcceptTurn' /\ ClientsComeOnce'
  BY <1>1, <1>3, SessionStepKeeps
<1>5. SessionTurn'
  BY <1>1, <1>3, TurnKept DEF Orderly
<1> QED BY <1>1, <1>4, <1>5 DEF Orderly

(* The head of the queue is a piece: what it is, and what is in the buffer *)
(* with it.                                                                *)
LEMMA PieceAtHead ==
  ASSUME TypeOK, Orderly, Running("received") \/ Running("read")
  PROVE  /\ session \in Clients /\ session # None /\ taken[session] \in Nat \ {0}
         /\ HasPiece
         /\ Free(Tail(queue), TurnOps)
         /\ Filled = Append(buffer, Piece(session, taken[session]))
         /\ Complete(Filled) <=> taken[session] % 2 = 0
<1>1. queue # <<>> /\ Head(queue).op \in {"received", "read"} /\ Head(queue).op \in TurnOps
  BY DEF Running, TurnOps
<1>2. session # None /\ Free(Tail(queue), TurnOps) /\ ~Free(queue, TurnOps)
      /\ \A e : Only(queue, TurnOps, e) => Head(queue) = e
  BY <1>1, HeadIsTurn
<1>3. session \in Clients /\ taken[session] \in Nat
  BY <1>2 DEF TypeOK
<1>4. HasPiece
  <2>1. ~IsReading
    BY <1>1, <1>2, EventOps DEF IsReading
  <2>2. ~IsOver
    BY <1>1, <1>2, EventOps DEF IsOver
  <2>3. ~IsConnecting
    BY <1>1, <1>2, EventOps DEF IsConnecting
  <2> QED BY <1>2, <2>1, <2>2, <2>3 DEF Orderly, SessionTurn, NoSession
<1>5. taken[session] \in Nat \ {0} /\ Head(queue) = Received(Piece(session, taken[session]))
  BY <1>2, <1>3, <1>4 DEF HasPiece
<1> DEFINE piece == Piece(session, taken[session])
<1>6. piece.ends = (taken[session] % 2 = 0) /\ piece \in Pieces
  BY <1>3 DEF Piece, Pieces
<1>7. Filled = Append(buffer, piece)
  BY <1>5, EventOps DEF Filled
<1> HIDE DEF piece
<1>8. /\ Len(Append(buffer, piece)) = Len(buffer) + 1
      /\ Append(buffer, piece)[Len(buffer) + 1] = piece
      /\ \A i \in 1..Len(buffer) : Append(buffer, piece)[i] = buffer[i]
      /\ Len(buffer) \in Nat
  BY <1>6, AppendProperties DEF TypeOK
<1>9. \A i \in 1..Len(buffer) : ~buffer[i].ends
  BY <1>4 DEF HasPiece, UpTo
<1>10. Complete(Filled) <=> piece.ends
  <2>1. \A i : i \in 1..Len(Filled) <=> i \in 1..Len(buffer) \/ i = Len(buffer) + 1
    BY <1>7, <1>8
  <2> QED BY <1>7, <1>8, <1>9, <2>1 DEF Complete
<1> QED BY <1>2, <1>3, <1>4, <1>5, <1>6, <1>7, <1>10 DEF piece

(* Halves of the numbers of pieces. *)
LEMMA Halves ==
  ASSUME NEW k \in Nat \ {0}
  PROVE  /\ k % 2 \in {0, 1} /\ (k - 1) % 2 = 1 - (k % 2)
         /\ k \div 2 \in Nat /\ (k - 1) \div 2 \in Nat /\ (k + 1) \div 2 \in Nat
         /\ k % 2 = 1 => (k - 1) \div 2 = k \div 2
         /\ k % 2 = 0 => (k + 1) \div 2 = k \div 2 /\ (k - 1) \div 2 + 1 = k \div 2
  OBVIOUS

LEMMA OrderlyPiece ==
  ASSUME TypeOK, Orderly, HandlePiece
  PROVE  Orderly'
<1>1. /\ queue \in Seq(Events) /\ queue # <<>> /\ Head(queue).op = "received"
      /\ ~Complete(Filled) /\ buffer' = Filled /\ ReadSome(session, Tail(queue))
      /\ UNCHANGED <<client, replies, backlog, accepts, session, taken, receiveTimer, connectVars, acceptFailed>>
  BY DEF HandlePiece, Running, TypeOK, clientVars
<1>2. /\ session \in Clients /\ session # None /\ taken[session] \in Nat \ {0}
      /\ HasPiece
      /\ Free(Tail(queue), TurnOps)
      /\ Filled = Append(buffer, Piece(session, taken[session]))
      /\ Complete(Filled) <=> taken[session] % 2 = 0
  BY PieceAtHead DEF HandlePiece
<1>3. PICK k \in Nat \ {0} : k = taken[session]
  BY <1>2
<1>4. k % 2 = 1 /\ (k - 1) % 2 = 0 /\ (k - 1) \div 2 = k \div 2 /\ (k + 1) \div 2 \in Nat
  <2>1. k % 2 # 0
    BY <1>1, <1>2, <1>3
  <2>2. k % 2 = 1
    BY <2>1, Halves
  <2> QED BY <2>2, Halves
<1>5. reads' = 1 /\ queue' = Tail(queue) /\ status' = status
  BY <1>1, <1>2, ReadStarts DEF HasPiece
<1>6. SameFor({"accepted"}, queue, queue')
  BY <1>1, <1>5, TailSame
<1>7. AcceptTurn' /\ ClientsComeOnce'
  BY <1>1, <1>6, SessionStepKeeps
<1>8. IsReading'
  <2> DEFINE piece == Piece(session, k)
  <2>1. piece \in Pieces /\ piece.from = session /\ ~piece.ends
    <3>1. (k % 2 = 0) = FALSE
      BY <1>4
    <3> QED BY <1>2, <1>4, <3>1 DEF Piece, Pieces
  <2>2. buffer' = Append(buffer, piece)
    BY <1>1, <1>2, <1>3
  <2> HIDE DEF piece
  <2>3. /\ Len(buffer') = Len(buffer) + 1
        /\ buffer'[Len(buffer) + 1] = piece
        /\ \A i \in 1..Len(buffer) : buffer'[i] = buffer[i]
        /\ Len(buffer) \in Nat
    BY <2>1, <2>2, AppendProperties DEF TypeOK
  <2>4. UpTo(k - 1)
    BY <1>2, <1>3 DEF HasPiece
  <2>5. \A i \in 1..Len(buffer) : ~buffer[i].ends /\ buffer[i].from # session /\ taken[buffer[i].from] % 2 = 1
    BY <1>4, <2>4 DEF UpTo
  <2>6. UpTo(k)'
    <3> SUFFICES ASSUME NEW i \in 1..Len(buffer')
                 PROVE  /\ ~buffer'[i].ends
                        /\ IF buffer'[i].from = session THEN k % 2 = 1 ELSE taken[buffer'[i].from] % 2 = 1
      BY <1>1 DEF UpTo
    <3>1. CASE i = Len(buffer) + 1
      BY <1>4, <2>1, <2>3, <3>1
    <3>2. CASE i \in 1..Len(buffer)
      BY <2>3, <2>5, <3>2
    <3> QED BY <2>3, <3>1, <3>2
  <2>7. Answers(k \div 2)'
    <3>1. Answers(k \div 2)
      BY <1>2, <1>3, <1>4 DEF HasPiece
    <3> QED BY <1>1, <3>1, AnswersKept
  <2>8. NoConnect' /\ Free(queue', TurnOps) /\ k = taken'[session']
    BY <1>1, <1>2, <1>3, <1>5 DEF NoConnect, HasPiece, connectVars
  <2> QED BY <1>5, <2>6, <2>7, <2>8 DEF IsReading
<1> QED BY <1>1, <1>2, <1>5, <1>7, <1>8 DEF Orderly, SessionTurn

(* A command that is complete is the whole of the buffer. *)
LEMMA CommandAtHead ==
  ASSUME TypeOK, Orderly, Running("received") \/ Running("read"), Complete(Filled)
  PROVE  /\ CommandOf(Filled[FirstEnd(Filled)]) = Asking
         /\ SubSeq(Filled, FirstEnd(Filled) + 1, Len(Filled)) = <<>>
<1>1. /\ session \in Clients /\ taken[session] \in Nat \ {0}
      /\ HasPiece
      /\ Filled = Append(buffer, Piece(session, taken[session]))
      /\ taken[session] % 2 = 0
  BY PieceAtHead
<1> DEFINE piece == Piece(session, taken[session])
<1>2. piece \in Pieces
  BY <1>1 DEF Piece, Pieces
<1>3. CommandOf(piece) = Asking
  BY <1>1, Halves DEF CommandOf, Piece, Asking
<1> HIDE DEF piece
<1>4. /\ Filled = Append(buffer, piece)
      /\ Filled \in Seq(Pieces)
      /\ Len(Filled) = Len(buffer) + 1
      /\ Filled[Len(buffer) + 1] = piece
      /\ \A i \in 1..Len(buffer) : Filled[i] = buffer[i]
      /\ Len(buffer) \in Nat
  BY <1>1, <1>2, AppendProperties DEF TypeOK, piece
<1>5. \A i \in 1..Len(buffer) : ~buffer[i].ends
  BY <1>1 DEF HasPiece, UpTo
<1> DEFINE n == FirstEnd(Filled)
<1>6. n \in 1..Len(Filled) /\ Filled[n].ends
  BY <1>4, FirstEndOK
<1> HIDE DEF n
<1>7. n = Len(Filled)
  BY <1>4, <1>5, <1>6
<1>8. SubSeq(Filled, n + 1, Len(Filled)) = <<>>
  <2> PICK m \in Nat : m = Len(Filled)
    BY <1>4
  <2>1. \A i \in m + 1..m : Filled[i] \in Pieces
    OBVIOUS
  <2>2. SubSeq(Filled, m + 1, m) \in Seq(Pieces) /\ Len(SubSeq(Filled, m + 1, m)) = 0
    BY <2>1, SubSeqProperties
  <2>3. SubSeq(Filled, m + 1, m) = <<>>
    BY <2>2, EmptySeq
  <2> QED BY <1>7, <2>3
<1> QED BY <1>3, <1>4, <1>7, <1>8 DEF n

LEMMA OrderlyCommand ==
  ASSUME TypeOK, Orderly, HandleCommand
  PROVE  Orderly'
<1>1. /\ Running("received") \/ Running("read")
      /\ Complete(Filled)
      /\ queue \in Seq(Events) /\ queue # <<>> /\ Head(queue).op \in {"received", "read"}
  BY DEF HandleCommand, Running, TypeOK
<1>2. /\ session \in Clients /\ session # None /\ taken[session] \in Nat \ {0}
      /\ HasPiece
      /\ Free(Tail(queue), TurnOps)
      /\ Complete(Filled) <=> taken[session] % 2 = 0
  BY <1>1, PieceAtHead
<1>3. PICK k \in Nat \ {0} : k = taken[session]
  BY <1>2
<1>4. k % 2 = 0 /\ (k - 1) \div 2 \in Nat /\ (k - 1) \div 2 + 1 = k \div 2
  <2>1. k % 2 = 0
    BY <1>1, <1>2, <1>3
  <2> QED BY <2>1, Halves
<1>5. PICK n \in Nat : n = (k - 1) \div 2
  BY <1>4
<1>6. n + 1 = k \div 2 /\ n = (k \div 2) - 1
  BY <1>4, <1>5
<1>7. Asking = <<session, n + 1>>
  BY <1>3, <1>6 DEF Asking
<1>8. /\ CommandOf(Filled[FirstEnd(Filled)]) = Asking
      /\ SubSeq(Filled, FirstEnd(Filled) + 1, Len(Filled)) = <<>>
  BY <1>1, CommandAtHead
<1>9. /\ buffer' = <<>>
      /\ UNCHANGED <<client, backlog, accepts, session, taken, acceptFailed>>
      /\ \/ Reply(Asking) /\ AsyncReceive(session, <<>>, Tail(queue)) /\ UNCHANGED connectVars
         \/ /\ connection' = "connecting"
            /\ connector' = Asking
            /\ connectTimer' = "armed"
            /\ receiveTimer' = "off"
            /\ queue' = Abandon(Tail(queue))
            /\ UNCHANGED <<replies, reads, status>>
  BY <1>8 DEF HandleCommand, clientVars
<1>10. Answers(n)
  BY <1>2, <1>3, <1>5 DEF HasPiece
<1>11. reads = 0 /\ NoConnect
  BY <1>2 DEF HasPiece
<1>12. \A j : UpTo(j)'
  BY <1>9 DEF UpTo
<1>13. Head(queue).op # "accepted"
  BY <1>1
<1>14. CASE Reply(Asking) /\ AsyncReceive(session, <<>>, Tail(queue)) /\ UNCHANGED connectVars
  <2>1. ~Complete(<<>>)
    BY DEF Complete
  <2>2. reads' = 1 /\ queue' = Tail(queue) /\ status' = status
    BY <1>2, <1>11, <1>14, <2>1, ReceiveStarts
  <2>3. /\ Own(replies')
        /\ Answers(n + 1)'
        /\ \A c \in Clients : c # session => replies'[c] = replies[c]
    <3>1. Own(replies)
      BY DEF Orderly
    <3>2. Reply(<<session, n + 1>>)
      BY <1>7, <1>14
    <3> QED BY <1>2, <1>9, <1>10, <3>1, <3>2, ReplyIsOwn
  <2>4. AcceptTurn' /\ ClientsComeOnce'
    <3>1. SameFor({"accepted"}, queue, queue')
      BY <1>1, <1>13, <2>2, TailSame
    <3> QED BY <1>9, <2>3, <3>1, SessionStepKeeps
  <2>5. IsReading'
    <3>1. NoConnect' /\ Free(queue', TurnOps) /\ taken'[session'] = k
      BY <1>2, <1>3, <1>9, <1>11, <1>14, <2>2 DEF NoConnect, connectVars
    <3>2. Answers(k \div 2)'
      BY <1>6, <2>3
    <3> QED BY <1>12, <2>2, <3>1, <3>2 DEF IsReading
  <2> QED BY <1>2, <1>9, <2>2, <2>3, <2>4, <2>5 DEF Orderly, SessionTurn
<1>15. CASE /\ connection' = "connecting"
            /\ connector' = Asking
            /\ connectTimer' = "armed"
            /\ receiveTimer' = "off"
            /\ queue' = Abandon(Tail(queue))
            /\ UNCHANGED <<replies, reads, status>>
  <2>1. queue' = Tail(queue)
    BY <1>11, <1>15 DEF Abandon, NoConnect
  <2>2. AcceptTurn' /\ ClientsComeOnce'
    <3>1. SameFor({"accepted"}, queue, queue')
      BY <1>1, <1>13, <2>1, TailSame
    <3> QED BY <1>9, <1>15, <3>1, SessionStepKeeps
  <2>3. IsConnecting'
    <3>1. connector' = Asking' /\ Free(queue', TurnOps) /\ taken'[session'] = k
      BY <1>2, <1>3, <1>9, <1>15, <2>1 DEF Asking
    <3>2. Answers((k \div 2) - 1)'
      BY <1>6, <1>9, <1>10, <1>15, AnswersKept
    <3> QED BY <1>4, <1>11, <1>12, <1>15, <3>1, <3>2 DEF IsConnecting
  <2> QED BY <1>2, <1>9, <1>15, <2>2, <2>3 DEF Orderly, SessionTurn
<1> QED BY <1>9, <1>14, <1>15

(* The end of a session. *)
LEMMA OrderlyClose ==
  ASSUME TypeOK, Orderly, HandleReadFailed \/ HandleReceiveTimeout
  PROVE  Orderly'
<1>1. /\ queue \in Seq(Events) /\ queue # <<>> /\ Tail(queue) \in Seq(Events)
      /\ Head(queue).op \in {"readFailed", "receiveTimedOut"}
      /\ HandleReadFailed => Head(queue).op = "readFailed"
      /\ HandleReceiveTimeout => Head(queue).op = "receiveTimedOut"
  BY TailHolds DEF HandleReadFailed, HandleReceiveTimeout, Running, TypeOK
<1>2. /\ session' = None /\ reads' = 0 /\ accepts' = accepts + 1 /\ queue' = Tail(queue) \o Aborted
      /\ UNCHANGED <<client, replies, backlog, taken, buffer, connectVars, status, acceptFailed>>
      /\ HandleReadFailed => receiveTimer' = "off"
      /\ HandleReceiveTimeout => receiveTimer' = receiveTimer
  BY DEF HandleReadFailed, HandleReceiveTimeout, CloseAndAccept, clientVars
<1>3. /\ session # None
      /\ Free(Tail(queue), TurnOps)
      /\ ~Free(queue, TurnOps)
      /\ \A e : Only(queue, TurnOps, e) => Head(queue) = e
  BY <1>1, HeadIsTurn DEF TurnOps
<1>4. ~HasPiece /\ ~IsConnecting
  <2>1. ~HasPiece
    BY <1>1, <1>3, EventOps DEF HasPiece
  <2>2. \A command : /\ ~Only(queue, TurnOps, Connected(command))
                     /\ ~Only(queue, TurnOps, ConnectFailed(command))
                     /\ ~Only(queue, TurnOps, ConnectAborted(command))
    BY <1>1, <1>3, EventOps
  <2>3. ~Only(queue, TurnOps, ConnectTimedOut)
    BY <1>1, <1>3, EventOps
  <2>4. ~IsConnecting
    BY <1>3, <2>2, <2>3 DEF IsConnecting
  <2> QED BY <2>1, <2>4
<1>5. IsReading \/ IsOver
  BY <1>3, <1>4 DEF Orderly, SessionTurn, NoSession
<1>6. NoConnect /\ UpTo(taken[session])
  BY <1>5 DEF IsReading, IsOver
<1>7. receiveTimer' = "off"
  <2>1. CASE HandleReadFailed
    BY <1>2, <2>1
  <2>2. CASE HandleReceiveTimeout
    <3>1. ~IsOver
      BY <1>1, <1>3, <2>2, EventOps DEF IsOver
    <3> QED BY <1>2, <1>3, <1>5, <2>2, <3>1 DEF IsReading
  <2> QED BY <2>1, <2>2
<1>8. ~acceptFailed /\ accepts = 0 /\ Free(queue, {"accepted"})
  BY <1>3 DEF Orderly, AcceptTurn
<1>9. Free(queue', TurnOps) /\ Free(queue', {"accepted"})
  <2>1. Free(Tail(queue), {"accepted"})
    BY <1>1, <1>8, TailOnly
  <2>2. reads \in Nat /\ queue' = Tail(queue) \o [i \in 1..reads |-> ReadAborted]
    BY <1>2 DEF TypeOK, Aborted
  <2> QED BY <1>1, <1>3, <2>1, <2>2, AbortedReads
<1>10. AcceptTurn'
  BY <1>2, <1>8, <1>9 DEF AcceptTurn
<1>11. UpTo(0)'
  <2> SUFFICES ASSUME NEW i \in 1..Len(buffer)
               PROVE  ~buffer[i].ends /\ buffer[i].from # None /\ taken[buffer[i].from] % 2 = 1
    BY <1>2 DEF UpTo
  <2>1. buffer[i] \in Pieces
    BY ElementOfSeq DEF TypeOK
  <2>2. buffer[i].from # None
    BY <2>1, CmdServerAssumption DEF Pieces
  <2> QED BY <1>6, <2>2 DEF UpTo
<1>12. SessionTurn'
  <2>1. NoConnect'
    BY <1>2, <1>6 DEF NoConnect, connectVars
  <2> QED BY <1>2, <1>7, <1>9, <1>11, <2>1 DEF SessionTurn, NoSession
<1>13. ClientsComeOnce'
  BY <1>2, <1>8, <1>9, OnceKept DEF Orderly
<1> QED BY <1>2, <1>10, <1>12, <1>13 DEF Orderly

(* The head of the queue is of a connection: a session waits for it.       *)
LEMMA ConnectAtHead ==
  ASSUME TypeOK, Orderly, queue # <<>>,
         Head(queue).op \in {"connected", "connectFailed", "connectAborted", "connectTimedOut"}
  PROVE  /\ session # None /\ session \in Clients
         /\ IsConnecting
         /\ Free(Tail(queue), TurnOps)
         /\ SameFor({"accepted"}, queue, Tail(queue))
         /\ Head(queue).op = "connectTimedOut" =>
              connection = "connecting" /\ connector = Asking /\ connectTimer = "off"
         /\ Head(queue).op # "connectTimedOut" =>
              Head(queue).command = Asking /\ connection # "connecting"
         /\ Head(queue).op = "connected" => connection = "connected"
         /\ Head(queue).op = "connectFailed" => connection = "failed"
         /\ Head(queue).op = "connectAborted" => NoConnect
<1>1. Head(queue).op \in TurnOps /\ Head(queue).op # "accepted" /\ queue \in Seq(Events)
  BY DEF TurnOps, TypeOK
<1>2. /\ session # None
      /\ Free(Tail(queue), TurnOps)
      /\ ~Free(queue, TurnOps)
      /\ \A e : Only(queue, TurnOps, e) => Head(queue) = e
  BY <1>1, HeadIsTurn
<1>3. SameFor({"accepted"}, queue, Tail(queue))
  BY <1>1, TailSame
<1>4. ~IsReading /\ ~HasPiece /\ ~IsOver
  <2>1. ~IsReading
    BY <1>2, EventOps DEF IsReading
  <2>2. ~HasPiece
    BY <1>2, EventOps DEF HasPiece
  <2>3. ~IsOver
    BY <1>2, EventOps DEF IsOver
  <2> QED BY <2>1, <2>2, <2>3
<1>5. IsConnecting
  BY <1>2, <1>4 DEF Orderly, SessionTurn, NoSession
<1>6. \/ connection = "connecting" /\ connector = Asking /\ Head(queue) = ConnectTimedOut /\ connectTimer = "off"
      \/ connection = "connected" /\ Head(queue) = Connected(Asking)
      \/ connection = "failed" /\ Head(queue) = ConnectFailed(Asking)
      \/ NoConnect /\ Head(queue) = ConnectAborted(Asking)
  BY <1>2, <1>5 DEF IsConnecting
<1>7. session \in Clients
  BY <1>2 DEF TypeOK
<1>8. NoConnect => connection = "null"
  BY DEF NoConnect
<1> QED BY <1>2, <1>3, <1>5, <1>6, <1>7, <1>8, EventOps

(* handleConnect answers the command and the session goes on.              *)
LEMMA OrderlyConnect ==
  ASSUME TypeOK, Orderly, HandleConnect \/ HandleConnectAborted
  PROVE  Orderly'
<1>1. queue # <<>> /\ Head(queue).op \in {"connected", "connectFailed", "connectAborted"}
      /\ (HandleConnectAborted => Head(queue).op = "connectAborted")
  BY DEF HandleConnect, HandleConnectAborted, Running
<1>2. /\ session # None /\ session \in Clients
      /\ IsConnecting
      /\ Free(Tail(queue), TurnOps)
      /\ SameFor({"accepted"}, queue, Tail(queue))
      /\ Head(queue).command = Asking /\ connection # "connecting"
      /\ Head(queue).op = "connectAborted" => NoConnect
  BY <1>1, ConnectAtHead
<1>3. /\ Reply(Asking) /\ AsyncReceive(session, buffer, Tail(queue))
      /\ connectTimer' = "off" /\ connection' = "null"
      /\ UNCHANGED <<client, backlog, accepts, session, taken, buffer, acceptFailed>>
  BY <1>1, <1>2 DEF HandleConnect, HandleConnectAborted, Abandon, NoConnect, clientVars
<1>4. PICK k \in Nat \ {0} : k = taken[session]
  BY <1>2 DEF IsConnecting, TypeOK
<1>5. k % 2 = 0 /\ UpTo(k) /\ Answers((k \div 2) - 1) /\ reads = 0
  BY <1>2, <1>4 DEF IsConnecting
<1>6. PICK n \in Nat : n = (k \div 2) - 1 /\ n + 1 = k \div 2
  <2>1. (k - 1) \div 2 \in Nat /\ (k - 1) \div 2 + 1 = k \div 2
    BY <1>5, Halves
  <2> QED BY <2>1
<1>7. Asking = <<session, n + 1>>
  BY <1>4, <1>6 DEF Asking
<1>8. reads' = 1 /\ queue' = Tail(queue) /\ status' = status
  BY <1>2, <1>3, <1>5, UpToIncomplete, ReceiveStarts
<1>9. /\ Own(replies')
      /\ Answers(n + 1)'
      /\ \A c \in Clients : c # session => replies'[c] = replies[c]
  <2>1. Own(replies)
    BY DEF Orderly
  <2>2. Reply(<<session, n + 1>>)
    BY <1>3, <1>7
  <2>3. Answers(n)
    BY <1>5, <1>6
  <2> QED BY <1>2, <1>3, <2>1, <2>2, <2>3, ReplyIsOwn
<1>10. AcceptTurn' /\ ClientsComeOnce'
  BY <1>2, <1>3, <1>8, <1>9, SessionStepKeeps
<1>11. IsReading'
  <2>1. UpTo(k)' /\ Answers(k \div 2)' /\ k = taken'[session']
    BY <1>3, <1>4, <1>5, <1>6, <1>9, UpToKept
  <2>2. NoConnect' /\ Free(queue', TurnOps)
    BY <1>2, <1>3, <1>8 DEF NoConnect
  <2> QED BY <1>8, <2>1, <2>2 DEF IsReading
<1> QED BY <1>2, <1>3, <1>8, <1>9, <1>10, <1>11 DEF Orderly, SessionTurn

(* The connection that takes too long is given up. *)
LEMMA OrderlyConnectTimeout ==
  ASSUME TypeOK, Orderly, HandleConnectTimeout
  PROVE  Orderly'
<1>1. /\ queue # <<>> /\ Head(queue).op = "connectTimedOut" /\ Tail(queue) \in Seq(Events)
      /\ UNCHANGED <<client, replies, backlog, session, accepts, taken, buffer, reads, receiveTimer,
                     connectTimer, status, acceptFailed>>
      /\ connection' = "null" /\ queue' = Abandon(Tail(queue))
  BY TailHolds DEF HandleConnectTimeout, Running, TypeOK, clientVars, sessionVars
<1>2. /\ session # None
      /\ IsConnecting
      /\ Free(Tail(queue), TurnOps)
      /\ SameFor({"accepted"}, queue, Tail(queue))
      /\ connection = "connecting" /\ connector = Asking /\ connectTimer = "off"
  BY <1>1, ConnectAtHead
<1>3. PICK command \in CommandIds : command = Asking
  BY <1>2 DEF TypeOK
<1>4. queue' = Append(Tail(queue), ConnectAborted(command)) /\ ConnectAborted(command) \in Events
  BY <1>1, <1>2, <1>3, EventTypes DEF Abandon
<1>5. Only(queue', TurnOps, ConnectAborted(command))
  <2>1. ConnectAborted(command).op \in TurnOps
    BY EventOps DEF TurnOps
  <2>2. Only(Append(Tail(queue), ConnectAborted(command)), TurnOps, ConnectAborted(command))
    BY <1>1, <1>2, <1>4, <2>1, AppendOnly
  <2> QED BY <1>4, <2>2
<1>6. SameFor({"accepted"}, queue, queue')
  <2>1. SameFor({"accepted"}, Tail(queue), queue')
    <3>1. ConnectAborted(command).op # "accepted"
      BY EventOps
    <3>2. SameFor({"accepted"}, Tail(queue), Append(Tail(queue), ConnectAborted(command)))
      BY <1>1, <1>4, <3>1, AppendSame
    <3> QED BY <1>4, <3>2
  <2> QED BY <1>2, <2>1 DEF SameFor
<1>7. AcceptTurn' /\ ClientsComeOnce'
  BY <1>1, <1>6, SessionStepKeeps
<1>8. IsConnecting'
  <2> PICK k : k = taken[session]
    OBVIOUS
  <2>1. UpTo(k)' /\ Answers((k \div 2) - 1)' /\ k = taken'[session'] /\ k > 0 /\ k % 2 = 0
    BY <1>1, <1>2, UpToKept, AnswersKept DEF IsConnecting
  <2>2. reads' = 0 /\ receiveTimer' = "off"
    BY <1>1, <1>2 DEF IsConnecting
  <2>3. NoConnect' /\ command = Asking'
    BY <1>1, <1>2, <1>3 DEF Asking, NoConnect
  <2> QED BY <1>5, <2>1, <2>2, <2>3 DEF IsConnecting
<1> QED BY <1>1, <1>2, <1>7, <1>8 DEF Orderly, SessionTurn

(* The process does not end. *)
LEMMA NoNullConnection ==
  ASSUME TypeOK, Orderly
  PROVE  ~HandleNullConnection
<1> SUFFICES ASSUME HandleNullConnection PROVE FALSE
  OBVIOUS
<1>1. queue # <<>> /\ Head(queue).op \in {"connected", "connectFailed", "connectTimedOut"}
  BY DEF HandleNullConnection, Running
<1>2. /\ Head(queue).op = "connected" => connection = "connected"
      /\ Head(queue).op = "connectFailed" => connection = "failed"
      /\ Head(queue).op = "connectTimedOut" => connection = "connecting"
  BY <1>1, ConnectAtHead
<1> QED BY <1>2 DEF HandleNullConnection, Running

-----------------------------------------------------------------------------
(***************************************************************************)
(* The theorems.                                                           *)
(***************************************************************************)
LEMMA OrderlyNext ==
  ASSUME TypeOK, ~raced => Orderly, Next, ~raced'
  PROVE  Orderly'
<1>1. ~raced
  <2>1. ASSUME EventLoop PROVE raced => raced'
    BY <2>1 DEF EventLoop, HandleAccept, HandleAcceptThrows, HandleAcceptFailed, HandlePiece, HandleCommand,
         HandleReadFailed, HandleReadAborted, HandleReceiveTimeout, HandleConnect, HandleConnectAborted,
         HandleConnectTimeout, HandleNullConnection
  <2>2. ASSUME Kernel \/ Timers PROVE raced => raced'
    BY <2>2 DEF Kernel, Timers, AcceptCompletes, AcceptFails, PieceArrives, EndOfFileArrives,
         ConnectCompletes, ConnectionResets, ReceiveTimerExpires, ConnectTimerExpires
  <2>3. ASSUME NEW c \in Clients, ClientConnects(c) \/ ClientSends(c) \/ ClientCloses(c)
        PROVE  raced => raced'
    BY <2>3 DEF ClientConnects, ClientSends, ClientCloses
  <2> QED BY <2>1, <2>2, <2>3 DEF Next
<1>2. Orderly
  BY <1>1
<1>3. ~HandleAcceptThrows /\ ~ConnectionResets
  BY DEF HandleAcceptThrows, ConnectionResets
<1>4. CASE EventLoop
  BY <1>2, <1>3, <1>4, OrderlyAccept, OrderlyNoTurn, OrderlyPiece, OrderlyCommand, OrderlyClose,
     OrderlyConnect, OrderlyConnectTimeout, NoNullConnection DEF EventLoop
<1>5. CASE Kernel \/ Timers
  BY <1>2, <1>3, <1>5, OrderlyAcceptCompletes, OrderlyAcceptFails, OrderlyPieceArrives,
     OrderlyEndOfFileArrives, OrderlyReceiveTimerExpires, OrderlyConnectCompletes,
     OrderlyConnectTimerExpires DEF Kernel, Timers
<1>6. CASE \E c \in Clients : ClientConnects(c) \/ ClientSends(c) \/ ClientCloses(c)
  BY <1>2, <1>6, OrderlyClients
<1> QED BY <1>4, <1>5, <1>6 DEF Next

(* The variables always have their types. *)
THEOREM CmdServerTypeOK == Spec => []TypeOK
<1>1. Init => TypeOK
  BY TypeInit
<1>2. TypeOK /\ [Next]_vars => TypeOK'
  BY TypeNext
<1> QED BY <1>1, <1>2, PTL DEF Spec

(* In every reachable state: types, and, as long as no timer expired       *)
(* beside the completion that it guards, one thing at a time: exactly one  *)
(* accept or session, and a session that reads, has read, is over or waits *)
(* for a connection, with everything before that answered.                 *)
THEOREM CmdServerInvariant == Spec => []CmdServerInv
<1>1. Init => CmdServerInv
  BY TypeInit, OrderlyInit DEF CmdServerInv
<1>2. CmdServerInv /\ [Next]_vars => CmdServerInv'
  <2> SUFFICES ASSUME CmdServerInv, [Next]_vars PROVE CmdServerInv'
    OBVIOUS
  <2>1. TypeOK'
    BY TypeNext DEF CmdServerInv
  <2>2. ASSUME ~raced' PROVE Orderly'
    <3>1. CASE Next
      BY <2>2, <3>1, OrderlyNext DEF CmdServerInv
    <3>2. CASE UNCHANGED vars
      <4>1. raced' = raced /\ Orderly
        BY <2>2, <3>2 DEF CmdServerInv, vars
      <4>2. UNCHANGED <<client, replies, backlog, accepts, session, taken, buffer, reads, receiveTimer,
                        connection, connector, connectTimer, status, queue, acceptFailed>>
        BY <3>2 DEF vars, clientVars, sessionVars, connectVars
      <4>3. UNCHANGED AcceptTurn /\ UNCHANGED ClientsComeOnce
        BY <4>2 DEF AcceptTurn, ClientsComeOnce, Untouched, JustAccepted
      <4>4. SessionTurn'
        <5>1. SameFor(TurnOps, queue, queue')
          BY <4>2 DEF SameFor
        <5> QED BY <4>1, <4>2, <5>1, TurnKept DEF CmdServerInv, Orderly, connectVars
      <4> QED BY <4>1, <4>2, <4>3, <4>4 DEF Orderly
    <3> QED BY <3>1, <3>2
  <2> QED BY <2>1, <2>2 DEF CmdServerInv
<1> QED BY <1>1, <1>2, PTL DEF Spec

(* There is always exactly one of a session, an accept that is outstanding *)
(* and one that is done; and none of them once an accept failed.           *)
THEOREM CmdServerOneSession == Spec => []OneSessionUnlessRaced
<1>1. CmdServerInv => OneSessionUnlessRaced
  <2> SUFFICES ASSUME TypeOK, Orderly
               PROVE  IF acceptFailed THEN Deaf
                      ELSE accepts + Cardinality(AcceptsDone) + (IF session = None THEN 0 ELSE 1) = 1
    BY DEF CmdServerInv, OneSessionUnlessRaced
  <2>1. ASSUME Free(queue, {"accepted"}) PROVE AcceptsDone = {}
    BY <2>1 DEF Free, AcceptsDone
  <2>2. ASSUME NEW c, Only(queue, {"accepted"}, Accepted(c)) PROVE Cardinality(AcceptsDone) = 1
    <3>1. PICK i \in 1..Len(queue) : queue[i] = Accepted(c) /\ \A j \in 1..Len(queue) : queue[j].op = "accepted" => j = i
      BY <2>2 DEF Only
    <3>2. AcceptsDone = {i}
      BY <3>1, EventOps DEF AcceptsDone
    <3> QED BY <3>2, FS_Singleton
  <2>3. Cardinality({}) = 0
    BY FS_EmptySet
  <2>4. CASE acceptFailed /\ accepts = 0 /\ session = None /\ Free(queue, {"accepted"})
    BY <2>1, <2>4 DEF Deaf
  <2>5. CASE ~acceptFailed /\ accepts = 1 /\ session = None /\ Free(queue, {"accepted"})
    BY <2>1, <2>3, <2>5
  <2>6. CASE /\ ~acceptFailed /\ accepts = 0 /\ session = None
             /\ \E c \in Clients : Only(queue, {"accepted"}, Accepted(c))
    BY <2>2, <2>6
  <2>7. CASE ~acceptFailed /\ accepts = 0 /\ session # None /\ Free(queue, {"accepted"})
    BY <2>1, <2>3, <2>7
  <2> QED BY <2>4, <2>5, <2>6, <2>7 DEF Orderly, AcceptTurn
<1> QED BY <1>1, CmdServerInvariant, PTL

(* Each client gets the replies to its own commands, in their order.       *)
THEOREM CmdServerRepliesAreOwn == Spec => []RepliesAreOwn
<1>1. CmdServerInv => RepliesAreOwn
  BY DEF CmdServerInv, Orderly, Own, RepliesAreOwn
<1> QED BY <1>1, CmdServerInvariant, PTL

(* m_receiveBuffer keeps nothing of another session but heads of commands  *)
(* that were cut off, as long as no timeout raced a completion.            *)
THEOREM CmdServerLeftoverIsUnfinished == Spec => []LeftoverIsUnfinished
<1>1. CmdServerInv => LeftoverIsUnfinished
  BY DEF CmdServerInv, Orderly, SessionTurn, NoSession, IsReading, HasPiece, IsOver, IsConnecting,
       UpTo, LeftoverIsUnfinished
<1> QED BY <1>1, CmdServerInvariant, PTL

(* The process does not end unless a timer expired beside the completion   *)
(* that it guards or a connection was lost before it is asked for its end. *)
THEOREM CmdServerDiesOnlyIfRaced == Spec => []DiesOnlyIfRaced
<1>1. CmdServerInv => DiesOnlyIfRaced
  BY DEF CmdServerInv, Orderly, DiesOnlyIfRaced
<1> QED BY <1>1, CmdServerInvariant, PTL

=============================================================================

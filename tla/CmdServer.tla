----------------------------- MODULE CmdServer -----------------------------
(***************************************************************************)
(* The control server of a router, class CmdServer, with its clients: the  *)
(* one socket for sessions, the accepts into it, its receive buffer and    *)
(* timer, and the one connection that FIB-ADD may make, with its timer.    *)
(* What commands do to the tables and faces is in module Router; here a    *)
(* command is carried out, or refused, at once, or it is a "connect", the  *)
(* FIB-ADD of a tcp face, which may have to make the connection first.     *)
(*                                                                         *)
(* A client, rtctrl, sends its commands one after the other and waits for  *)
(* the reply to each.  A command travels in two pieces, of which the       *)
(* second ends in the empty line that read_until looks for.                *)
(***************************************************************************)
EXTENDS Naturals, Sequences, FiniteSets

CONSTANTS
  Clients,
  Commands,   \* for each client, the sequence of the commands it will send
  Killed,     \* clients that may close at any time
  None        \* no client

ASSUME CmdServerAssumption ==
  /\ None \notin Clients
  /\ Commands \in [Clients -> Seq({"at once", "connect"})]
  /\ Killed \subseteq Clients

VARIABLES
  client,      \* of each client: "new", "open" or "closed"
  asked,       \* pieces each client has sent
  replies,     \* replies each client has got: the command each one is for
  backlog,     \* clients whose connection the kernel has made
  accepts,     \* outstanding async_accepts into m_socket
  session,     \* whose connection m_socket is, None if it is closed
  taken,       \* pieces of each client that were read
  buffer,      \* m_receiveBuffer
  reads,       \* outstanding async_read_untils on m_socket
  receiveTimer,\* m_receiveTimer, "armed" or "off"
  connection,  \* m_connection: "null", "connecting", "connected", "failed" or "reset"
  connector,   \* the command for which the connection is made
  connectTimer,\* m_connectTimer
  status,      \* of the process: "runs", "ended", or "undefined" (see AsyncReceive)
  queue,       \* what is ready to run in the io_service
  raced,       \* a completion and what undoes it were ready together (history)
  acceptFailed \* an accept ended with an error (history)

clientVars  == <<client, asked>>
sessionVars == <<backlog, accepts, session, taken, buffer, reads, receiveTimer>>
connectVars == <<connection, connector, connectTimer>>
vars == <<clientVars, replies, sessionVars, connectVars, status, queue, raced, acceptFailed>>

NoCommand == <<None, 0>>

(* Piece k of a client: the head or the tail of its command (k + 1) \div 2.*)
Piece(c, k) == [from |-> c, command |-> (k + 1) \div 2, ends |-> k % 2 = 0]
CommandOf(piece) == <<piece.from, piece.command>>

Event(op)    == [op |-> op]
Accepted(c)  == [op |-> "accepted", client |-> c]
AcceptFailed == Event("acceptFailed")
Received(piece) == [op |-> "received", piece |-> piece]
ReadDone     == Event("read")           \* the command was in the buffer already
ReadFailed   == Event("readFailed")     \* eof, or the socket is closed
ReadAborted  == Event("readAborted")
ReceiveTimedOut == Event("receiveTimedOut")
Connected(command)      == [op |-> "connected", command |-> command]
ConnectFailed(command)  == [op |-> "connectFailed", command |-> command]
ConnectAborted(command) == [op |-> "connectAborted", command |-> command]
ConnectTimedOut == Event("connectTimedOut")

Queued(ops) == \E i \in 1..Len(queue) : queue[i].op \in ops
Running(op) == status = "runs" /\ queue # <<>> /\ Head(queue).op = op

Init ==
  /\ client = [c \in Clients |-> "new"]
  /\ asked = [c \in Clients |-> 0]
  /\ replies = [c \in Clients |-> <<>>]
  /\ backlog = <<>>
  /\ accepts = 1
  /\ session = None
  /\ taken = [c \in Clients |-> 0]
  /\ buffer = <<>>
  /\ reads = 0
  /\ receiveTimer = "off"
  /\ connection = "null"
  /\ connector = NoCommand
  /\ connectTimer = "off"
  /\ status = "runs"
  /\ queue = <<>>
  /\ raced = FALSE
  /\ acceptFailed = FALSE

-----------------------------------------------------------------------------
(* The clients *)

ClientConnects(c) ==
  /\ client[c] = "new"
  /\ client' = [client EXCEPT ![c] = "open"]
  /\ backlog' = Append(backlog, c)
  /\ UNCHANGED <<asked, replies, accepts, session, taken, buffer, reads, receiveTimer,
                 connectVars, status, queue, raced, acceptFailed>>

Answered(c) == asked[c] = 2 * Len(replies[c])

(* The server has closed the connection of the client. *)
CutOff(c) ==
  /\ client[c] = "open"
  /\ c # session
  /\ \A i \in 1..Len(backlog) : backlog[i] # c
  /\ \A i \in 1..Len(queue) : queue[i] # Accepted(c)

ClientSends(c) ==
  /\ client[c] = "open"
  /\ asked[c] % 2 = 0 => Answered(c)
  /\ asked[c] < 2 * Len(Commands[c])
  /\ ~CutOff(c)
  /\ asked' = [asked EXCEPT ![c] = @ + 1]
  /\ UNCHANGED <<client, replies, sessionVars, connectVars, status, queue, raced, acceptFailed>>

ClientCloses(c) ==
  /\ client[c] = "open"
  /\ \/ Len(replies[c]) = Len(Commands[c])
     \/ CutOff(c)
     \/ c \in Killed
     \/ status # "runs"
  /\ client' = [client EXCEPT ![c] = "closed"]
  /\ UNCHANGED <<asked, replies, sessionVars, connectVars, status, queue, raced, acceptFailed>>

-----------------------------------------------------------------------------
(* What the kernel completes. *)

AcceptCompletes ==
  /\ status = "runs"
  /\ accepts > 0
  /\ backlog # <<>>
  /\ accepts' = accepts - 1
  /\ backlog' = Tail(backlog)
  /\ queue' = Append(queue, Accepted(Head(backlog)))
  /\ UNCHANGED <<clientVars, replies, session, taken, buffer, reads, receiveTimer,
                 connectVars, status, raced, acceptFailed>>

(* No descriptor is left, or the new connection is gone already. *)
AcceptFails ==
  /\ status = "runs"
  /\ accepts > 0
  /\ accepts' = accepts - 1
  /\ queue' = Append(queue, AcceptFailed)
  /\ acceptFailed' = TRUE
  /\ UNCHANGED <<clientVars, replies, backlog, session, taken, buffer, reads, receiveTimer,
                 connectVars, status, raced>>

TimeoutQueued == Queued({"receiveTimedOut"})
ConnectTimeoutQueued == Queued({"connectTimedOut"})

(* async_read_until reads some bytes at a time: each piece that comes is a  *)
(* completion of its own.                                                  *)
PieceArrives ==
  /\ status = "runs"
  /\ reads > 0
  /\ session # None
  /\ taken[session] < asked[session]
  /\ taken' = [taken EXCEPT ![session] = @ + 1]
  /\ reads' = reads - 1
  /\ queue' = Append(queue, Received(Piece(session, taken[session] + 1)))
  /\ raced' = (raced \/ TimeoutQueued)
  /\ UNCHANGED <<clientVars, replies, backlog, accepts, session, buffer, receiveTimer, connectVars, status, acceptFailed>>

EndOfFileArrives ==
  /\ status = "runs"
  /\ reads > 0
  /\ session # None
  /\ client[session] = "closed"
  /\ taken[session] = asked[session]
  /\ reads' = reads - 1
  /\ queue' = Append(queue, ReadFailed)
  /\ raced' = (raced \/ TimeoutQueued)
  /\ UNCHANGED <<clientVars, replies, backlog, accepts, session, taken, buffer, receiveTimer,
                 connectVars, status, acceptFailed>>

ReceiveTimerExpires ==
  /\ status = "runs"
  /\ receiveTimer = "armed"
  /\ receiveTimer' = "off"
  /\ queue' = Append(queue, ReceiveTimedOut)
  /\ raced' = (raced \/ Queued({"received", "read", "readFailed"}))
  /\ UNCHANGED <<clientVars, replies, backlog, accepts, session, taken, buffer, reads,
                 connectVars, status, acceptFailed>>

ConnectCompletes ==
  /\ status = "runs"
  /\ connection = "connecting"
  /\ \/ connection' = "connected" /\ queue' = Append(queue, Connected(connector))
     \/ connection' = "failed" /\ queue' = Append(queue, ConnectFailed(connector))
  /\ raced' = (raced \/ ConnectTimeoutQueued)
  /\ UNCHANGED <<clientVars, replies, sessionVars, connector, connectTimer, status, acceptFailed>>

ConnectTimerExpires ==
  /\ status = "runs"
  /\ connectTimer = "armed"
  /\ connectTimer' = "off"
  /\ queue' = Append(queue, ConnectTimedOut)
  /\ raced' = (raced \/ Queued({"connected", "connectFailed"}))
  /\ UNCHANGED <<clientVars, replies, sessionVars, connection, connector, status, acceptFailed>>

(* The peer resets the connection that was just made. *)
ConnectionResets ==
  /\ connection = "connected"
  /\ connection' = "reset"
  /\ raced' = TRUE
  /\ UNCHANGED <<clientVars, replies, sessionVars, connector, connectTimer, status, queue, acceptFailed>>

-----------------------------------------------------------------------------
(* Parts of the handlers *)

Aborted == [i \in 1..reads |-> ReadAborted]

(* m_socket.close() and asyncAccept(). *)
CloseAndAccept(rest) ==
  /\ session' = None
  /\ reads' = 0
  /\ accepts' = accepts + 1
  /\ queue' = rest \o Aborted

Complete(buf) == \E i \in 1..Len(buf) : buf[i].ends

(* The next bytes are read into buf.  A closed socket fails at once.  With *)
(* bytes under way already the two reads share the space in                *)
(* m_receiveBuffer: the model goes no further.                             *)
ReadSome(on, rest) ==
  /\ status' = IF reads > 0 \/ \E i \in 1..Len(rest) : rest[i].op = "received"
               THEN "undefined" ELSE status
  /\ reads' = IF on = None THEN reads ELSE reads + 1
  /\ queue' = IF on = None THEN Append(rest, ReadFailed) ELSE rest

(* asyncReceive() on the socket of a client, which also restarts the       *)
(* timer.  A command that is in the buffer already completes the read.     *)
AsyncReceive(on, buf, rest) ==
  /\ receiveTimer' = "armed"
  /\ IF Complete(buf)
     THEN queue' = Append(rest, ReadDone) /\ UNCHANGED <<reads, status>>
     ELSE ReadSome(on, rest)

(* Mutant: the reply goes to the next client in the backlog, if any. *)
ReplyToLast(command) ==
  LET to == IF backlog = <<>> THEN session ELSE Head(backlog)
  IN  replies' = IF to = None THEN replies
                 ELSE [replies EXCEPT ![to] = Append(@, command)]

(* sendReply(): to whoever m_socket is connected to.  A closed socket only *)
(* logs the error.                                                         *)
Reply(command) ==
  replies' = IF session = None \/ client[session] # "open" THEN replies
             ELSE [replies EXCEPT ![session] = Append(@, command)]

(* m_receiveBuffer with what the read at the head of the queue brings. *)
Filled == IF Head(queue).op = "received" THEN Append(buffer, Head(queue).piece) ELSE buffer

(* The pieces that readCmd takes: up to the first empty line.              *)
FirstEnd(buf) == CHOOSE i \in 1..Len(buf) : buf[i].ends /\ \A j \in 1..i-1 : ~buf[j].ends

(* m_connection is closed or replaced: what it was doing is aborted. *)
Abandon(rest) ==
  IF connection = "connecting" THEN Append(rest, ConnectAborted(connector)) ELSE rest

-----------------------------------------------------------------------------
(* Handlers *)

(* handleAccept().  An open m_socket makes the accept fail, the connection *)
(* is dropped and no accept follows.                                       *)
HandleAccept ==
  /\ Running("accepted")
  /\ \/ /\ session = None
        /\ session' = Head(queue).client
        /\ AsyncReceive(session', buffer, Tail(queue))
     \/ /\ session # None
        /\ queue' = Tail(queue)
        /\ UNCHANGED <<session, reads, receiveTimer, status>>
  /\ UNCHANGED <<clientVars, replies, backlog, accepts, taken, buffer, connectVars, raced, acceptFailed>>

(* remote_endpoint() throws if the connection was reset after the accept.  *)
HandleAcceptThrows ==
  /\ Running("accepted")
  /\ session = None
  /\ client[Head(queue).client] = "closed"
  /\ status' = "ended"
  /\ raced' = TRUE
  /\ queue' = Tail(queue)
  /\ UNCHANGED <<clientVars, replies, sessionVars, connectVars, acceptFailed>>

(* An accept that fails is logged, and no other follows.                   *)
HandleAcceptFailed ==
  /\ Running("acceptFailed")
  /\ queue' = Tail(queue)
  /\ UNCHANGED <<clientVars, replies, sessionVars, connectVars, status, raced, acceptFailed>>

(* The read has not come to the end of a command: it goes on, and its      *)
(* timer with it.                                                          *)
HandlePiece ==
  /\ Running("received")
  /\ ~Complete(Filled)
  /\ buffer' = Filled
  /\ ReadSome(session, Tail(queue))
  /\ UNCHANGED <<clientVars, replies, backlog, accepts, session, taken, receiveTimer, connectVars, raced, acceptFailed>>

(* Mutant: readCmd consumes less than it read. *)
HandleCommandKeepsHead ==
  /\ Running("received") \/ Running("read")
  /\ Complete(Filled)
  /\ LET n       == FirstEnd(Filled)
         command == CommandOf(Filled[n])
         whole   == n = 2 /\ CommandOf(Filled[1]) = command
         rest    == <<Filled[1]>> \o SubSeq(Filled, n + 1, Len(Filled))
         kind    == Commands[command[1]][command[2]]
     IN  /\ buffer' = rest
         /\ \/ /\ Reply(command)
               /\ AsyncReceive(session, rest, Tail(queue))
               /\ UNCHANGED connectVars
            \/ /\ kind = "connect" \/ ~whole
               /\ connection' = "connecting"
               /\ connector' = command
               /\ connectTimer' = "armed"
               /\ receiveTimer' = "off"
               /\ queue' = Abandon(Tail(queue))
               /\ UNCHANGED <<replies, reads, status>>
  /\ UNCHANGED <<clientVars, backlog, accepts, session, taken, raced, acceptFailed>>

(* handleReceive() with a command.  When an earlier session left a piece   *)
(* in the buffer the command is a mixture, which may be carried out or     *)
(* not.                                                                    *)
HandleCommand ==
  /\ Running("received") \/ Running("read")
  /\ Complete(Filled)
  /\ LET n       == FirstEnd(Filled)
         command == CommandOf(Filled[n])
         whole   == n = 2 /\ CommandOf(Filled[1]) = command
         rest    == SubSeq(Filled, n + 1, Len(Filled))
         kind    == Commands[command[1]][command[2]]
     IN  /\ buffer' = rest
         /\ \/ /\ Reply(command)
               /\ AsyncReceive(session, rest, Tail(queue))
               /\ UNCHANGED connectVars
            \/ /\ kind = "connect" \/ ~whole
               /\ connection' = "connecting"
               /\ connector' = command
               /\ connectTimer' = "armed"
               /\ receiveTimer' = "off"
               /\ queue' = Abandon(Tail(queue))
               /\ UNCHANGED <<replies, reads, status>>
  /\ UNCHANGED <<clientVars, backlog, accepts, session, taken, raced, acceptFailed>>

(* Mutant: the end of a session is not followed by a new accept. *)
HandleReadFailedForGood ==
  /\ Running("readFailed")
  /\ receiveTimer' = "off"
  /\ session' = None
  /\ reads' = 0
  /\ queue' = Tail(queue) \o Aborted
  /\ UNCHANGED <<clientVars, replies, backlog, accepts, taken, buffer, connectVars, status, raced, acceptFailed>>

HandleReadFailed ==
  /\ Running("readFailed")
  /\ receiveTimer' = "off"
  /\ CloseAndAccept(Tail(queue))
  /\ UNCHANGED <<clientVars, replies, backlog, taken, buffer, connectVars, status, raced, acceptFailed>>

(* Mutant: an aborted read is handled as any other error is. *)
HandleReadAbortedAsError ==
  /\ Running("readAborted")
  /\ receiveTimer' = "off"
  /\ CloseAndAccept(Tail(queue))
  /\ UNCHANGED <<clientVars, replies, backlog, taken, buffer, connectVars, status, raced, acceptFailed>>

(* "case of read timeout", says the code. *)
HandleReadAborted ==
  /\ Running("readAborted")
  /\ receiveTimer' = "off"
  /\ queue' = Tail(queue)
  /\ UNCHANGED <<clientVars, replies, backlog, accepts, session, taken, buffer, reads,
                 connectVars, status, raced, acceptFailed>>

HandleReceiveTimeout ==
  /\ Running("receiveTimedOut")
  /\ CloseAndAccept(Tail(queue))
  /\ UNCHANGED <<clientVars, replies, backlog, taken, buffer, receiveTimer, connectVars, status, raced, acceptFailed>>

(* Mutant: m_connectTimer.cancel() is missing. *)
HandleConnectKeepsTimer ==
  /\ \/ Running("connected") /\ connection = "connected"
     \/ Running("connectFailed") /\ connection # "null"
  /\ connection' = "null"
  /\ Reply(Head(queue).command)
  /\ AsyncReceive(session, buffer, Abandon(Tail(queue)))
  /\ UNCHANGED <<clientVars, backlog, accepts, session, taken, buffer, connector, connectTimer, raced, acceptFailed>>

(* handleConnect() with a connection, of which a face is made, or with an  *)
(* error other than operation_aborted.                                     *)
HandleConnect ==
  /\ \/ Running("connected") /\ connection = "connected"
     \/ Running("connectFailed") /\ connection # "null"
  /\ connectTimer' = "off"
  /\ connection' = "null"
  /\ Reply(Head(queue).command)
  /\ AsyncReceive(session, buffer, Abandon(Tail(queue)))
  /\ UNCHANGED <<clientVars, backlog, accepts, session, taken, buffer, connector, raced, acceptFailed>>

(* The connect timeout closed the socket. *)
HandleConnectAborted ==
  /\ Running("connectAborted")
  /\ connectTimer' = "off"
  /\ Reply(Head(queue).command)
  /\ AsyncReceive(session, buffer, Tail(queue))
  /\ UNCHANGED <<clientVars, backlog, accepts, session, taken, buffer, connection, connector, raced, acceptFailed>>

HandleConnectTimeout ==
  /\ Running("connectTimedOut")
  /\ connection # "null"
  /\ connection' = "null"
  /\ queue' = Abandon(Tail(queue))
  /\ UNCHANGED <<clientVars, replies, sessionVars, connector, connectTimer, status, raced, acceptFailed>>

(* m_connection is dereferenced although it is null, or asked for its      *)
(* remote endpoint although it is not the socket that was connected.       *)
HandleNullConnection ==
  /\ \/ Running("connected") /\ connection # "connected"
     \/ Running("connectFailed") /\ connection = "null"
     \/ Running("connectTimedOut") /\ connection = "null"
  /\ status' = "ended"
  /\ queue' = Tail(queue)
  /\ UNCHANGED <<clientVars, replies, sessionVars, connectVars, raced, acceptFailed>>

-----------------------------------------------------------------------------
EventLoop ==
  \/ HandleAccept \/ HandleAcceptThrows \/ HandleAcceptFailed \/ HandlePiece \/ HandleCommand
  \/ HandleReadFailed \/ HandleReadAborted \/ HandleReceiveTimeout
  \/ HandleConnect \/ HandleConnectAborted \/ HandleConnectTimeout \/ HandleNullConnection

Kernel ==
  \/ AcceptCompletes \/ AcceptFails \/ PieceArrives \/ EndOfFileArrives
  \/ ConnectCompletes \/ ConnectionResets

Timers == ReceiveTimerExpires \/ ConnectTimerExpires

Next ==
  \/ EventLoop \/ Kernel \/ Timers
  \/ \E c \in Clients : ClientConnects(c) \/ ClientSends(c) \/ ClientCloses(c)

(* The loop runs, the kernel delivers, timers expire.  Clients are free to *)
(* stop at any point.                                                      *)
Fairness ==
  /\ WF_vars(EventLoop)
  /\ WF_vars(AcceptCompletes)
  /\ WF_vars(PieceArrives)
  /\ WF_vars(EndOfFileArrives)
  /\ WF_vars(ReceiveTimerExpires)
  /\ WF_vars(ConnectTimerExpires)

Spec == Init /\ [][Next]_vars /\ Fairness

-----------------------------------------------------------------------------
AcceptsDone == {i \in 1..Len(queue) : queue[i].op = "accepted"}

(* Nobody is served, and nobody will be. *)
Deaf == accepts = 0 /\ session = None /\ AcceptsDone = {}

(* One session at a time and never none for good: unless a receive timer   *)
(* expired beside the completion of its read, there is always exactly one  *)
(* of a session, an outstanding accept and an accept that is done; and     *)
(* none of them after the first accept that failed, for good.              *)
OneSessionUnlessRaced ==
  ~raced => IF acceptFailed THEN Deaf
            ELSE accepts + Cardinality(AcceptsDone) + (IF session = None THEN 0 ELSE 1) = 1

(* Each client gets replies to its own commands only, in their order, as   *)
(* long as no timer expired beside the completion it waits for.            *)
RepliesAreOwn ==
  ~raced => \A c \in Clients : \A i \in 1..Len(replies[c]) : replies[c][i] = <<c, i>>

(* What earlier sessions leave in m_receiveBuffer, where it becomes the    *)
(* beginning of the next session's first command, is only ever the head of *)
(* a command that was cut off, as long as no timer expired beside the      *)
(* completion it waits for.                                                *)
LeftoverIsUnfinished ==
  ~raced => \A i \in 1..Len(buffer) :
              buffer[i].from # session => ~buffer[i].ends /\ taken[buffer[i].from] % 2 = 1

(* The process only ends, by a null m_connection or a connection that has  *)
(* no remote endpoint, when a timer expired beside the completion that it  *)
(* waits for, or a connection was lost before the handler that names it.   *)
DiesOnlyIfRaced == status # "runs" => raced

(* Every client that has sent a whole command is answered, or its          *)
(* connection is closed so that it knows; whatever other clients do, and   *)
(* even if timers race.  Only a failed accept leaves it waiting.           *)
AnsweredOrCutOff ==
  \A c \in Clients : \A n \in 0..Len(Commands[c])-1 :
    (asked[c] = 2*n + 2 /\ Len(replies[c]) = n)
      ~> (Len(replies[c]) > n \/ CutOff(c) \/ client[c] = "closed" \/ status # "runs"
          \/ (acceptFailed /\ Deaf))

=============================================================================

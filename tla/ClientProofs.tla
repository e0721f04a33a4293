---------------------------- MODULE ClientProofs ----------------------------
(***************************************************************************)
(* Proofs about the client library: over tcp its state of the connection   *)
(* is true, its reads and writes are one at a time, over udp it reads as   *)
(* long as it should, and over both what was published is written once and *)
(* in order.  The inductive invariant is ClientInv.  The functions of the  *)
(* code are operators from a state of the transport to the next one, so    *)
(* there is a lemma for each of them, and one for each action.             *)
(***************************************************************************)
EXTENDS Client, DataProofs, FiniteSetTheorems

(* Of n outstanding operations and the handlers of those that completed    *)
(* there is at most one; and there is one.                                 *)
Turn(n, q, ops) == n \in {0, 1} /\ AtMostOne(q, ops) /\ (n = 1 => Lacks(q, ops))
Busy(n, q, ops) == n = 1 \/ ~Lacks(q, ops)

ReadOps    == {"read", "readFailed"}
WriteOps   == {"written", "writeFailed"}
ResolveOps == {"resolved", "resolveFailed"}
ConnectOps == {"connected", "connectFailed"}

-----------------------------------------------------------------------------
(***************************************************************************)
(* What is true of a client over tcp, as long as the program runs.         *)
(***************************************************************************)

(* The five stages of a connection.  A handler "connected" of a connection *)
(* that the application has closed meanwhile may be left over, and so may  *)
(* handlers of its reads and writes, but then they run before the next     *)
(* connection is there.                                                    *)
Unconnected(t) ==
  /\ t.isConnected = -1 /\ t.socket = "closed" /\ t.resolves = 0
  /\ Lacks(t.ready, ResolveOps) /\ Lacks(t.ready, {"connectFailed"})

Resolving(t) ==
  /\ t.isConnected = 0 /\ t.socket = "closed"
  /\ Turn(t.resolves, t.ready, ResolveOps) /\ Busy(t.resolves, t.ready, ResolveOps)
  /\ Lacks(t.ready, {"connectFailed"})
  /\ Before(t.ready, {"connected", "read", "readFailed", "written"}, ResolveOps)

Connecting(t) ==
  /\ t.isConnected = 0 /\ t.socket = "connecting" /\ t.resolves = 0
  /\ Lacks(t.ready, ResolveOps) /\ Lacks(t.ready, ConnectOps)
  /\ Lacks(t.ready, ReadOps) /\ Lacks(t.ready, {"written"})

HasConnected(t) ==
  /\ t.isConnected = 0 /\ t.resolves = 0
  /\ \/ t.socket \in {"up", "lost"} /\ ~Lacks(t.ready, {"connected"})
     \/ t.socket = "lost" /\ ~Lacks(t.ready, {"connectFailed"})
  /\ AtMostOne(t.ready, ConnectOps)
  /\ Lacks(t.ready, ResolveOps) /\ Lacks(t.ready, ReadOps) /\ Lacks(t.ready, {"written"})
  /\ Before(t.ready, {"writeFailed"}, {"connected"})

Connected(t) ==
  /\ t.isConnected = 1 /\ t.socket \in {"up", "lost"} /\ t.resolves = 0
  /\ Lacks(t.ready, ResolveOps) /\ Lacks(t.ready, ConnectOps)

Connection(t) ==
  Unconnected(t) \/ Resolving(t) \/ Connecting(t) \/ HasConnected(t) \/ Connected(t)

(* Only a connection that is up has outstanding reads and writes.          *)
Outstanding(t) == t.reads > 0 \/ t.writes > 0 => t.isConnected = 1 /\ t.socket = "up"

(* While it connects a timer limits the time, or is about to say so, or    *)
(* was cancelled by shutdown().  It shares the timer of the reads, so the  *)
(* handler of a read must not come then.                                   *)
TimeLimit(t, shut) ==
  /\ t.isConnected = 0 => shut \/ t.timer = "connect" \/ ~Lacks(t.ready, {"connectTimedOut"})
  /\ ~shut /\ t.isConnected # 1 => Lacks(t.ready, ReadOps)

(* The first asyncRead() tells connectHandler() to read, unless it came on *)
(* a connection that was up.                                               *)
Begun(t, reader) ==
  /\ ~reader => ~Busy(t.reads, t.ready, ReadOps) /\ ~t.readFromConnect
  /\ reader => t.readFromConnect \/ t.hears # "always"

(* At most one read, and one on every connection that is to be read.       *)
Reading(t, reader) ==
  /\ Turn(t.reads, t.ready, ReadOps)
  /\ Begun(t, reader)
  /\ t.isConnected = 1 /\ reader /\ t.hears # "never" => Busy(t.reads, t.ready, ReadOps)

(* At most one write, and one on every connection if packets wait.         *)
Writing(t) ==
  /\ Turn(t.writes, t.ready, WriteOps)
  /\ t.writes = 1 \/ ~Lacks(t.ready, {"written"}) => t.queue # <<>>
  /\ t.isConnected = 1 => (Busy(t.writes, t.ready, WriteOps) <=> t.queue # <<>>)

(* What is written and what waits are the publications, in order; the head *)
(* of the queue is both while the handler of its write is ready.           *)
Twice(t) == IF ~Lacks(t.ready, {"written"}) /\ Head(t.queue) # Sub THEN 1 ELSE 0

TcpOrder(t, pubs, w) ==
  /\ \A i \in 1..Len(w) : w[i] = i
  /\ Ascending(t.queue)
  /\ Twice(t) <= Len(w) /\ Len(w) - Twice(t) <= pubs
  /\ \A p \in Nat \ {Sub} : Holds(t.queue, p) <=> Len(w) - Twice(t) < p /\ p <= pubs

Stage(t, shut) == Connection(t) /\ Outstanding(t) /\ TimeLimit(t, shut)

TcpRuns(t, reader, shut) == Stage(t, shut) /\ Reading(t, reader) /\ Writing(t)

(***************************************************************************)
(* What is true of a client over udp.                                      *)
(***************************************************************************)
UdpReady == {"written", "writeFailed", "read", "readFailed", "readCanceled", "resend"}

UdpOrder(t, pubs, w) ==
  /\ Ascending(t.queue) /\ Ascending(w)
  /\ \A p, q \in Nat \ {Sub} : Holds(w, p) /\ Holds(t.queue, q) => p < q
  /\ \A p \in Nat \ {Sub} : Holds(w, p) \/ Holds(t.queue, p) => p <= pubs

(* A publication is lost only with an error, or with the socket.           *)
NoneLost(t, pubs, w) ==
  \/ \A p \in Nat \ {Sub} : p <= pubs => Holds(w, p) \/ Holds(t.queue, p)
  \/ ~Lacks(t.ready, {"writeFailed"}) \/ t.socket = "closed"

UdpReading(t, reader) ==
  /\ Turn(t.reads, t.ready, ReadOps)
  /\ ~reader => ~Busy(t.reads, t.ready, ReadOps)

UdpReads(t, reader) ==
  reader /\ t.socket = "up" /\ t.hears # "never" => Busy(t.reads, t.ready, ReadOps)

UdpSocket(t) ==
  /\ t.isConnected = -1 /\ t.resolves = 0 /\ t.timer = "off" /\ ~t.readFromConnect
  /\ t.ready \in Seq(UdpReady)
  /\ t.writes = Len(t.queue)
  /\ \/ t.socket = "up"
     \/ t.socket = "closed" /\ t.reads = 0 /\ t.queue = <<>>

-----------------------------------------------------------------------------
TypeOK ==
  /\ transport \in Transports /\ ~transport.threw
  /\ subscribing \in BOOLEAN
  /\ resendTimer \in {"armed", "off"}
  /\ status \in {"runs", "ended"}
  /\ published \in 0..MaxPubs
  /\ wire \in Seq(1..MaxPubs)
  /\ shutDown \in BOOLEAN

TransportInv(t, running, reader, shut, pubs, w) ==
  /\ t \in Transports
  /\ running /\ t.protocol = "tcp" => TcpOrder(t, pubs, w) /\ TcpRuns(t, reader, shut)
  /\ running /\ t.protocol = "udp" =>
       /\ UdpOrder(t, pubs, w) /\ NoneLost(t, pubs, w)
       /\ UdpSocket(t)
       /\ UdpReading(t, reader) /\ UdpReads(t, reader)

(* The same within a handler, where the next read may have to be started.  *)
BetweenReads(t, reader, shut, pubs, w) ==
  /\ t \in Transports
  /\ t.protocol = "tcp" =>
       /\ TcpOrder(t, pubs, w)
       /\ Stage(t, shut) /\ Writing(t)
       /\ Turn(t.reads, t.ready, ReadOps) /\ Begun(t, reader)
  /\ t.protocol = "udp" =>
       /\ UdpOrder(t, pubs, w) /\ NoneLost(t, pubs, w)
       /\ UdpSocket(t)
       /\ UdpReading(t, reader)

ClientInv ==
  /\ TypeOK
  /\ TransportInv(transport, status = "runs", subscribing, shutDown, published, wire)

-----------------------------------------------------------------------------
(***************************************************************************)
(* Handlers: one more is ready, or the first one runs.                     *)
(***************************************************************************)
LEMMA LacksParts ==
  ASSUME NEW q
  PROVE  /\ Lacks(q, ReadOps) <=> Lacks(q, {"read"}) /\ Lacks(q, {"readFailed"})
         /\ Lacks(q, WriteOps) <=> Lacks(q, {"written"}) /\ Lacks(q, {"writeFailed"})
         /\ Lacks(q, ResolveOps) <=> Lacks(q, {"resolved"}) /\ Lacks(q, {"resolveFailed"})
         /\ Lacks(q, ConnectOps) <=> Lacks(q, {"connected"}) /\ Lacks(q, {"connectFailed"})
  BY DEF Lacks, ReadOps, WriteOps, ResolveOps, ConnectOps

(* The handlers of n operations that fail together. *)
LEMMA ReadyRepeat ==
  ASSUME NEW S, NEW q \in Seq(S), NEW x \in S, NEW n \in {0, 1}
  PROVE  q \o [i \in 1..n |-> x] = IF n = 1 THEN Append(q, x) ELSE q
<1>1. CASE n = 1
  <2>1. [i \in 1..n |-> x] = <<x>>
    <3>1. 1..n = 1..1 /\ \A i \in 1..1 : i = 1
      BY <1>1
    <3>2. [i \in 1..n |-> x] \in Seq(S) /\ Len([i \in 1..n |-> x]) = 1
      BY <3>1, <1>1
    <3>3. <<x>> \in Seq(S) /\ Len(<<x>>) = 1 /\ <<x>>[1] = x
      OBVIOUS
    <3>4. \A i \in 1..1 : [j \in 1..n |-> x][i] = <<x>>[i]
      BY <3>1, <3>3
    <3> HIDE <1>1
    <3> QED BY <3>2, <3>3, <3>4, SeqEqual
  <2> QED BY <1>1, <2>1, AppendIsConcat
<1>2. CASE n = 0
  <2>1. [i \in 1..n |-> x] = <<>>
    <3>1. [i \in 1..n |-> x] \in Seq(S) /\ Len([i \in 1..n |-> x]) = 0
      BY <1>2
    <3> QED BY <3>1, EmptySeq
  <2> QED BY <1>2, <2>1, ConcatEmptySeq
<1> QED BY <1>1, <1>2

(* Operations and their handlers. *)
LEMMA TurnAppend ==
  ASSUME NEW S, NEW q \in Seq(S), NEW x \in S, NEW n, NEW ops, Turn(n, q, ops)
  PROVE  /\ x \notin ops => /\ Turn(n, Append(q, x), ops)
                            /\ Busy(n, Append(q, x), ops) <=> Busy(n, q, ops)
         /\ x \in ops /\ (n = 1 \/ ~Busy(n, q, ops)) =>
              Turn(0, Append(q, x), ops) /\ Busy(0, Append(q, x), ops)
<1>1. CASE x \notin ops
  <2>1. /\ Lacks(Append(q, x), ops) <=> Lacks(q, ops)
        /\ AtMostOne(q, ops) => AtMostOne(Append(q, x), ops)
    BY <1>1, AppendLacks
  <2> QED BY <1>1, <2>1 DEF Turn, Busy
<1>2. CASE x \in ops
  <2>1. /\ ~Lacks(Append(q, x), ops)
        /\ Lacks(q, ops) => AtMostOne(Append(q, x), ops)
    BY <1>2, AppendLacks
  <2> QED BY <1>2, <2>1 DEF Turn, Busy
<1> QED BY <1>1, <1>2

LEMMA TurnTail ==
  ASSUME NEW S, NEW q \in Seq(S), q # <<>>, NEW n, NEW ops, Turn(n, q, ops)
  PROVE  /\ Head(q) \notin ops => /\ Turn(n, Tail(q), ops)
                                  /\ Busy(n, Tail(q), ops) <=> Busy(n, q, ops)
         /\ Head(q) \in ops => /\ n = 0
                               /\ Turn(0, Tail(q), ops) /\ ~Busy(0, Tail(q), ops)
  BY TailLacks DEF Turn, Busy

LEMMA TurnStarts ==
  ASSUME NEW q, NEW n, NEW ops, Turn(n, q, ops)
  PROVE  /\ Turn(0, q, ops)
         /\ ~Busy(n, q, ops) => n = 0 /\ Turn(1, q, ops)
         /\ Busy(1, q, ops)
  BY DEF Turn, Busy

(* The handlers that the properties count. *)
LEMMA CountTurn ==
  ASSUME NEW S, NEW q \in Seq(S), NEW n, NEW ops, Turn(n, q, ops)
  PROVE  LET count == n + Cardinality({i \in 1..Len(q) : q[i] \in ops})
         IN  count <= 1 /\ (count = 1 <=> Busy(n, q, ops))
<1> DEFINE P == {i \in 1..Len(q) : q[i] \in ops}
<1>1. CASE Lacks(q, ops)
  <2>1. P = {}
    BY <1>1 DEF Lacks
  <2>2. Cardinality(P) = 0
    BY <2>1, FS_EmptySet
  <2> HIDE DEF P
  <2>3. n + Cardinality(P) <= 1 /\ (n + Cardinality(P) = 1 <=> n = 1)
    BY <2>2 DEF Turn
  <2> QED BY <1>1, <2>3 DEF Busy, P
<1>2. CASE ~Lacks(q, ops)
  <2>1. PICK i \in 1..Len(q) : q[i] \in ops
    BY <1>2 DEF Lacks
  <2>2. P = {i}
    BY <2>1 DEF Turn, AtMostOne
  <2>3. Cardinality(P) = 1
    BY <2>2, FS_Singleton
  <2> HIDE DEF P
  <2>4. n + Cardinality(P) = 1
    BY <1>2, <2>3 DEF Turn
  <2> QED BY <1>2, <2>4 DEF Busy, P
<1> QED BY <1>1, <1>2

-----------------------------------------------------------------------------
(***************************************************************************)
(* What the functions do to the members of a transport.                    *)
(***************************************************************************)
Packets == 0..MaxPubs

LEMMA MemberTypes ==
  ASSUME NEW t \in Transports
  PROVE  /\ t.protocol \in {"tcp", "udp"} /\ t.socket \in {"closed", "connecting", "up", "lost"}
         /\ t.isConnected \in {-1, 0, 1} /\ t.resolves \in {0, 1} /\ t.timer \in {"off", "connect", "receive"}
         /\ t.queue \in Seq(Packets) /\ t.writes \in Nat /\ t.reads \in Nat
         /\ t.ready \in Seq(Handlers)
         /\ t.hears \in {"always", "once", "never"}
         /\ {t.isTimerStarted, t.readFromConnect, t.threw, t.twoTimers} \subseteq BOOLEAN
  BY DEF Transports, Packets

(* The members that nothing but the connection's own handlers change.      *)
SameConnection(t, u) ==
  /\ u.protocol = t.protocol /\ u.socket = t.socket /\ u.isConnected = t.isConnected
  /\ u.resolves = t.resolves /\ u.readFromConnect = t.readFromConnect /\ u.hears = t.hears

LEMMA PostMembers ==
  ASSUME NEW t \in Transports, NEW op \in Handlers
  PROVE  LET u == Post(t, op)
         IN  /\ u \in Transports /\ SameConnection(t, u) /\ u.threw = t.threw
             /\ u.timer = t.timer /\ u.queue = t.queue /\ u.writes = t.writes /\ u.reads = t.reads
             /\ u.ready = Append(t.ready, op)
<1>1. t.ready \in Seq(Handlers) /\ op \in Handlers /\ Append(t.ready, op) \in Seq(Handlers)
  BY MemberTypes, AppendProperties
<1> QED BY <1>1 DEF Post, Transports, SameConnection

LEMMA HandlingMembers ==
  ASSUME transport \in Transports, transport.ready # <<>>
  PROVE  /\ Handling \in Transports /\ SameConnection(transport, Handling)
         /\ Handling.threw = transport.threw /\ Handling.timer = transport.timer
         /\ Handling.queue = transport.queue /\ Handling.writes = transport.writes
         /\ Handling.reads = transport.reads
         /\ Handling.ready = Tail(transport.ready)
<1>1. Tail(transport.ready) \in Seq(Handlers)
  BY MemberTypes, HeadTailProperties
<1> QED BY <1>1 DEF Handling, Transports, SameConnection

LEMMA ConnectMembers ==
  ASSUME NEW t \in Transports, t.resolves = 0
  PROVE  LET u == Connect(t)
         IN  /\ u \in Transports /\ u.protocol = t.protocol /\ u.socket = t.socket
             /\ u.isConnected = 0 /\ u.resolves = 1 /\ u.timer = "connect"
             /\ u.readFromConnect = t.readFromConnect /\ u.hears = t.hears /\ u.threw = t.threw
             /\ u.queue = t.queue /\ u.writes = t.writes /\ u.reads = t.reads /\ u.ready = t.ready
<1> DEFINE b == t.timer # "off"
<1>1. b \in BOOLEAN
  BY DEF b
<1>2. Connect(t) = [t EXCEPT !.twoTimers = b, !.timer = "connect", !.isTimerStarted = TRUE,
                             !.resolves = 1, !.isConnected = 0]
  BY DEF Connect, Transports
<1> HIDE DEF b
<1> QED BY <1>1, <1>2 DEF Transports

LEMMA TimerMembers ==
  ASSUME NEW t \in Transports, NEW u \in {Complete(t), Incomplete(t)}
  PROVE  /\ u \in Transports /\ SameConnection(t, u) /\ u.threw = t.threw
         /\ u.queue = t.queue /\ u.writes = t.writes /\ u.reads = t.reads /\ u.ready = t.ready
<1>1. CASE u = Complete(t)
  BY <1>1 DEF Complete, Transports, SameConnection
<1>2. CASE u = Incomplete(t)
  BY <1>2 DEF Incomplete, Transports, SameConnection
<1> QED BY <1>1, <1>2

Closed(t) == [t EXCEPT !.socket = "closed", !.isConnected = -1, !.writes = 0, !.reads = 0]

LEMMA ClosedMembers ==
  ASSUME NEW t \in Transports
  PROVE  LET u == Closed(t)
         IN  /\ u \in Transports /\ u.protocol = t.protocol /\ u.resolves = t.resolves
             /\ u.readFromConnect = t.readFromConnect /\ u.hears = t.hears
             /\ u.queue = t.queue /\ u.ready = t.ready /\ u.threw = t.threw
             /\ u.socket = "closed" /\ u.isConnected = -1 /\ u.writes = 0 /\ u.reads = 0
<1>1. PICK u : u = [t EXCEPT !.socket = "closed", !.isConnected = -1, !.writes = 0, !.reads = 0]
  OBVIOUS
<1>2. /\ u \in Transports /\ u.protocol = t.protocol /\ u.resolves = t.resolves
      /\ u.readFromConnect = t.readFromConnect /\ u.hears = t.hears
      /\ u.queue = t.queue /\ u.ready = t.ready /\ u.threw = t.threw
      /\ u.socket = "closed" /\ u.isConnected = -1 /\ u.writes = 0 /\ u.reads = 0
  BY <1>1 DEF Transports
<1>3. u = Closed(t)
  BY <1>1 DEF Closed
<1> QED BY <1>2, <1>3

LEMMA TcpCloseMembers ==
  ASSUME NEW t \in Transports
  PROVE  LET u == TcpClose(t)
         IN  /\ u \in Transports /\ u.protocol = t.protocol /\ u.resolves = t.resolves
             /\ u.readFromConnect = t.readFromConnect /\ u.hears = t.hears
             /\ u.queue = t.queue /\ u.ready = t.ready
             /\ t.socket = "closed" => /\ SameConnection(t, u) /\ u.threw = t.threw
                                       /\ u.writes = t.writes /\ u.reads = t.reads
             /\ t.socket = "lost" => u.threw
             /\ t.socket \in {"connecting", "up"} =>
                  /\ u.socket = "closed" /\ u.isConnected = -1 /\ u.threw = t.threw
                  /\ u.writes = 0 /\ u.reads = 0
<1> DEFINE v == Complete(t)
<1>1. /\ v \in Transports /\ SameConnection(t, v) /\ v.threw = t.threw
      /\ v.queue = t.queue /\ v.writes = t.writes /\ v.reads = t.reads /\ v.ready = t.ready
  BY TimerMembers
<1> HIDE DEF v
<1>2. TcpClose(t) = CASE v.socket = "closed" -> v
                      [] v.socket = "lost" -> Throw(v)
                      [] OTHER -> Closed(v)
  BY DEF TcpClose, Complete, Closed, v
<1>3. CASE t.socket = "closed"
  <2>1. TcpClose(t) = v
    BY <1>1, <1>2, <1>3 DEF SameConnection
  <2> QED BY <1>1, <1>3, <2>1 DEF SameConnection
<1>4. CASE t.socket = "lost"
  <2>1. TcpClose(t) = Throw(v)
    BY <1>1, <1>2, <1>4 DEF SameConnection
  <2> QED BY <1>1, <1>4, <2>1 DEF SameConnection, Throw, Transports
<1>5. CASE t.socket \in {"connecting", "up"}
  <2>1. TcpClose(t) = Closed(v)
    BY <1>1, <1>2, <1>5 DEF SameConnection
  <2>2. t.socket # "closed" /\ t.socket # "lost"
    BY <1>5
  <2> QED BY <1>1, <2>1, <2>2, ClosedMembers DEF SameConnection
<1> QED BY <1>3, <1>4, <1>5, MemberTypes

LEMMA SendMembers ==
  ASSUME NEW t \in Transports
  PROVE  LET u == Send(t)
         IN  /\ u \in Transports /\ SameConnection(t, u) /\ u.threw = t.threw
             /\ u.timer = t.timer /\ u.queue = t.queue /\ u.reads = t.reads
             /\ IF t.socket = "up" THEN u.writes = t.writes + 1 /\ u.ready = t.ready
                ELSE u.writes = t.writes /\ u.ready = Append(t.ready, "writeFailed")
<1>1. CASE t.socket = "up"
  BY <1>1 DEF Send, Transports, SameConnection
<1>2. CASE t.socket # "up"
  BY <1>2, PostMembers DEF Send, Handlers
<1> QED BY <1>1, <1>2

LEMMA ReceiveMembers ==
  ASSUME NEW t \in Transports
  PROVE  LET u == Receive(t)
         IN  /\ u \in Transports /\ SameConnection(t, u) /\ u.threw = t.threw
             /\ u.timer = t.timer /\ u.queue = t.queue /\ u.writes = t.writes
             /\ IF t.socket = "up" THEN u.reads = t.reads + 1 /\ u.ready = t.ready
                ELSE u.reads = t.reads /\ u.ready = Append(t.ready, "readFailed")
<1>1. CASE t.socket = "up"
  BY <1>1 DEF Receive, Transports, SameConnection
<1>2. CASE t.socket # "up"
  BY <1>2, PostMembers DEF Receive, Handlers
<1> QED BY <1>1, <1>2

-----------------------------------------------------------------------------
(***************************************************************************)
(* The stage of a connection stays when a handler that it does not wait    *)
(* for becomes ready, or runs.                                             *)
(***************************************************************************)
LEMMA NoneTurn ==
  ASSUME NEW q, NEW ops, NEW n \in {0, 1}, Lacks(q, ops)
  PROVE  Turn(n, q, ops) /\ (Busy(n, q, ops) <=> n = 1)
  BY DEF Lacks, Turn, Busy, AtMostOne

LEMMA StageAppend ==
  ASSUME NEW t \in Transports, NEW u \in Transports, NEW op \in Handlers, NEW shut, Stage(t, shut),
         SameConnection(t, u), u.ready = Append(t.ready, op),
         u.timer = t.timer \/ t.timer # "connect" \/ op = "connectTimedOut",
         u.reads > 0 \/ u.writes > 0 => t.reads > 0 \/ t.writes > 0,
         op \notin ResolveOps, op \notin ConnectOps,
         op \in ReadOps \/ op = "written" => t.isConnected = 1,
         op = "writeFailed" => t.isConnected = 1 \/ t.socket = "closed"
  PROVE  Stage(u, shut)
<1>1. t.ready \in Seq(Handlers)
  BY MemberTypes
<1>2. /\ Lacks(t.ready, ResolveOps) => Lacks(u.ready, ResolveOps)
      /\ Lacks(t.ready, ConnectOps) => Lacks(u.ready, ConnectOps)
      /\ Lacks(t.ready, {"connectFailed"}) => Lacks(u.ready, {"connectFailed"})
      /\ ~Lacks(t.ready, {"connectFailed"}) => ~Lacks(u.ready, {"connectFailed"})
      /\ ~Lacks(t.ready, {"connected"}) => ~Lacks(u.ready, {"connected"})
      /\ AtMostOne(t.ready, ConnectOps) => AtMostOne(u.ready, ConnectOps)
  <2>1. op \notin {"connectFailed"} /\ op \notin {"connected"}
    BY DEF ConnectOps
  <2> QED BY <1>1, <2>1, AppendLacks
<1>3. t.isConnected # 1 => /\ Lacks(t.ready, ReadOps) => Lacks(u.ready, ReadOps)
                           /\ Lacks(t.ready, {"written"}) => Lacks(u.ready, {"written"})
  <2>1. t.isConnected # 1 => op \notin ReadOps /\ op \notin {"written"}
    OBVIOUS
  <2> QED BY <1>1, <2>1, AppendLacks
<1>4. Turn(t.resolves, t.ready, ResolveOps) =>
        /\ Turn(u.resolves, u.ready, ResolveOps)
        /\ Busy(u.resolves, u.ready, ResolveOps) <=> Busy(t.resolves, t.ready, ResolveOps)
  BY <1>1, TurnAppend DEF SameConnection
<1>5. Connection(u)
  <2>1. CASE Unconnected(t)
    BY <1>2, <2>1 DEF Unconnected, Connection, SameConnection
  <2>2. CASE Resolving(t)
    <3>1. op \notin {"connected", "read", "readFailed", "written"}
      BY <2>2 DEF Resolving, ConnectOps, ReadOps
    <3>2. Before(u.ready, {"connected", "read", "readFailed", "written"}, ResolveOps)
      BY <1>1, <2>2, <3>1, AppendLacks DEF Resolving
    <3> QED BY <1>2, <1>4, <2>2, <3>2 DEF Resolving, Connection, SameConnection
  <2>3. CASE Connecting(t)
    BY <1>2, <1>3, <2>3 DEF Connecting, Connection, SameConnection
  <2>4. CASE HasConnected(t)
    <3>1. op \notin {"writeFailed"}
      BY <2>4 DEF HasConnected
    <3>2. Before(u.ready, {"writeFailed"}, {"connected"})
      BY <1>1, <2>4, <3>1, AppendLacks DEF HasConnected
    <3> QED BY <1>2, <1>3, <2>4, <3>2 DEF HasConnected, Connection, SameConnection
  <2>5. CASE Connected(t)
    BY <1>2, <2>5 DEF Connected, Connection, SameConnection
  <2> QED BY <2>1, <2>2, <2>3, <2>4, <2>5 DEF Stage, Connection
<1>6. Outstanding(u)
  BY DEF Outstanding, Stage, SameConnection
<1>7. TimeLimit(u, shut)
  <2>1. ~Lacks(t.ready, {"connectTimedOut"}) \/ op = "connectTimedOut" => ~Lacks(u.ready, {"connectTimedOut"})
    BY <1>1, AppendLacks
  <2> QED BY <1>3, <2>1 DEF Stage, TimeLimit, SameConnection
<1> QED BY <1>5, <1>6, <1>7 DEF Stage

LEMMA StageTail ==
  ASSUME NEW t \in Transports, NEW u \in Transports, NEW shut, Stage(t, shut),
         SameConnection(t, u), t.ready # <<>>, u.ready = Tail(t.ready),
         u.timer = t.timer, u.reads = t.reads, u.writes = t.writes,
         Head(t.ready) \notin ResolveOps,
         Head(t.ready) \notin ConnectOps \/ t.socket = "closed",
         Head(t.ready) # "connectTimedOut"
  PROVE  Stage(u, shut)
<1>1. t.ready \in Seq(Handlers)
  BY MemberTypes
<1>2. \A ops : Lacks(t.ready, ops) => Lacks(u.ready, ops)
  BY <1>1, TailLacks
<1>3. \A ops : AtMostOne(t.ready, ops) => AtMostOne(u.ready, ops)
  BY <1>1, TailLacks
<1>4. \A first, second : Before(t.ready, first, second) => Before(u.ready, first, second)
  BY <1>1, TailLacks
<1>5. /\ t.socket # "closed" =>
           /\ ~Lacks(t.ready, {"connected"}) => ~Lacks(u.ready, {"connected"})
           /\ ~Lacks(t.ready, {"connectFailed"}) => ~Lacks(u.ready, {"connectFailed"})
      /\ ~Lacks(t.ready, {"connectTimedOut"}) => ~Lacks(u.ready, {"connectTimedOut"})
  <2>1. /\ t.socket # "closed" =>
             Head(t.ready) \notin {"connected"} /\ Head(t.ready) \notin {"connectFailed"}
        /\ Head(t.ready) \notin {"connectTimedOut"}
    BY DEF ConnectOps
  <2> QED BY <1>1, <2>1, TailLacks
<1>6. Turn(t.resolves, t.ready, ResolveOps) =>
        /\ Turn(u.resolves, u.ready, ResolveOps)
        /\ Busy(u.resolves, u.ready, ResolveOps) <=> Busy(t.resolves, t.ready, ResolveOps)
  BY <1>1, TurnTail DEF SameConnection
<1>7. Connection(u)
  <2>1. CASE Unconnected(t)
    BY <1>2, <2>1 DEF Unconnected, Connection, SameConnection
  <2>2. CASE Resolving(t)
    BY <1>2, <1>4, <1>6, <2>2 DEF Resolving, Connection, SameConnection
  <2>3. CASE Connecting(t)
    BY <1>2, <2>3 DEF Connecting, Connection, SameConnection
  <2>4. CASE HasConnected(t)
    BY <1>2, <1>3, <1>4, <1>5, <2>4 DEF HasConnected, Connection, SameConnection
  <2>5. CASE Connected(t)
    BY <1>2, <2>5 DEF Connected, Connection, SameConnection
  <2> QED BY <2>1, <2>2, <2>3, <2>4, <2>5 DEF Stage, Connection
<1>8. Outstanding(u)
  BY DEF Outstanding, Stage, SameConnection
<1>9. TimeLimit(u, shut)
  BY <1>2, <1>5 DEF Stage, TimeLimit, SameConnection
<1> QED BY <1>7, <1>8, <1>9 DEF Stage

(* A stage says nothing of the members that it does not name.              *)
LEMMA StageSame ==
  ASSUME NEW t, NEW u, NEW shut, Stage(t, shut), SameConnection(t, u), u.ready = t.ready,
         u.reads = t.reads, u.writes = t.writes, t.isConnected # 0 \/ u.timer = t.timer
  PROVE  Stage(u, shut)
  BY DEF Stage, SameConnection, Connection, Unconnected, Resolving, Connecting, HasConnected, Connected,
         Outstanding, TimeLimit

LEMMA OrderSame ==
  ASSUME NEW t, NEW u, NEW pubs, NEW w, TcpOrder(t, pubs, w), u.queue = t.queue,
         Lacks(u.ready, {"written"}) <=> Lacks(t.ready, {"written"})
  PROVE  TcpOrder(u, pubs, w)
  BY DEF TcpOrder, Twice

-----------------------------------------------------------------------------
(***************************************************************************)
(* The functions of the TcpTransport.                                      *)
(***************************************************************************)
LEMMA EnsureConnectedStage ==
  ASSUME NEW t \in Transports, NEW shut, Stage(t, shut)
  PROVE  LET u == EnsureConnected(t)
         IN  /\ u \in Transports /\ Stage(u, shut) /\ u.protocol = t.protocol /\ u.threw = t.threw
             /\ u.queue = t.queue /\ u.ready = t.ready /\ u.writes = t.writes /\ u.reads = t.reads
             /\ u.readFromConnect = t.readFromConnect /\ u.hears = t.hears
             /\ u.isConnected = 1 <=> t.isConnected = 1
             /\ u.isConnected = 1 => u.socket = t.socket
<1>1. CASE t.socket = "closed" /\ t.isConnected # 0
  <2>1. Unconnected(t)
    BY <1>1 DEF Stage, Connection, Unconnected, Resolving, Connecting, HasConnected, Connected
  <2>2. PICK u : u = Connect(t)
    OBVIOUS
  <2>3. /\ u \in Transports /\ u.protocol = t.protocol /\ u.socket = t.socket
        /\ u.isConnected = 0 /\ u.resolves = 1 /\ u.timer = "connect"
        /\ u.readFromConnect = t.readFromConnect /\ u.hears = t.hears /\ u.threw = t.threw
        /\ u.queue = t.queue /\ u.writes = t.writes /\ u.reads = t.reads /\ u.ready = t.ready
    BY <2>1, <2>2, ConnectMembers DEF Unconnected
  <2>4. Turn(1, t.ready, ResolveOps) /\ Busy(1, t.ready, ResolveOps)
    BY <2>1, NoneTurn DEF Unconnected
  <2>5. Before(t.ready, {"connected", "read", "readFailed", "written"}, ResolveOps)
    BY <2>1, LacksBefore DEF Unconnected
  <2>6. Resolving(u)
    BY <2>1, <2>3, <2>4, <2>5 DEF Unconnected, Resolving
  <2>7. Stage(u, shut)
    BY <2>1, <2>3, <2>6 DEF Stage, Connection, Unconnected, Outstanding, TimeLimit
  <2>8. EnsureConnected(t) = u
    BY <1>1, <2>2 DEF EnsureConnected
  <2> QED BY <2>1, <2>3, <2>7, <2>8 DEF Unconnected
<1>2. CASE ~(t.socket = "closed" /\ t.isConnected # 0)
  <2>1. EnsureConnected(t) = t
    BY <1>2 DEF EnsureConnected
  <2> QED BY <2>1
<1> QED BY <1>1, <1>2

(* send() for the head of a queue of which nothing is being written.       *)
LEMMA SendRuns ==
  ASSUME NEW t \in Transports, NEW reader, NEW shut, Stage(t, shut), Reading(t, reader),
         Turn(t.writes, t.ready, WriteOps), ~Busy(t.writes, t.ready, WriteOps), t.queue # <<>>,
         t.isConnected = 1 \/ t.socket = "closed"
  PROVE  LET u == Send(t)
         IN  /\ u \in Transports /\ TcpRuns(u, reader, shut)
             /\ SameConnection(t, u) /\ u.threw = t.threw /\ u.queue = t.queue
             /\ Lacks(u.ready, {"written"}) <=> Lacks(t.ready, {"written"})
<1> DEFINE u == Send(t)
<1>1. /\ u \in Transports /\ SameConnection(t, u) /\ u.threw = t.threw
      /\ u.timer = t.timer /\ u.queue = t.queue /\ u.reads = t.reads
      /\ IF t.socket = "up" THEN u.writes = t.writes + 1 /\ u.ready = t.ready
         ELSE u.writes = t.writes /\ u.ready = Append(t.ready, "writeFailed")
  BY SendMembers
<1> HIDE DEF u
<1>2. t.writes = 0 /\ t.ready \in Seq(Handlers)
  BY TurnStarts, MemberTypes
<1>3. Lacks(t.ready, WriteOps) /\ Lacks(t.ready, {"written"})
  BY LacksParts DEF Busy
<1>4. CASE t.socket = "up"
  <2>1. u.writes = 1 /\ u.ready = t.ready
    BY <1>1, <1>2, <1>4
  <2>2. Stage(u, shut)
    BY <1>1, <1>4, <2>1 DEF Stage, SameConnection, Connection, Unconnected, Resolving, Connecting,
         HasConnected, Connected, Outstanding, TimeLimit
  <2>3. Reading(u, reader)
    BY <1>1, <2>1 DEF Reading, Begun, SameConnection
  <2>4. Turn(1, t.ready, WriteOps) /\ Busy(1, t.ready, WriteOps)
    BY TurnStarts
  <2>5. Writing(u)
    BY <1>1, <2>1, <2>4 DEF Writing
  <2> QED BY <1>1, <2>1, <2>2, <2>3, <2>5 DEF TcpRuns, u
<1>5. CASE t.socket # "up"
  <2>1. u.writes = t.writes /\ u.ready = Append(t.ready, "writeFailed")
    BY <1>1, <1>5
  <2>2. "writeFailed" \in Handlers /\ "writeFailed" \notin ResolveOps /\ "writeFailed" \notin ConnectOps
        /\ "writeFailed" \notin ReadOps /\ "writeFailed" \in WriteOps /\ "writeFailed" \notin {"written"}
    BY DEF Handlers, ResolveOps, ConnectOps, ReadOps, WriteOps
  <2>3. Stage(u, shut)
    BY <1>1, <2>1, <2>2, StageAppend
  <2>4. /\ Turn(t.reads, u.ready, ReadOps)
        /\ Busy(t.reads, u.ready, ReadOps) <=> Busy(t.reads, t.ready, ReadOps)
    BY <1>2, <2>1, <2>2, TurnAppend DEF Reading
  <2>5. Reading(u, reader)
    BY <1>1, <2>4 DEF Reading, Begun, SameConnection
  <2>6. Turn(0, u.ready, WriteOps) /\ Busy(0, u.ready, WriteOps)
    BY <1>2, <2>1, <2>2, TurnAppend
  <2>7. Lacks(u.ready, {"written"})
    BY <1>2, <1>3, <2>1, <2>2, AppendLacks
  <2>8. Writing(u)
    BY <1>1, <1>2, <2>1, <2>6, <2>7 DEF Writing
  <2> QED BY <1>1, <1>3, <2>3, <2>5, <2>7, <2>8 DEF TcpRuns, u
<1> QED BY <1>4, <1>5

(* receive() on a connection that is not read. *)
LEMMA ReceiveRuns ==
  ASSUME NEW t \in Transports, NEW shut, Stage(t, shut), Writing(t), t.isConnected = 1,
         Turn(t.reads, t.ready, ReadOps), ~Busy(t.reads, t.ready, ReadOps), Begun(t, TRUE)
  PROVE  LET u == Receive(t)
         IN  /\ u \in Transports /\ TcpRuns(u, TRUE, shut)
             /\ SameConnection(t, u) /\ u.threw = t.threw /\ u.queue = t.queue
             /\ u.writes = t.writes
             /\ \A ops : "readFailed" \notin ops => (Lacks(u.ready, ops) <=> Lacks(t.ready, ops))
<1> DEFINE u == Receive(t)
<1>1. /\ u \in Transports /\ SameConnection(t, u) /\ u.threw = t.threw
      /\ u.timer = t.timer /\ u.queue = t.queue /\ u.writes = t.writes
      /\ IF t.socket = "up" THEN u.reads = t.reads + 1 /\ u.ready = t.ready
         ELSE u.reads = t.reads /\ u.ready = Append(t.ready, "readFailed")
  BY ReceiveMembers
<1> HIDE DEF u
<1>2. t.reads = 0 /\ t.ready \in Seq(Handlers)
  BY TurnStarts, MemberTypes
<1>4. CASE t.socket = "up"
  <2>1. u.reads = 1 /\ u.ready = t.ready
    BY <1>1, <1>2, <1>4
  <2>2. Stage(u, shut)
    BY <1>1, <1>4, <2>1 DEF Stage, SameConnection, Connection, Unconnected, Resolving, Connecting,
         HasConnected, Connected, Outstanding, TimeLimit
  <2>3. Writing(u)
    BY <1>1, <2>1 DEF Writing, SameConnection
  <2>4. Turn(1, t.ready, ReadOps) /\ Busy(1, t.ready, ReadOps)
    BY TurnStarts
  <2>5. Reading(u, TRUE)
    BY <1>1, <2>1, <2>4 DEF Reading, Begun, SameConnection
  <2> QED BY <1>1, <2>1, <2>2, <2>3, <2>5 DEF TcpRuns, u
<1>5. CASE t.socket # "up"
  <2>1. u.reads = t.reads /\ u.ready = Append(t.ready, "readFailed")
    BY <1>1, <1>5
  <2>2. "readFailed" \in Handlers /\ "readFailed" \notin ResolveOps /\ "readFailed" \notin ConnectOps
        /\ "readFailed" \in ReadOps /\ "readFailed" \notin WriteOps /\ "readFailed" # "connectTimedOut"
        /\ "readFailed" # "writeFailed"
    BY DEF Handlers, ResolveOps, ConnectOps, ReadOps, WriteOps
  <2>3. Stage(u, shut)
    BY <1>1, <2>1, <2>2, StageAppend
  <2>4. \A ops : "readFailed" \notin ops => (Lacks(u.ready, ops) <=> Lacks(t.ready, ops))
    BY <1>2, <2>1, <2>2, AppendLacks
  <2>5. Turn(0, u.ready, ReadOps) /\ Busy(0, u.ready, ReadOps)
    BY <1>2, <2>1, <2>2, TurnAppend
  <2>6. Reading(u, TRUE)
    BY <1>1, <1>2, <2>1, <2>5 DEF Reading, Begun, SameConnection
  <2>7. /\ Turn(t.writes, u.ready, WriteOps)
        /\ Busy(t.writes, u.ready, WriteOps) <=> Busy(t.writes, t.ready, WriteOps)
    BY <1>2, <2>1, <2>2, TurnAppend DEF Writing
  <2>8. Lacks(u.ready, {"written"}) <=> Lacks(t.ready, {"written"})
    BY <2>4
  <2>9. Writing(u)
    BY <1>1, <2>7, <2>8 DEF Writing, SameConnection
  <2> QED BY <1>1, <2>3, <2>4, <2>6, <2>9 DEF TcpRuns, u
<1> QED BY <1>4, <1>5

(* close(), after which nothing is outstanding. *)
LEMMA CloseRuns ==
  ASSUME NEW t \in Transports, NEW reader, NEW shut, NEW closes, Stage(t, shut), ~t.threw,
         Turn(t.reads, t.ready, ReadOps),
         Begun(t, reader),
         Turn(t.writes, t.ready, WriteOps),
         t.writes = 1 \/ ~Lacks(t.ready, {"written"}) => t.queue # <<>>,
         closes \/ (closes = shut /\ t.isConnected # 0 /\ Lacks(t.ready, ReadOps))
  PROVE  LET u == TcpClose(t)
         IN  /\ u \in Transports /\ u.protocol = t.protocol
             /\ u.queue = t.queue /\ u.ready = t.ready
             /\ ~u.threw => TcpRuns(u, reader, closes)
<1> DEFINE u == TcpClose(t)
<1>1. /\ u \in Transports /\ u.protocol = t.protocol /\ u.resolves = t.resolves
      /\ u.readFromConnect = t.readFromConnect /\ u.hears = t.hears
      /\ u.queue = t.queue /\ u.ready = t.ready
      /\ t.socket = "closed" => /\ SameConnection(t, u) /\ u.threw = t.threw
                                /\ u.writes = t.writes /\ u.reads = t.reads
      /\ t.socket = "lost" => u.threw
      /\ t.socket \in {"connecting", "up"} =>
           /\ u.socket = "closed" /\ u.isConnected = -1 /\ u.threw = t.threw
           /\ u.writes = 0 /\ u.reads = 0
  BY TcpCloseMembers
<1> HIDE DEF u
<1>2. ASSUME ~u.threw PROVE TcpRuns(u, reader, closes)
  <2>1. t.socket \in {"closed", "connecting", "up"}
    BY <1>1, <1>2, MemberTypes
  <2>2. u.isConnected # 1 /\ u.socket = "closed" /\ (u.isConnected = 0 => t.isConnected = 0)
    BY <1>1, <2>1 DEF SameConnection, Stage, Connection, Unconnected, Resolving, Connecting,
         HasConnected, Connected
  <2>3. u.reads = 0 /\ u.writes = 0
    BY <1>1, <2>1, MemberTypes DEF Stage, Connection, Unconnected, Resolving, Connecting,
         HasConnected, Connected, Outstanding
  <2>4. Connection(u)
    <3>1. CASE t.socket = "closed"
      BY <1>1, <3>1 DEF SameConnection, Stage, Connection, Unconnected, Resolving, Connecting,
           HasConnected, Connected
    <3>2. CASE t.socket \in {"connecting", "up"}
      <4>1. Lacks(t.ready, ResolveOps) /\ t.resolves = 0
        BY <3>2 DEF Stage, Connection, Unconnected, Resolving, Connecting, HasConnected, Connected
      <4>2. Lacks(t.ready, {"connectFailed"})
        <5>1. CASE HasConnected(t)
          <6>1. ~Lacks(t.ready, {"connected"}) /\ AtMostOne(t.ready, ConnectOps)
            BY <3>2, <5>1 DEF HasConnected
          <6> QED BY <6>1 DEF Lacks, AtMostOne, ConnectOps
        <5>2. CASE Connecting(t) \/ Connected(t)
          BY <5>2, LacksParts DEF Connecting, Connected
        <5> QED BY <3>2, <5>1, <5>2 DEF Stage, Connection, Unconnected, Resolving
      <4>3. Unconnected(u)
        BY <1>1, <3>2, <4>1, <4>2 DEF Unconnected
      <4> QED BY <4>3 DEF Connection
    <3> QED BY <2>1, <3>1, <3>2
  <2>5. Stage(u, closes)
    BY <1>1, <2>2, <2>3, <2>4 DEF Stage, Outstanding, TimeLimit
  <2>6. Turn(0, t.ready, ReadOps) /\ (Busy(0, t.ready, ReadOps) => Busy(t.reads, t.ready, ReadOps))
    BY DEF Turn, Busy
  <2>7. Reading(u, reader)
    BY <1>1, <2>2, <2>3, <2>6 DEF Reading, Begun
  <2>8. Turn(0, t.ready, WriteOps)
    BY TurnStarts
  <2>9. Writing(u)
    BY <1>1, <2>2, <2>3, <2>8 DEF Writing
  <2> QED BY <2>5, <2>7, <2>9 DEF TcpRuns
<1> QED BY <1>1, <1>2 DEF u

-----------------------------------------------------------------------------
(***************************************************************************)
(* Packets in the order of their numbers.                                  *)
(***************************************************************************)
LEMMA SeqSubset ==
  ASSUME NEW S, NEW T, S \subseteq T
  PROVE  Seq(S) \subseteq Seq(T)
<1> SUFFICES ASSUME NEW q \in Seq(S) PROVE q \in Seq(T)
  OBVIOUS
<1>1. \A i \in 1..Len(q) : q[i] \in T
  BY ElementOfSeq
<1>2. q = [i \in 1..Len(q) |-> q[i]] /\ Len(q) \in Nat
  BY LenProperties
<1> QED BY <1>1, <1>2, IsASeq

LEMMA AppendAscending ==
  ASSUME NEW q \in Seq(Packets), NEW x \in Packets, Ascending(q),
         x # Sub => \A p \in Nat \ {Sub} : Holds(q, p) => p < x
  PROVE  Ascending(Append(q, x))
<1>1. /\ Len(Append(q, x)) = Len(q) + 1
      /\ Append(q, x)[Len(q) + 1] = x
      /\ \A i \in 1..Len(q) : Append(q, x)[i] = q[i] /\ q[i] \in Packets
      /\ Len(q) \in Nat
  BY AppendProperties, ElementOfSeq
<1>2. \A i : i \in 1..Len(Append(q, x)) <=> i \in 1..Len(q) \/ i = Len(q) + 1
  BY <1>1
<1> SUFFICES ASSUME NEW i \in 1..Len(Append(q, x)), NEW j \in 1..Len(Append(q, x)), i < j,
                    Append(q, x)[i] # Sub, Append(q, x)[j] # Sub
             PROVE  Append(q, x)[i] < Append(q, x)[j]
  BY DEF Ascending
<1>3. i \in 1..Len(q)
  BY <1>1, <1>2
<1>4. CASE j \in 1..Len(q)
  BY <1>1, <1>3, <1>4 DEF Ascending
<1>5. CASE j = Len(q) + 1
  <2>1. q[i] \in Nat \ {Sub} /\ Holds(q, q[i])
    BY <1>1, <1>3 DEF Packets, Holds
  <2> QED BY <1>1, <1>3, <1>5, <2>1
<1> QED BY <1>2, <1>4, <1>5

LEMMA TailAscending ==
  ASSUME NEW q \in Seq(Packets), q # <<>>, Ascending(q)
  PROVE  /\ Ascending(Tail(q))
         /\ Head(q) # Sub => \A p \in Nat \ {Sub} : Holds(Tail(q), p) => Head(q) < p
<1>1. /\ Head(q) = q[1]
      /\ Len(Tail(q)) = Len(q) - 1
      /\ \A i \in 1..Len(Tail(q)) : Tail(q)[i] = q[i+1]
      /\ Len(q) \in Nat /\ Len(q) >= 1
  BY HeadTailProperties, EmptySeq, LenProperties
<1>2. 1 \in 1..Len(q) /\ \A i \in 1..Len(Tail(q)) : i \in Nat /\ i + 1 \in 1..Len(q) /\ 1 < i + 1
  BY <1>1
<1>3. ASSUME NEW i \in 1..Len(Tail(q)), NEW j \in 1..Len(Tail(q)), i < j,
             Tail(q)[i] # Sub, Tail(q)[j] # Sub
      PROVE  Tail(q)[i] < Tail(q)[j]
  <2>1. i + 1 < j + 1
    BY <1>2, <1>3
  <2> QED BY <1>1, <1>2, <1>3, <2>1 DEF Ascending
<1>4. ASSUME Head(q) # Sub, NEW p \in Nat \ {Sub}, Holds(Tail(q), p) PROVE Head(q) < p
  <2>1. PICK i \in 1..Len(Tail(q)) : Tail(q)[i] = p
    BY <1>4 DEF Holds
  <2> QED BY <1>1, <1>2, <1>4, <2>1 DEF Ascending
<1> QED BY <1>3, <1>4 DEF Ascending

(* What waits are the publications from one number to another: the head,   *)
(* if it is one of them, is the first.                                     *)
LEMMA HeadIsLeast ==
  ASSUME NEW q \in Seq(Packets), q # <<>>, Ascending(q), NEW lo \in Int, lo >= 0, NEW hi \in Int,
         \A p \in Nat \ {Sub} : Holds(q, p) <=> lo < p /\ p <= hi
  PROVE  /\ Tail(q) \in Seq(Packets) /\ Ascending(Tail(q)) /\ Head(q) \in Packets
         /\ Head(q) # Sub => /\ Head(q) = lo + 1 /\ lo < hi
                             /\ \A p \in Nat \ {Sub} : Holds(Tail(q), p) <=> lo + 1 < p /\ p <= hi
         /\ Head(q) = Sub => \A p \in Nat \ {Sub} : Holds(Tail(q), p) <=> lo < p /\ p <= hi
<1>1. /\ Head(q) \in Packets /\ Tail(q) \in Seq(Packets) /\ Holds(q, Head(q))
      /\ \A p : Holds(q, p) <=> Holds(Tail(q), p) \/ p = Head(q)
  BY TailHolds
<1>2. /\ Ascending(Tail(q))
      /\ Head(q) # Sub => \A p \in Nat \ {Sub} : Holds(Tail(q), p) => Head(q) < p
  BY TailAscending
<1>3. CASE Head(q) # Sub
  <2>1. Head(q) \in Nat \ {Sub}
    BY <1>1, <1>3 DEF Packets
  <2>2. lo < Head(q) /\ Head(q) <= hi
    BY <1>1, <2>1
  <2>3. Head(q) = lo + 1
    <3>1. lo + 1 \in Nat \ {Sub} /\ lo < lo + 1 /\ lo + 1 <= hi
      BY <2>1, <2>2 DEF Sub
    <3>2. Holds(Tail(q), lo + 1) \/ lo + 1 = Head(q)
      BY <1>1, <3>1
    <3>3. ~Holds(Tail(q), lo + 1)
      BY <1>2, <1>3, <2>1, <2>2, <3>1
    <3> QED BY <3>2, <3>3
  <2>4. ASSUME NEW p \in Nat \ {Sub} PROVE Holds(Tail(q), p) <=> lo + 1 < p /\ p <= hi
    <3>1. Holds(Tail(q), p) => lo + 1 < p /\ p <= hi
      BY <1>1, <1>2, <1>3, <2>3
    <3>2. lo + 1 < p /\ p <= hi => Holds(q, p) /\ p # Head(q)
      BY <2>3
    <3> QED BY <1>1, <3>1, <3>2
  <2> QED BY <1>1, <1>2, <1>3, <2>2, <2>3, <2>4
<1>4. CASE Head(q) = Sub
  BY <1>1, <1>2, <1>4
<1> QED BY <1>3, <1>4

-----------------------------------------------------------------------------
(***************************************************************************)
(* asyncWrite() and asyncRead() over tcp.                                  *)
(***************************************************************************)
LEMMA EnqueuedPacket ==
  ASSUME NEW q \in Seq(Packets), NEW x \in Packets
  PROVE  LET r == Enqueued(q, x)
         IN  /\ r \in Seq(Packets) /\ r # <<>>
             /\ Len(r) = 1 <=> q = <<>>
             /\ q # <<>> => Head(r) = Head(q)
             /\ r = Append(q, x) \/ (r = q /\ x = Sub)
<1>1. MaxBacklog \in Nat /\ MaxBacklog >= 2
  BY ClientAssumption
<1>2. Len(q) \in Nat /\ (q = <<>> <=> Len(q) = 0)
  BY EmptySeq, LenProperties
<1>3. CASE x = Sub /\ Len(q) >= MaxBacklog
  <2>1. Enqueued(q, x) = q
    BY <1>3 DEF Enqueued
  <2>2. PICK n \in Nat : n = Len(q)
    BY <1>2
  <2>3. n # 0 /\ n # 1
    BY <1>1, <1>3, <2>2
  <2> QED BY <1>2, <1>3, <2>1, <2>2, <2>3
<1>4. CASE ~(x = Sub /\ Len(q) >= MaxBacklog)
  <2>1. Enqueued(q, x) = Append(q, x)
    BY <1>4 DEF Enqueued
  <2>2. /\ Append(q, x) \in Seq(Packets)
        /\ Len(Append(q, x)) = Len(q) + 1
        /\ \A i \in 1..Len(q) : Append(q, x)[i] = q[i]
    BY AppendProperties
  <2>3. Append(q, x) # <<>> /\ (Len(Append(q, x)) = 1 <=> q = <<>>)
    BY <1>2, <2>2, EmptySeq
  <2>4. ASSUME q # <<>> PROVE Head(Append(q, x)) = Head(q)
    <3>1. 1 \in 1..Len(q)
      BY <1>2, <2>4
    <3> QED BY <2>2, <2>3, <2>4, <3>1, HeadTailProperties
  <2> QED BY <2>1, <2>2, <2>3, <2>4
<1> QED BY <1>3, <1>4

(* The publication gets the next number. *)
NextPacket(packet, pubs, next) ==
  (packet = Sub /\ next = pubs) \/ (packet = pubs + 1 /\ next = pubs + 1)

LEMMA OrderEnqueued ==
  ASSUME NEW t \in Transports, NEW u \in Transports, NEW packet \in Packets,
         NEW pubs \in Nat, NEW next, NEW w \in Seq(Nat), NextPacket(packet, pubs, next),
         TcpOrder(t, pubs, w), ~Lacks(t.ready, {"written"}) => t.queue # <<>>,
         u.queue = Enqueued(t.queue, packet), u.ready = t.ready
  PROVE  TcpOrder(u, next, w)
<1>1. t.queue \in Seq(Packets)
  BY MemberTypes
<1>2. /\ u.queue \in Seq(Packets) /\ u.queue # <<>>
      /\ t.queue # <<>> => Head(u.queue) = Head(t.queue)
      /\ u.queue = Append(t.queue, packet) \/ (u.queue = t.queue /\ packet = Sub)
  BY <1>1, EnqueuedPacket
<1>3. Twice(u) = Twice(t) /\ Twice(t) \in {0, 1} /\ Len(w) \in Nat
  BY <1>2, LenProperties DEF Twice
<1>4. next \in Nat /\ pubs <= next /\ Twice(u) <= Len(w) /\ Len(w) - Twice(u) <= next
  BY <1>3 DEF NextPacket, TcpOrder
<1>5. CASE u.queue = t.queue /\ packet = Sub
  BY <1>3, <1>5 DEF NextPacket, TcpOrder, Sub
<1>6. CASE u.queue = Append(t.queue, packet)
  <2>1. packet # Sub => \A p \in Nat \ {Sub} : Holds(t.queue, p) => p < packet
    BY DEF TcpOrder, NextPacket
  <2>2. Ascending(u.queue)
    BY <1>1, <1>6, <2>1, AppendAscending DEF TcpOrder
  <2>3. \A p : Holds(u.queue, p) <=> Holds(t.queue, p) \/ p = packet
    BY <1>1, <1>6, AppendHolds
  <2>4. ASSUME NEW p \in Nat \ {Sub} PROVE Holds(u.queue, p) <=> Len(w) - Twice(u) < p /\ p <= next
    <3>1. Holds(t.queue, p) <=> Len(w) - Twice(t) < p /\ p <= pubs
      BY DEF TcpOrder
    <3>2. CASE packet = Sub /\ next = pubs
      BY <1>3, <2>3, <3>1, <3>2
    <3>3. CASE packet = pubs + 1 /\ next = pubs + 1
      <4>1. Len(w) - Twice(t) <= pubs
        BY DEF TcpOrder
      <4> QED BY <1>3, <2>3, <3>1, <3>3, <4>1
    <3> QED BY <3>2, <3>3 DEF NextPacket
  <2>5. \A i \in 1..Len(w) : w[i] = i
    BY DEF TcpOrder
  <2> QED BY <1>4, <2>2, <2>4, <2>5 DEF TcpOrder
<1> QED BY <1>2, <1>5, <1>6

LEMMA WriteRuns ==
  ASSUME NEW t \in Transports, NEW reader, NEW shut, NEW packet \in Packets,
         NEW pubs \in Nat, NEW next, NEW w \in Seq(Nat), NextPacket(packet, pubs, next),
         TcpRuns(t, reader, shut), TcpOrder(t, pubs, w)
  PROVE  LET u == TcpAsyncWrite(t, packet)
         IN  /\ u \in Transports /\ u.protocol = t.protocol /\ u.threw = t.threw
             /\ TcpRuns(u, reader, shut) /\ TcpOrder(u, next, w)
<1> DEFINE q == Enqueued(t.queue, packet)
<1>1. /\ t.queue \in Seq(Packets) /\ q \in Seq(Packets) /\ q # <<>>
      /\ Len(q) = 1 <=> t.queue = <<>>
  BY MemberTypes, EnqueuedPacket
<1> HIDE DEF q
<1>2. PICK v : v = [t EXCEPT !.queue = q]
  OBVIOUS
<1>3. /\ v \in Transports /\ SameConnection(t, v) /\ v.threw = t.threw /\ v.timer = t.timer
      /\ v.queue = q /\ v.writes = t.writes /\ v.reads = t.reads /\ v.ready = t.ready
  BY <1>1, <1>2 DEF Transports, SameConnection, Packets
<1>4. Stage(v, shut) /\ Reading(v, reader) /\ Turn(v.writes, v.ready, WriteOps)
  BY <1>3, StageSame DEF TcpRuns, Reading, Begun, Writing, SameConnection
<1>5. TcpOrder(v, next, w)
  <2>1. ~Lacks(t.ready, {"written"}) => t.queue # <<>>
    BY DEF TcpRuns, Writing
  <2>2. v.queue = Enqueued(t.queue, packet)
    BY <1>3 DEF q
  <2> QED BY <1>3, <2>1, <2>2, OrderEnqueued
<1>6. PICK e : e = EnsureConnected(v)
  OBVIOUS
<1>7. /\ e \in Transports /\ Stage(e, shut) /\ e.protocol = v.protocol /\ e.threw = v.threw
      /\ e.queue = v.queue /\ e.ready = v.ready /\ e.writes = v.writes /\ e.reads = v.reads
      /\ e.readFromConnect = v.readFromConnect /\ e.hears = v.hears
      /\ e.isConnected = 1 <=> v.isConnected = 1
      /\ e.isConnected = 1 => e.socket = v.socket
  BY <1>3, <1>4, <1>6, EnsureConnectedStage
<1>8. Reading(e, reader) /\ Turn(e.writes, e.ready, WriteOps) /\ TcpOrder(e, next, w)
  BY <1>4, <1>5, <1>7, OrderSame DEF Reading, Begun
<1>9. TcpAsyncWrite(t, packet) = IF e.isConnected = 1 /\ Len(e.queue) = 1 THEN Send(e) ELSE e
  BY <1>2, <1>6 DEF TcpAsyncWrite, q
<1>10. CASE e.isConnected = 1 /\ Len(e.queue) = 1
  <2>1. t.queue = <<>> /\ t.isConnected = 1
    BY <1>1, <1>3, <1>7, <1>10 DEF SameConnection
  <2>2. ~Busy(e.writes, e.ready, WriteOps) /\ e.queue # <<>>
    BY <1>1, <1>3, <1>7, <2>1 DEF TcpRuns, Writing
  <2>3. PICK u : u = Send(e)
    OBVIOUS
  <2>4. /\ u \in Transports /\ TcpRuns(u, reader, shut)
        /\ SameConnection(e, u) /\ u.threw = e.threw /\ u.queue = e.queue
        /\ Lacks(u.ready, {"written"}) <=> Lacks(e.ready, {"written"})
    BY <1>7, <1>8, <1>10, <2>2, <2>3, SendRuns
  <2>5. TcpOrder(u, next, w)
    BY <1>8, <2>4, OrderSame
  <2> QED BY <1>3, <1>7, <1>9, <1>10, <2>3, <2>4, <2>5 DEF SameConnection
<1>11. CASE ~(e.isConnected = 1 /\ Len(e.queue) = 1)
  <2>1. TcpAsyncWrite(t, packet) = e
    BY <1>9, <1>11
  <2>2. e.isConnected = 1 => t.isConnected = 1 /\ t.queue # <<>>
    BY <1>1, <1>3, <1>7, <1>11 DEF SameConnection
  <2>3. Writing(e)
    BY <1>1, <1>3, <1>7, <1>8, <2>2 DEF TcpRuns, Writing
  <2> QED BY <1>3, <1>7, <1>8, <2>1, <2>3 DEF TcpRuns, SameConnection
<1> QED BY <1>10, <1>11

LEMMA ReadRuns ==
  ASSUME NEW t \in Transports, NEW shut, Stage(t, shut), Writing(t),
         Turn(t.reads, t.ready, ReadOps), ~Busy(t.reads, t.ready, ReadOps),
         t.isConnected = 1 => Begun(t, TRUE)
  PROVE  LET u == TcpAsyncRead(t)
         IN  /\ u \in Transports /\ TcpRuns(u, TRUE, shut)
             /\ u.protocol = t.protocol /\ u.threw = t.threw /\ u.queue = t.queue
             /\ Lacks(u.ready, {"written"}) <=> Lacks(t.ready, {"written"})
<1>1. PICK e : e = EnsureConnected(t)
  OBVIOUS
<1>2. /\ e \in Transports /\ Stage(e, shut) /\ e.protocol = t.protocol /\ e.threw = t.threw
      /\ e.queue = t.queue /\ e.ready = t.ready /\ e.writes = t.writes /\ e.reads = t.reads
      /\ e.readFromConnect = t.readFromConnect /\ e.hears = t.hears
      /\ e.isConnected = 1 <=> t.isConnected = 1
  BY <1>1, EnsureConnectedStage
<1>3. Writing(e) /\ (e.isConnected = 1 => Begun(e, TRUE))
  BY <1>2 DEF Writing, Begun
<1>4. TcpAsyncRead(t) = IF e.isConnected = 1 THEN Receive(e) ELSE [e EXCEPT !.readFromConnect = TRUE, !.hears = "always"]
  BY <1>1 DEF TcpAsyncRead
<1>5. CASE e.isConnected = 1
  <2>1. PICK u : u = Receive(e)
    OBVIOUS
  <2>2. /\ u \in Transports /\ TcpRuns(u, TRUE, shut)
        /\ SameConnection(e, u) /\ u.threw = e.threw /\ u.queue = e.queue
        /\ \A ops : "readFailed" \notin ops => (Lacks(u.ready, ops) <=> Lacks(e.ready, ops))
    BY <1>2, <1>3, <1>5, <2>1, ReceiveRuns
  <2>3. Lacks(u.ready, {"written"}) <=> Lacks(e.ready, {"written"})
    BY <2>2
  <2> QED BY <1>2, <1>4, <1>5, <2>1, <2>2, <2>3 DEF SameConnection
<1>6. CASE e.isConnected # 1
  <2>1. PICK u : u = [e EXCEPT !.readFromConnect = TRUE, !.hears = "always"]
    OBVIOUS
  <2>2. /\ u \in Transports /\ u.protocol = e.protocol /\ u.threw = e.threw /\ u.timer = e.timer
        /\ u.socket = e.socket /\ u.isConnected = e.isConnected /\ u.resolves = e.resolves
        /\ u.queue = e.queue /\ u.writes = e.writes /\ u.reads = e.reads /\ u.ready = e.ready
        /\ u.readFromConnect
    BY <1>2, <2>1 DEF Transports
  <2>3. Stage(u, shut)
    BY <1>2, <2>2 DEF Stage, Connection, Unconnected, Resolving, Connecting, HasConnected, Connected,
         Outstanding, TimeLimit
  <2>4. Reading(u, TRUE)
    BY <1>2, <1>6, <2>2 DEF Reading, Begun
  <2>5. Writing(u)
    BY <1>3, <2>2 DEF Writing
  <2> QED BY <1>2, <1>4, <1>6, <2>1, <2>2, <2>3, <2>4, <2>5 DEF TcpRuns
<1> QED BY <1>5, <1>6

-----------------------------------------------------------------------------
(***************************************************************************)
(* The functions of the UdpTransport.                                      *)
(***************************************************************************)
LEMMA UdpCloseRuns ==
  ASSUME NEW t \in Transports, NEW reader, NEW pubs, NEW w,
         UdpOrder(t, pubs, w), UdpSocket(t), UdpReading(t, reader)
  PROVE  LET u == UdpClose(t)
         IN  /\ u \in Transports /\ u.protocol = t.protocol /\ u.threw = t.threw
             /\ UdpOrder(u, pubs, w) /\ NoneLost(u, pubs, w) /\ UdpSocket(u)
             /\ UdpReading(u, reader) /\ UdpReads(u, reader)
<1>1. CASE t.socket = "closed"
  <2>1. UdpClose(t) = t
    BY <1>1 DEF UdpClose
  <2> QED BY <1>1, <2>1 DEF NoneLost, UdpReads
<1>2. CASE t.socket # "closed"
  <2> DEFINE r == IF t.reads = 1 THEN Append(t.ready, "readCanceled") ELSE t.ready
  <2>1. t.reads \in {0, 1} /\ t.ready \in Seq(Handlers) /\ t.ready \in Seq(UdpReady)
    BY MemberTypes DEF UdpReading, UdpSocket, Turn
  <2>2. t.ready \o [i \in 1..t.reads |-> "readCanceled"] = r
    BY <2>1, ReadyRepeat DEF Handlers
  <2>3. r \in Seq(Handlers) /\ r \in Seq(UdpReady)
    BY <2>1, AppendProperties DEF Handlers, UdpReady
  <2>4. Lacks(r, ReadOps) <=> Lacks(t.ready, ReadOps)
    <3>1. "readCanceled" \in Handlers /\ "readCanceled" \notin ReadOps
      BY DEF Handlers, ReadOps
    <3> QED BY <2>1, <3>1, AppendLacks
  <2>5. AtMostOne(r, ReadOps)
    <3>1. "readCanceled" \in Handlers /\ "readCanceled" \notin ReadOps
      BY DEF Handlers, ReadOps
    <3> QED BY <2>1, <3>1, AppendLacks DEF UdpReading, Turn
  <2> HIDE DEF r
  <2>6. PICK u : u = [t EXCEPT !.socket = "closed", !.queue = <<>>, !.writes = 0, !.reads = 0, !.ready = r]
    OBVIOUS
  <2>7. UdpClose(t) = u
    BY <1>2, <2>2, <2>6 DEF UdpClose
  <2>8. /\ u \in Transports /\ u.protocol = t.protocol /\ u.threw = t.threw
        /\ u.isConnected = t.isConnected /\ u.resolves = t.resolves /\ u.timer = t.timer
        /\ u.readFromConnect = t.readFromConnect
        /\ u.socket = "closed" /\ u.queue = <<>> /\ u.writes = 0 /\ u.reads = 0 /\ u.ready = r
    <3>1. <<>> \in Seq(0..MaxPubs)
      OBVIOUS
    <3> QED BY <2>3, <2>6, <3>1 DEF Transports
  <2>9. UdpOrder(u, pubs, w)
    BY <2>8 DEF UdpOrder, Ascending, Holds
  <2>10. UdpSocket(u)
    BY <2>3, <2>8 DEF UdpSocket
  <2>11. UdpReading(u, reader)
    BY <2>4, <2>5, <2>8 DEF UdpReading, Turn, Busy
  <2> QED BY <2>7, <2>8, <2>9, <2>10, <2>11 DEF NoneLost, UdpReads
<1> QED BY <1>1, <1>2

LEMMA UdpReadRuns ==
  ASSUME NEW t \in Transports, NEW pubs, NEW w, NEW reader,
         UdpOrder(t, pubs, w), NoneLost(t, pubs, w), UdpSocket(t), UdpReading(t, reader),
         ~Busy(t.reads, t.ready, ReadOps)
  PROVE  LET u == UdpAsyncRead(t)
         IN  /\ u \in Transports /\ u.protocol = t.protocol /\ u.threw = t.threw
             /\ UdpOrder(u, pubs, w) /\ NoneLost(u, pubs, w) /\ UdpSocket(u)
             /\ UdpReading(u, TRUE) /\ UdpReads(u, TRUE)
<1>1. Turn(t.reads, t.ready, ReadOps) /\ t.reads = 0 /\ t.ready \in Seq(UdpReady)
  BY TurnStarts DEF UdpReading, UdpSocket
<1>2. PICK u : u = UdpAsyncRead(t)
  OBVIOUS
<1>3. CASE t.socket = "closed"
  <2>1. "readFailed" \in Handlers /\ "readFailed" \in UdpReady /\ "readFailed" \in ReadOps
    BY DEF Handlers, UdpReady, ReadOps
  <2>2. u = Post(t, "readFailed")
    BY <1>2, <1>3 DEF UdpAsyncRead
  <2>3. /\ u \in Transports /\ SameConnection(t, u) /\ u.threw = t.threw
        /\ u.timer = t.timer /\ u.queue = t.queue /\ u.writes = t.writes /\ u.reads = t.reads
        /\ u.ready = Append(t.ready, "readFailed")
    BY <2>1, <2>2, PostMembers
  <2>4. u.ready \in Seq(UdpReady) /\ Turn(0, u.ready, ReadOps) /\ Busy(0, u.ready, ReadOps)
    BY <1>1, <2>1, <2>3, AppendLacks, TurnAppend
  <2>5. UdpOrder(u, pubs, w) /\ NoneLost(u, pubs, w) /\ UdpSocket(u)
    BY <1>1, <1>3, <2>3, <2>4 DEF UdpOrder, NoneLost, UdpSocket, SameConnection
  <2>6. UdpReading(u, TRUE) /\ UdpReads(u, TRUE)
    BY <1>1, <2>3, <2>4 DEF UdpReading, UdpReads
  <2> QED BY <1>2, <2>3, <2>5, <2>6 DEF SameConnection
<1>4. CASE t.socket # "closed"
  <2>1. /\ u \in Transports /\ SameConnection(t, u) /\ u.threw = t.threw
        /\ u.timer = t.timer /\ u.queue = t.queue /\ u.writes = t.writes /\ u.reads = 1
        /\ u.ready = t.ready
    <3>1. u = [t EXCEPT !.reads = 1]
      BY <1>1, <1>2, <1>4 DEF UdpAsyncRead
    <3> QED BY <3>1 DEF Transports, SameConnection
  <2>2. Turn(1, t.ready, ReadOps) /\ Busy(1, t.ready, ReadOps)
    BY <1>1, TurnStarts
  <2>3. UdpOrder(u, pubs, w) /\ NoneLost(u, pubs, w) /\ UdpSocket(u)
    BY <1>1, <1>4, <2>1 DEF UdpOrder, NoneLost, UdpSocket, SameConnection
  <2>4. UdpReading(u, TRUE) /\ UdpReads(u, TRUE)
    BY <2>1, <2>2 DEF UdpReading, UdpReads
  <2> QED BY <1>2, <2>1, <2>3, <2>4 DEF SameConnection
<1> QED BY <1>3, <1>4

LEMMA UdpWriteRuns ==
  ASSUME NEW t \in Transports, NEW reader, NEW packet \in Packets,
         NEW pubs \in Nat, NEW next, NEW w \in Seq(Packets), NextPacket(packet, pubs, next),
         UdpOrder(t, pubs, w), NoneLost(t, pubs, w), UdpSocket(t),
         UdpReading(t, reader), UdpReads(t, reader)
  PROVE  LET u == UdpAsyncWrite(t, packet)
         IN  /\ u \in Transports /\ u.protocol = t.protocol /\ u.threw = t.threw
             /\ UdpOrder(u, next, w) /\ NoneLost(u, next, w) /\ UdpSocket(u)
             /\ UdpReading(u, reader) /\ UdpReads(u, reader)
<1>1. next \in Nat /\ pubs <= next
  BY DEF NextPacket
<1>2. t.queue \in Seq(Packets) /\ t.ready \in Seq(UdpReady)
  BY MemberTypes DEF UdpSocket
<1>3. PICK u : u = UdpAsyncWrite(t, packet)
  OBVIOUS
<1>4. CASE u = t /\ (packet = Sub \/ t.socket = "closed")
  <2>1. UdpOrder(u, next, w) /\ NoneLost(u, next, w)
    BY <1>1, <1>4 DEF UdpOrder, NoneLost, NextPacket, Sub
  <2> QED BY <1>3, <1>4, <2>1
<1>5. CASE u = Post(t, "writeFailed") /\ t.socket = "closed"
  <2>1. "writeFailed" \in Handlers /\ "writeFailed" \in UdpReady /\ "writeFailed" \notin ReadOps
    BY DEF Handlers, UdpReady, ReadOps
  <2>2. /\ u \in Transports /\ SameConnection(t, u) /\ u.threw = t.threw
        /\ u.timer = t.timer /\ u.queue = t.queue /\ u.writes = t.writes /\ u.reads = t.reads
        /\ u.ready = Append(t.ready, "writeFailed")
    BY <1>5, <2>1, PostMembers
  <2>3. /\ u.ready \in Seq(UdpReady)
        /\ Turn(t.reads, u.ready, ReadOps)
        /\ Busy(t.reads, u.ready, ReadOps) <=> Busy(t.reads, t.ready, ReadOps)
    BY <1>2, <2>1, <2>2, AppendLacks, TurnAppend DEF UdpReading
  <2>4. UdpOrder(u, next, w)
    BY <1>1, <2>2 DEF UdpOrder
  <2>5. NoneLost(u, next, w) /\ UdpSocket(u) /\ UdpReading(u, reader) /\ UdpReads(u, reader)
    BY <1>5, <2>2, <2>3 DEF NoneLost, UdpSocket, UdpReading, UdpReads, SameConnection
  <2> QED BY <1>3, <2>2, <2>4, <2>5 DEF SameConnection
<1>6. CASE u = [t EXCEPT !.queue = Append(@, packet), !.writes = @ + 1] /\ t.socket # "closed"
  <2>1. PICK q \in Seq(Packets), n \in Nat : q = Append(t.queue, packet) /\ n = t.writes + 1
    <3>1. Append(t.queue, packet) \in Seq(Packets)
      BY <1>2, AppendProperties
    <3>2. t.writes + 1 \in Nat
      BY MemberTypes
    <3> QED BY <3>1, <3>2
  <2>2. /\ u \in Transports /\ SameConnection(t, u) /\ u.threw = t.threw
        /\ u.timer = t.timer /\ u.queue = Append(t.queue, packet) /\ u.writes = t.writes + 1
        /\ u.reads = t.reads /\ u.ready = t.ready
    <3>1. u = [t EXCEPT !.queue = q, !.writes = n]
      BY <1>6, <2>1
    <3>2. /\ u \in Transports /\ SameConnection(t, u) /\ u.threw = t.threw
          /\ u.timer = t.timer /\ u.queue = q /\ u.writes = n
          /\ u.reads = t.reads /\ u.ready = t.ready
      BY <3>1 DEF Transports, SameConnection, Packets
    <3> QED BY <2>1, <3>2
  <2>3. UdpSocket(u)
    <3>1. Len(u.queue) = Len(t.queue) + 1
      BY <1>2, <2>2, AppendProperties
    <3> QED BY <1>6, <2>2, <3>1 DEF UdpSocket, SameConnection
  <2>4. \A p : Holds(u.queue, p) <=> Holds(t.queue, p) \/ p = packet
    BY <1>2, <2>2, AppendHolds
  <2>5. packet # Sub => \A p \in Nat \ {Sub} : Holds(t.queue, p) \/ Holds(w, p) => p < packet
    BY DEF UdpOrder, NextPacket
  <2>6. Ascending(u.queue)
    BY <1>2, <2>2, <2>5, AppendAscending DEF UdpOrder
  <2>7. UdpOrder(u, next, w)
    BY <1>1, <2>4, <2>5, <2>6 DEF UdpOrder, NextPacket
  <2>8. NoneLost(u, next, w)
    BY <1>6, <2>2, <2>4 DEF NoneLost, NextPacket, SameConnection
  <2>9. UdpReading(u, reader) /\ UdpReads(u, reader)
    BY <2>2 DEF UdpReading, UdpReads, SameConnection
  <2> QED BY <1>3, <2>2, <2>3, <2>7, <2>8, <2>9 DEF SameConnection
<1>7. \/ u = t /\ (packet = Sub \/ t.socket = "closed")
      \/ u = Post(t, "writeFailed") /\ t.socket = "closed"
      \/ u = [t EXCEPT !.queue = Append(@, packet), !.writes = @ + 1] /\ t.socket # "closed"
  BY <1>3 DEF UdpAsyncWrite
<1> QED BY <1>4, <1>5, <1>6, <1>7

-----------------------------------------------------------------------------
(***************************************************************************)
(* The virtual functions of Transport.                                     *)
(***************************************************************************)
LEMMA AsyncWriteRuns ==
  ASSUME NEW t, NEW reader, NEW shut, NEW packet \in Packets,
         NEW pubs \in Nat, NEW next, NEW w \in Seq(Packets), NextPacket(packet, pubs, next),
         TransportInv(t, TRUE, reader, shut, pubs, w)
  PROVE  /\ AsyncWrite(t, packet).threw = t.threw
         /\ TransportInv(AsyncWrite(t, packet), TRUE, reader, shut, next, w)
<1> t \in Transports /\ t.protocol \in {"tcp", "udp"}
  BY MemberTypes DEF TransportInv
<1>1. CASE t.protocol = "tcp"
  <2>1. w \in Seq(Nat)
    <3>1. Packets \subseteq Nat
      BY DEF Packets
    <3>2. Seq(Packets) \subseteq Seq(Nat)
      BY <3>1, SeqSubset
    <3> QED BY <3>2
  <2>2. PICK u : u = TcpAsyncWrite(t, packet)
    OBVIOUS
  <2>3. /\ u \in Transports /\ u.protocol = t.protocol /\ u.threw = t.threw
        /\ TcpRuns(u, reader, shut) /\ TcpOrder(u, next, w)
    BY <1>1, <2>1, <2>2, WriteRuns DEF TransportInv
  <2>4. AsyncWrite(t, packet) = u
    BY <1>1, <2>2 DEF AsyncWrite
  <2> QED BY <1>1, <2>3, <2>4 DEF TransportInv
<1>2. CASE t.protocol = "udp"
  <2>1. PICK u : u = UdpAsyncWrite(t, packet)
    OBVIOUS
  <2>2. /\ u \in Transports /\ u.protocol = t.protocol /\ u.threw = t.threw
        /\ UdpOrder(u, next, w) /\ NoneLost(u, next, w) /\ UdpSocket(u)
        /\ UdpReading(u, reader) /\ UdpReads(u, reader)
    BY <1>2, <2>1, UdpWriteRuns DEF TransportInv
  <2>3. AsyncWrite(t, packet) = u
    BY <1>2, <2>1 DEF AsyncWrite
  <2> QED BY <1>2, <2>2, <2>3 DEF TransportInv
<1> QED BY <1>1, <1>2

LEMMA AsyncReadRuns ==
  ASSUME NEW t, NEW reader, NEW shut, NEW pubs, NEW w,
         BetweenReads(t, reader, shut, pubs, w), ~Busy(t.reads, t.ready, ReadOps),
         t.isConnected = 1 => Begun(t, TRUE)
  PROVE  /\ AsyncRead(t).threw = t.threw
         /\ TransportInv(AsyncRead(t), TRUE, TRUE, shut, pubs, w)
<1> t \in Transports /\ t.protocol \in {"tcp", "udp"}
  BY MemberTypes DEF BetweenReads
<1>1. CASE t.protocol = "tcp"
  <2>1. PICK u : u = TcpAsyncRead(t)
    OBVIOUS
  <2>2. /\ u \in Transports /\ TcpRuns(u, TRUE, shut)
        /\ u.protocol = t.protocol /\ u.threw = t.threw /\ u.queue = t.queue
        /\ Lacks(u.ready, {"written"}) <=> Lacks(t.ready, {"written"})
    BY <1>1, <2>1, ReadRuns DEF BetweenReads
  <2>3. TcpOrder(u, pubs, w)
    BY <1>1, <2>2, OrderSame DEF BetweenReads
  <2>4. AsyncRead(t) = u
    BY <1>1, <2>1 DEF AsyncRead
  <2> QED BY <1>1, <2>2, <2>3, <2>4 DEF TransportInv
<1>2. CASE t.protocol = "udp"
  <2>1. PICK u : u = UdpAsyncRead(t)
    OBVIOUS
  <2>2. /\ u \in Transports /\ u.protocol = t.protocol /\ u.threw = t.threw
        /\ UdpOrder(u, pubs, w) /\ NoneLost(u, pubs, w) /\ UdpSocket(u)
        /\ UdpReading(u, TRUE) /\ UdpReads(u, TRUE)
    BY <1>2, <2>1, UdpReadRuns DEF BetweenReads
  <2>3. AsyncRead(t) = u
    BY <1>2, <2>1 DEF AsyncRead
  <2> QED BY <1>2, <2>2, <2>3 DEF TransportInv
<1> QED BY <1>1, <1>2

LEMMA TransportCloses ==
  ASSUME NEW t, NEW reader, NEW shut, NEW closes, NEW pubs, NEW w,
         BetweenReads(t, reader, shut, pubs, w), ~t.threw,
         closes \/ (closes = shut /\ (t.protocol = "tcp" =>
                                        t.isConnected # 0 /\ Lacks(t.ready, ReadOps)))
  PROVE  TransportInv(Close(t), ~Close(t).threw, reader, closes, pubs, w)
<1> t \in Transports /\ t.protocol \in {"tcp", "udp"}
  BY MemberTypes DEF BetweenReads
<1>1. CASE t.protocol = "tcp"
  <2>1. PICK u : u = TcpClose(t)
    OBVIOUS
  <2>2. /\ Stage(t, shut) /\ Turn(t.reads, t.ready, ReadOps)
        /\ Begun(t, reader)
        /\ Turn(t.writes, t.ready, WriteOps)
        /\ t.writes = 1 \/ ~Lacks(t.ready, {"written"}) => t.queue # <<>>
        /\ TcpOrder(t, pubs, w)
    BY <1>1 DEF BetweenReads, Writing
  <2>3. closes \/ (closes = shut /\ t.isConnected # 0 /\ Lacks(t.ready, ReadOps))
    BY <1>1
  <2>4. /\ u \in Transports /\ u.protocol = t.protocol
        /\ u.queue = t.queue /\ u.ready = t.ready
        /\ ~u.threw => TcpRuns(u, reader, closes)
    BY <2>1, <2>2, <2>3, CloseRuns
  <2>5. TcpOrder(u, pubs, w)
    BY <2>2, <2>4, OrderSame
  <2>6. Close(t) = u
    BY <1>1, <2>1 DEF Close
  <2> QED BY <1>1, <2>4, <2>5, <2>6 DEF TransportInv
<1>2. CASE t.protocol = "udp"
  <2>1. PICK u : u = UdpClose(t)
    OBVIOUS
  <2>2. /\ u \in Transports /\ u.protocol = t.protocol /\ u.threw = t.threw
        /\ UdpOrder(u, pubs, w) /\ NoneLost(u, pubs, w) /\ UdpSocket(u)
        /\ UdpReading(u, reader) /\ UdpReads(u, reader)
    BY <1>2, <2>1, UdpCloseRuns DEF BetweenReads
  <2>3. Close(t) = u
    BY <1>2, <2>1 DEF Close
  <2> QED BY <1>2, <2>2, <2>3 DEF TransportInv
<1> QED BY <1>1, <1>2

-----------------------------------------------------------------------------
(***************************************************************************)
(* Where a handler leaves the transport.                                   *)
(***************************************************************************)
SameMembers(t, u) ==
  /\ SameConnection(t, u) /\ u.timer = t.timer /\ u.queue = t.queue
  /\ u.writes = t.writes /\ u.reads = t.reads /\ u.ready = t.ready

LEMMA InvOfMembers ==
  ASSUME NEW t, NEW u \in Transports, SameMembers(t, u),
         NEW running, NEW reader, NEW shut, NEW pubs, NEW w,
         TransportInv(t, running, reader, shut, pubs, w)
  PROVE  TransportInv(u, running, reader, shut, pubs, w)
<1>1. ASSUME running, t.protocol = "tcp" PROVE TcpOrder(u, pubs, w) /\ TcpRuns(u, reader, shut)
  <2>1. TcpOrder(u, pubs, w)
    BY <1>1, OrderSame DEF TransportInv, SameMembers
  <2>2. Stage(u, shut)
    BY <1>1, StageSame DEF TransportInv, TcpRuns, SameMembers
  <2>3. Reading(u, reader) /\ Writing(u)
    BY <1>1 DEF TransportInv, TcpRuns, SameMembers, SameConnection, Reading, Begun, Writing
  <2> QED BY <2>1, <2>2, <2>3 DEF TcpRuns
<1>2. ASSUME running, t.protocol = "udp"
      PROVE  /\ UdpOrder(u, pubs, w) /\ NoneLost(u, pubs, w) /\ UdpSocket(u)
             /\ UdpReading(u, reader) /\ UdpReads(u, reader)
  BY <1>2 DEF TransportInv, SameMembers, SameConnection, UdpOrder, NoneLost, UdpSocket,
     UdpReading, UdpReads
<1> QED BY <1>1, <1>2 DEF TransportInv, SameMembers, SameConnection

LEMMA NewMembers ==
  ASSUME NEW protocol \in {"tcp", "udp"}, NEW socket \in {"closed", "up"}
  PROVE  LET t == NewTransport(protocol, socket)
         IN  /\ t \in Transports /\ ~t.threw /\ t.protocol = protocol /\ t.socket = socket
             /\ t.isConnected = -1 /\ t.resolves = 0 /\ t.timer = "off" /\ ~t.readFromConnect
             /\ t.queue = <<>> /\ t.writes = 0 /\ t.reads = 0 /\ t.ready = <<>>
<1>1. <<>> \in Seq(Handlers) /\ <<>> \in Seq(0..MaxPubs)
  OBVIOUS
<1> QED BY <1>1 DEF NewTransport, Transports

(* A handler leaves the transport t, or ends the program. *)
LEMMA Arrives ==
  ASSUME NEW t, Becomes(t), NEW reader, NEW shut, NEW pubs, NEW w,
         subscribing' = reader, reader \in BOOLEAN,
         resendTimer' \in {"armed", "off"},
         published' = pubs, pubs \in 0..MaxPubs,
         wire' = w, w \in Seq(1..MaxPubs),
         shutDown' = shut, shut \in BOOLEAN,
         TransportInv(t, ~t.threw, reader, shut, pubs, w)
  PROVE  ClientInv'
<1>1. t \in Transports /\ t.protocol \in {"tcp", "udp"}
  BY MemberTypes DEF TransportInv
<1>2. CASE t.threw
  <2>1. PICK u : u = NewTransport(t.protocol, "closed")
    OBVIOUS
  <2>2. u \in Transports /\ ~u.threw
    BY <1>1, <2>1, NewMembers
  <2>3. transport' = u /\ status' = "ended"
    BY <1>2, <2>1 DEF Becomes
  <2>4. TransportInv(u, FALSE, reader, shut, pubs, w)
    BY <2>2 DEF TransportInv
  <2> QED BY <2>2, <2>3, <2>4 DEF ClientInv, TypeOK
<1>3. CASE ~t.threw
  <2>1. transport' = t /\ status' = "runs"
    BY <1>3 DEF Becomes
  <2>2. TransportInv(t, TRUE, reader, shut, pubs, w)
    BY <1>3
  <2> QED BY <1>1, <1>3, <2>1, <2>2 DEF ClientInv, TypeOK
<1> QED BY <1>2, <1>3

(* An exception ends it, whatever else is true of the transport. *)
LEMMA Throws ==
  ASSUME NEW t \in Transports, NEW reader, NEW shut, NEW pubs, NEW w
  PROVE  TransportInv(Throw(t), ~Throw(t).threw, reader, shut, pubs, w)
<1>1. Throw(t) \in Transports /\ Throw(t).threw
  BY DEF Throw, Transports
<1> QED BY <1>1 DEF TransportInv

(* The same for what happens outside of the program. *)
LEMMA Happens ==
  ASSUME ClientInv, status = "runs", UNCHANGED <<subscribing, status, appVars>>,
         NEW u, transport' = u, ~u.threw, resendTimer' \in {"armed", "off"},
         NEW w, wire' = w, w \in Seq(1..MaxPubs),
         TransportInv(u, TRUE, subscribing, shutDown, published, w)
  PROVE  ClientInv'
<1>1. TransportInv(u, status = "runs", subscribing, shutDown, published, w)
  OBVIOUS
<1>2. u \in Transports
  BY DEF TransportInv
<1> QED BY <1>1, <1>2 DEF ClientInv, TypeOK, appVars

-----------------------------------------------------------------------------
(* A handler that does not make the connection leaves the queue of those   *)
(* that are ready; one of a read leaves the transport without a read.      *)
LEMMA HandlerLeaves ==
  ASSUME ClientInv, status = "runs", transport.ready # <<>>,
         Head(transport.ready) \notin ResolveOps, Head(transport.ready) \notin ConnectOps,
         Head(transport.ready) # "connectTimedOut", Head(transport.ready) # "writeFailed",
         Head(transport.ready) # "written" \/ transport.protocol = "udp"
  PROVE  /\ Handling \in Transports /\ ~Handling.threw /\ SameConnection(transport, Handling)
         /\ BetweenReads(Handling, subscribing, shutDown, published, wire)
         /\ Head(transport.ready) \in ReadOps => /\ subscribing
                                                 /\ ~Busy(Handling.reads, Handling.ready, ReadOps)
         /\ Head(transport.ready) \notin ReadOps =>
              TransportInv(Handling, TRUE, subscribing, shutDown, published, wire)
<1> DEFINE t == transport
           h == Handling
<1>1. t \in Transports /\ ~t.threw /\ t.protocol \in {"tcp", "udp"} /\ t.ready \in Seq(Handlers)
      /\ TransportInv(t, TRUE, subscribing, shutDown, published, wire)
  BY MemberTypes DEF ClientInv, TypeOK
<1>2. /\ h \in Transports /\ SameConnection(t, h)
      /\ h.threw = t.threw /\ h.timer = t.timer /\ h.queue = t.queue /\ h.writes = t.writes
      /\ h.reads = t.reads /\ h.ready = Tail(t.ready)
  BY <1>1, HandlingMembers
<1> DEFINE x == Head(t.ready)
<1>3. x \in Handlers /\ \A ops : x \notin ops => (Lacks(h.ready, ops) <=> Lacks(t.ready, ops))
  BY <1>1, <1>2, TailLacks
<1>4. \A ops, n : Turn(n, t.ready, ops) =>
        /\ x \notin ops => /\ Turn(n, h.ready, ops)
                           /\ Busy(n, h.ready, ops) <=> Busy(n, t.ready, ops)
        /\ x \in ops => /\ n = 0
                        /\ Turn(0, h.ready, ops) /\ ~Busy(0, h.ready, ops)
                        /\ Busy(n, t.ready, ops)
  BY <1>1, <1>2, TurnTail, TailLacks DEF Busy
<1>5. x \notin ResolveOps /\ x \notin ConnectOps /\ x # "connectTimedOut" /\ x # "writeFailed"
      /\ (x # "written" \/ t.protocol = "udp") /\ t.ready # <<>>
  OBVIOUS
<1> HIDE DEF t, h, x
<1>6. CASE t.protocol = "tcp"
  <2>1. TcpOrder(t, published, wire) /\ Stage(t, shutDown) /\ Reading(t, subscribing) /\ Writing(t)
    BY <1>1, <1>6 DEF TransportInv, TcpRuns
  <2>2. x \notin WriteOps /\ x \notin {"written"}
    BY <1>5, <1>6 DEF WriteOps
  <2>3. TcpOrder(h, published, wire)
    BY <1>2, <1>3, <2>1, <2>2, OrderSame
  <2>4. Stage(h, shutDown)
    BY <1>1, <1>2, <1>5, <2>1, StageTail DEF x
  <2>5. Writing(h)
    <3>1. /\ Turn(h.writes, h.ready, WriteOps)
          /\ Busy(h.writes, h.ready, WriteOps) <=> Busy(t.writes, t.ready, WriteOps)
      BY <1>2, <1>4, <2>1, <2>2 DEF Writing
    <3>2. Lacks(h.ready, {"written"}) <=> Lacks(t.ready, {"written"})
      BY <1>3, <2>2
    <3> QED BY <1>2, <2>1, <3>1, <3>2 DEF Writing, SameConnection
  <2>6. /\ Turn(h.reads, h.ready, ReadOps)
        /\ x \notin ReadOps => (Busy(h.reads, h.ready, ReadOps) <=> Busy(t.reads, t.ready, ReadOps))
        /\ x \in ReadOps => ~Busy(h.reads, h.ready, ReadOps) /\ Busy(t.reads, t.ready, ReadOps)
    BY <1>2, <1>4, <2>1 DEF Reading
  <2>7. x \in ReadOps => subscribing
    BY <2>1, <2>6 DEF Reading, Begun
  <2>8. Begun(h, subscribing)
    BY <1>2, <2>1, <2>6 DEF Reading, Begun, SameConnection
  <2>9. BetweenReads(h, subscribing, shutDown, published, wire)
    BY <1>2, <1>6, <2>3, <2>4, <2>5, <2>6, <2>8 DEF BetweenReads, SameConnection
  <2>10. ASSUME x \notin ReadOps PROVE TransportInv(h, TRUE, subscribing, shutDown, published, wire)
    <3>1. Reading(h, subscribing)
      BY <1>2, <2>1, <2>6, <2>8, <2>10 DEF Reading, Begun, SameConnection
    <3> QED BY <1>2, <1>6, <2>3, <2>4, <2>5, <3>1 DEF TransportInv, TcpRuns, SameConnection
  <2> QED BY <1>1, <1>2, <2>6, <2>7, <2>9, <2>10 DEF t, h, x
<1>7. CASE t.protocol = "udp"
  <2>1. /\ UdpOrder(t, published, wire) /\ NoneLost(t, published, wire) /\ UdpSocket(t)
        /\ UdpReading(t, subscribing) /\ UdpReads(t, subscribing)
    BY <1>1, <1>7 DEF TransportInv
  <2>2. UdpOrder(h, published, wire)
    BY <1>2, <2>1 DEF UdpOrder
  <2>3. NoneLost(h, published, wire)
    <3>1. Lacks(h.ready, {"writeFailed"}) <=> Lacks(t.ready, {"writeFailed"})
      BY <1>3, <1>5
    <3> QED BY <1>2, <2>1, <3>1 DEF NoneLost, SameConnection
  <2>4. UdpSocket(h)
    <3>1. h.ready \in Seq(UdpReady)
      <4>1. t.ready \in Seq(UdpReady) /\ t.ready # <<>>
        BY <2>1 DEF UdpSocket, t
      <4> QED BY <1>2, <4>1, TailLacks
    <3> QED BY <1>2, <2>1, <3>1 DEF UdpSocket, SameConnection
  <2>5. /\ Turn(h.reads, h.ready, ReadOps)
        /\ x \notin ReadOps => (Busy(h.reads, h.ready, ReadOps) <=> Busy(t.reads, t.ready, ReadOps))
        /\ x \in ReadOps => ~Busy(h.reads, h.ready, ReadOps) /\ Busy(t.reads, t.ready, ReadOps)
    BY <1>2, <1>4, <2>1 DEF UdpReading
  <2>6. x \in ReadOps => subscribing
    BY <2>1, <2>5 DEF UdpReading
  <2>7. UdpReading(h, subscribing)
    BY <2>1, <2>5 DEF UdpReading
  <2>8. BetweenReads(h, subscribing, shutDown, published, wire)
    BY <1>2, <1>7, <2>2, <2>3, <2>4, <2>7 DEF BetweenReads, SameConnection
  <2>9. ASSUME x \notin ReadOps PROVE TransportInv(h, TRUE, subscribing, shutDown, published, wire)
    <3>1. UdpReads(h, subscribing)
      BY <1>2, <2>1, <2>5, <2>9 DEF UdpReads, SameConnection
    <3> QED BY <1>2, <1>7, <2>2, <2>3, <2>4, <2>7, <3>1 DEF TransportInv, SameConnection
  <2> QED BY <1>1, <1>2, <2>5, <2>6, <2>8, <2>9 DEF t, h, x
<1> QED BY <1>1, <1>6, <1>7

-----------------------------------------------------------------------------
(***************************************************************************)
(* One lemma for each action: first those that use a virtual function of   *)
(* the transport.                                                          *)
(***************************************************************************)
LEMMA Types ==
  ASSUME ClientInv
  PROVE  /\ transport \in Transports /\ ~transport.threw
         /\ subscribing \in BOOLEAN /\ shutDown \in BOOLEAN
         /\ resendTimer \in {"armed", "off"}
         /\ published \in 0..MaxPubs /\ published \in Nat
         /\ wire \in Seq(1..MaxPubs) /\ wire \in Seq(Packets)
<1>1. 1..MaxPubs \subseteq Packets
  BY ClientAssumption DEF Packets
<1>2. Seq(1..MaxPubs) \subseteq Seq(Packets)
  BY <1>1, SeqSubset
<1> QED BY <1>2, ClientAssumption DEF ClientInv, TypeOK

(* What is true between handlers is true at the beginning of a handler.    *)
LEMMA InvBetweenReads ==
  ASSUME NEW t, NEW reader, NEW shut, NEW pubs, NEW w, TransportInv(t, TRUE, reader, shut, pubs, w)
  PROVE  BetweenReads(t, reader, shut, pubs, w)
  BY DEF TransportInv, BetweenReads, TcpRuns, Reading, UdpReading

(* The first asyncRead(). *)
LEMMA FirstReadRuns ==
  ASSUME NEW t, NEW shut, NEW pubs, NEW w, TransportInv(t, TRUE, FALSE, shut, pubs, w)
  PROVE  /\ FirstRead(t).threw = t.threw
         /\ TransportInv(FirstRead(t), TRUE, TRUE, shut, pubs, w)
<1>1. t \in Transports /\ t.protocol \in {"tcp", "udp"} /\ BetweenReads(t, FALSE, shut, pubs, w)
  BY InvBetweenReads, MemberTypes DEF TransportInv
<1>2. ~Busy(t.reads, t.ready, ReadOps)
  BY <1>1 DEF BetweenReads, Begun, UdpReading
<1>3. CASE t.isConnected = 1
  <2>1. PICK f : f = [t EXCEPT !.hears = "once"]
    OBVIOUS
  <2>2. /\ f \in Transports /\ f.protocol = t.protocol /\ f.socket = t.socket
        /\ f.isConnected = t.isConnected /\ f.resolves = t.resolves /\ f.timer = t.timer
        /\ f.readFromConnect = t.readFromConnect /\ f.threw = t.threw /\ f.hears = "once"
        /\ f.queue = t.queue /\ f.writes = t.writes /\ f.reads = t.reads /\ f.ready = t.ready
    BY <1>1, <2>1 DEF Transports
  <2>3. t.protocol = "tcp"
    BY <1>1, <1>3 DEF BetweenReads, UdpSocket
  <2>4. Stage(f, shut)
    BY <1>1, <2>2, <2>3 DEF BetweenReads, Stage, Connection, Unconnected, Resolving, Connecting,
         HasConnected, Connected, Outstanding, TimeLimit
  <2>5. TcpOrder(f, pubs, w)
    BY <1>1, <2>2, <2>3, OrderSame DEF BetweenReads
  <2>6. BetweenReads(f, FALSE, shut, pubs, w) /\ Begun(f, TRUE)
    BY <1>1, <2>2, <2>3, <2>4, <2>5 DEF BetweenReads, Writing, Begun
  <2>7. FirstRead(t) = AsyncRead(f)
    BY <1>3, <2>1 DEF FirstRead
  <2> QED BY <1>2, <2>2, <2>6, <2>7, AsyncReadRuns
<1>4. CASE t.isConnected # 1
  <2>1. FirstRead(t) = AsyncRead(t)
    BY <1>4 DEF FirstRead
  <2> QED BY <1>1, <1>2, <1>4, <2>1, AsyncReadRuns
<1> QED BY <1>3, <1>4

(* What subscribe() reads with. *)
LEMMA ReaderRuns ==
  ASSUME ClientInv, status = "runs"
  PROVE  ~Reader.threw /\ TransportInv(Reader, TRUE, TRUE, shutDown, published, wire)
<1>1. ~transport.threw /\ TransportInv(transport, TRUE, subscribing, shutDown, published, wire)
  BY DEF ClientInv, TypeOK
<1>2. CASE subscribing
  BY <1>1, <1>2, Types DEF Reader
<1>3. CASE ~subscribing
  <2>1. TransportInv(transport, TRUE, FALSE, shutDown, published, wire)
    BY <1>1, <1>3, Types
  <2> QED BY <1>1, <1>3, <2>1, FirstReadRuns DEF Reader
<1> QED BY <1>2, <1>3

LEMMA SubscribeInv ==
  ASSUME ClientInv, Subscribe
  PROVE  ClientInv'
<1> DEFINE u == Reader
           v == AsyncWrite(u, Sub)
<1>1. ~u.threw /\ TransportInv(u, TRUE, TRUE, shutDown, published, wire)
  BY ReaderRuns DEF Subscribe
<1>2. Becomes(v)
  BY DEF Subscribe
<1> HIDE DEF u
<1>3. ~v.threw /\ TransportInv(v, TRUE, TRUE, shutDown, published, wire)
  <2>1. Sub \in Packets /\ NextPacket(Sub, published, published)
    BY ClientAssumption DEF Packets, Sub, NextPacket
  <2> QED BY <1>1, <2>1, Types, AsyncWriteRuns
<1> HIDE DEF v
<1>4. TransportInv(v, ~v.threw, TRUE, shutDown, published, wire)
  BY <1>3
<1>5. /\ subscribing' = TRUE /\ resendTimer' \in {"armed", "off"} /\ published' = published
      /\ shutDown' = shutDown /\ wire' = wire
  BY DEF Subscribe, appVars
<1> QED BY <1>2, <1>4, <1>5, Types, Arrives

LEMMA SubscribeTooLongInv ==
  ASSUME ClientInv, SubscribeTooLong
  PROVE  ClientInv'
<1>1. PICK u, v : u = Reader /\ v = Throw(u)
  OBVIOUS
<1>2. u \in Transports
  BY <1>1, ReaderRuns DEF SubscribeTooLong, TransportInv
<1>3. TransportInv(v, ~v.threw, TRUE, shutDown, published, wire)
  BY <1>1, <1>2, Throws
<1>4. Becomes(v)
  BY <1>1 DEF SubscribeTooLong
<1>5. /\ subscribing' = TRUE /\ resendTimer' = "off" /\ published' = published
      /\ shutDown' = shutDown /\ wire' = wire
  BY DEF SubscribeTooLong, appVars
<1> QED BY <1>3, <1>4, <1>5, Types, Arrives

LEMMA PublishTooLongInv ==
  ASSUME ClientInv, PublishTooLong
  PROVE  ClientInv'
<1>1. PICK v : v = Throw(transport)
  OBVIOUS
<1>2. TransportInv(v, ~v.threw, subscribing, shutDown, published, wire)
  BY <1>1, Types, Throws
<1>3. Becomes(v)
  BY <1>1 DEF PublishTooLong
<1>4. /\ subscribing' = subscribing /\ resendTimer' = resendTimer /\ published' = published
      /\ shutDown' = shutDown /\ wire' = wire
  BY DEF PublishTooLong, faceVars, appVars
<1> QED BY <1>2, <1>3, <1>4, Types, Arrives

LEMMA PublishInv ==
  ASSUME ClientInv, Publish
  PROVE  ClientInv'
<1> DEFINE t == transport
           n == published + 1
           v == AsyncWrite(t, n)
<1>1. t \in Transports /\ ~t.threw /\ TransportInv(t, TRUE, subscribing, shutDown, published, wire)
  BY DEF ClientInv, TypeOK, Publish
<1>2. n \in 0..MaxPubs
  BY Types, ClientAssumption DEF Publish
<1>3. Becomes(v) /\ published' = n
  BY DEF Publish
<1> HIDE DEF t
<1>4. ~v.threw /\ TransportInv(v, TRUE, subscribing, shutDown, n, wire)
  <2>1. n \in Packets /\ NextPacket(n, published, n)
    BY <1>2 DEF Packets, NextPacket
  <2> QED BY <1>1, <2>1, Types, AsyncWriteRuns
<1> HIDE DEF v, n
<1>5. TransportInv(v, ~v.threw, subscribing, shutDown, n, wire)
  BY <1>4
<1>6. /\ subscribing' = subscribing /\ resendTimer' = resendTimer /\ shutDown' = shutDown
      /\ wire' = wire
  BY DEF Publish, faceVars
<1> QED BY <1>2, <1>3, <1>5, <1>6, Types, Arrives

LEMMA ShutdownInv ==
  ASSUME ClientInv, Shutdown
  PROVE  ClientInv'
<1> DEFINE t == transport
           v == Close(t)
<1>1. t \in Transports /\ ~t.threw /\ TransportInv(t, TRUE, subscribing, shutDown, published, wire)
  BY DEF ClientInv, TypeOK, Shutdown
<1>2. Becomes(v)
  BY DEF Shutdown
<1>3. BetweenReads(t, subscribing, shutDown, published, wire)
  BY <1>1, InvBetweenReads
<1> HIDE DEF t
<1>4. TransportInv(v, ~v.threw, subscribing, TRUE, published, wire)
  BY <1>1, <1>3, TransportCloses
<1> HIDE DEF v
<1>5. /\ subscribing' = subscribing /\ resendTimer' = "off" /\ published' = published
      /\ shutDown' = TRUE /\ wire' = wire
  BY DEF Shutdown
<1> QED BY <1>2, <1>4, <1>5, Types, Arrives

(* The callback, of a transport that is or is not closed.                  *)
LEMMA CallbackInv ==
  ASSUME ClientInv, NEW t, Callback(t), UNCHANGED <<subscribing, published, wire>>,
         t \in Transports,
         TransportInv(t, ~t.threw, subscribing, shutDown, published, wire)
  PROVE  ClientInv'
<1> USE Types
<1>1. CASE Becomes(t) /\ UNCHANGED <<resendTimer, shutDown>>
  BY <1>1, Arrives
<1>2. CASE /\ Becomes(IF t.threw THEN t ELSE Close(t))
           /\ resendTimer' = IF t.threw THEN resendTimer ELSE "off"
           /\ shutDown' = (shutDown \/ ~t.threw)
  <2>1. CASE t.threw
    <3>1. Becomes(t) /\ resendTimer' = resendTimer /\ shutDown' = shutDown
      BY <1>2, <2>1
    <3> QED BY <3>1, Arrives
  <2>2. CASE ~t.threw
    <3> DEFINE v == Close(t)
    <3>1. Becomes(v) /\ resendTimer' = "off" /\ shutDown' = TRUE
      BY <1>2, <2>2
    <3>2. BetweenReads(t, subscribing, shutDown, published, wire)
      <4>1. TransportInv(t, TRUE, subscribing, shutDown, published, wire)
        BY <2>2
      <4> QED BY <4>1, InvBetweenReads
    <3>3. TransportInv(v, ~v.threw, subscribing, TRUE, published, wire)
      BY <2>2, <3>2, TransportCloses
    <3> HIDE DEF v
    <3> QED BY <3>1, <3>3, Arrives
  <2> QED BY <2>1, <2>2
<1> QED BY <1>1, <1>2 DEF Callback

(* The handlers of reads.  Over tcp a connection whose read completes is   *)
(* there, or was closed by shutdown(): the timer is not one of connect().  *)
LEMMA ReadHandlerLeaves ==
  ASSUME ClientInv, status = "runs", transport.ready # <<>>, Head(transport.ready) \in ReadOps,
         NEW u, u = Handling \/ (transport.protocol = "tcp" /\ u \in {Complete(Handling), Incomplete(Handling)})
  PROVE  /\ BetweenReads(u, subscribing, shutDown, published, wire)
         /\ ~u.threw /\ u.protocol = transport.protocol
         /\ subscribing
         /\ ~Busy(u.reads, u.ready, ReadOps)
         /\ shutDown \/ (u.protocol = "tcp" => u.isConnected # 0 /\ Lacks(u.ready, ReadOps))
<1> DEFINE x == Head(transport.ready)
<1>1. /\ x \notin ResolveOps /\ x \notin ConnectOps /\ x # "connectTimedOut"
      /\ x # "writeFailed" /\ x # "written" /\ x \in ReadOps
  BY DEF ReadOps, ResolveOps, ConnectOps
<1>2. /\ Handling \in Transports /\ ~Handling.threw /\ SameConnection(transport, Handling)
      /\ BetweenReads(Handling, subscribing, shutDown, published, wire)
      /\ subscribing /\ ~Busy(Handling.reads, Handling.ready, ReadOps)
  BY <1>1, HandlerLeaves
<1>3. PICK h : h = Handling
  OBVIOUS
<1>4. transport.protocol = "tcp" => shutDown \/ transport.isConnected = 1
  <2> SUFFICES ASSUME transport.protocol = "tcp" PROVE shutDown \/ transport.isConnected = 1
    OBVIOUS
  <2>1. transport.ready \in Seq(Handlers)
    BY MemberTypes, Types
  <2>2. ~Lacks(transport.ready, ReadOps)
    BY <1>1, <2>1, TailLacks
  <2> QED BY <2>2 DEF ClientInv, TransportInv, TcpRuns, Stage, TimeLimit
<1>5. /\ u \in Transports /\ ~u.threw /\ SameConnection(h, u)
      /\ u.queue = h.queue /\ u.writes = h.writes /\ u.reads = h.reads /\ u.ready = h.ready
      /\ u = h \/ h.protocol = "tcp"
  <2>1. CASE u = Handling
    BY <1>2, <1>3, <2>1 DEF SameConnection
  <2>2. CASE transport.protocol = "tcp" /\ u \in {Complete(Handling), Incomplete(Handling)}
    BY <1>2, <1>3, <2>2, TimerMembers DEF SameConnection
  <2> QED BY <2>1, <2>2
<1>6. BetweenReads(u, subscribing, shutDown, published, wire)
  <2>1. CASE u = h
    BY <1>2, <1>3, <2>1
  <2>2. CASE h.protocol = "tcp"
    <3>1. /\ TcpOrder(h, published, wire) /\ Stage(h, shutDown) /\ Writing(h)
          /\ Turn(h.reads, h.ready, ReadOps)
      BY <1>2, <1>3, <2>2 DEF BetweenReads
    <3>2. TcpOrder(u, published, wire)
      BY <1>5, <3>1, OrderSame
    <3>3. Stage(u, shutDown)
      <4>1. CASE h.isConnected # 0
        BY <1>5, <3>1, <4>1, StageSame
      <4>2. CASE shutDown /\ h.isConnected = 0
        <5>1. TimeLimit(u, shutDown)
          BY <4>2 DEF TimeLimit
        <5>2. Connection(u) /\ Outstanding(u)
          BY <1>5, <3>1 DEF Stage, SameConnection, Connection, Unconnected, Resolving, Connecting,
               HasConnected, Connected, Outstanding
        <5> QED BY <5>1, <5>2 DEF Stage
      <4> QED BY <1>2, <1>3, <1>4, <2>2, <4>1, <4>2 DEF SameConnection
    <3>4. Writing(u)
      BY <1>5, <3>1 DEF Writing, SameConnection
    <3>5. Begun(u, subscribing)
      BY <1>2, <1>3, <1>5, <2>2 DEF BetweenReads, Begun, SameConnection
    <3> QED BY <1>2, <1>3, <1>5, <2>2, <3>1, <3>2, <3>3, <3>4, <3>5 DEF BetweenReads, SameConnection
  <2> QED BY <1>5, <2>1, <2>2
<1>7. shutDown \/ (u.protocol = "tcp" => u.isConnected # 0 /\ Lacks(u.ready, ReadOps))
  BY <1>2, <1>3, <1>4, <1>5 DEF SameConnection, Busy
<1> QED BY <1>2, <1>3, <1>5, <1>6, <1>7 DEF SameConnection

LEMMA HandleReadInv ==
  ASSUME ClientInv, HandleRead
  PROVE  ClientInv'
<1>1. /\ status = "runs" /\ transport.ready # <<>> /\ Head(transport.ready) \in ReadOps
      /\ transport.protocol = "tcp"
  BY DEF HandleRead, Running, ReadOps
<1>2. /\ subscribing' = subscribing /\ resendTimer' = resendTimer /\ published' = published
      /\ shutDown' = shutDown /\ wire' = wire
  BY DEF HandleRead, faceVars, appVars
<1>3. ASSUME NEW u \in {Complete(Handling), Incomplete(Handling)}, Becomes(AsyncRead(u))
      PROVE  ClientInv'
  <2>1. /\ BetweenReads(u, subscribing, shutDown, published, wire)
        /\ ~u.threw /\ subscribing = TRUE /\ ~Busy(u.reads, u.ready, ReadOps)
        /\ u.protocol = "tcp"
    BY <1>1, <1>3, Types, ReadHandlerLeaves
  <2>2. Begun(u, TRUE)
    BY <2>1 DEF BetweenReads
  <2> DEFINE v == AsyncRead(u)
  <2>3. ~v.threw /\ TransportInv(v, TRUE, TRUE, shutDown, published, wire)
    BY <2>1, <2>2, AsyncReadRuns
  <2>4. TransportInv(v, ~v.threw, TRUE, shutDown, published, wire)
    BY <2>3
  <2>5. Becomes(v)
    BY <1>3
  <2> HIDE DEF v
  <2> QED BY <1>2, <2>1, <2>4, <2>5, Types, Arrives
<1>4. CASE Becomes(Throw(Handling))
  <2>1. PICK v : v = Throw(Handling)
    OBVIOUS
  <2>2. TransportInv(v, ~v.threw, subscribing, shutDown, published, wire)
    BY <1>1, <2>1, Types, HandlingMembers, Throws
  <2> QED BY <1>2, <1>4, <2>1, <2>2, Types, Arrives
<1> QED BY <1>3, <1>4 DEF HandleRead

LEMMA HandleReadFailedInv ==
  ASSUME ClientInv, HandleReadFailed
  PROVE  ClientInv'
<1>1. PICK u : /\ Callback(Close(u))
               /\ u = Handling \/ (transport.protocol = "tcp" /\ u = Incomplete(Handling))
  BY DEF HandleReadFailed
<1>2. status = "runs" /\ transport.ready # <<>> /\ Head(transport.ready) \in ReadOps
  BY DEF HandleReadFailed, Running, ReadOps
<1>3. /\ BetweenReads(u, subscribing, shutDown, published, wire) /\ ~u.threw
      /\ shutDown \/ (u.protocol = "tcp" => u.isConnected # 0 /\ Lacks(u.ready, ReadOps))
  BY <1>1, <1>2, ReadHandlerLeaves
<1> DEFINE v == Close(u)
<1>4. TransportInv(v, ~v.threw, subscribing, shutDown, published, wire)
  BY <1>3, TransportCloses
<1>5. Callback(v)
  BY <1>1
<1> HIDE DEF v
<1>6. v \in Transports /\ UNCHANGED <<subscribing, published, wire>>
  BY <1>4 DEF TransportInv, HandleReadFailed
<1> QED BY <1>4, <1>5, <1>6, CallbackInv

LEMMA HandleBadDatagramInv ==
  ASSUME ClientInv, HandleBadDatagram
  PROVE  ClientInv'
<1>1. /\ status = "runs" /\ transport.ready # <<>> /\ Head(transport.ready) \in ReadOps
      /\ transport.protocol = "udp"
  BY DEF HandleBadDatagram, Running, ReadOps
<1>2. PICK u : u = Handling
  OBVIOUS
<1>3. /\ BetweenReads(u, subscribing, shutDown, published, wire) /\ ~u.threw
      /\ u.protocol = transport.protocol
  BY <1>1, <1>2, ReadHandlerLeaves
<1> DEFINE v == Close(u)
<1>4. TransportInv(v, ~v.threw, subscribing, shutDown, published, wire)
  BY <1>1, <1>3, TransportCloses
<1>5. Callback(v)
  BY <1>2 DEF HandleBadDatagram
<1> HIDE DEF v
<1>6. v \in Transports /\ UNCHANGED <<subscribing, published, wire>>
  BY <1>4 DEF TransportInv, HandleBadDatagram
<1> QED BY <1>4, <1>5, <1>6, CallbackInv

LEMMA HandleDatagramInv ==
  ASSUME ClientInv, HandleDatagram
  PROVE  ClientInv'
<1>1. /\ status = "runs" /\ transport.ready # <<>> /\ Head(transport.ready) \in ReadOps
      /\ transport.protocol = "udp"
  BY DEF HandleDatagram, Running, ReadOps
<1>2. PICK u : u = Handling
  OBVIOUS
<1>3. /\ BetweenReads(u, subscribing, shutDown, published, wire) /\ ~u.threw
      /\ u.protocol = transport.protocol /\ subscribing /\ ~Busy(u.reads, u.ready, ReadOps)
  BY <1>1, <1>2, ReadHandlerLeaves
<1>4. /\ subscribing' = TRUE /\ resendTimer' = resendTimer /\ published' = published
      /\ shutDown' = shutDown /\ wire' = wire
  BY <1>3, Types DEF HandleDatagram, faceVars, appVars
<1>5. CASE Becomes(AsyncRead(u))
  <2> DEFINE v == AsyncRead(u)
  <2>1. ~v.threw /\ TransportInv(v, TRUE, TRUE, shutDown, published, wire)
    <3>1. u.isConnected # 1
      BY <1>1, <1>3 DEF BetweenReads, UdpSocket
    <3> QED BY <1>3, <3>1, AsyncReadRuns
  <2>2. TransportInv(v, ~v.threw, TRUE, shutDown, published, wire)
    BY <2>1
  <2>3. Becomes(v)
    BY <1>5
  <2> HIDE DEF v
  <2> QED BY <1>4, <2>2, <2>3, Types, Arrives
<1>6. CASE Becomes([u EXCEPT !.hears = "never"])
  <2>1. PICK v : v = [u EXCEPT !.hears = "never"]
    OBVIOUS
  <2>2. u \in Transports /\ u.protocol = "udp"
    BY <1>1, <1>3 DEF BetweenReads
  <2>3. /\ v \in Transports /\ v.protocol = u.protocol /\ v.socket = u.socket
        /\ v.isConnected = u.isConnected /\ v.resolves = u.resolves /\ v.timer = u.timer
        /\ v.readFromConnect = u.readFromConnect /\ v.threw = u.threw /\ v.hears = "never"
        /\ v.queue = u.queue /\ v.writes = u.writes /\ v.reads = u.reads /\ v.ready = u.ready
    BY <2>1, <2>2 DEF Transports
  <2>4. UdpOrder(v, published, wire) /\ NoneLost(v, published, wire) /\ UdpSocket(v)
    BY <1>3, <2>2, <2>3 DEF BetweenReads, UdpOrder, NoneLost, UdpSocket
  <2>5. UdpReading(v, TRUE) /\ UdpReads(v, TRUE)
    BY <1>3, <2>2, <2>3 DEF BetweenReads, UdpReading, UdpReads
  <2>6. TransportInv(v, ~v.threw, TRUE, shutDown, published, wire)
    BY <2>2, <2>3, <2>4, <2>5 DEF TransportInv
  <2>7. Becomes(v)
    BY <1>6, <2>1
  <2> QED BY <1>4, <2>6, <2>7, Types, Arrives
<1>7. CASE Becomes(Throw(u))
  <2>1. PICK v : v = Throw(u)
    OBVIOUS
  <2>2. TransportInv(v, ~v.threw, TRUE, shutDown, published, wire)
    BY <1>3, <2>1, Throws DEF BetweenReads
  <2> QED BY <1>4, <1>7, <2>1, <2>2, Types, Arrives
<1> QED BY <1>2, <1>5, <1>6, <1>7 DEF HandleDatagram

LEMMA HandleResendInv ==
  ASSUME ClientInv, HandleResend
  PROVE  ClientInv'
<1>1. /\ status = "runs" /\ transport.ready # <<>> /\ Head(transport.ready) = "resend"
  BY DEF HandleResend, Running
<1>2. PICK t : t = Handling
  OBVIOUS
<1>3. ~t.threw /\ TransportInv(t, TRUE, subscribing, shutDown, published, wire)
  BY <1>1, <1>2, HandlerLeaves DEF ResolveOps, ConnectOps, ReadOps
<1> DEFINE v == AsyncWrite(t, Sub)
<1>4. ~v.threw /\ TransportInv(v, TRUE, subscribing, shutDown, published, wire)
  <2>1. Sub \in Packets /\ NextPacket(Sub, published, published)
    BY ClientAssumption DEF Packets, Sub, NextPacket
  <2> QED BY <1>3, <2>1, Types, AsyncWriteRuns
<1>5. TransportInv(v, ~v.threw, subscribing, shutDown, published, wire)
  BY <1>4
<1>6. Becomes(v)
  BY <1>2 DEF HandleResend
<1> HIDE DEF v
<1>7. /\ subscribing' = subscribing /\ resendTimer' = "armed" /\ published' = published
      /\ shutDown' = shutDown /\ wire' = wire
  BY DEF HandleResend, appVars
<1> QED BY <1>5, <1>6, <1>7, Types, Arrives

LEMMA HandleReceiveTimeoutInv ==
  ASSUME ClientInv, HandleReceiveTimeout
  PROVE  ClientInv'
<1>1. status = "runs" /\ transport.ready # <<>> /\ Head(transport.ready) = "receiveTimedOut"
  BY DEF HandleReceiveTimeout, Running
<1>2. PICK t : t = Handling
  OBVIOUS
<1>3. ~t.threw /\ TransportInv(t, TRUE, subscribing, shutDown, published, wire)
  BY <1>1, <1>2, HandlerLeaves DEF ResolveOps, ConnectOps, ReadOps
<1>4. PICK v : v = [t EXCEPT !.isTimerStarted = FALSE]
  OBVIOUS
<1>5. v \in Transports /\ ~v.threw /\ SameMembers(t, v)
  <2>1. t \in Transports
    BY <1>3 DEF TransportInv
  <2> QED BY <1>3, <1>4, <2>1 DEF Transports, SameMembers, SameConnection
<1>6. TransportInv(v, TRUE, subscribing, shutDown, published, wire)
  BY <1>3, <1>5, InvOfMembers
<1>7. TransportInv(v, ~v.threw, subscribing, shutDown, published, wire)
  BY <1>5, <1>6
<1>8. Callback(v) /\ UNCHANGED <<subscribing, published, wire>>
  BY <1>2, <1>4 DEF HandleReceiveTimeout
<1> QED BY <1>5, <1>7, <1>8, CallbackInv

LEMMA HandleReadCanceledInv ==
  ASSUME ClientInv, HandleReadCanceled
  PROVE  ClientInv'
<1>1. status = "runs" /\ transport.ready # <<>> /\ Head(transport.ready) = "readCanceled"
  BY DEF HandleReadCanceled, Running
<1>2. PICK t : t = Handling
  OBVIOUS
<1>3. ~t.threw /\ TransportInv(t, TRUE, subscribing, shutDown, published, wire)
  BY <1>1, <1>2, HandlerLeaves DEF ResolveOps, ConnectOps, ReadOps
<1>4. t \in Transports /\ TransportInv(t, ~t.threw, subscribing, shutDown, published, wire)
  <2>1. ~t.threw
    BY <1>3
  <2> QED BY <1>3, <2>1 DEF TransportInv
<1>5. Callback(t) /\ UNCHANGED <<subscribing, published, wire>>
  BY <1>2 DEF HandleReadCanceled
<1> QED BY <1>4, <1>5, CallbackInv

LEMMA HandleSentInv ==
  ASSUME ClientInv, HandleSent
  PROVE  ClientInv'
<1>1. /\ status = "runs" /\ transport.ready # <<>> /\ Head(transport.ready) = "written"
      /\ transport.protocol = "udp"
  BY DEF HandleSent, Running
<1>2. PICK t : t = Handling
  OBVIOUS
<1>3. ~t.threw /\ TransportInv(t, TRUE, subscribing, shutDown, published, wire)
  BY <1>1, <1>2, HandlerLeaves DEF ResolveOps, ConnectOps, ReadOps
<1>4. TransportInv(t, ~t.threw, subscribing, shutDown, published, wire)
  BY <1>3
<1>5. Becomes(t)
  BY <1>2 DEF HandleSent
<1>6. /\ subscribing' = subscribing /\ resendTimer' = resendTimer /\ published' = published
      /\ shutDown' = shutDown /\ wire' = wire
  BY DEF HandleSent, faceVars, appVars
<1> QED BY <1>4, <1>5, <1>6, Types, Arrives

LEMMA HandleFailureInv ==
  ASSUME ClientInv, HandleFailure
  PROVE  ClientInv'
<1> DEFINE x == Head(transport.ready)
<1>1. status = "runs" /\ transport.ready # <<>> /\ x \notin ReadOps
  BY DEF HandleFailure, Running, ReadOps
<1>2. /\ transport \in Transports /\ transport.ready \in Seq(Handlers)
      /\ transport.protocol \in {"tcp", "udp"}
      /\ TransportInv(transport, TRUE, subscribing, shutDown, published, wire)
  BY <1>1, Types, MemberTypes DEF ClientInv
<1>3. PICK t : t = Handling
  OBVIOUS
<1>4. /\ t \in Transports /\ SameConnection(transport, t)
      /\ t.timer = transport.timer /\ t.queue = transport.queue
      /\ t.writes = transport.writes /\ t.reads = transport.reads
      /\ t.ready = Tail(transport.ready)
  BY <1>1, <1>2, <1>3, HandlingMembers
<1>5. PICK u, v : u = Close(t) /\ v = Throw(u)
  OBVIOUS
<1>6. u \in Transports
  <2>1. CASE transport.protocol = "tcp"
    <3>1. u = TcpClose(t)
      BY <1>4, <1>5, <2>1 DEF Close, SameConnection
    <3> QED BY <1>4, <3>1, TcpCloseMembers
  <2>2. CASE transport.protocol = "udp"
    <3>1. u = UdpClose(t)
      BY <1>4, <1>5, <2>2 DEF Close, SameConnection
    <3>2. /\ UdpOrder(transport, published, wire) /\ UdpSocket(transport)
          /\ UdpReading(transport, subscribing)
      BY <1>2, <2>2 DEF TransportInv
    <3>3. UdpOrder(t, published, wire)
      BY <1>4, <3>2 DEF UdpOrder
    <3>4. UdpSocket(t)
      <4>1. t.ready \in Seq(UdpReady)
        <5>1. transport.ready \in Seq(UdpReady)
          BY <3>2 DEF UdpSocket
        <5> QED BY <1>1, <1>4, <5>1, TailLacks
      <4> QED BY <1>4, <3>2, <4>1 DEF UdpSocket, SameConnection
    <3>5. UdpReading(t, subscribing)
      <4>1. /\ Turn(t.reads, t.ready, ReadOps)
            /\ Busy(t.reads, t.ready, ReadOps) <=> Busy(transport.reads, transport.ready, ReadOps)
        BY <1>1, <1>2, <1>4, <3>2, TurnTail DEF UdpReading
      <4> QED BY <3>2, <4>1 DEF UdpReading
    <3> QED BY <1>4, <3>1, <3>3, <3>4, <3>5, UdpCloseRuns
  <2> QED BY <1>2, <2>1, <2>2
<1>7. TransportInv(v, ~v.threw, subscribing, shutDown, published, wire)
  BY <1>5, <1>6, Throws
<1>8. Becomes(v)
  BY <1>3, <1>5 DEF HandleFailure
<1>9. /\ subscribing' = subscribing /\ resendTimer' = resendTimer /\ published' = published
      /\ shutDown' = shutDown /\ wire' = wire
  BY DEF HandleFailure, faceVars, appVars
<1> QED BY <1>7, <1>8, <1>9, Types, Arrives

-----------------------------------------------------------------------------
(***************************************************************************)
(* The handlers of a connection over tcp.                                  *)
(***************************************************************************)
LEMMA TcpOnly ==
  ASSUME ClientInv, status = "runs", transport.ready # <<>>
  PROVE  /\ Handling \in Transports /\ ~Handling.threw /\ SameConnection(transport, Handling)
         /\ Handling.timer = transport.timer /\ Handling.queue = transport.queue
         /\ Handling.writes = transport.writes /\ Handling.reads = transport.reads
         /\ Handling.ready = Tail(transport.ready)
         /\ Head(transport.ready) \notin UdpReady => transport.protocol = "tcp"
         /\ transport.protocol = "tcp" => /\ TcpOrder(transport, published, wire)
                                          /\ Stage(transport, shutDown)
                                          /\ Reading(transport, subscribing) /\ Writing(transport)
<1>1. transport \in Transports /\ transport.protocol \in {"tcp", "udp"}
  BY Types, MemberTypes
<1>2. /\ Handling \in Transports /\ ~Handling.threw /\ SameConnection(transport, Handling)
      /\ Handling.timer = transport.timer /\ Handling.queue = transport.queue
      /\ Handling.writes = transport.writes /\ Handling.reads = transport.reads
      /\ Handling.ready = Tail(transport.ready)
  BY <1>1, Types, HandlingMembers
<1>3. ASSUME transport.protocol = "udp" PROVE Head(transport.ready) \in UdpReady
  <2>1. transport.ready \in Seq(UdpReady)
    BY <1>3 DEF ClientInv, TransportInv, UdpSocket
  <2> QED BY <2>1, TailLacks
<1>4. transport.protocol = "tcp" => /\ TcpOrder(transport, published, wire)
                                    /\ Stage(transport, shutDown)
                                    /\ Reading(transport, subscribing) /\ Writing(transport)
  BY DEF ClientInv, TransportInv, TcpRuns
<1> QED BY <1>1, <1>2, <1>3, <1>4

LEMMA HandleResolvedInv ==
  ASSUME ClientInv, HandleResolved
  PROVE  ClientInv'
<1>1. PICK t, x : t = transport /\ x = Head(t.ready)
  OBVIOUS
<1>2. status = "runs" /\ t.ready # <<>> /\ x = "resolved"
  BY <1>1 DEF HandleResolved, Running
<1>3. PICK h : h = Handling
  OBVIOUS
<1>4. /\ t \in Transports /\ t.protocol = "tcp" /\ h \in Transports /\ ~h.threw /\ SameConnection(t, h)
      /\ h.timer = t.timer /\ h.queue = t.queue /\ h.writes = t.writes /\ h.reads = t.reads
      /\ h.ready = Tail(t.ready)
      /\ TcpOrder(t, published, wire) /\ Stage(t, shutDown)
      /\ Reading(t, subscribing) /\ Writing(t)
  BY <1>1, <1>2, <1>3, Types, TcpOnly DEF UdpReady
<1>5. t.ready \in Seq(Handlers) /\ x \in ResolveOps /\ x \notin ConnectOps /\ x \notin ReadOps
      /\ x \notin WriteOps /\ x \notin {"connectTimedOut"} /\ x \notin {"written"}
      /\ x \notin {"connectFailed"}
  BY <1>2, <1>4, MemberTypes DEF ResolveOps, ConnectOps, ReadOps, WriteOps
<1>6. Resolving(t)
  <2>1. ~Lacks(t.ready, ResolveOps)
    BY <1>1, <1>2, <1>5, TailLacks
  <2> QED BY <1>4, <2>1 DEF Stage, Connection, Unconnected, Connecting, HasConnected, Connected
<1>7. PICK u : u = [h EXCEPT !.socket = "connecting", !.writes = 0, !.reads = 0]
  OBVIOUS
<1>8. /\ u \in Transports /\ u.protocol = "tcp" /\ ~u.threw
      /\ u.socket = "connecting" /\ u.isConnected = 0 /\ u.resolves = t.resolves
      /\ u.readFromConnect = t.readFromConnect /\ u.hears = t.hears
      /\ u.timer = t.timer /\ u.queue = t.queue /\ u.writes = 0 /\ u.reads = 0
      /\ u.ready = Tail(t.ready)
  BY <1>4, <1>6, <1>7 DEF Transports, SameConnection, Resolving
<1>9. \A ops : Lacks(t.ready, ops) => Lacks(u.ready, ops)
  BY <1>2, <1>5, <1>8, TailLacks
<1>10. Lacks(t.ready, {"connected", "read", "readFailed", "written"})
  <2>1. Head(t.ready) \in ResolveOps
    BY <1>1, <1>5
  <2> QED BY <1>2, <1>5, <1>6, <2>1, TailLacks DEF Resolving
<1>11. Lacks(u.ready, ReadOps) /\ Lacks(u.ready, ConnectOps) /\ Lacks(u.ready, {"written"})
  <2>1. Lacks(t.ready, ReadOps) /\ Lacks(t.ready, {"connected"}) /\ Lacks(t.ready, {"written"})
    BY <1>10 DEF Lacks, ReadOps
  <2>2. Lacks(t.ready, ConnectOps)
    BY <1>6, <2>1, LacksParts DEF Resolving
  <2> QED BY <1>9, <2>1, <2>2
<1>12. t.resolves = 0 /\ Lacks(u.ready, ResolveOps)
  <2>1. Head(t.ready) \in ResolveOps /\ Turn(t.resolves, t.ready, ResolveOps)
    BY <1>1, <1>5, <1>6 DEF Resolving
  <2>2. t.resolves = 0 /\ ~Busy(0, Tail(t.ready), ResolveOps)
    BY <1>2, <1>5, <2>1, TurnTail
  <2> QED BY <1>8, <2>2 DEF Busy
<1>13. Stage(u, shutDown)
  <2>1. Connecting(u)
    BY <1>8, <1>11, <1>12 DEF Connecting
  <2>2. Outstanding(u)
    BY <1>8 DEF Outstanding
  <2>3. TimeLimit(u, shutDown)
    <3>1. Lacks(u.ready, {"connectTimedOut"}) => Lacks(t.ready, {"connectTimedOut"})
      BY <1>1, <1>2, <1>5, <1>8, TailLacks
    <3> QED BY <1>4, <1>6, <1>8, <1>11, <3>1 DEF Stage, TimeLimit, Resolving
  <2> QED BY <2>1, <2>2, <2>3 DEF Stage, Connection
<1>14. Reading(u, subscribing)
  <2>1. Turn(0, u.ready, ReadOps) /\ ~Busy(0, u.ready, ReadOps)
    BY <1>11, NoneTurn
  <2> QED BY <1>4, <1>8, <2>1 DEF Reading, Begun
<1>15. Writing(u)
  <2>1. Turn(t.writes, u.ready, WriteOps)
    BY <1>1, <1>2, <1>4, <1>5, <1>8, TurnTail DEF Writing
  <2>2. Turn(0, u.ready, WriteOps)
    BY <2>1, TurnStarts
  <2> QED BY <1>8, <1>11, <2>2 DEF Writing
<1>16. TcpOrder(u, published, wire)
  <2>1. Lacks(t.ready, {"written"})
    BY <1>10 DEF Lacks
  <2> QED BY <1>4, <1>8, <1>11, <2>1, OrderSame
<1>17. TransportInv(u, ~u.threw, subscribing, shutDown, published, wire)
  BY <1>8, <1>13, <1>14, <1>15, <1>16 DEF TransportInv, TcpRuns
<1>18. Becomes(u)
  BY <1>3, <1>7 DEF HandleResolved
<1>19. /\ subscribing' = subscribing /\ resendTimer' = resendTimer /\ published' = published
       /\ shutDown' = shutDown /\ wire' = wire
  BY DEF HandleResolved, faceVars, appVars
<1> QED BY <1>17, <1>18, <1>19, Types, Arrives

LEMMA HandleConnectedInv ==
  ASSUME ClientInv, HandleConnected
  PROVE  ClientInv'
<1>1. PICK t, x : t = transport /\ x = Head(t.ready)
  OBVIOUS
<1>2. status = "runs" /\ t.ready # <<>> /\ x = "connected"
  BY <1>1 DEF HandleConnected, Running
<1>3. PICK h : h = Handling
  OBVIOUS
<1>4. /\ t \in Transports /\ t.protocol = "tcp" /\ h \in Transports /\ ~h.threw /\ SameConnection(t, h)
      /\ h.timer = t.timer /\ h.queue = t.queue /\ h.writes = t.writes /\ h.reads = t.reads
      /\ h.ready = Tail(t.ready)
      /\ TcpOrder(t, published, wire) /\ Stage(t, shutDown)
      /\ Reading(t, subscribing) /\ Writing(t)
  BY <1>1, <1>2, <1>3, Types, TcpOnly DEF UdpReady
<1>5. t.ready \in Seq(Handlers) /\ x \in ConnectOps /\ x \in {"connected"} /\ x \notin {"written"}
  BY <1>2, <1>4, MemberTypes DEF ConnectOps
<1>6. PICK c : c = Established(h)
  OBVIOUS
<1>7. /\ c \in Transports /\ c.protocol = "tcp" /\ ~c.threw /\ c.socket = t.socket
      /\ c.isConnected = 1 /\ c.resolves = t.resolves /\ c.readFromConnect = t.readFromConnect
      /\ c.hears = IF t.hears = "once" THEN "never" ELSE t.hears
      /\ c.queue = t.queue /\ c.writes = t.writes /\ c.reads = t.reads /\ c.ready = Tail(t.ready)
  BY <1>4, <1>6 DEF Established, Transports, SameConnection
<1>8. /\ Becomes(CASE c.socket = "closed" -> h
                   [] c.socket = "up"     ->
                        LET r == IF c.readFromConnect THEN Receive(c) ELSE c
                        IN  IF r.queue # <<>> THEN Send(r) ELSE r
                   [] OTHER               -> Throw(c))
  BY <1>3, <1>6 DEF HandleConnected
<1>9. /\ subscribing' = subscribing /\ resendTimer' = resendTimer /\ published' = published
      /\ shutDown' = shutDown /\ wire' = wire
  BY DEF HandleConnected, faceVars, appVars
<1>10. TcpOrder(c, published, wire)
  <2>1. Lacks(c.ready, {"written"}) <=> Lacks(t.ready, {"written"})
    BY <1>1, <1>2, <1>5, <1>7, TailLacks
  <2> QED BY <1>4, <1>7, <2>1, OrderSame
<1>11. CASE c.socket \notin {"closed", "up"}
  <2>1. PICK v : v = Throw(c)
    OBVIOUS
  <2>2. TransportInv(v, ~v.threw, subscribing, shutDown, published, wire)
    BY <1>7, <2>1, Throws
  <2>3. Becomes(v)
    BY <1>8, <1>11, <2>1
  <2> QED BY <1>9, <2>2, <2>3, Types, Arrives
<1>13. CASE c.socket = "closed"
  <2>1. x \notin ResolveOps /\ x \notin ReadOps /\ x \notin WriteOps /\ x # "connectTimedOut"
    BY <1>2 DEF ResolveOps, ReadOps, WriteOps
  <2>2. Stage(h, shutDown)
    BY <1>1, <1>2, <1>4, <1>7, <1>13, <2>1, StageTail
  <2>3. /\ Turn(t.reads, h.ready, ReadOps)
        /\ Busy(t.reads, h.ready, ReadOps) <=> Busy(t.reads, t.ready, ReadOps)
        /\ Turn(t.writes, h.ready, WriteOps)
        /\ Busy(t.writes, h.ready, WriteOps) <=> Busy(t.writes, t.ready, WriteOps)
    BY <1>1, <1>2, <1>4, <1>5, <2>1, TurnTail DEF Reading, Writing
  <2>4. Lacks(h.ready, {"written"}) <=> Lacks(t.ready, {"written"})
    BY <1>1, <1>2, <1>4, <1>5, TailLacks
  <2>5. Reading(h, subscribing)
    BY <1>4, <2>3 DEF Reading, Begun, SameConnection
  <2>6. Writing(h)
    BY <1>4, <2>3, <2>4 DEF Writing, SameConnection
  <2>7. TcpOrder(h, published, wire)
    BY <1>4, <2>4, OrderSame
  <2>8. TransportInv(h, ~h.threw, subscribing, shutDown, published, wire)
    BY <1>4, <2>2, <2>5, <2>6, <2>7 DEF TransportInv, TcpRuns, SameConnection
  <2>9. Becomes(h)
    BY <1>8, <1>13
  <2> QED BY <1>9, <2>8, <2>9, Types, Arrives
<1>12. CASE c.socket = "up"
  <2>1. HasConnected(t)
    <3>1. ~Lacks(t.ready, ConnectOps)
      BY <1>1, <1>2, <1>5, TailLacks
    <3> QED BY <1>4, <1>7, <1>12, <3>1 DEF Stage, Connection, Unconnected, Resolving, Connecting, Connected
  <2>2. /\ Lacks(c.ready, ResolveOps) /\ Lacks(c.ready, ReadOps) /\ Lacks(c.ready, {"written"})
    BY <1>2, <1>5, <1>7, <2>1, TailLacks DEF HasConnected
  <2>3. Lacks(c.ready, ConnectOps)
    BY <1>1, <1>2, <1>5, <1>7, <2>1, TailLacks DEF HasConnected
  <2>4. Lacks(c.ready, {"writeFailed"})
    <3>1. Head(t.ready) \in {"connected"}
      BY <1>1, <1>5
    <3>2. Lacks(t.ready, {"writeFailed"})
      BY <1>2, <1>5, <2>1, <3>1, TailLacks DEF HasConnected
    <3> QED BY <1>2, <1>5, <1>7, <3>2, TailLacks
  <2>5. Lacks(c.ready, WriteOps)
    BY <2>2, <2>4, LacksParts
  <2>6. t.reads = 0 /\ t.writes = 0
    BY <1>4, <2>1, MemberTypes DEF Stage, Outstanding, HasConnected
  <2> DEFINE n == IF c.readFromConnect THEN 1 ELSE 0
  <2>7. PICK r : r = IF c.readFromConnect THEN Receive(c) ELSE c
    OBVIOUS
  <2>8. /\ r \in Transports /\ SameConnection(c, r) /\ ~r.threw
        /\ r.queue = c.queue /\ r.writes = 0 /\ r.reads = n /\ r.ready = c.ready
    <3>1. CASE c.readFromConnect
      <4>1. r = Receive(c)
        BY <2>7, <3>1
      <4>2. /\ r \in Transports /\ SameConnection(c, r) /\ r.threw = c.threw
            /\ r.queue = c.queue /\ r.writes = c.writes /\ r.reads = c.reads + 1
            /\ r.ready = c.ready
        BY <1>7, <1>12, <4>1, ReceiveMembers
      <4> QED BY <1>7, <2>6, <3>1, <4>2
    <3>2. CASE ~c.readFromConnect
      <4>1. r = c
        BY <2>7, <3>2
      <4> QED BY <1>7, <2>6, <3>2, <4>1 DEF SameConnection
    <3> QED BY <3>1, <3>2
  <2>9. Stage(r, shutDown)
    <3>1. Connected(r)
      BY <1>7, <1>12, <2>1, <2>2, <2>3, <2>8 DEF Connected, SameConnection, HasConnected
    <3> QED BY <3>1, <1>7, <1>12, <2>8 DEF Stage, Connection, Connected, Outstanding, TimeLimit, SameConnection
  <2>10. n \in {0, 1} /\ (n = 1 <=> r.readFromConnect)
    BY <2>8 DEF SameConnection
  <2> HIDE DEF n
  <2>11. Reading(r, subscribing)
    <3>1. Turn(n, r.ready, ReadOps) /\ (Busy(n, r.ready, ReadOps) <=> n = 1)
      BY <2>2, <2>8, <2>10, NoneTurn
    <3>2. /\ r.readFromConnect => subscribing
          /\ r.hears = "never" \/ r.readFromConnect \/ ~subscribing
      <4>1. t.hears \in {"always", "once", "never"}
        BY <1>4, MemberTypes
      <4> QED BY <1>4, <1>7, <2>8, <4>1 DEF Reading, Begun, SameConnection
    <3>3. Begun(r, subscribing)
      BY <2>8, <2>10, <3>1, <3>2 DEF Begun
    <3> QED BY <2>8, <2>10, <3>1, <3>2, <3>3 DEF Reading
  <2>12. /\ Turn(r.writes, r.ready, WriteOps) /\ ~Busy(r.writes, r.ready, WriteOps)
         /\ r.isConnected = 1
    BY <1>7, <2>5, <2>8, NoneTurn DEF SameConnection
  <2>13. TcpOrder(r, published, wire)
    BY <1>10, <2>8, OrderSame
  <2>14. PICK v : v = IF r.queue # <<>> THEN Send(r) ELSE r
    OBVIOUS
  <2>15. /\ v \in Transports /\ v.protocol = "tcp" /\ ~v.threw
         /\ TcpRuns(v, subscribing, shutDown) /\ TcpOrder(v, published, wire)
    <3>1. CASE r.queue # <<>>
      <4>1. v = Send(r)
        BY <2>14, <3>1
      <4>2. /\ v \in Transports /\ TcpRuns(v, subscribing, shutDown)
            /\ SameConnection(r, v) /\ v.threw = r.threw /\ v.queue = r.queue
            /\ Lacks(v.ready, {"written"}) <=> Lacks(r.ready, {"written"})
        BY <2>8, <2>9, <2>11, <2>12, <3>1, <4>1, SendRuns
      <4>3. TcpOrder(v, published, wire)
        BY <2>13, <4>2, OrderSame
      <4> QED BY <1>7, <2>8, <4>2, <4>3 DEF SameConnection
    <3>2. CASE r.queue = <<>>
      <4>1. v = r
        BY <2>14, <3>2
      <4>2. Writing(r)
        BY <2>2, <2>8, <2>12, <3>2 DEF Writing
      <4> QED BY <1>7, <2>8, <2>9, <2>11, <2>13, <4>1, <4>2 DEF TcpRuns, SameConnection
    <3> QED BY <3>1, <3>2
  <2>16. TransportInv(v, ~v.threw, subscribing, shutDown, published, wire)
    BY <2>15 DEF TransportInv
  <2>17. Becomes(v)
    BY <1>8, <1>12, <2>7, <2>14
  <2> QED BY <1>9, <2>16, <2>17, Types, Arrives
<1> QED BY <1>11, <1>12, <1>13

LEMMA HandleWrittenInv ==
  ASSUME ClientInv, HandleWritten
  PROVE  ClientInv'
<1>1. PICK t, x : t = transport /\ x = Head(t.ready)
  OBVIOUS
<1>2. status = "runs" /\ t.ready # <<>> /\ x = "written" /\ t.protocol = "tcp"
  BY <1>1 DEF HandleWritten, Running
<1>3. PICK h : h = Handling
  OBVIOUS
<1>4. /\ t \in Transports /\ h \in Transports /\ ~h.threw /\ SameConnection(t, h)
      /\ h.timer = t.timer /\ h.queue = t.queue /\ h.writes = t.writes /\ h.reads = t.reads
      /\ h.ready = Tail(t.ready)
      /\ TcpOrder(t, published, wire) /\ Stage(t, shutDown)
      /\ Reading(t, subscribing) /\ Writing(t)
  BY <1>1, <1>2, <1>3, Types, TcpOnly
<1>5. /\ t.ready \in Seq(Handlers) /\ t.queue \in Seq(Packets)
      /\ x \in WriteOps /\ x \notin ResolveOps /\ x \notin ConnectOps /\ x \notin ReadOps
      /\ x # "connectTimedOut" /\ x \in {"written"}
  BY <1>2, <1>4, MemberTypes DEF WriteOps, ResolveOps, ConnectOps, ReadOps
<1>6. ~Lacks(t.ready, {"written"}) /\ t.queue # <<>>
  BY <1>1, <1>2, <1>4, <1>5, TailLacks DEF Writing
<1>7. PICK c : c = [h EXCEPT !.queue = Tail(@)]
  OBVIOUS
<1>8. PICK q \in Seq(Packets) : q = Tail(t.queue)
  BY <1>5, <1>6, TailHolds
<1>9. /\ c \in Transports /\ SameConnection(t, c) /\ ~c.threw /\ c.timer = t.timer
      /\ c.queue = q /\ c.writes = t.writes /\ c.reads = t.reads /\ c.ready = Tail(t.ready)
  <2>1. c = [h EXCEPT !.queue = q]
    BY <1>4, <1>7, <1>8
  <2> QED BY <1>4, <2>1 DEF Transports, SameConnection, Packets
<1>10. Stage(c, shutDown)
  BY <1>1, <1>2, <1>4, <1>5, <1>9, StageTail
<1>11. Reading(c, subscribing)
  <2>1. /\ Turn(t.reads, c.ready, ReadOps)
        /\ Busy(t.reads, c.ready, ReadOps) <=> Busy(t.reads, t.ready, ReadOps)
    BY <1>1, <1>2, <1>4, <1>5, <1>9, TurnTail DEF Reading
  <2> QED BY <1>4, <1>9, <2>1 DEF Reading, Begun, SameConnection
<1>12. Turn(c.writes, c.ready, WriteOps) /\ ~Busy(c.writes, c.ready, WriteOps)
  BY <1>1, <1>2, <1>4, <1>5, <1>9, TurnTail DEF Writing
<1>13. c.writes = 0 /\ Lacks(c.ready, {"written"})
  BY <1>12, LacksParts DEF Turn, Busy
<1>14. TcpOrder(c, published, wire)
  <2> DEFINE lo == Len(wire) - Twice(t)
  <2>1. Twice(t) = IF Head(t.queue) # Sub THEN 1 ELSE 0
    BY <1>6 DEF Twice
  <2>2. Twice(c) = 0
    BY <1>13 DEF Twice
  <2>3. /\ Ascending(t.queue) /\ lo <= published
        /\ \A p \in Nat \ {Sub} : Holds(t.queue, p) <=> lo < p /\ p <= published
        /\ \A i \in 1..Len(wire) : wire[i] = i
    BY <1>4 DEF TcpOrder
  <2>4. Len(wire) \in Nat /\ published \in Nat /\ published \in Int
    BY Types, LenProperties
  <2>5. lo \in Int /\ lo >= 0
    <3>1. Twice(t) <= Len(wire) /\ Twice(t) \in {0, 1}
      BY <1>4, <2>1 DEF TcpOrder
    <3> QED BY <2>4, <3>1
  <2> HIDE DEF lo
  <2>6. /\ Ascending(q)
        /\ Head(t.queue) # Sub => /\ lo < published
                                  /\ \A p \in Nat \ {Sub} : Holds(q, p) <=> lo + 1 < p /\ p <= published
        /\ Head(t.queue) = Sub => \A p \in Nat \ {Sub} : Holds(q, p) <=> lo < p /\ p <= published
    BY <1>5, <1>6, <1>8, <2>3, <2>4, <2>5, HeadIsLeast
  <2>7. /\ Head(t.queue) # Sub => Len(wire) = lo + 1
        /\ Head(t.queue) = Sub => Len(wire) = lo
    BY <2>1, <2>4 DEF lo
  <2>8. Len(wire) <= published
    BY <2>3, <2>4, <2>5, <2>6, <2>7
  <2>9. \A p \in Nat \ {Sub} : Holds(q, p) <=> Len(wire) < p /\ p <= published
    BY <2>6, <2>7
  <2>10. Len(wire) - Twice(c) = Len(wire) /\ Twice(c) <= Len(wire)
    BY <2>2, <2>4
  <2> QED BY <1>9, <2>3, <2>6, <2>8, <2>9, <2>10 DEF TcpOrder
<1>15. PICK v : v = IF c.queue # <<>> THEN Send(c) ELSE c
  OBVIOUS
<1>16. /\ v \in Transports /\ v.protocol = "tcp" /\ ~v.threw
       /\ TcpRuns(v, subscribing, shutDown) /\ TcpOrder(v, published, wire)
  <2>1. CASE c.queue # <<>>
    <3>1. v = Send(c)
      BY <1>15, <2>1
    <3>2. c.isConnected = 1 \/ c.socket = "closed"
      <4>1. t.isConnected = 1 \/ t.socket = "closed"
        BY <1>4, <1>6 DEF Stage, Connection, Unconnected, Resolving, Connecting, HasConnected, Connected
      <4> QED BY <1>9, <4>1 DEF SameConnection
    <3>3. /\ v \in Transports /\ TcpRuns(v, subscribing, shutDown)
          /\ SameConnection(c, v) /\ v.threw = c.threw /\ v.queue = c.queue
          /\ Lacks(v.ready, {"written"}) <=> Lacks(c.ready, {"written"})
      BY <1>9, <1>10, <1>11, <1>12, <2>1, <3>1, <3>2, SendRuns
    <3>4. TcpOrder(v, published, wire)
      BY <1>14, <3>3, OrderSame
    <3> QED BY <1>2, <1>9, <3>3, <3>4 DEF SameConnection
  <2>2. CASE c.queue = <<>>
    <3>1. v = c
      BY <1>15, <2>2
    <3>2. Writing(c)
      BY <1>12, <1>13, <2>2 DEF Writing
    <3> QED BY <1>2, <1>9, <1>10, <1>11, <1>14, <3>1, <3>2 DEF TcpRuns, SameConnection
  <2> QED BY <2>1, <2>2
<1>17. TransportInv(v, ~v.threw, subscribing, shutDown, published, wire)
  BY <1>16 DEF TransportInv
<1>18. Becomes(v)
  BY <1>3, <1>7, <1>15 DEF HandleWritten
<1>19. /\ subscribing' = subscribing /\ resendTimer' = resendTimer /\ published' = published
       /\ shutDown' = shutDown /\ wire' = wire
  BY DEF HandleWritten, faceVars, appVars
<1> QED BY <1>17, <1>18, <1>19, Types, Arrives

-----------------------------------------------------------------------------
(***************************************************************************)
(* What the kernel and the router do.                                      *)
(***************************************************************************)
LEMMA Members ==
  ASSUME ClientInv, status = "runs"
  PROVE  /\ transport \in Transports /\ ~transport.threw /\ transport.protocol \in {"tcp", "udp"}
         /\ transport.ready \in Seq(Handlers) /\ transport.queue \in Seq(Packets)
         /\ transport.protocol = "tcp" => /\ TcpOrder(transport, published, wire)
                                          /\ Stage(transport, shutDown)
                                          /\ Reading(transport, subscribing) /\ Writing(transport)
         /\ transport.protocol = "udp" => /\ UdpOrder(transport, published, wire)
                                          /\ NoneLost(transport, published, wire)
                                          /\ UdpSocket(transport)
                                          /\ UdpReading(transport, subscribing)
                                          /\ UdpReads(transport, subscribing)
  BY Types, MemberTypes DEF ClientInv, TransportInv, TcpRuns

(* Something that the invariant does not depend on becomes ready.          *)
LEMMA ReadyRuns ==
  ASSUME NEW t \in Transports, NEW u \in Transports, NEW op \in Handlers,
         NEW reader, NEW shut, NEW pubs, NEW w, TransportInv(t, TRUE, reader, shut, pubs, w),
         SameConnection(t, u), u.ready = Append(t.ready, op),
         u.queue = t.queue, u.writes = t.writes, u.reads = t.reads,
         op \in {"resend", "connectTimedOut", "receiveTimedOut"},
         u.timer = t.timer \/ (t.protocol = "tcp" /\ (t.timer # "connect" \/ op = "connectTimedOut")),
         op = "resend" \/ t.protocol = "tcp"
  PROVE  TransportInv(u, TRUE, reader, shut, pubs, w)
<1>1. /\ t.ready \in Seq(Handlers) /\ t.protocol \in {"tcp", "udp"}
      /\ op \notin ReadOps /\ op \notin WriteOps /\ op \notin ResolveOps /\ op \notin ConnectOps
      /\ op \notin {"written"} /\ op \notin {"writeFailed"}
  BY MemberTypes DEF ReadOps, WriteOps, ResolveOps, ConnectOps
<1>2. \A ops : op \notin ops => (Lacks(u.ready, ops) <=> Lacks(t.ready, ops))
  BY <1>1, AppendLacks
<1>3. \A ops, n : Turn(n, t.ready, ops) /\ op \notin ops =>
        Turn(n, u.ready, ops) /\ (Busy(n, u.ready, ops) <=> Busy(n, t.ready, ops))
  BY <1>1, TurnAppend
<1>4. CASE t.protocol = "tcp"
  <2>1. TcpOrder(t, pubs, w) /\ Stage(t, shut) /\ Reading(t, reader) /\ Writing(t)
    BY <1>4 DEF TransportInv, TcpRuns
  <2>2. TcpOrder(u, pubs, w)
    BY <1>1, <1>2, <2>1, OrderSame
  <2>3. Stage(u, shut)
    BY <1>1, <1>4, <2>1, StageAppend
  <2>4. Reading(u, reader)
    BY <1>1, <1>3, <2>1 DEF Reading, Begun, SameConnection
  <2>5. Writing(u)
    <3>1. /\ Turn(u.writes, u.ready, WriteOps)
          /\ Busy(u.writes, u.ready, WriteOps) <=> Busy(t.writes, t.ready, WriteOps)
      BY <1>1, <1>3, <2>1 DEF Writing
    <3>2. Lacks(u.ready, {"written"}) <=> Lacks(t.ready, {"written"})
      BY <1>1, <1>2
    <3> QED BY <2>1, <3>1, <3>2 DEF Writing, SameConnection
  <2> QED BY <1>4, <2>2, <2>3, <2>4, <2>5 DEF TransportInv, TcpRuns, SameConnection
<1>5. CASE t.protocol = "udp"
  <2>1. /\ UdpOrder(t, pubs, w) /\ NoneLost(t, pubs, w) /\ UdpSocket(t)
        /\ UdpReading(t, reader) /\ UdpReads(t, reader)
    BY <1>5 DEF TransportInv
  <2>2. UdpOrder(u, pubs, w)
    BY <2>1 DEF UdpOrder
  <2>3. NoneLost(u, pubs, w)
    BY <1>1, <1>2, <2>1 DEF NoneLost, SameConnection
  <2>4. UdpSocket(u)
    <3>1. op \in UdpReady /\ t.ready \in Seq(UdpReady)
      BY <1>5, <2>1 DEF UdpReady, UdpSocket
    <3>2. u.ready \in Seq(UdpReady)
      BY <3>1, AppendLacks
    <3> QED BY <1>5, <2>1, <3>2 DEF UdpSocket, SameConnection
  <2>5. UdpReading(u, reader) /\ UdpReads(u, reader)
    BY <1>1, <1>3, <2>1 DEF UdpReading, UdpReads, SameConnection
  <2> QED BY <1>5, <2>2, <2>3, <2>4, <2>5 DEF TransportInv, SameConnection
<1> QED BY <1>1, <1>4, <1>5

LEMMA ResendTimerExpiresInv ==
  ASSUME ClientInv, ResendTimerExpires
  PROVE  ClientInv'
<1>1. PICK t, u : t = transport /\ u = Post(t, "resend")
  OBVIOUS
<1>2. t \in Transports /\ ~t.threw /\ TransportInv(t, TRUE, subscribing, shutDown, published, wire)
  BY <1>1, Types DEF ClientInv, ResendTimerExpires
<1>3. /\ u \in Transports /\ SameConnection(t, u) /\ ~u.threw /\ u.timer = t.timer
      /\ u.queue = t.queue /\ u.writes = t.writes /\ u.reads = t.reads
      /\ u.ready = Append(t.ready, "resend") /\ "resend" \in Handlers
  BY <1>1, <1>2, PostMembers DEF Handlers
<1>4. TransportInv(u, TRUE, subscribing, shutDown, published, wire)
  BY <1>2, <1>3, ReadyRuns
<1>5. /\ status = "runs" /\ UNCHANGED <<subscribing, status, appVars>> /\ resendTimer' = "off"
      /\ wire' = wire /\ transport' = u
  BY <1>1 DEF ResendTimerExpires
<1> QED BY <1>3, <1>4, <1>5, Types, Happens

LEMMA TimerExpiresInv ==
  ASSUME ClientInv, TimerExpires
  PROVE  ClientInv'
<1>1. PICK t, op : t = transport /\ op = IF t.timer = "connect" THEN "connectTimedOut" ELSE "receiveTimedOut"
  OBVIOUS
<1>2. PICK v : v = [t EXCEPT !.timer = "off"]
  OBVIOUS
<1>3. PICK u : u = Post(v, op)
  OBVIOUS
<1>4. /\ t \in Transports /\ ~t.threw /\ TransportInv(t, TRUE, subscribing, shutDown, published, wire)
      /\ t.timer # "off"
  BY <1>1, Types DEF ClientInv, TimerExpires
<1>5. t.protocol = "tcp"
  BY <1>4, MemberTypes DEF TransportInv, UdpSocket
<1>6. v \in Transports /\ ~v.threw /\ SameConnection(t, v) /\ v.queue = t.queue
      /\ v.writes = t.writes /\ v.reads = t.reads /\ v.ready = t.ready
  BY <1>2, <1>4 DEF Transports, SameConnection
<1>7. op \in Handlers /\ op \in {"resend", "connectTimedOut", "receiveTimedOut"}
      /\ (t.timer # "connect" \/ op = "connectTimedOut")
  BY <1>1 DEF Handlers
<1>8. /\ u \in Transports /\ SameConnection(v, u) /\ ~u.threw
      /\ u.queue = v.queue /\ u.writes = v.writes /\ u.reads = v.reads
      /\ u.ready = Append(v.ready, op)
  BY <1>3, <1>6, <1>7, PostMembers
<1>9. SameConnection(t, u) /\ u.queue = t.queue /\ u.writes = t.writes /\ u.reads = t.reads
      /\ u.ready = Append(t.ready, op)
  BY <1>6, <1>8 DEF SameConnection
<1>10. TransportInv(u, TRUE, subscribing, shutDown, published, wire)
  BY <1>4, <1>5, <1>7, <1>8, <1>9, ReadyRuns
<1>11. /\ status = "runs" /\ UNCHANGED <<subscribing, status, appVars>> /\ resendTimer' = resendTimer
       /\ wire' = wire /\ transport' = u
  BY <1>1, <1>2, <1>3 DEF TimerExpires, faceVars
<1> QED BY <1>8, <1>10, <1>11, Types, Happens

LEMMA ResolvesInv ==
  ASSUME ClientInv, Resolves
  PROVE  ClientInv'
<1>1. PICK t, op : /\ t = transport /\ op \in {"resolved", "resolveFailed"}
                   /\ transport' = Post([t EXCEPT !.resolves = @ - 1], op)
  BY DEF Resolves
<1>2. /\ t \in Transports /\ ~t.threw /\ t.protocol \in {"tcp", "udp"} /\ t.resolves = 1
      /\ t.ready \in Seq(Handlers)
  BY <1>1, Types, MemberTypes DEF Resolves
<1>3. t.protocol = "tcp"
  BY <1>1, <1>2 DEF Resolves, ClientInv, TransportInv, UdpSocket
<1>4. TcpOrder(t, published, wire) /\ Stage(t, shutDown) /\ Reading(t, subscribing) /\ Writing(t)
  BY <1>1, <1>3, Members DEF Resolves
<1>5. PICK v : v = [t EXCEPT !.resolves = 0]
  OBVIOUS
<1>6. PICK u : u = Post(v, op)
  OBVIOUS
<1>7. /\ op \in Handlers /\ op \in ResolveOps /\ op \notin ConnectOps /\ op \notin ReadOps
      /\ op \notin WriteOps /\ op \notin {"written"} /\ op \notin {"connectFailed"}
      /\ op \notin {"connectTimedOut"} /\ op \notin {"connected", "read", "readFailed", "written"}
  BY <1>1 DEF Handlers, ResolveOps, ConnectOps, ReadOps, WriteOps
<1>8. /\ u \in Transports /\ ~u.threw /\ u.protocol = "tcp" /\ u.socket = t.socket
      /\ u.isConnected = t.isConnected /\ u.resolves = 0 /\ u.readFromConnect = t.readFromConnect /\ u.hears = t.hears
      /\ u.timer = t.timer /\ u.queue = t.queue /\ u.writes = t.writes /\ u.reads = t.reads
      /\ u.ready = Append(t.ready, op)
  <2>1. /\ v \in Transports /\ ~v.threw /\ v.protocol = "tcp" /\ v.socket = t.socket
        /\ v.isConnected = t.isConnected /\ v.resolves = 0 /\ v.readFromConnect = t.readFromConnect /\ v.hears = t.hears
        /\ v.timer = t.timer /\ v.queue = t.queue /\ v.writes = t.writes /\ v.reads = t.reads
        /\ v.ready = t.ready
    BY <1>2, <1>3, <1>5 DEF Transports
  <2>2. /\ u \in Transports /\ SameConnection(v, u) /\ u.threw = v.threw
        /\ u.timer = v.timer /\ u.queue = v.queue /\ u.writes = v.writes /\ u.reads = v.reads
        /\ u.ready = Append(v.ready, op)
    BY <1>6, <1>7, <2>1, PostMembers
  <2> QED BY <2>1, <2>2 DEF SameConnection
<1>9. \A ops : op \notin ops => (Lacks(u.ready, ops) <=> Lacks(t.ready, ops))
  BY <1>2, <1>7, <1>8, AppendLacks
<1>10. \A ops, n : Turn(n, t.ready, ops) /\ op \notin ops =>
         Turn(n, u.ready, ops) /\ (Busy(n, u.ready, ops) <=> Busy(n, t.ready, ops))
  BY <1>2, <1>7, <1>8, TurnAppend
<1>11. Resolving(t)
  BY <1>2, <1>4 DEF Stage, Connection, Unconnected, Connecting, HasConnected, Connected
<1>12. Resolving(u)
  <2>1. Turn(0, u.ready, ResolveOps) /\ Busy(0, u.ready, ResolveOps)
    BY <1>2, <1>7, <1>8, <1>11, TurnAppend DEF Resolving
  <2>2. Lacks(u.ready, {"connectFailed"})
    BY <1>7, <1>9, <1>11 DEF Resolving
  <2>3. Before(u.ready, {"connected", "read", "readFailed", "written"}, ResolveOps)
    BY <1>2, <1>7, <1>8, <1>11, AppendLacks DEF Resolving
  <2> QED BY <1>8, <1>11, <2>1, <2>2, <2>3 DEF Resolving
<1>13. Stage(u, shutDown)
  <2>1. Outstanding(u)
    BY <1>4, <1>8 DEF Stage, Outstanding
  <2>2. Lacks(u.ready, ReadOps) <=> Lacks(t.ready, ReadOps)
    BY <1>7, <1>9
  <2>3. Lacks(u.ready, {"connectTimedOut"}) <=> Lacks(t.ready, {"connectTimedOut"})
    BY <1>7, <1>9
  <2>4. TimeLimit(u, shutDown)
    BY <1>4, <1>8, <2>2, <2>3 DEF Stage, TimeLimit
  <2> QED BY <1>12, <2>1, <2>4 DEF Stage, Connection
<1>14. Reading(u, subscribing)
  BY <1>4, <1>7, <1>8, <1>10 DEF Reading, Begun
<1>15. Lacks(u.ready, {"written"}) <=> Lacks(t.ready, {"written"})
  BY <1>7, <1>9
<1>16. Writing(u)
  BY <1>4, <1>7, <1>8, <1>10, <1>15 DEF Writing
<1>17. TcpOrder(u, published, wire)
  BY <1>4, <1>8, <1>15, OrderSame
<1>18. TransportInv(u, TRUE, subscribing, shutDown, published, wire)
  BY <1>8, <1>13, <1>14, <1>16, <1>17 DEF TransportInv, TcpRuns
<1>19. /\ status = "runs" /\ UNCHANGED <<subscribing, status, appVars>> /\ resendTimer' = resendTimer
       /\ wire' = wire
  BY DEF Resolves, faceVars
<1>20. transport' = u
  <2>1. v = [t EXCEPT !.resolves = @ - 1]
    BY <1>2, <1>5
  <2> QED BY <1>1, <1>6, <2>1
<1> QED BY <1>8, <1>18, <1>19, <1>20, Types, Happens

LEMMA ConnectCompletesInv ==
  ASSUME ClientInv, ConnectCompletes
  PROVE  ClientInv'
<1>1. PICK t, op, socket : /\ t = transport
                           /\ \/ op = "connected" /\ socket = "up"
                              \/ op = "connectFailed" /\ socket = "lost"
                           /\ transport' = Post([t EXCEPT !.socket = socket], op)
  BY DEF ConnectCompletes
<1>2. /\ t \in Transports /\ ~t.threw /\ t.protocol \in {"tcp", "udp"} /\ t.socket = "connecting"
      /\ t.ready \in Seq(Handlers)
  BY <1>1, Types, MemberTypes DEF ConnectCompletes
<1>3. t.protocol = "tcp"
  BY <1>1, <1>2 DEF ConnectCompletes, ClientInv, TransportInv, UdpSocket
<1>4. TcpOrder(t, published, wire) /\ Stage(t, shutDown) /\ Reading(t, subscribing) /\ Writing(t)
  BY <1>1, <1>3, Members DEF ConnectCompletes
<1>5. PICK v : v = [t EXCEPT !.socket = socket]
  OBVIOUS
<1>6. PICK u : u = Post(v, op)
  OBVIOUS
<1>7. /\ op \in Handlers /\ op \in ConnectOps /\ op \notin ResolveOps /\ op \notin ReadOps
      /\ op \notin WriteOps /\ op \notin {"written"} /\ op \notin {"writeFailed"}
      /\ op \notin {"connectTimedOut"}
  BY <1>1 DEF Handlers, ResolveOps, ConnectOps, ReadOps, WriteOps
<1>8. /\ u \in Transports /\ ~u.threw /\ u.protocol = "tcp" /\ u.socket = socket
      /\ u.isConnected = t.isConnected /\ u.resolves = t.resolves
      /\ u.readFromConnect = t.readFromConnect /\ u.hears = t.hears
      /\ u.timer = t.timer /\ u.queue = t.queue /\ u.writes = t.writes /\ u.reads = t.reads
      /\ u.ready = Append(t.ready, op)
  <2>1. /\ v \in Transports /\ ~v.threw /\ v.protocol = "tcp" /\ v.socket = socket
        /\ v.isConnected = t.isConnected /\ v.resolves = t.resolves
        /\ v.readFromConnect = t.readFromConnect /\ v.hears = t.hears
        /\ v.timer = t.timer /\ v.queue = t.queue /\ v.writes = t.writes /\ v.reads = t.reads
        /\ v.ready = t.ready
    BY <1>1, <1>2, <1>3, <1>5 DEF Transports
  <2>2. /\ u \in Transports /\ SameConnection(v, u) /\ u.threw = v.threw
        /\ u.timer = v.timer /\ u.queue = v.queue /\ u.writes = v.writes /\ u.reads = v.reads
        /\ u.ready = Append(v.ready, op)
    BY <1>6, <1>7, <2>1, PostMembers
  <2> QED BY <2>1, <2>2 DEF SameConnection
<1>9. \A ops : op \notin ops => (Lacks(u.ready, ops) <=> Lacks(t.ready, ops))
  BY <1>2, <1>7, <1>8, AppendLacks
<1>10. \A ops, n : Turn(n, t.ready, ops) /\ op \notin ops =>
         Turn(n, u.ready, ops) /\ (Busy(n, u.ready, ops) <=> Busy(n, t.ready, ops))
  BY <1>2, <1>7, <1>8, TurnAppend
<1>11. Connecting(t)
  BY <1>2, <1>4 DEF Stage, Connection, Unconnected, Resolving, HasConnected, Connected
<1>12. HasConnected(u)
  <2>1. ~Lacks(u.ready, {op}) /\ AtMostOne(u.ready, ConnectOps)
    BY <1>2, <1>7, <1>8, <1>11, AppendLacks DEF Connecting
  <2>2. \/ u.socket \in {"up", "lost"} /\ ~Lacks(u.ready, {"connected"})
        \/ u.socket = "lost" /\ ~Lacks(u.ready, {"connectFailed"})
    BY <1>1, <1>8, <2>1
  <2>3. Lacks(u.ready, ResolveOps) /\ Lacks(u.ready, ReadOps) /\ Lacks(u.ready, {"written"})
    BY <1>7, <1>9, <1>11 DEF Connecting
  <2>4. Before(t.ready, {"writeFailed"}, {"connected"})
    BY <1>11, LacksParts, LacksBefore DEF Connecting
  <2>5. Before(u.ready, {"writeFailed"}, {"connected"})
    BY <1>2, <1>7, <1>8, <2>4, AppendLacks
  <2> QED BY <1>8, <1>11, <2>1, <2>2, <2>3, <2>5 DEF HasConnected, Connecting
<1>13. Stage(u, shutDown)
  <2>1. Outstanding(u)
    BY <1>2, <1>4, <1>8 DEF Stage, Outstanding
  <2>2. Lacks(u.ready, ReadOps) <=> Lacks(t.ready, ReadOps)
    BY <1>7, <1>9
  <2>3. Lacks(u.ready, {"connectTimedOut"}) <=> Lacks(t.ready, {"connectTimedOut"})
    BY <1>7, <1>9
  <2>4. TimeLimit(u, shutDown)
    BY <1>4, <1>8, <2>2, <2>3 DEF Stage, TimeLimit
  <2> QED BY <1>12, <2>1, <2>4 DEF Stage, Connection
<1>14. Reading(u, subscribing)
  BY <1>4, <1>7, <1>8, <1>10 DEF Reading, Begun
<1>15. Lacks(u.ready, {"written"}) <=> Lacks(t.ready, {"written"})
  BY <1>7, <1>9
<1>16. Writing(u)
  BY <1>4, <1>7, <1>8, <1>10, <1>15 DEF Writing
<1>17. TcpOrder(u, published, wire)
  BY <1>4, <1>8, <1>15, OrderSame
<1>18. TransportInv(u, TRUE, subscribing, shutDown, published, wire)
  BY <1>8, <1>13, <1>14, <1>16, <1>17 DEF TransportInv, TcpRuns
<1>19. /\ status = "runs" /\ UNCHANGED <<subscribing, status, appVars>> /\ resendTimer' = resendTimer
       /\ wire' = wire /\ transport' = u
  BY <1>1, <1>5, <1>6 DEF ConnectCompletes, faceVars
<1> QED BY <1>8, <1>18, <1>19, Types, Happens

LEMMA ReadCompletesInv ==
  ASSUME ClientInv, ReadCompletes
  PROVE  ClientInv'
<1>1. PICK t, op : /\ t = transport /\ op \in {"read", "readFailed"}
                   /\ transport' = Post([t EXCEPT !.reads = @ - 1], op)
  BY DEF ReadCompletes
<1>2. status = "runs" /\ t.reads > 0
  BY <1>1 DEF ReadCompletes
<1>3. /\ t \in Transports /\ ~t.threw /\ t.protocol \in {"tcp", "udp"}
      /\ t.ready \in Seq(Handlers)
      /\ t.protocol = "tcp" => /\ TcpOrder(t, published, wire) /\ Stage(t, shutDown)
                               /\ Reading(t, subscribing) /\ Writing(t)
      /\ t.protocol = "udp" => /\ UdpOrder(t, published, wire) /\ NoneLost(t, published, wire)
                               /\ UdpSocket(t)
                               /\ UdpReading(t, subscribing) /\ UdpReads(t, subscribing)
  BY <1>1, <1>2, Members
<1>4. Turn(1, t.ready, ReadOps) /\ t.reads = 1
  <2>1. Turn(t.reads, t.ready, ReadOps)
    BY <1>3 DEF Reading, UdpReading
  <2> QED BY <1>2, <2>1 DEF Turn
<1>5. PICK v : v = [t EXCEPT !.reads = 0]
  OBVIOUS
<1>6. PICK u : u = Post(v, op)
  OBVIOUS
<1>7. /\ op \in Handlers /\ op \in UdpReady /\ op \in ReadOps /\ op \notin ConnectOps
      /\ op \notin ResolveOps /\ op \notin WriteOps /\ op \notin {"written"}
      /\ op \notin {"writeFailed"} /\ op # "writeFailed"
  BY <1>1 DEF Handlers, UdpReady, ResolveOps, ConnectOps, ReadOps, WriteOps
<1>8. /\ u \in Transports /\ ~u.threw /\ SameConnection(t, u)
      /\ u.timer = t.timer /\ u.queue = t.queue /\ u.writes = t.writes /\ u.reads = 0
      /\ u.ready = Append(t.ready, op)
  <2>1. /\ v \in Transports /\ ~v.threw /\ SameConnection(t, v)
        /\ v.timer = t.timer /\ v.queue = t.queue /\ v.writes = t.writes /\ v.reads = 0
        /\ v.ready = t.ready
    BY <1>3, <1>5 DEF Transports, SameConnection
  <2>2. /\ u \in Transports /\ SameConnection(v, u) /\ u.threw = v.threw
        /\ u.timer = v.timer /\ u.queue = v.queue /\ u.writes = v.writes /\ u.reads = v.reads
        /\ u.ready = Append(v.ready, op)
    BY <1>6, <1>7, <2>1, PostMembers
  <2> QED BY <2>1, <2>2 DEF SameConnection
<1>9. \A ops : op \notin ops => (Lacks(u.ready, ops) <=> Lacks(t.ready, ops))
  BY <1>3, <1>7, <1>8, AppendLacks
<1>10. Turn(0, u.ready, ReadOps) /\ Busy(0, u.ready, ReadOps)
  BY <1>3, <1>4, <1>7, <1>8, TurnAppend
<1>11. Busy(t.reads, t.ready, ReadOps)
  BY <1>4 DEF Busy
<1>12. ASSUME t.protocol = "tcp"
       PROVE  TransportInv(u, TRUE, subscribing, shutDown, published, wire)
  <2>1. t.isConnected = 1
    BY <1>2, <1>3, <1>12 DEF Stage, Outstanding
  <2>2. Stage(u, shutDown)
    BY <1>2, <1>3, <1>7, <1>8, <1>12, <2>1, StageAppend
  <2>3. Reading(u, subscribing)
    BY <1>3, <1>8, <1>10, <1>11, <1>12 DEF Reading, Begun, SameConnection
  <2>4. Lacks(u.ready, {"written"}) <=> Lacks(t.ready, {"written"})
    BY <1>7, <1>9
  <2>5. Writing(u)
    <3>1. /\ Turn(u.writes, u.ready, WriteOps)
          /\ Busy(u.writes, u.ready, WriteOps) <=> Busy(t.writes, t.ready, WriteOps)
      BY <1>3, <1>7, <1>8, <1>12, TurnAppend DEF Writing
    <3> QED BY <1>3, <1>8, <1>12, <2>4, <3>1 DEF Writing, SameConnection
  <2>6. TcpOrder(u, published, wire)
    BY <1>3, <1>8, <1>12, <2>4, OrderSame
  <2> QED BY <1>8, <1>12, <2>2, <2>3, <2>5, <2>6 DEF TransportInv, TcpRuns, SameConnection
<1>13. ASSUME t.protocol = "udp"
       PROVE  TransportInv(u, TRUE, subscribing, shutDown, published, wire)
  <2>1. UdpOrder(u, published, wire)
    BY <1>3, <1>8, <1>13 DEF UdpOrder
  <2>2. NoneLost(u, published, wire)
    <3>1. Lacks(u.ready, {"writeFailed"}) <=> Lacks(t.ready, {"writeFailed"})
      BY <1>7, <1>9
    <3> QED BY <1>3, <1>8, <1>13, <3>1 DEF NoneLost, SameConnection
  <2>3. UdpSocket(u)
    <3>1. u.ready \in Seq(UdpReady)
      <4>1. t.ready \in Seq(UdpReady)
        BY <1>3, <1>13 DEF UdpSocket
      <4> QED BY <1>7, <1>8, <4>1, AppendLacks
    <3> QED BY <1>3, <1>8, <1>13, <3>1 DEF UdpSocket, SameConnection
  <2>4. UdpReading(u, subscribing) /\ UdpReads(u, subscribing)
    BY <1>3, <1>8, <1>10, <1>11, <1>13 DEF UdpReading, UdpReads
  <2> QED BY <1>8, <1>13, <2>1, <2>2, <2>3, <2>4 DEF TransportInv, SameConnection
<1>14. TransportInv(u, TRUE, subscribing, shutDown, published, wire)
  BY <1>3, <1>12, <1>13
<1>15. /\ status = "runs" /\ UNCHANGED <<subscribing, status, appVars>> /\ resendTimer' = resendTimer
       /\ wire' = wire
  BY DEF ReadCompletes, faceVars
<1>16. transport' = u
  <2>1. v = [t EXCEPT !.reads = @ - 1]
    BY <1>3, <1>4, <1>5
  <2> QED BY <1>1, <1>6, <2>1
<1> QED BY <1>8, <1>14, <1>15, <1>16, Types, Happens

LEMMA WriteCompletesInv ==
  ASSUME ClientInv, WriteCompletes
  PROVE  ClientInv'
<1>1. PICK t, w, x : /\ t = transport /\ x = Head(t.queue)
                     /\ w = IF x = Sub THEN wire ELSE Append(wire, x)
  OBVIOUS
<1>2. /\ status = "runs" /\ t.protocol = "tcp" /\ t.writes > 0
      /\ transport' = Post([t EXCEPT !.writes = @ - 1], "written") /\ wire' = w
  BY <1>1 DEF WriteCompletes
<1>3. /\ t \in Transports /\ ~t.threw /\ t.ready \in Seq(Handlers) /\ t.queue \in Seq(Packets)
      /\ TcpOrder(t, published, wire) /\ Stage(t, shutDown)
      /\ Reading(t, subscribing) /\ Writing(t)
  BY <1>1, <1>2, Members
<1>4. t.writes = 1 /\ Lacks(t.ready, WriteOps) /\ t.queue # <<>> /\ t.isConnected = 1
  <2>1. t.writes = 1
    BY <1>2, <1>3 DEF Writing, Turn
  <2> QED BY <1>2, <1>3, <2>1 DEF Writing, Turn, Stage, Outstanding
<1>5. PICK v : v = [t EXCEPT !.writes = 0]
  OBVIOUS
<1>6. PICK u : u = Post(v, "written")
  OBVIOUS
<1>7. /\ "written" \in Handlers /\ "written" \in WriteOps /\ "written" \notin ConnectOps
      /\ "written" \notin ResolveOps /\ "written" \notin ReadOps /\ "written" \in {"written"}
      /\ "written" # "writeFailed"
  BY DEF Handlers, ResolveOps, ConnectOps, ReadOps, WriteOps
<1>8. /\ u \in Transports /\ ~u.threw /\ SameConnection(t, u)
      /\ u.timer = t.timer /\ u.queue = t.queue /\ u.writes = 0 /\ u.reads = t.reads
      /\ u.ready = Append(t.ready, "written")
  <2>1. /\ v \in Transports /\ ~v.threw /\ SameConnection(t, v)
        /\ v.timer = t.timer /\ v.queue = t.queue /\ v.writes = 0 /\ v.reads = t.reads
        /\ v.ready = t.ready
    BY <1>3, <1>5 DEF Transports, SameConnection
  <2>2. /\ u \in Transports /\ SameConnection(v, u) /\ u.threw = v.threw
        /\ u.timer = v.timer /\ u.queue = v.queue /\ u.writes = v.writes /\ u.reads = v.reads
        /\ u.ready = Append(v.ready, "written")
    BY <1>6, <1>7, <2>1, PostMembers
  <2> QED BY <2>1, <2>2 DEF SameConnection
<1>9. Stage(u, shutDown)
  BY <1>2, <1>3, <1>4, <1>7, <1>8, StageAppend
<1>10. Reading(u, subscribing)
  <2>1. /\ Turn(t.reads, u.ready, ReadOps)
        /\ Busy(t.reads, u.ready, ReadOps) <=> Busy(t.reads, t.ready, ReadOps)
    BY <1>3, <1>7, <1>8, TurnAppend DEF Reading
  <2> QED BY <1>3, <1>8, <2>1 DEF Reading, Begun, SameConnection
<1>11. Writing(u)
  <2>1. Turn(1, t.ready, WriteOps)
    BY <1>4, NoneTurn
  <2>2. Turn(0, u.ready, WriteOps) /\ Busy(0, u.ready, WriteOps)
    BY <1>3, <1>7, <1>8, <2>1, TurnAppend
  <2> QED BY <1>4, <1>8, <2>2 DEF Writing
<1>12. TcpOrder(u, published, w) /\ w \in Seq(1..MaxPubs)
  <2>1. Twice(t) = 0
    BY <1>4, LacksParts DEF Twice
  <2>2. ~Lacks(u.ready, {"written"})
    BY <1>3, <1>7, <1>8, AppendLacks
  <2>3. Twice(u) = IF x # Sub THEN 1 ELSE 0
    BY <1>1, <1>8, <2>2 DEF Twice
  <2>4. Len(wire) \in Nat /\ published \in Nat /\ wire \in Seq(1..MaxPubs) /\ published \in 0..MaxPubs
    BY Types, LenProperties
  <2>5. Len(wire) - 0 = Len(wire)
    BY <2>4
  <2>6. /\ \A i \in 1..Len(wire) : wire[i] = i
        /\ Ascending(t.queue) /\ Len(wire) <= published
        /\ \A p \in Nat \ {Sub} : Holds(t.queue, p) <=> Len(wire) < p /\ p <= published
    BY <1>3, <2>1, <2>5 DEF TcpOrder
  <2>7. CASE x = Sub
    <3>1. w = wire /\ Twice(u) = 0
      BY <1>1, <2>3, <2>7
    <3> QED BY <1>8, <2>4, <2>5, <2>6, <3>1 DEF TcpOrder
  <2>8. CASE x # Sub
    <3>1. w = Append(wire, x) /\ Twice(u) = 1
      BY <1>1, <2>3, <2>8
    <3>2. x = Len(wire) + 1 /\ Len(wire) < published
      <4>1. Len(wire) \in Int /\ Len(wire) >= 0 /\ published \in Int
        BY <2>4
      <4> QED BY <1>1, <1>3, <1>4, <2>6, <2>8, <4>1, HeadIsLeast
    <3>3. x \in 1..MaxPubs
      BY <2>4, <3>2, ClientAssumption
    <3>4. /\ w \in Seq(1..MaxPubs) /\ Len(w) = Len(wire) + 1 /\ w[Len(wire) + 1] = x
          /\ \A i \in 1..Len(wire) : w[i] = wire[i]
      BY <2>4, <3>1, <3>3, AppendProperties
    <3>5. \A i \in 1..Len(w) : w[i] = i
      <4> SUFFICES ASSUME NEW i \in 1..Len(w) PROVE w[i] = i
        OBVIOUS
      <4>1. i \in 1..Len(wire) \/ i = Len(wire) + 1
        BY <2>4, <3>4
      <4> QED BY <2>6, <3>2, <3>4, <4>1
    <3>6. Len(w) - Twice(u) = Len(wire) /\ Twice(u) <= Len(w)
      BY <2>4, <3>1, <3>4
    <3> QED BY <1>8, <2>6, <3>4, <3>5, <3>6 DEF TcpOrder
  <2> QED BY <2>7, <2>8
<1>13. TransportInv(u, TRUE, subscribing, shutDown, published, w)
  BY <1>2, <1>8, <1>9, <1>10, <1>11, <1>12 DEF TransportInv, TcpRuns, SameConnection
<1>14. UNCHANGED <<subscribing, status, appVars>> /\ resendTimer' = resendTimer
  BY DEF WriteCompletes, faceVars
<1>15. transport' = u
  <2>1. v = [t EXCEPT !.writes = @ - 1]
    BY <1>3, <1>4, <1>5
  <2> QED BY <1>2, <1>6, <2>1
<1> QED BY <1>2, <1>8, <1>12, <1>13, <1>14, <1>15, Types, Happens

LEMMA SendToCompletesInv ==
  ASSUME ClientInv, SendToCompletes
  PROVE  ClientInv'
<1>1. PICK t, op, x, w :
        /\ t = transport /\ op \in {"written", "writeFailed"} /\ x = Head(t.queue)
        /\ w = IF x = Sub \/ op = "writeFailed" THEN wire ELSE Append(wire, x)
        /\ transport' = Post([t EXCEPT !.writes = @ - 1, !.queue = Tail(@)], op)
        /\ wire' = w
  BY DEF SendToCompletes
<1>2. status = "runs" /\ t.protocol = "udp" /\ t.writes > 0
  BY <1>1 DEF SendToCompletes
<1>3. /\ t \in Transports /\ ~t.threw /\ t.ready \in Seq(Handlers) /\ t.queue \in Seq(Packets)
      /\ UdpOrder(t, published, wire) /\ NoneLost(t, published, wire) /\ UdpSocket(t)
      /\ UdpReading(t, subscribing) /\ UdpReads(t, subscribing)
  BY <1>1, <1>2, Members
<1>4. t.queue # <<>> /\ t.writes = Len(t.queue) /\ t.socket = "up"
  <2>1. t.writes = Len(t.queue)
    BY <1>3 DEF UdpSocket
  <2>2. t.queue # <<>>
    BY <1>2, <1>3, <2>1, EmptySeq
  <2> QED BY <1>3, <2>1, <2>2 DEF UdpSocket
<1>5. PICK q \in Seq(Packets), n \in Nat :
        /\ q = Tail(t.queue) /\ n = t.writes - 1 /\ n = Len(q)
        /\ x \in Packets /\ \A e : Holds(t.queue, e) <=> Holds(q, e) \/ e = x
  <2>1. Tail(t.queue) \in Seq(Packets) /\ Len(Tail(t.queue)) = Len(t.queue) - 1
    BY <1>3, <1>4, HeadTailProperties
  <2>2. t.writes - 1 = Len(Tail(t.queue)) /\ Len(Tail(t.queue)) \in Nat
    BY <1>4, <2>1, LenProperties
  <2>3. x \in Packets /\ \A e : Holds(t.queue, e) <=> Holds(Tail(t.queue), e) \/ e = x
    BY <1>1, <1>3, <1>4, TailHolds
  <2> QED BY <2>1, <2>2, <2>3
<1>6. PICK v : v = [t EXCEPT !.writes = n, !.queue = q]
  OBVIOUS
<1>7. PICK u : u = Post(v, op)
  OBVIOUS
<1>8. op \in Handlers /\ op \in UdpReady /\ op \notin ReadOps
  BY <1>1 DEF Handlers, UdpReady, ReadOps
<1>9. /\ u \in Transports /\ ~u.threw /\ SameConnection(t, u)
      /\ u.timer = t.timer /\ u.queue = q /\ u.writes = n /\ u.reads = t.reads
      /\ u.ready = Append(t.ready, op)
  <2>1. /\ v \in Transports /\ ~v.threw /\ SameConnection(t, v)
        /\ v.timer = t.timer /\ v.queue = q /\ v.writes = n /\ v.reads = t.reads
        /\ v.ready = t.ready
    BY <1>3, <1>5, <1>6 DEF Transports, SameConnection, Packets
  <2>2. /\ u \in Transports /\ SameConnection(v, u) /\ u.threw = v.threw
        /\ u.timer = v.timer /\ u.queue = v.queue /\ u.writes = v.writes /\ u.reads = v.reads
        /\ u.ready = Append(v.ready, op)
    BY <1>7, <1>8, <2>1, PostMembers
  <2> QED BY <2>1, <2>2 DEF SameConnection
<1>10. /\ wire \in Seq(Packets) /\ wire \in Seq(1..MaxPubs) /\ published \in 0..MaxPubs
  BY Types
<1>11. /\ Ascending(t.queue) /\ Ascending(wire)
       /\ \A p, r \in Nat \ {Sub} : Holds(wire, p) /\ Holds(t.queue, r) => p < r
       /\ \A p \in Nat \ {Sub} : Holds(wire, p) \/ Holds(t.queue, p) => p <= published
  BY <1>3 DEF UdpOrder
<1>12. /\ Ascending(q)
       /\ x # Sub => \A p \in Nat \ {Sub} : Holds(q, p) => x < p
  BY <1>1, <1>3, <1>4, <1>5, <1>11, TailAscending
<1>13. /\ w \in Seq(1..MaxPubs) /\ Ascending(w)
       /\ \A p : Holds(w, p) <=> Holds(wire, p) \/ (p = x /\ x # Sub /\ op # "writeFailed")
  <2>1. CASE x = Sub \/ op = "writeFailed"
    BY <1>1, <1>10, <1>11, <2>1
  <2>2. CASE x # Sub /\ op # "writeFailed"
    <3>1. w = Append(wire, x)
      BY <1>1, <2>2
    <3>2. x \in Nat \ {Sub} /\ x \in 1..MaxPubs
      BY <1>5, <2>2, ClientAssumption DEF Packets, Sub
    <3>3. \A p \in Nat \ {Sub} : Holds(wire, p) => p < x
      BY <1>5, <1>11, <3>2
    <3>4. Ascending(w)
      BY <1>5, <1>10, <1>11, <3>1, <3>3, AppendAscending
    <3>5. w \in Seq(1..MaxPubs) /\ \A p : Holds(w, p) <=> Holds(wire, p) \/ p = x
      <4>1. \A p : Holds(w, p) <=> Holds(wire, p) \/ p = x
        BY <1>5, <1>10, <3>1, AppendHolds
      <4>2. w \in Seq(1..MaxPubs)
        BY <1>10, <3>1, <3>2, AppendProperties
      <4> QED BY <4>1, <4>2
    <3> QED BY <2>2, <3>4, <3>5
  <2> QED BY <2>1, <2>2
<1>14. UdpOrder(u, published, w)
  <2>1. ASSUME NEW p \in Nat \ {Sub}, NEW r \in Nat \ {Sub}, Holds(w, p), Holds(q, r) PROVE p < r
    BY <1>5, <1>11, <1>12, <1>13, <2>1
  <2>2. ASSUME NEW p \in Nat \ {Sub}, Holds(w, p) \/ Holds(q, p) PROVE p <= published
    BY <1>5, <1>11, <1>13, <2>2
  <2> QED BY <1>9, <1>12, <1>13, <2>1, <2>2 DEF UdpOrder
<1>15. NoneLost(u, published, w)
  <2>1. CASE op = "writeFailed"
    <3>1. ~Lacks(u.ready, {"writeFailed"})
      BY <1>3, <1>8, <1>9, <2>1, AppendLacks
    <3> QED BY <3>1 DEF NoneLost
  <2>2. CASE op # "writeFailed"
    <3>1. Lacks(u.ready, {"writeFailed"}) <=> Lacks(t.ready, {"writeFailed"})
      BY <1>3, <1>8, <1>9, <2>2, AppendLacks
    <3>2. \A p \in Nat \ {Sub} : Holds(wire, p) \/ Holds(t.queue, p) => Holds(w, p) \/ Holds(q, p)
      BY <1>5, <1>13, <2>2
    <3> QED BY <1>3, <1>9, <3>1, <3>2 DEF NoneLost, SameConnection
  <2> QED BY <2>1, <2>2
<1>16. UdpSocket(u)
  <2>1. u.ready \in Seq(UdpReady)
    <3>1. t.ready \in Seq(UdpReady)
      BY <1>3 DEF UdpSocket
    <3> QED BY <1>8, <1>9, <3>1, AppendLacks
  <2> QED BY <1>3, <1>4, <1>5, <1>9, <2>1 DEF UdpSocket, SameConnection
<1>17. UdpReading(u, subscribing) /\ UdpReads(u, subscribing)
  <2>1. /\ Turn(t.reads, u.ready, ReadOps)
        /\ Busy(t.reads, u.ready, ReadOps) <=> Busy(t.reads, t.ready, ReadOps)
    BY <1>3, <1>8, <1>9, TurnAppend DEF UdpReading
  <2> QED BY <1>3, <1>9, <2>1 DEF UdpReading, UdpReads, SameConnection
<1>18. TransportInv(u, TRUE, subscribing, shutDown, published, w)
  BY <1>2, <1>9, <1>14, <1>15, <1>16, <1>17 DEF TransportInv, SameConnection
<1>19. UNCHANGED <<subscribing, status, appVars>> /\ resendTimer' = resendTimer
  BY DEF SendToCompletes, faceVars
<1>20. transport' = u
  <2>1. v = [t EXCEPT !.writes = @ - 1, !.queue = Tail(@)]
    BY <1>3, <1>5, <1>6
  <2> QED BY <1>1, <1>7, <2>1
<1> QED BY <1>1, <1>2, <1>9, <1>13, <1>18, <1>19, <1>20, Types, Happens

(* A read and a write that were outstanding fail together.                 *)
LEMMA ConnectionLostInv ==
  ASSUME ClientInv, ConnectionLost
  PROVE  ClientInv'
<1>1. PICK t, r1, r2 :
        /\ t = transport
        /\ r1 = t.ready \o [i \in 1..t.reads |-> "readFailed"]
        /\ r2 = r1 \o [i \in 1..t.writes |-> "writeFailed"]
  OBVIOUS
<1>2. /\ status = "runs" /\ t.protocol = "tcp" /\ t.socket = "up"
      /\ transport' = [t EXCEPT !.socket = "lost", !.reads = 0, !.writes = 0, !.ready = r2]
  BY <1>1 DEF ConnectionLost
<1>3. /\ t \in Transports /\ ~t.threw /\ t.ready \in Seq(Handlers)
      /\ TcpOrder(t, published, wire) /\ Stage(t, shutDown)
      /\ Reading(t, subscribing) /\ Writing(t)
  BY <1>1, <1>2, Members
<1>4. /\ "readFailed" \in Handlers /\ "readFailed" \in ReadOps /\ "readFailed" \notin ConnectOps
      /\ "readFailed" \notin ResolveOps /\ "readFailed" \notin WriteOps /\ "readFailed" \notin {"written"}
      /\ "writeFailed" \in Handlers /\ "writeFailed" \in WriteOps /\ "writeFailed" \notin ConnectOps
      /\ "writeFailed" \notin ResolveOps /\ "writeFailed" \notin ReadOps /\ "writeFailed" \notin {"written"}
  BY DEF Handlers, ReadOps, WriteOps, ConnectOps, ResolveOps
<1>5. /\ Turn(t.reads, t.ready, ReadOps) /\ Turn(t.writes, t.ready, WriteOps)
      /\ t.reads \in {0, 1} /\ t.writes \in {0, 1}
  BY <1>3 DEF Reading, Writing, Turn
<1>6. /\ r1 = IF t.reads = 1 THEN Append(t.ready, "readFailed") ELSE t.ready
      /\ r1 \in Seq(Handlers)
  <2>1. t.ready \o [i \in 1..t.reads |-> "readFailed"]
          = IF t.reads = 1 THEN Append(t.ready, "readFailed") ELSE t.ready
    BY <1>3, <1>4, <1>5, ReadyRepeat
  <2>2. r1 = IF t.reads = 1 THEN Append(t.ready, "readFailed") ELSE t.ready
    BY <1>1, <2>1, Zenon
  <2>3. Append(t.ready, "readFailed") \in Seq(Handlers)
    BY <1>3, <1>4, AppendProperties
  <2> QED BY <1>3, <2>2, <2>3
<1>7. /\ r2 = IF t.writes = 1 THEN Append(r1, "writeFailed") ELSE r1
      /\ r2 \in Seq(Handlers)
  <2>1. r1 \in Seq(Handlers)
    BY <1>6
  <2>2. r1 \o [i \in 1..t.writes |-> "writeFailed"]
          = IF t.writes = 1 THEN Append(r1, "writeFailed") ELSE r1
    BY <1>4, <1>5, <2>1, ReadyRepeat
  <2>3. r2 = IF t.writes = 1 THEN Append(r1, "writeFailed") ELSE r1
    BY <1>1, <2>2, Zenon
  <2>4. Append(r1, "writeFailed") \in Seq(Handlers)
    BY <1>4, <2>1, AppendProperties
  <2> QED BY <2>1, <2>3, <2>4
<1>8. /\ Turn(0, r1, ReadOps) /\ (Busy(0, r1, ReadOps) <=> Busy(t.reads, t.ready, ReadOps))
      /\ Turn(t.writes, r1, WriteOps)
      /\ Busy(t.writes, r1, WriteOps) <=> Busy(t.writes, t.ready, WriteOps)
  <2>1. CASE t.reads = 1
    <3>1. r1 = Append(t.ready, "readFailed")
      BY <1>6, <2>1
    <3>2. Turn(0, r1, ReadOps) /\ Busy(0, r1, ReadOps) /\ Busy(t.reads, t.ready, ReadOps)
      BY <1>3, <1>4, <1>5, <2>1, <3>1, TurnAppend DEF Busy
    <3>3. /\ Turn(t.writes, r1, WriteOps)
          /\ Busy(t.writes, r1, WriteOps) <=> Busy(t.writes, t.ready, WriteOps)
      BY <1>3, <1>4, <1>5, <3>1, TurnAppend
    <3> QED BY <3>2, <3>3
  <2>2. CASE t.reads = 0
    BY <1>5, <1>6, <2>2
  <2> QED BY <1>5, <2>1, <2>2
<1>9. /\ Turn(0, r2, WriteOps) /\ (Busy(0, r2, WriteOps) <=> Busy(t.writes, t.ready, WriteOps))
      /\ Turn(0, r2, ReadOps) /\ (Busy(0, r2, ReadOps) <=> Busy(t.reads, t.ready, ReadOps))
  <2>1. CASE t.writes = 1
    <3>1. r2 = Append(r1, "writeFailed")
      BY <1>7, <2>1
    <3>2. Turn(0, r2, WriteOps) /\ Busy(0, r2, WriteOps) /\ Busy(t.writes, t.ready, WriteOps)
      BY <1>4, <1>6, <1>8, <2>1, <3>1, TurnAppend DEF Busy
    <3>3. /\ Turn(0, r2, ReadOps)
          /\ Busy(0, r2, ReadOps) <=> Busy(0, r1, ReadOps)
      BY <1>4, <1>6, <1>8, <3>1, TurnAppend
    <3> QED BY <1>8, <3>2, <3>3
  <2>2. CASE t.writes = 0
    BY <1>5, <1>7, <1>8, <2>2
  <2> QED BY <1>5, <2>1, <2>2
<1>10. \A ops : "readFailed" \notin ops /\ "writeFailed" \notin ops => (Lacks(r2, ops) <=> Lacks(t.ready, ops))
  <2>1. \A ops : "readFailed" \notin ops => (Lacks(r1, ops) <=> Lacks(t.ready, ops))
    BY <1>3, <1>4, <1>6, AppendLacks
  <2>2. \A ops : "writeFailed" \notin ops => (Lacks(r2, ops) <=> Lacks(r1, ops))
    <3>1. r1 \in Seq(Handlers)
      BY <1>6
    <3>2. CASE t.writes = 1
      BY <1>4, <1>7, <3>1, <3>2, AppendLacks
    <3>3. CASE t.writes # 1
      BY <1>7, <3>3
    <3> QED BY <3>2, <3>3
  <2> QED BY <2>1, <2>2
<1> HIDE <1>7, <1>6
<1>11. PICK u : u = [t EXCEPT !.socket = "lost", !.reads = 0, !.writes = 0, !.ready = r2]
  OBVIOUS
<1>12. /\ u \in Transports /\ ~u.threw /\ u.protocol = "tcp" /\ u.socket = "lost"
       /\ u.isConnected = t.isConnected /\ u.resolves = t.resolves
       /\ u.readFromConnect = t.readFromConnect /\ u.hears = t.hears
       /\ u.timer = t.timer /\ u.queue = t.queue /\ u.writes = 0 /\ u.reads = 0 /\ u.ready = r2
  BY <1>2, <1>3, <1>7, <1>11 DEF Transports
<1>13. Connection(u)
  <2>1. CASE Connected(t)
    <3>1. Lacks(r2, ResolveOps) /\ Lacks(r2, ConnectOps)
      BY <1>4, <1>10, <2>1 DEF Connected
    <3> QED BY <1>12, <2>1, <3>1 DEF Connected, Connection
  <2>2. CASE HasConnected(t)
    <3>1. t.reads = 0 /\ t.writes = 0
      BY <1>3, <1>5, <2>2 DEF Stage, Outstanding, HasConnected
    <3>2. r2 = t.ready
      BY <1>6, <1>7, <3>1
    <3> QED BY <1>2, <1>12, <2>2, <3>2 DEF HasConnected, Connection
  <2> QED BY <1>2, <1>3, <2>1, <2>2 DEF Stage, Connection, Unconnected, Resolving, Connecting
<1>14. Stage(u, shutDown)
  <2>1. Outstanding(u)
    BY <1>12 DEF Outstanding
  <2>2. Lacks(r2, {"connectTimedOut"}) <=> Lacks(t.ready, {"connectTimedOut"})
    BY <1>10
  <2>3. t.isConnected # 1 => (Lacks(r2, ReadOps) <=> Lacks(t.ready, ReadOps))
    <3>1. t.isConnected # 1 => t.reads = 0
      BY <1>3, <1>5 DEF Stage, Outstanding
    <3> QED BY <1>9, <3>1 DEF Busy
  <2>4. TimeLimit(u, shutDown)
    BY <1>3, <1>12, <2>2, <2>3 DEF Stage, TimeLimit
  <2> QED BY <1>13, <2>1, <2>4 DEF Stage
<1>15. Reading(u, subscribing)
  BY <1>3, <1>9, <1>12 DEF Reading, Begun
<1>16. Lacks(u.ready, {"written"}) <=> Lacks(t.ready, {"written"})
  BY <1>4, <1>10, <1>12
<1>17. Writing(u)
  BY <1>3, <1>9, <1>12, <1>16 DEF Writing
<1>18. TcpOrder(u, published, wire)
  BY <1>3, <1>12, <1>16, OrderSame
<1>19. TransportInv(u, TRUE, subscribing, shutDown, published, wire)
  BY <1>12, <1>14, <1>15, <1>17, <1>18 DEF TransportInv, TcpRuns
<1>20. /\ UNCHANGED <<subscribing, status, appVars>> /\ resendTimer' = resendTimer
       /\ wire' = wire /\ transport' = u
  BY <1>2, <1>11 DEF ConnectionLost, faceVars
<1> QED BY <1>2, <1>12, <1>19, <1>20, Types, Happens

-----------------------------------------------------------------------------
(***************************************************************************)
(* The invariant.                                                          *)
(***************************************************************************)
LEMMA ClientInit ==
  ASSUME Init
  PROVE  ClientInv
<1>1. /\ subscribing = FALSE /\ resendTimer = "off" /\ status = "runs" /\ published = 0
      /\ wire = <<>> /\ shutDown = FALSE
  BY DEF Init
<1>2. /\ wire \in Seq(1..MaxPubs) /\ Len(wire) = 0 /\ published \in 0..MaxPubs
      /\ \A p : ~Holds(<<>>, p)
  BY <1>1, ClientAssumption DEF Holds
<1>3. /\ \A ops : Lacks(<<>>, ops)
      /\ Ascending(<<>>)
      /\ <<>> \in Seq(Handlers) /\ <<>> \in Seq(0..MaxPubs) /\ <<>> \in Seq(UdpReady)
  BY DEF Lacks, Ascending
<1>5. CASE transport = Connect(NewTransport("tcp", "closed"))
  <2>1. PICK t : t = NewTransport("tcp", "closed")
    OBVIOUS
  <2>2. /\ t \in Transports /\ ~t.threw /\ t.protocol = "tcp" /\ t.socket = "closed"
        /\ t.isConnected = -1 /\ t.resolves = 0 /\ t.timer = "off" /\ ~t.readFromConnect
        /\ t.queue = <<>> /\ t.writes = 0 /\ t.reads = 0 /\ t.ready = <<>>
    BY <2>1, NewMembers
  <2>3. PICK u : u = transport
    OBVIOUS
  <2>4. /\ u \in Transports /\ ~u.threw /\ u.protocol = "tcp" /\ u.socket = "closed"
        /\ u.isConnected = 0 /\ u.resolves = 1 /\ u.timer = "connect" /\ ~u.readFromConnect
        /\ u.queue = <<>> /\ u.writes = 0 /\ u.reads = 0 /\ u.ready = <<>>
    BY <1>5, <2>1, <2>2, <2>3, ConnectMembers
  <2>5. Resolving(u)
    <3>1. Turn(1, u.ready, ResolveOps) /\ Busy(1, u.ready, ResolveOps)
      BY <1>3, <2>4, NoneTurn
    <3>2. Before(u.ready, {"connected", "read", "readFailed", "written"}, ResolveOps)
      BY <1>3, <2>4, LacksBefore
    <3> QED BY <1>3, <2>4, <3>1, <3>2 DEF Resolving
  <2>6. Stage(u, FALSE)
    BY <1>3, <2>4, <2>5 DEF Stage, Connection, Outstanding, TimeLimit
  <2>7. \A ops : Turn(0, u.ready, ops) /\ ~Busy(0, u.ready, ops)
    BY <1>3, <2>4, NoneTurn
  <2>8. Reading(u, FALSE) /\ Writing(u)
    BY <1>3, <2>4, <2>7 DEF Reading, Begun, Writing
  <2>9. TcpOrder(u, 0, <<>>)
    <3>1. Twice(u) = 0
      BY <1>3, <2>4 DEF Twice
    <3>2. Len(<<>>) = 0
      OBVIOUS
    <3>3. \A p \in Nat \ {Sub} : Holds(u.queue, p) <=> 0 < p /\ p <= 0
      BY <1>2, <2>4 DEF Sub
    <3> QED BY <1>3, <2>4, <3>1, <3>2, <3>3 DEF TcpOrder
  <2>10. TransportInv(u, TRUE, FALSE, FALSE, 0, <<>>)
    BY <2>4, <2>6, <2>8, <2>9 DEF TransportInv, TcpRuns
  <2> QED BY <1>1, <1>2, <2>3, <2>4, <2>10 DEF ClientInv, TypeOK
<1>6. CASE transport = NewTransport("udp", "up")
  <2>1. PICK u : u = transport
    OBVIOUS
  <2>2. /\ u \in Transports /\ ~u.threw /\ u.protocol = "udp" /\ u.socket = "up"
        /\ u.isConnected = -1 /\ u.resolves = 0 /\ u.timer = "off" /\ ~u.readFromConnect
        /\ u.queue = <<>> /\ u.writes = 0 /\ u.reads = 0 /\ u.ready = <<>>
    BY <1>6, <2>1, NewMembers
  <2>3. UdpOrder(u, 0, <<>>) /\ NoneLost(u, 0, <<>>)
    BY <1>2, <1>3, <2>2 DEF UdpOrder, NoneLost, Sub
  <2>4. UdpSocket(u)
    <3>1. Len(<<>>) = 0
      OBVIOUS
    <3> QED BY <1>3, <2>2, <3>1 DEF UdpSocket
  <2>5. Turn(0, u.ready, ReadOps) /\ ~Busy(0, u.ready, ReadOps)
    BY <1>3, <2>2, NoneTurn
  <2>6. UdpReading(u, FALSE) /\ UdpReads(u, FALSE)
    BY <2>2, <2>5 DEF UdpReading, UdpReads
  <2>7. TransportInv(u, TRUE, FALSE, FALSE, 0, <<>>)
    BY <2>2, <2>3, <2>4, <2>6 DEF TransportInv
  <2> QED BY <1>1, <1>2, <2>1, <2>2, <2>7 DEF ClientInv, TypeOK
<1> QED BY <1>5, <1>6, ClientAssumption DEF Init

LEMMA ClientStep ==
  ASSUME ClientInv, [Next]_vars
  PROVE  ClientInv'
<1>1. CASE EventLoop
  BY <1>1, HandleResendInv, HandleResolvedInv, HandleConnectedInv, HandleFailureInv,
     HandleWrittenInv, HandleReadInv, HandleReadFailedInv, HandleReceiveTimeoutInv,
     HandleSentInv, HandleDatagramInv, HandleBadDatagramInv, HandleReadCanceledInv DEF EventLoop
<1>2. CASE Subscribe \/ Publish \/ SubscribeTooLong \/ PublishTooLong \/ Shutdown
  BY <1>2, SubscribeInv, PublishInv, SubscribeTooLongInv, PublishTooLongInv, ShutdownInv
<1>3. CASE Resolves \/ ConnectCompletes \/ WriteCompletes \/ ReadCompletes \/ ConnectionLost
  BY <1>3, ResolvesInv, ConnectCompletesInv, WriteCompletesInv, ReadCompletesInv, ConnectionLostInv
<1>4. CASE SendToCompletes \/ TimerExpires \/ ResendTimerExpires
  BY <1>4, SendToCompletesInv, TimerExpiresInv, ResendTimerExpiresInv
<1>5. CASE UNCHANGED vars
  BY <1>5 DEF vars, faceVars, appVars, ClientInv, TypeOK
<1> QED BY <1>1, <1>2, <1>3, <1>4, <1>5 DEF Next

(* The invariant of the client library: the stage its connection is in,    *)
(* what may be ready to run in it, and what waits to be written.           *)
THEOREM ClientInvariant == Spec => []ClientInv
<1>1. Init => ClientInv
  BY ClientInit
<1>2. ClientInv /\ [Next]_vars => ClientInv'
  BY ClientStep
<1> QED BY <1>1, <1>2, PTL DEF Spec

(* Type correctness; no exception is left on its way to run().             *)
THEOREM ClientTypeOK == Spec => []TypeOK
<1>1. ClientInv => TypeOK
  BY DEF ClientInv
<1> QED BY <1>1, ClientInvariant, PTL

-----------------------------------------------------------------------------
(***************************************************************************)
(* The properties of the client.                                           *)
(***************************************************************************)
LEMMA QueuedNone ==
  ASSUME NEW op
  PROVE  Queued(op) <=> ~Lacks(transport.ready, {op})
  BY DEF Queued, Lacks

(* Over tcp one write is under way whenever the client is connected and    *)
(* packets wait, and never two: asyncWrite(), connectHandler() and the     *)
(* completion of a write start it.                                         *)
THEOREM ClientOneWriteOfTheHead == Spec => []OneWriteOfTheHead
<1>1. ClientInv => OneWriteOfTheHead
  <2> SUFFICES ASSUME ClientInv, status = "runs", transport.protocol = "tcp"
               PROVE  LET writing == transport.writes + Count({"written", "writeFailed"})
                      IN  /\ writing <= 1
                          /\ transport.isConnected = 1 => (writing = 1) = (transport.queue # <<>>)
    BY DEF OneWriteOfTheHead
  <2> DEFINE writing == transport.writes + Count({"written", "writeFailed"})
  <2>1. transport.ready \in Seq(Handlers) /\ Writing(transport)
    BY Members
  <2>2. writing <= 1 /\ (writing = 1 <=> Busy(transport.writes, transport.ready, WriteOps))
    BY <2>1, CountTurn DEF Writing, Count, WriteOps
  <2> HIDE DEF writing
  <2>3. transport.isConnected = 1 => (writing = 1 <=> transport.queue # <<>>)
    BY <2>1, <2>2 DEF Writing
  <2> QED BY <2>2, <2>3 DEF writing
<1> QED BY <1>1, ClientInvariant, PTL

LEMMA NumbersHeld ==
  ASSUME NEW S, S \subseteq Nat, NEW q \in Seq(S)
  PROVE  \A p : p \in Numbers(q) <=> p \in Nat \ {Sub} /\ Holds(q, p)
<1>1. \A i \in 1..Len(q) : q[i] \in Nat
  BY ElementOfSeq
<1> QED BY <1>1 DEF Numbers, Holds

(* Every publication is written once and in order: over tcp with none      *)
(* skipped, whatever connections break, over udp lost only with an error   *)
(* or with the socket.                                                     *)
THEOREM ClientWrittenOnceInOrder == Spec => []WrittenOnceInOrder
<1>1. ClientInv => WrittenOnceInOrder
  <2> SUFFICES ASSUME ClientInv, status = "runs" PROVE WrittenOnceInOrder
    BY DEF WrittenOnceInOrder
  <2>1. PICK t, w, pubs : t = transport /\ w = wire /\ pubs = published
    OBVIOUS
  <2>2. /\ t \in Transports /\ t.protocol \in {"tcp", "udp"} /\ t.queue \in Seq(Packets)
        /\ w \in Seq(Packets) /\ pubs \in Nat
        /\ t.protocol = "tcp" => TcpOrder(t, pubs, w)
        /\ t.protocol = "udp" => UdpOrder(t, pubs, w) /\ NoneLost(t, pubs, w)
    BY <2>1, Types, MemberTypes DEF ClientInv, TransportInv
  <2>3. /\ \A p : p \in Numbers(t.queue) <=> p \in Nat \ {Sub} /\ Holds(t.queue, p)
        /\ \A p : p \in Numbers(w) <=> p \in Nat \ {Sub} /\ Holds(w, p)
    <3>1. Packets \subseteq Nat
      BY DEF Packets
    <3> QED BY <2>2, <3>1, NumbersHeld
  <2> DEFINE twice == IF Queued("written") /\ Head(transport.queue) # Sub THEN 1 ELSE 0
  <2>4. twice = Twice(t) /\ twice \in {0, 1}
    BY <2>1, QueuedNone DEF Twice
  <2> HIDE DEF twice
  <2>5. ASSUME t.protocol = "tcp"
        PROVE  /\ Ascending(t.queue)
               /\ \A i \in 1..Len(w) : w[i] = i
               /\ Len(w) - twice <= pubs
               /\ Numbers(t.queue) = Len(w) - twice + 1 .. pubs
    <3>1. /\ Ascending(t.queue) /\ \A i \in 1..Len(w) : w[i] = i
          /\ twice <= Len(w) /\ Len(w) - twice <= pubs
          /\ \A p \in Nat \ {Sub} : Holds(t.queue, p) <=> Len(w) - twice < p /\ p <= pubs
      BY <2>2, <2>4, <2>5 DEF TcpOrder
    <3>2. PICK lo \in Nat : lo = Len(w) - twice
      BY <2>2, <2>4, <3>1, LenProperties
    <3>3. \A p : p \in Numbers(t.queue) <=> p \in Nat \ {Sub} /\ lo < p /\ p <= pubs
      BY <2>3, <3>1, <3>2
    <3>4. \A p : p \in lo + 1 .. pubs <=> p \in Nat \ {Sub} /\ lo < p /\ p <= pubs
      BY <2>2, <3>2 DEF Sub
    <3>5. Numbers(t.queue) = lo + 1 .. pubs
      BY <3>3, <3>4
    <3> QED BY <3>1, <3>2, <3>5
  <2>6. ASSUME t.protocol = "udp"
        PROVE  /\ Ascending(t.queue) /\ Ascending(w)
               /\ \A p \in Numbers(w), q \in Numbers(t.queue) : p < q
               /\ Numbers(w) \cup Numbers(t.queue) \subseteq 1..pubs
               /\ \/ 1..pubs \subseteq Numbers(w) \cup Numbers(t.queue)
                  \/ Queued("writeFailed") \/ t.socket = "closed"
    <3>1. UdpOrder(t, pubs, w) /\ NoneLost(t, pubs, w)
      BY <2>2, <2>6
    <3>2. \A p \in Nat \ {Sub} : 1 <= p
      BY DEF Sub
    <3>3. Numbers(w) \cup Numbers(t.queue) \subseteq 1..pubs
      BY <2>2, <2>3, <3>1, <3>2 DEF UdpOrder
    <3>4. \/ 1..pubs \subseteq Numbers(w) \cup Numbers(t.queue)
          \/ Queued("writeFailed") \/ t.socket = "closed"
      <4>1. CASE \A p \in Nat \ {Sub} : p <= pubs => Holds(w, p) \/ Holds(t.queue, p)
        <5>1. \A p \in 1..pubs : p \in Nat \ {Sub} /\ p <= pubs
          BY <2>2 DEF Sub
        <5> QED BY <2>3, <4>1, <5>1
      <4>2. CASE ~Lacks(t.ready, {"writeFailed"}) \/ t.socket = "closed"
        BY <2>1, <4>2, QueuedNone
      <4> QED BY <3>1, <4>1, <4>2 DEF NoneLost
    <3> QED BY <2>3, <3>1, <3>3, <3>4 DEF UdpOrder
  <2> QED BY <2>1, <2>2, <2>5, <2>6 DEF WrittenOnceInOrder, twice
<1> QED BY <1>1, ClientInvariant, PTL

(* Over tcp m_isConnected is what the socket is, and a connection that is  *)
(* being made has something that goes on with it, and a time limit unless  *)
(* shutdown() took it.                                                     *)
THEOREM ClientConnectionStateIsTrue == Spec => []ConnectionStateIsTrue
<1>1. ClientInv => ConnectionStateIsTrue
  <2> SUFFICES ASSUME ClientInv, status = "runs", transport.protocol = "tcp"
               PROVE  ConnectionStateIsTrue
    BY DEF ConnectionStateIsTrue
  <2>1. PICK t : t = transport
    OBVIOUS
  <2>2. t \in Transports /\ Stage(t, shutDown) /\ t.isConnected \in {-1, 0, 1}
        /\ t.resolves \in {0, 1}
    BY <2>1, Members, MemberTypes
  <2>3. ASSUME t.isConnected = 1 PROVE t.socket # "closed"
    BY <2>2, <2>3 DEF Stage, Connection, Unconnected, Resolving, Connecting, HasConnected, Connected
  <2>4. ASSUME t.isConnected = -1 PROVE t.socket = "closed"
    BY <2>2, <2>4 DEF Stage, Connection, Unconnected, Resolving, Connecting, HasConnected, Connected
  <2>5. ASSUME t.isConnected = 0
        PROVE  /\ \/ t.resolves > 0 \/ t.socket = "connecting"
                  \/ \E op \in {"resolved", "resolveFailed", "connected", "connectFailed"} : Queued(op)
               /\ shutDown \/ t.timer = "connect" \/ Queued("connectTimedOut")
    <3>1. Resolving(t) \/ Connecting(t) \/ HasConnected(t)
      BY <2>2, <2>5 DEF Stage, Connection, Unconnected, Connected
    <3>2. \A op : Queued(op) <=> ~Lacks(t.ready, {op})
      BY <2>1, QueuedNone
    <3>3. ~Lacks(t.ready, ResolveOps) => Queued("resolved") \/ Queued("resolveFailed")
      BY <3>2, LacksParts
    <3>4. shutDown \/ t.timer = "connect" \/ Queued("connectTimedOut")
      BY <2>2, <2>5, <3>2 DEF Stage, TimeLimit
    <3>5. CASE Resolving(t)
      BY <3>3, <3>4, <3>5 DEF Resolving, Busy
    <3>6. CASE Connecting(t)
      BY <3>4, <3>6 DEF Connecting
    <3>7. CASE HasConnected(t)
      BY <3>2, <3>4, <3>7 DEF HasConnected
    <3> QED BY <3>1, <3>5, <3>6, <3>7
  <2>6. CASE t.isConnected = 1
    BY <2>1, <2>3, <2>6 DEF ConnectionStateIsTrue
  <2>7. CASE t.isConnected = -1
    BY <2>1, <2>4, <2>7 DEF ConnectionStateIsTrue
  <2>8. CASE t.isConnected = 0
    BY <2>1, <2>5, <2>8 DEF ConnectionStateIsTrue
  <2> QED BY <2>2, <2>6, <2>7, <2>8
<1> QED BY <1>1, ClientInvariant, PTL

(* A subscriber reads once at a time, and does read as long as it is       *)
(* connected, with the two exceptions that hears stands for: a client that *)
(* subscribed on a connection that was up is deaf on the next one, and a   *)
(* udp client after a packet that is no publication.                       *)
THEOREM ClientSubscriberListens == Spec => []SubscriberListens
<1>1. ClientInv => SubscriberListens
  <2> SUFFICES ASSUME ClientInv, status = "runs" PROVE SubscriberListens
    BY DEF SubscriberListens
  <2>1. PICK t : t = transport
    OBVIOUS
  <2>2. /\ t.protocol \in {"tcp", "udp"} /\ t.ready \in Seq(Handlers)
        /\ t.protocol = "tcp" => Reading(t, subscribing)
        /\ t.protocol = "udp" => /\ UdpSocket(t)
                                 /\ UdpReading(t, subscribing) /\ UdpReads(t, subscribing)
    BY <2>1, Members
  <2> DEFINE reading == transport.reads + Count({"read", "readFailed"})
  <2>3. Turn(t.reads, t.ready, ReadOps)
    BY <2>2 DEF Reading, UdpReading
  <2>4. reading <= 1 /\ (reading = 1 <=> Busy(t.reads, t.ready, ReadOps))
    BY <2>1, <2>2, <2>3, CountTurn DEF Count, ReadOps
  <2> HIDE DEF reading
  <2>5. ASSUME subscribing, t.hears # "never",
               IF t.protocol = "tcp" THEN t.isConnected = 1 ELSE t.socket = "up"
        PROVE  reading = 1
    <3>1. CASE t.protocol = "tcp"
      BY <2>2, <2>4, <2>5, <3>1 DEF Reading
    <3>2. CASE t.protocol = "udp"
      BY <2>2, <2>4, <2>5, <3>2 DEF UdpSocket, UdpReads
    <3> QED BY <2>2, <3>1, <3>2
  <2> QED BY <2>1, <2>4, <2>5 DEF SubscriberListens, reading
<1> QED BY <1>1, ClientInvariant, PTL

=============================================================================

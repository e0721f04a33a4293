-------------------------- MODULE RendezvousProofs --------------------------
(***************************************************************************)
(* Proof that the rendezvous point answers to the publisher, for every     *)
(* number of clients, packets and sockets.                                 *)
(***************************************************************************)
EXTENDS Rendezvous, DataProofs

(***************************************************************************)
(* Types.                                                                  *)
(***************************************************************************)
Packet == [from : Clients, n : Nat, kind : Kinds]

(* The ids up to n. *)
Ids(n) == FirstSerial+1 .. n

Events(n) ==
  [op : {"handleAccept"}, client : TcpClients]
  \cup [op : {"acceptFailed"}]
  \cup [op : {"serverReceive"}, packet : Packet]
  \cup [op : {"handleReceive"}, face : Ids(n), packet : Packet]
  \cup [op : {"failed", "handleTimeout", "handleShutdown", "onFaceShutdown"}, face : Ids(n)]

TypeOK ==
  /\ {up, accepting, receiving, deaf} \subseteq BOOLEAN
  /\ serial \in Nat /\ serial >= FirstSerial
  /\ faces \subseteq Created /\ reading \subseteq Created
  /\ owner \in [Created -> Clients]
  /\ link \in [Created -> {"open", "closing", "closed"}]
  /\ out \in [Created -> Seq(Packet)]
  /\ buffer \in [Created -> Seq(Packet)]
  /\ queue \in Seq(Events(serial))
  /\ conn \in [Clients -> {"up", "gone"}]
  /\ sends \in [Clients -> Seq(Packet)]
  /\ got \in [Clients -> Seq(Packet)]
  /\ datagrams \in Seq(Packet)
  /\ raced \subseteq Packet

-----------------------------------------------------------------------------
(***************************************************************************)
(* Faces: whose they are, how they go, and what the queue has of them.     *)
(***************************************************************************)
Accepts      == [op : {"handleAccept"}, client : TcpClients]
Reads(f)     == [op : {"handleReceive"}, face : {f}, packet : Packet]
Carriers(p)  == [op : {"serverReceive"}, packet : {p}]
                \cup [op : {"handleReceive"}, face : Nat, packet : {p}]

(* One accept at a time. *)
AcceptTurn ==
  /\ AtMostOne(queue, Accepts)
  /\ accepting => Lacks(queue, Accepts)

(* A tcp client gets one face, once it is accepted. *)
OneFace ==
  /\ \A f, g \in Created : owner[f] = owner[g] /\ owner[f] \in TcpClients => f = g
  /\ \A f \in Created : Lacks(queue, {Accepted(owner[f])})

(* A face leaves the table after its socket is closed. *)
ClosedBeforeRemoved ==
  /\ \A f \in Created \ faces : link[f] = "closed"
  /\ \A f \in Created : link[f] = "closed" \/ Lacks(queue, {FaceShutdownPosted(f)})
  /\ \A f \in Created : link[f] = "closed" => buffer[f] = <<>>

ReadTurn ==
  \A f \in Created : /\ AtMostOne(queue, Reads(f))
                     /\ f \in reading => Lacks(queue, Reads(f))

FacesInv == AcceptTurn /\ OneFace /\ ClosedBeforeRemoved /\ ReadTurn

(***************************************************************************)
(* A tcp client: what it sent has been taken from the buffer up to some    *)
(* packet, which may be queued; the publications up to there came back or  *)
(* are being sent back.                                                    *)
(***************************************************************************)
SentInOrder ==
  \A c \in Clients : \A n \in 1..Len(sends[c]) : sends[c][n].from = c /\ sends[c][n].n = n

(* s are the publications among the first m packets of sent.               *)
PublicationsOf(s, sent, m) ==
  /\ ComesBack(s, sent)
  /\ \A i \in 1..Len(s) : s[i].n <= m
  /\ \A n \in 1..m : sent[n].kind = "PubToRp" => Holds(s, sent[n])

Line(q, f, sent, buf, line) ==
  LET m == Len(sent) - Len(buf)
  IN  /\ m \in Nat
      /\ \A i \in 1..Len(buf) : buf[i] = sent[m + i]
      /\ \/ Lacks(q, Reads(f)) /\ PublicationsOf(line, sent, m)
         \/ m > 0 /\ Holds(q, Received(f, sent[m])) /\ PublicationsOf(line, sent, m - 1)

InLine(f) == Line(queue, f, sends[owner[f]], buffer[f], got[owner[f]] \o out[f])

CameBack      == \A c \in TcpClients : ComesBack(got[c], sends[c])
NothingBefore == \A c \in TcpClients : (\A f \in Created : owner[f] # c) => got[c] = <<>>
AllInLine     == \A f \in Created : owner[f] \in TcpClients /\ link[f] # "closed" => InLine(f)

TcpInv == CameBack /\ NothingBefore /\ AllInLine

(***************************************************************************)
(* Datagrams: each is in one place, and was sent.                          *)
(***************************************************************************)
AtAll(p, D, Q, F, B, G) ==
  \/ ~Lacks(D, {p}) \/ ~Lacks(Q, Carriers(p))
  \/ \E f \in F : ~Lacks(B[f], {p})
  \/ \E c \in UdpClients : ~Lacks(G[c], {p})

OnePlace(p, D, Q, F, B, G) ==
  /\ AtMostOne(D, {p})
  /\ AtMostOne(Q, Carriers(p))
  /\ \A f \in F : AtMostOne(B[f], {p})
  /\ \A c \in UdpClients : AtMostOne(G[c], {p})
  /\ Lacks(D, {p}) \/ Lacks(Q, Carriers(p))
  /\ \A f \in F : \/ Lacks(B[f], {p})
                  \/ /\ Lacks(D, {p}) /\ Lacks(Q, Carriers(p))
                     /\ \A g \in F \ {f} : Lacks(B[g], {p})
  /\ \A c \in UdpClients : \/ Lacks(G[c], {p})
                           \/ /\ Lacks(D, {p}) /\ Lacks(Q, Carriers(p))
                              /\ \A f \in F : Lacks(B[f], {p})
                              /\ \A d \in UdpClients \ {c} : Lacks(G[d], {p})

Somewhere(p)  == AtAll(p, datagrams, queue, Created, buffer, got)
InOnePlace(p) == OnePlace(p, datagrams, queue, Created, buffer, got)
WasSent(p)    == p.n \in 1..Len(sends[p.from])

(* What may be in a socket, or come back to a client. *)
Own(c, p, late) == p.from \in UdpClients /\ (p.from = c \/ p \in late)

Placed == \A p \in Packet : p.from \in UdpClients => InOnePlace(p) /\ (Somewhere(p) => WasSent(p))

ToServer == \A p : Holds(datagrams, p) \/ Holds(queue, Datagram(p)) => p.from \in UdpClients

ToSockets ==
  \A f \in Created : owner[f] \in UdpClients =>
    /\ out[f] = <<>>
    /\ \A p : Holds(buffer[f], p) \/ Holds(queue, Received(f, p)) => Own(owner[f], p, raced)

Answers == \A c \in UdpClients : \A p : Holds(got[c], p) => Own(c, p, raced)

UdpInv == Placed /\ ToServer /\ ToSockets /\ Answers

RendezvousInv == TypeOK /\ FacesInv /\ SentInOrder /\ TcpInv /\ UdpInv

-----------------------------------------------------------------------------
(***************************************************************************)
(* Sequences of packets.                                                   *)
(***************************************************************************)
LEMMA LacksHolds ==
  ASSUME NEW q, NEW e
  PROVE  Lacks(q, {e}) <=> ~Holds(q, e)
  BY DEF Lacks, Holds

LEMMA ConcatAppend ==
  ASSUME NEW S, NEW s \in Seq(S), NEW t \in Seq(S), NEW x \in S
  PROVE  s \o Append(t, x) = Append(s \o t, x)
<1>1. <<x>> \in Seq(S) /\ s \o t \in Seq(S)
  BY ConcatProperties
<1>2. Append(t, x) = t \o <<x>> /\ Append(s \o t, x) = (s \o t) \o <<x>>
  BY <1>1, AppendIsConcat
<1>3. s \o (t \o <<x>>) = (s \o t) \o <<x>>
  BY <1>1, ConcatAssociative
<1> QED BY <1>2, <1>3, Zenon

(* The head of t moves to the end of s. *)
LEMMA ConcatMove ==
  ASSUME NEW S, NEW s \in Seq(S), NEW t \in Seq(S), t # <<>>
  PROVE  /\ Head(t) \in S /\ Tail(t) \in Seq(S)
         /\ Append(s, Head(t)) \in Seq(S)
         /\ Append(s, Head(t)) \o Tail(t) = s \o t
<1> DEFINE h == Head(t)
           r == Tail(t)
<1>1. h \in S /\ r \in Seq(S)
  BY HeadTailProperties
<1>2. Append(s, h) \in Seq(S) /\ <<h>> \in Seq(S) /\ Append(s, h) = s \o <<h>>
  BY <1>1, AppendProperties, AppendIsConcat
<1>3. t = <<h>> \o r
  <2>1. /\ Len(t) \in Nat /\ Len(t) >= 1 /\ Len(r) = Len(t) - 1 /\ h = t[1]
        /\ \A i \in 1..Len(r) : r[i] = t[i+1]
    BY HeadTailProperties, EmptySeq, LenProperties
  <2>2. /\ <<h>> \o r \in Seq(S)
        /\ Len(<<h>> \o r) = 1 + Len(r)
        /\ \A i \in 1..1 + Len(r) : (<<h>> \o r)[i] = IF i <= 1 THEN <<h>>[i] ELSE r[i - 1]
    <3>1. Len(<<h>>) = 1
      OBVIOUS
    <3> HIDE DEF h, r
    <3> QED BY <1>1, <1>2, <3>1, ConcatProperties
  <2>3. \A i \in 1..Len(t) : i = 1 \/ (i - 1 \in 1..Len(r) /\ r[i - 1] = t[i] /\ ~(i <= 1))
    BY <2>1
  <2>4. 1 + Len(r) = Len(t)
    BY <2>1
  <2>5. <<h>>[1] = h /\ 1 <= 1
    OBVIOUS
  <2> HIDE DEF h, r
  <2>6. \A i \in 1..Len(t) : (<<h>> \o r)[i] = t[i]
    BY <2>1, <2>2, <2>3, <2>4, <2>5
  <2> QED BY <2>2, <2>4, <2>6, SeqEqual
<1>4. (s \o <<h>>) \o r = s \o (<<h>> \o r)
  BY <1>1, <1>2, ConcatAssociative
<1> QED BY <1>1, <1>2, <1>3, <1>4, Zenon

-----------------------------------------------------------------------------
(***************************************************************************)
(* The publications among what a client sent.                              *)
(***************************************************************************)
LEMMA ComesBackHolds ==
  ASSUME NEW s \in Seq(Packet), NEW sent
  PROVE  ComesBack(s, sent) <=>
           /\ \A i \in 1..Len(s) : /\ s[i].kind = "PubToRp"
                                   /\ s[i].n \in 1..Len(sent) /\ s[i] = sent[s[i].n]
           /\ \A i, j \in 1..Len(s) : i < j => s[i].n < s[j].n
           /\ \A n \in 1..Len(sent), j \in 1..Len(s) :
                sent[n].kind = "PubToRp" /\ n <= s[j].n => Holds(s, sent[n])
<1>1. \A e : Holds(s, e) <=> e \in Range(s)
  BY HoldsIsRange
<1> QED BY <1>1 DEF ComesBack

LEMMA NoneComesBack ==
  ASSUME NEW sent
  PROVE  ComesBack(<<>>, sent) /\ PublicationsOf(<<>>, sent, 0)
<1>1. Len(<<>>) = 0 /\ \A i : i \notin 1..0
  OBVIOUS
<1>2. ComesBack(<<>>, sent)
  BY <1>1 DEF ComesBack
<1> QED BY <1>1, <1>2 DEF PublicationsOf

(* What came back before comes back in the same way. *)
LEMMA FirstOnesComeBack ==
  ASSUME NEW s \in Seq(Packet), NEW t \in Seq(Packet), NEW sent \in Seq(Packet),
         \A n \in 1..Len(sent) : sent[n].n = n, ComesBack(s \o t, sent)
  PROVE  ComesBack(s, sent)
<1> DEFINE w == s \o t
<1>1. /\ w \in Seq(Packet)
      /\ \A i \in 1..Len(s) : i \in 1..Len(w) /\ w[i] = s[i]
      /\ Len(s) \in Nat /\ Len(w) \in Nat
  <2>1. /\ w \in Seq(Packet) /\ Len(w) = Len(s) + Len(t)
        /\ \A i \in 1..Len(s) + Len(t) : w[i] = IF i <= Len(s) THEN s[i] ELSE t[i - Len(s)]
        /\ Len(s) \in Nat /\ Len(t) \in Nat
    BY ConcatProperties, LenProperties
  <2> QED BY <2>1
<1> HIDE DEF w
<1>2. /\ \A i \in 1..Len(w) : /\ w[i].kind = "PubToRp"
                              /\ w[i].n \in 1..Len(sent) /\ w[i] = sent[w[i].n]
      /\ \A i, j \in 1..Len(w) : i < j => w[i].n < w[j].n
      /\ \A n \in 1..Len(sent), j \in 1..Len(w) :
           sent[n].kind = "PubToRp" /\ n <= w[j].n => Holds(w, sent[n])
  BY <1>1, ComesBackHolds DEF w
<1>3. ASSUME NEW n \in 1..Len(sent), NEW j \in 1..Len(s), sent[n].kind = "PubToRp", n <= s[j].n
      PROVE  Holds(s, sent[n])
  <2>1. j \in 1..Len(w) /\ w[j] = s[j] /\ Holds(w, sent[n])
    BY <1>1, <1>2, <1>3
  <2>2. PICK k \in 1..Len(w) : w[k] = sent[n]
    BY <2>1 DEF Holds
  <2>3. CASE k <= Len(s)
    <3>1. k \in 1..Len(s)
      BY <1>1, <2>3
    <3>2. s[k] = sent[n]
      BY <1>1, <2>2, <3>1
    <3> QED BY <3>1, <3>2 DEF Holds
  <2>4. CASE ~(k <= Len(s))
    <3>1. j < k /\ w[j].n < w[k].n
      BY <1>1, <1>2, <2>1, <2>4
    <3>2. w[k].n = n /\ w[j].n \in 1..Len(sent) /\ n <= w[j].n
      BY <1>2, <1>3, <2>1, <2>2
    <3> QED BY <3>1, <3>2, LenProperties
  <2> QED BY <1>1, <2>3, <2>4
<1>4. \A i \in 1..Len(s) : /\ s[i].kind = "PubToRp"
                           /\ s[i].n \in 1..Len(sent) /\ s[i] = sent[s[i].n]
  BY <1>1, <1>2
<1>5. \A i, j \in 1..Len(s) : i < j => s[i].n < s[j].n
  BY <1>1, <1>2
<1> QED BY <1>3, <1>4, <1>5, ComesBackHolds

(* One packet more is handled: no publication, or one that comes back.     *)
LEMMA PacketSkipped ==
  ASSUME NEW s \in Seq(Packet), NEW sent \in Seq(Packet), NEW m \in 1..Len(sent),
         PublicationsOf(s, sent, m - 1), sent[m].kind # "PubToRp"
  PROVE  PublicationsOf(s, sent, m)
<1>1. \A i \in 1..Len(s) : s[i].n <= m - 1 /\ s[i].n \in 1..Len(sent)
  BY DEF PublicationsOf, ComesBack
<1>2. m \in Nat /\ Len(sent) \in Nat
  BY LenProperties
<1>3. \A i \in 1..Len(s) : s[i].n <= m
  BY <1>1, <1>2
<1>4. \A n \in 1..m : n = m \/ n \in 1..m-1
  BY <1>2
<1> QED BY <1>3, <1>4 DEF PublicationsOf

LEMMA PacketAnswered ==
  ASSUME NEW s \in Seq(Packet), NEW sent \in Seq(Packet), NEW m \in 1..Len(sent),
         PublicationsOf(s, sent, m - 1), sent[m].kind = "PubToRp", sent[m].n = m
  PROVE  PublicationsOf(Append(s, sent[m]), sent, m)
<1> DEFINE w == Append(s, sent[m])
<1>1. sent[m] \in Packet /\ m \in Nat /\ Len(sent) \in Nat
  BY ElementOfSeq, LenProperties
<1>2. /\ w \in Seq(Packet) /\ Len(w) = Len(s) + 1 /\ w[Len(s) + 1] = sent[m]
      /\ \A i \in 1..Len(s) : w[i] = s[i]
      /\ Len(s) \in Nat
  BY <1>1, AppendProperties, LenProperties
<1>3. \A e : Holds(w, e) <=> Holds(s, e) \/ e = sent[m]
  BY <1>1, AppendHolds
<1> HIDE DEF w
<1>4. \A i \in 1..Len(w) : i \in 1..Len(s) \/ i = Len(s) + 1
  BY <1>2
<1>5. /\ \A i \in 1..Len(s) : /\ s[i].kind = "PubToRp" /\ s[i].n <= m - 1
                              /\ s[i].n \in 1..Len(sent) /\ s[i] = sent[s[i].n]
      /\ \A i, j \in 1..Len(s) : i < j => s[i].n < s[j].n
      /\ \A n \in 1..m-1 : sent[n].kind = "PubToRp" => Holds(s, sent[n])
  BY ComesBackHolds DEF PublicationsOf
<1>6. \A i \in 1..Len(w) : w[i].n <= m
  BY <1>1, <1>2, <1>4, <1>5
<1>7. \A n \in 1..m : sent[n].kind = "PubToRp" => Holds(w, sent[n])
  <2>1. \A n \in 1..m : n = m \/ n \in 1..m-1
    BY <1>1
  <2> QED BY <1>3, <1>5, <2>1
<1>8. \A i \in 1..Len(w) : /\ w[i].kind = "PubToRp"
                           /\ w[i].n \in 1..Len(sent) /\ w[i] = sent[w[i].n]
  BY <1>1, <1>2, <1>4, <1>5
<1>9. ASSUME NEW i \in 1..Len(w), NEW j \in 1..Len(w), i < j PROVE w[i].n < w[j].n
  <2>1. i \in 1..Len(s) /\ w[i] = s[i]
    BY <1>2, <1>9
  <2>2. CASE j \in 1..Len(s)
    BY <1>2, <1>5, <1>9, <2>1, <2>2
  <2>3. CASE j = Len(s) + 1
    <3>1. w[j].n = m /\ w[i].n <= m - 1 /\ w[i].n \in 1..Len(sent)
      BY <1>2, <1>5, <2>1, <2>3
    <3> QED BY <1>1, <3>1
  <2> QED BY <1>4, <2>2, <2>3
<1>10. \A n \in 1..Len(sent), j \in 1..Len(w) : sent[n].kind = "PubToRp" /\ n <= w[j].n => Holds(w, sent[n])
  <2> SUFFICES ASSUME NEW n \in 1..Len(sent), NEW j \in 1..Len(w), sent[n].kind = "PubToRp", n <= w[j].n
               PROVE  Holds(w, sent[n])
    OBVIOUS
  <2>1. w[j].n <= m /\ w[j].n \in 1..Len(sent)
    BY <1>6, <1>8
  <2>2. n \in 1..m
    BY <1>1, <2>1
  <2> QED BY <1>7, <2>2
<1>11. ComesBack(w, sent)
  BY <1>2, <1>8, <1>9, <1>10, ComesBackHolds
<1> QED BY <1>6, <1>7, <1>11 DEF PublicationsOf, w

(* The client sends one packet more. *)
LEMMA OneMoreSent ==
  ASSUME NEW s \in Seq(Packet), NEW sent \in Seq(Packet), NEW x \in Packet
  PROVE  /\ ComesBack(s, sent) => ComesBack(s, Append(sent, x))
         /\ \A m \in 0..Len(sent) : PublicationsOf(s, sent, m) => PublicationsOf(s, Append(sent, x), m)
<1> DEFINE t == Append(sent, x)
<1>1. /\ t \in Seq(Packet) /\ Len(t) = Len(sent) + 1
      /\ \A i \in 1..Len(sent) : t[i] = sent[i]
      /\ Len(sent) \in Nat
  BY AppendProperties, LenProperties
<1> HIDE DEF t
<1>2. \A i \in 1..Len(sent) : i \in 1..Len(t)
  BY <1>1
<1>3. ASSUME ComesBack(s, sent) PROVE ComesBack(s, t)
  <2>1. /\ \A i \in 1..Len(s) : /\ s[i].kind = "PubToRp"
                                /\ s[i].n \in 1..Len(sent) /\ s[i] = sent[s[i].n]
        /\ \A i, j \in 1..Len(s) : i < j => s[i].n < s[j].n
        /\ \A n \in 1..Len(sent), j \in 1..Len(s) :
             sent[n].kind = "PubToRp" /\ n <= s[j].n => Holds(s, sent[n])
    BY <1>3, ComesBackHolds
  <2>2. ASSUME NEW n \in 1..Len(t), NEW j \in 1..Len(s), t[n].kind = "PubToRp", n <= s[j].n
        PROVE  Holds(s, t[n])
    <3>1. n \in 1..Len(sent)
      BY <1>1, <2>1, <2>2
    <3> QED BY <1>1, <2>1, <2>2, <3>1
  <2>3. \A i \in 1..Len(s) : s[i].kind = "PubToRp" /\ s[i].n \in 1..Len(t) /\ s[i] = t[s[i].n]
    BY <1>1, <1>2, <2>1
  <2> QED BY <2>1, <2>2, <2>3, ComesBackHolds
<1>4. ASSUME NEW m \in 0..Len(sent), PublicationsOf(s, sent, m) PROVE PublicationsOf(s, t, m)
  <2>1. \A n \in 1..m : n \in 1..Len(sent)
    BY <1>1
  <2> QED BY <1>1, <1>3, <1>4, <2>1 DEF PublicationsOf
<1> QED BY <1>3, <1>4 DEF t

-----------------------------------------------------------------------------
(***************************************************************************)
(* Events.                                                                 *)
(***************************************************************************)
LEMMA IdsOK ==
  ASSUME NEW n \in Nat, n >= FirstSerial
  PROVE  /\ Ids(n + 1) = Ids(n) \cup {n + 1}
         /\ n + 1 \notin Ids(n)
         /\ Ids(n) \subseteq Nat /\ Ids(FirstSerial) = {}
  BY DEF Ids, FirstSerial

LEMMA EventTypes ==
  ASSUME NEW n
  PROVE  /\ \A c \in TcpClients : Accepted(c) \in Events(n)
         /\ AcceptFailed \in Events(n)
         /\ \A p \in Packet : Datagram(p) \in Events(n)
         /\ \A f \in Ids(n) : /\ \A p \in Packet : Received(f, p) \in Events(n)
                              /\ Failed(f) \in Events(n) /\ TimedOut(f) \in Events(n)
                              /\ ShutdownPosted(f) \in Events(n) /\ FaceShutdownPosted(f) \in Events(n)
  BY DEF Events, Accepted, AcceptFailed, Datagram, Received, Failed, TimedOut, ShutdownPosted,
         FaceShutdownPosted

LEMMA EventFields ==
  ASSUME NEW n, NEW e \in Events(n)
  PROVE  /\ e.op \in {"handleAccept", "acceptFailed", "serverReceive", "handleReceive", "failed",
                      "handleTimeout", "handleShutdown", "onFaceShutdown"}
         /\ e.op = "handleAccept" => e.client \in TcpClients
         /\ e.op = "serverReceive" => e.packet \in Packet
         /\ e.op = "handleReceive" => e.face \in Ids(n) /\ e.packet \in Packet
         /\ e.op \in {"failed", "handleTimeout", "handleShutdown", "onFaceShutdown"} => e.face \in Ids(n)
  BY DEF Events

LEMMA EventParts ==
  /\ \A c : Accepted(c).op = "handleAccept" /\ Accepted(c).client = c
  /\ AcceptFailed.op = "acceptFailed"
  /\ \A p : Datagram(p).op = "serverReceive" /\ Datagram(p).packet = p
  /\ \A f, p : Received(f, p).op = "handleReceive" /\ Received(f, p).face = f /\ Received(f, p).packet = p
  /\ \A f : /\ Failed(f).op = "failed" /\ Failed(f).face = f
            /\ TimedOut(f).op = "handleTimeout" /\ TimedOut(f).face = f
            /\ ShutdownPosted(f).op = "handleShutdown" /\ ShutdownPosted(f).face = f
            /\ FaceShutdownPosted(f).op = "onFaceShutdown" /\ FaceShutdownPosted(f).face = f
  BY DEF Accepted, AcceptFailed, Datagram, Received, Failed, TimedOut, ShutdownPosted, FaceShutdownPosted

LEMMA EventsGrow ==
  ASSUME NEW n \in Nat, n >= FirstSerial, NEW q \in Seq(Events(n))
  PROVE  q \in Seq(Events(n + 1))
<1>1. Ids(n) \subseteq Ids(n + 1)
  BY IdsOK
<1>2. Events(n) \subseteq Events(n + 1)
  BY <1>1 DEF Events
<1> QED BY <1>2, SeqMonotonic

(* The event that a handler takes. *)
LEMMA TakenEvent ==
  ASSUME TypeOK, NEW e, Running(e)
  PROVE  /\ queue # <<>> /\ e = Head(queue) /\ e \in Events(serial)
         /\ Tail(queue) \in Seq(Events(serial))
  BY TailHolds DEF TypeOK, Running

LEMMA TakenFace ==
  ASSUME TypeOK, NEW e, Running(e), e.op \notin {"handleAccept", "acceptFailed", "serverReceive"}
  PROVE  e.face \in Created
<1>1. e \in Events(serial)
  BY TakenEvent
<1> QED BY <1>1, EventFields DEF Ids, Created

-----------------------------------------------------------------------------
(***************************************************************************)
(* Type correctness.                                                       *)
(***************************************************************************)
LEMMA TypeInit == Init => TypeOK
<1> SUFFICES ASSUME Init PROVE TypeOK
  OBVIOUS
<1>1. Created = {}
  BY DEF Init, Created, FirstSerial
<1>2. \A S : <<>> \in [{} -> S] /\ <<>> \in Seq(S)
  OBVIOUS
<1>3. \A c \in Clients : [d \in Clients |-> <<>>][c] \in Seq(Packet)
  BY <1>2
<1>4. FirstSerial \in Nat /\ FirstSerial >= FirstSerial
  BY DEF FirstSerial
<1> QED BY <1>1, <1>2, <1>3, <1>4 DEF Init, TypeOK

(* A packet is handled; S are the faces, w what waits to be sent.          *)
LEMMA AnswerType ==
  ASSUME TypeOK, NEW S, NEW f \in S, NEW p \in Packet, NEW table, NEW o \in [S -> Clients],
         NEW w \in [S -> Seq(Packet)], OnPacketReceived(f, p, table, o, w)
  PROVE  out' \in [S -> Seq(Packet)] /\ got' \in [Clients -> Seq(Packet)]
<1>1. got \in [Clients -> Seq(Packet)]
  BY DEF TypeOK
<1>2. CASE Nothing(w)
  BY <1>1, <1>2 DEF Nothing
<1>3. CASE TcpSend(f, p, w)
  <2>1. Append(w[f], p) \in Seq(Packet)
    BY AppendProperties
  <2> QED BY <1>1, <1>3, <2>1 DEF TcpSend
<1>4. CASE UdpSend(o[f], p, w)
  <2>1. PICK c \in Clients : c = o[f]
    OBVIOUS
  <2>2. UdpSend(c, p, w) /\ Append(got[c], p) \in Seq(Packet)
    BY <1>1, <1>4, <2>1, AppendProperties
  <2>3. CASE got' = [got EXCEPT ![c] = Append(@, p)]
    BY <1>1, <2>2, <2>3 DEF UdpSend
  <2>4. CASE UNCHANGED got
    BY <1>1, <2>2, <2>4 DEF UdpSend
  <2> QED BY <2>2, <2>3, <2>4 DEF UdpSend
<1> QED BY <1>2, <1>3, <1>4 DEF OnPacketReceived, OnPubToRpReceived

LEMMA ShutdownType ==
  ASSUME TypeOK, NEW f \in Created, queue # <<>>, Shutdown(f)
  PROVE  /\ link' \in [Created -> {"open", "closing", "closed"}]
         /\ reading' \subseteq Created /\ queue' \in Seq(Events(serial))
         /\ UNCHANGED <<faces, serial, owner, out>>
<1>1. Tail(queue) \in Seq(Events(serial)) /\ ShutdownPosted(f) \in Events(serial)
  BY TailHolds, EventTypes DEF TypeOK, Created, Ids
<1>2. Append(Tail(queue), ShutdownPosted(f)) \in Seq(Events(serial))
  BY <1>1, AppendProperties
<1> QED BY <1>2 DEF Shutdown, TypeOK

(* The tables with the face that createFace makes. *)
LEMMA WithType ==
  ASSUME TypeOK, serial' = serial + 1, NEW S, NEW t \in [Created -> S], NEW x \in S
  PROVE  /\ With(t, serial + 1, x) \in [Created' -> S]
         /\ With(t, serial + 1, x)[serial + 1] = x
         /\ \A g \in Created : With(t, serial + 1, x)[g] = t[g]
<1>1. Created' = Created \cup {serial + 1} /\ serial + 1 \notin Created
  BY IdsOK DEF TypeOK, Created, Ids
<1> QED BY <1>1 DEF With

LEMMA CreateFaceType ==
  ASSUME TypeOK, NEW c \in Clients, NEW s \in {"open", "closing", "closed"}, NEW x \in Seq(Packet),
         CreateFace(c, s, x)
  PROVE  /\ serial' = serial + 1 /\ serial' \in Nat /\ serial' >= FirstSerial
         /\ Created' = Created \cup {serial + 1} /\ serial + 1 \notin Created
         /\ faces' \subseteq Created' /\ reading' \subseteq Created'
         /\ owner' \in [Created' -> Clients]
         /\ link' \in [Created' -> {"open", "closing", "closed"}]
         /\ buffer' \in [Created' -> Seq(Packet)]
         /\ With(out, serial + 1, <<>>) \in [Created' -> Seq(Packet)]
<1>1. /\ serial' = serial + 1 /\ faces' = faces \cup {serial + 1}
      /\ owner' = With(owner, serial + 1, c) /\ link' = With(link, serial + 1, s)
      /\ reading' = IF s = "open" THEN reading \cup {serial + 1} ELSE reading
      /\ buffer' = With(buffer, serial + 1, x)
  BY DEF CreateFace
<1>2. /\ serial \in Nat /\ serial >= FirstSerial /\ faces \subseteq Created /\ reading \subseteq Created
      /\ owner \in [Created -> Clients] /\ link \in [Created -> {"open", "closing", "closed"}]
      /\ out \in [Created -> Seq(Packet)] /\ buffer \in [Created -> Seq(Packet)]
  BY DEF TypeOK
<1>3. Created' = Created \cup {serial + 1} /\ serial + 1 \notin Created
  BY <1>1, <1>2, IdsOK DEF Created, Ids
<1>4. owner' \in [Created' -> Clients]
  BY <1>1, <1>2, WithType
<1>5. link' \in [Created' -> {"open", "closing", "closed"}]
  BY <1>1, <1>2, WithType
<1>6. buffer' \in [Created' -> Seq(Packet)]
  BY <1>1, <1>2, WithType
<1>7. <<>> \in Seq(Packet)
  OBVIOUS
<1>8. With(out, serial + 1, <<>>) \in [Created' -> Seq(Packet)]
  BY <1>1, <1>2, <1>7, WithType
<1>9. serial + 1 \in Nat /\ serial + 1 >= FirstSerial
  BY <1>2 DEF FirstSerial
<1> QED BY <1>1, <1>2, <1>3, <1>4, <1>5, <1>6, <1>8, <1>9

LEMMA TypeOfFaces ==
  ASSUME TypeOK, NEW f, NEW p,
         \/ HandleReceive(f, p) \/ HandleGarbage(f, p)
         \/ HandleFailure(f) \/ HandleTimeout(f) \/ HandleShutdown(f) \/ OnFaceShutdown(f)
  PROVE  TypeOK'
<1> USE DEF server, clients, kernel, sockets
<1>1. serial' = serial
  BY DEF HandleReceive, HandleGarbage, HandleFailure, HandleTimeout, HandleShutdown, OnFaceShutdown,
         Shutdown, Ends
<1>2. Created' = Created
  BY <1>1 DEF Created
<1>3. f \in Created /\ queue # <<>> /\ Tail(queue) \in Seq(Events(serial))
  BY TakenFace, TakenEvent, EventParts
  DEF HandleReceive, HandleGarbage, HandleFailure, HandleTimeout, HandleShutdown, OnFaceShutdown
<1>4. CASE HandleReceive(f, p)
  <2>1. p \in Packet
    <3>1. Received(f, p) \in Events(serial)
      BY <1>4, TakenEvent DEF HandleReceive
    <3> QED BY <3>1, EventFields, EventParts
  <2>2. owner \in [Created -> Clients] /\ out \in [Created -> Seq(Packet)]
    BY DEF TypeOK
  <2>3. out' \in [Created -> Seq(Packet)] /\ got' \in [Clients -> Seq(Packet)]
    BY <1>3, <1>4, <2>1, <2>2, AnswerType DEF HandleReceive
  <2> QED BY <1>1, <1>2, <1>3, <1>4, <2>3 DEF HandleReceive, TypeOK
<1>5. CASE HandleGarbage(f, p) \/ HandleFailure(f) \/ (HandleTimeout(f) /\ ~Ends)
  <2>1. Shutdown(f) /\ UNCHANGED <<up, server, clients, kernel>>
    BY <1>5 DEF HandleGarbage, HandleFailure, HandleTimeout
  <2> QED BY <1>1, <1>2, <1>3, <2>1, ShutdownType DEF TypeOK
<1>6. CASE Ends
  BY <1>1, <1>2, <1>6 DEF Ends, TypeOK
<1>7. CASE HandleShutdown(f)
  <2>1. Append(Tail(queue), FaceShutdownPosted(f)) \in Seq(Events(serial))
    <3>1. FaceShutdownPosted(f) \in Events(serial)
      BY <1>3, EventTypes DEF Created, Ids
    <3> QED BY <1>3, <3>1, AppendProperties
  <2>2. <<>> \in Seq(Packet)
    OBVIOUS
  <2> QED BY <1>1, <1>2, <1>3, <1>7, <2>1, <2>2 DEF HandleShutdown, TypeOK
<1>8. CASE OnFaceShutdown(f)
  BY <1>1, <1>2, <1>3, <1>8 DEF OnFaceShutdown, TypeOK
<1> QED BY <1>4, <1>5, <1>6, <1>7, <1>8

(* The two cases of a datagram: another client's comes with it, or not.    *)
MakesFace(p, arrived) ==
  LET f == serial + 1
  IN  /\ CreateFace(p.from, IF p.kind = "garbage" THEN "closing" ELSE "open", arrived)
      /\ OnPacketReceived(f, p, faces \cup {f}, With(owner, f, p.from), With(out, f, <<>>))
      /\ raced' = raced \cup Range(arrived)
      /\ receiving' = TRUE
      /\ queue' = IF p.kind = "garbage" THEN Append(Tail(queue), ShutdownPosted(f)) ELSE Tail(queue)
      /\ UNCHANGED <<up, accepting, deaf, conn, datagrams>>

NextPacket(d, kind) == [from |-> d, n |-> Len(sends[d]) + 1, kind |-> kind]

LEMMA DatagramCases ==
  ASSUME NEW p, HandleDatagram(p)
  PROVE  \/ MakesFace(p, <<>>) /\ UNCHANGED sends
         \/ \E d \in Newcomers(p.from), kind \in UdpKinds :
              /\ MakesFace(p, <<NextPacket(d, kind)>>)
              /\ sends' = [sends EXCEPT ![d] = Append(@, NextPacket(d, kind))]
  BY DEF HandleDatagram, MakesFace, NextPacket

LEMMA NextPacketType ==
  ASSUME TypeOK, NEW c \in Clients, NEW kind \in TcpKinds \cup UdpKinds
  PROVE  /\ NextPacket(c, kind) \in Packet
         /\ <<NextPacket(c, kind)>> \in Seq(Packet)
         /\ Range(<<NextPacket(c, kind)>>) = {NextPacket(c, kind)}
         /\ Append(sends[c], NextPacket(c, kind)) \in Seq(Packet)
<1>1. sends[c] \in Seq(Packet) /\ Len(sends[c]) + 1 \in Nat
  BY LenProperties DEF TypeOK
<1>2. kind \in Kinds
  BY RendezvousAssumption
<1>3. NextPacket(c, kind) \in Packet
  BY <1>1, <1>2 DEF NextPacket, Packet
<1> HIDE DEF NextPacket
<1>4. Range(<<NextPacket(c, kind)>>) = {NextPacket(c, kind)}
  BY DEF Range
<1> QED BY <1>1, <1>3, <1>4, AppendProperties

LEMMA MakesFaceType ==
  ASSUME TypeOK, NEW p \in Packet, NEW arrived \in Seq(Packet), Range(arrived) \subseteq Packet,
         queue # <<>>, MakesFace(p, arrived), sends' \in [Clients -> Seq(Packet)]
  PROVE  TypeOK'
<1> DEFINE f == serial + 1
           s == IF p.kind = "garbage" THEN "closing" ELSE "open"
<1>1. /\ CreateFace(p.from, s, arrived)
      /\ OnPacketReceived(f, p, faces \cup {f}, With(owner, f, p.from), With(out, f, <<>>))
      /\ raced' = raced \cup Range(arrived)
      /\ receiving' = TRUE
      /\ queue' = IF p.kind = "garbage" THEN Append(Tail(queue), ShutdownPosted(f)) ELSE Tail(queue)
      /\ UNCHANGED <<up, accepting, deaf, conn, datagrams>>
  BY DEF MakesFace
<1>2. p.from \in Clients /\ s \in {"open", "closing", "closed"}
  BY DEF Packet
<1> HIDE DEF s
<1>3. /\ serial' = f /\ serial' \in Nat /\ serial' >= FirstSerial
      /\ Created' = Created \cup {f} /\ f \notin Created
      /\ faces' \subseteq Created' /\ reading' \subseteq Created'
      /\ owner' \in [Created' -> Clients]
      /\ link' \in [Created' -> {"open", "closing", "closed"}]
      /\ buffer' \in [Created' -> Seq(Packet)]
      /\ With(out, f, <<>>) \in [Created' -> Seq(Packet)]
  BY <1>1, <1>2, CreateFaceType
<1>4. owner' = With(owner, f, p.from)
  BY <1>1 DEF CreateFace
<1>5. PICK S, o, w : S = Created' /\ o = owner' /\ w = With(out, f, <<>>)
  OBVIOUS
<1>6. f \in S /\ o \in [S -> Clients] /\ w \in [S -> Seq(Packet)]
      /\ OnPacketReceived(f, p, faces \cup {f}, o, w)
  BY <1>1, <1>3, <1>4, <1>5
<1>7. out' \in [S -> Seq(Packet)] /\ got' \in [Clients -> Seq(Packet)]
  <2> HIDE DEF f
  <2> QED BY <1>6, AnswerType
<1>8. queue' \in Seq(Events(serial'))
  <2>1. Tail(queue) \in Seq(Events(serial))
    BY TailHolds DEF TypeOK
  <2>2. Tail(queue) \in Seq(Events(f))
    BY <2>1, EventsGrow DEF TypeOK
  <2>3. f \in Ids(f)
    BY IdsOK DEF TypeOK
  <2>4. Append(Tail(queue), ShutdownPosted(f)) \in Seq(Events(f))
    <3> HIDE DEF f
    <3>1. ShutdownPosted(f) \in Events(f)
      BY <2>3, EventTypes
    <3> QED BY <2>2, <3>1, AppendProperties
  <2> HIDE DEF f
  <2> QED BY <1>1, <1>3, <2>2, <2>4
<1>9. raced' \subseteq Packet
  BY <1>1 DEF TypeOK
<1> HIDE DEF f
<1> QED BY <1>1, <1>3, <1>5, <1>7, <1>8, <1>9 DEF TypeOK

LEMMA TypeOfServers ==
  ASSUME TypeOK, NEW c, NEW p,
         HandleAccept(c) \/ HandleAcceptFailed \/ HandleDatagram(p) \/ HandleDatagramThrows(p)
  PROVE  TypeOK'
<1> USE DEF server, clients, kernel, sockets
<1>1. queue # <<>> /\ Tail(queue) \in Seq(Events(serial))
  BY TakenEvent DEF HandleAccept, HandleAcceptFailed, HandleDatagram, HandleDatagramThrows
<1>2. CASE Ends
  <2>1. Created' = Created
    BY <1>2 DEF Ends, Created
  <2> QED BY <1>2, <2>1 DEF Ends, TypeOK
<1>3. CASE HandleAccept(c) /\ ~Ends
  <2>1. /\ CreateFace(c, "open", sends[c])
        /\ out' = With(out, serial + 1, <<>>)
        /\ accepting' = TRUE
        /\ queue' = Tail(queue)
        /\ UNCHANGED <<up, receiving, deaf, clients, datagrams, raced>>
    BY <1>3 DEF HandleAccept
  <2>2. c \in Clients /\ sends[c] \in Seq(Packet)
    <3>1. Accepted(c) \in Events(serial)
      BY <1>3, TakenEvent DEF HandleAccept
    <3>2. c \in TcpClients
      BY <3>1, EventFields, EventParts
    <3> QED BY <3>2 DEF TypeOK, Clients
  <2>3. queue' \in Seq(Events(serial + 1))
    BY <1>1, <2>1, EventsGrow DEF TypeOK
  <2> QED BY <2>1, <2>2, <2>3, CreateFaceType DEF TypeOK
<1>4. CASE HandleAcceptFailed
  <2>1. Created' = Created
    BY <1>4 DEF HandleAcceptFailed, Created
  <2> QED BY <1>1, <1>4, <2>1 DEF HandleAcceptFailed, TypeOK
<1>5. CASE HandleDatagram(p)
  <2>1. p \in Packet
    <3>1. Datagram(p) \in Events(serial)
      BY <1>5, TakenEvent DEF HandleDatagram
    <3> QED BY <3>1, EventFields, EventParts
  <2>2. CASE MakesFace(p, <<>>) /\ UNCHANGED sends
    <3>1. <<>> \in Seq(Packet) /\ Range(<<>>) \subseteq Packet
      BY DEF Range
    <3>2. sends' \in [Clients -> Seq(Packet)]
      BY <2>2 DEF TypeOK
    <3> QED BY <1>1, <2>1, <2>2, <3>1, <3>2, MakesFaceType
  <2>3. ASSUME NEW d \in Newcomers(p.from), NEW kind \in UdpKinds,
               MakesFace(p, <<NextPacket(d, kind)>>),
               sends' = [sends EXCEPT ![d] = Append(@, NextPacket(d, kind))]
        PROVE  TypeOK'
    <3>1. d \in Clients
      BY DEF Newcomers, Clients
    <3>2. PICK x : x = NextPacket(d, kind)
      OBVIOUS
    <3>3. <<x>> \in Seq(Packet) /\ Range(<<x>>) \subseteq Packet /\ Append(sends[d], x) \in Seq(Packet)
      BY <3>1, <3>2, NextPacketType
    <3>4. sends' \in [Clients -> Seq(Packet)]
      BY <2>3, <3>1, <3>2, <3>3 DEF TypeOK
    <3> QED BY <1>1, <2>1, <2>3, <3>2, <3>3, <3>4, MakesFaceType
  <2> QED BY <1>5, <2>2, <2>3, DatagramCases
<1> QED BY <1>2, <1>3, <1>4, <1>5 DEF HandleDatagramThrows

LEMMA TypeOfKernel ==
  ASSUME TypeOK, Kernel
  PROVE  TypeOK'
<1> USE DEF server, clients, kernel, sockets
<1>1. serial' = serial
  BY DEF Kernel, AcceptCompletes, ServerReceiveCompletes, ReadCompletes, WriteCompletes
<1>2. Created' = Created
  BY <1>1 DEF Created
<1>3. \A e \in Events(serial) : Append(queue, e) \in Seq(Events(serial))
  BY AppendProperties DEF TypeOK
<1>4. ASSUME NEW c \in TcpClients, AcceptCompletes(c) PROVE TypeOK'
  <2>1. queue' \in Seq(Events(serial))
    BY <1>3, <1>4, EventTypes DEF AcceptCompletes
  <2> QED BY <1>1, <1>2, <1>4, <2>1 DEF AcceptCompletes, TypeOK
<1>5. CASE ServerReceiveCompletes
  <2>1. Head(datagrams) \in Packet /\ Tail(datagrams) \in Seq(Packet)
    BY <1>5, TailHolds DEF ServerReceiveCompletes, TypeOK
  <2>2. queue' \in Seq(Events(serial))
    BY <1>3, <1>5, <2>1, EventTypes DEF ServerReceiveCompletes
  <2> QED BY <1>1, <1>2, <1>5, <2>1, <2>2 DEF ServerReceiveCompletes, TypeOK
<1>6. ASSUME NEW f \in Created, ReadCompletes(f) PROVE TypeOK'
  <2>1. f \in Ids(serial) /\ Failed(f) \in Events(serial)
    BY EventTypes DEF Ids, Created
  <2>2. CASE /\ buffer[f] # <<>>
             /\ buffer' = [buffer EXCEPT ![f] = Tail(@)]
             /\ queue' = Append(queue, Received(f, Head(buffer[f])))
    <3>1. buffer[f] \in Seq(Packet)
      BY DEF TypeOK
    <3>2. Head(buffer[f]) \in Packet /\ Tail(buffer[f]) \in Seq(Packet)
      BY <2>2, <3>1, TailHolds
    <3>3. queue' \in Seq(Events(serial))
      BY <1>3, <2>1, <2>2, <3>2, EventTypes
    <3>4. buffer' \in [Created -> Seq(Packet)]
      BY <2>2, <3>2 DEF TypeOK
    <3> QED BY <1>1, <1>2, <1>6, <3>3, <3>4 DEF ReadCompletes, TypeOK
  <2>3. CASE queue' = Append(queue, Failed(f)) /\ UNCHANGED buffer
    BY <1>1, <1>2, <1>3, <1>6, <2>1, <2>3 DEF ReadCompletes, TypeOK
  <2> QED BY <1>6, <2>2, <2>3 DEF ReadCompletes
<1>7. ASSUME NEW f \in Created, WriteCompletes(f) PROVE TypeOK'
  <2>1. f \in Ids(serial) /\ Failed(f) \in Events(serial)
    BY EventTypes DEF Ids, Created
  <2>2. CASE /\ got' = [got EXCEPT ![owner[f]] = Append(@, Head(out[f]))]
             /\ out' = [out EXCEPT ![f] = Tail(@)]
             /\ UNCHANGED queue
    <3>1. PICK c \in Clients : c = owner[f]
      BY DEF TypeOK
    <3>2. out[f] \in Seq(Packet) /\ got[c] \in Seq(Packet) /\ out[f] # <<>>
      BY <1>7 DEF TypeOK, WriteCompletes
    <3>3. Append(got[c], Head(out[f])) \in Seq(Packet) /\ Tail(out[f]) \in Seq(Packet)
      BY <3>2, TailHolds, AppendProperties
    <3>4. got' \in [Clients -> Seq(Packet)] /\ out' \in [Created -> Seq(Packet)]
      BY <2>2, <3>1, <3>3 DEF TypeOK
    <3> QED BY <1>1, <1>2, <1>7, <2>2, <3>4 DEF WriteCompletes, TypeOK
  <2>3. CASE queue' = Append(queue, Failed(f)) /\ UNCHANGED <<got, out>>
    BY <1>1, <1>2, <1>3, <1>7, <2>1, <2>3 DEF WriteCompletes, TypeOK
  <2> QED BY <1>7, <2>2, <2>3 DEF WriteCompletes
<1> QED BY <1>4, <1>5, <1>6, <1>7 DEF Kernel

(* A client sends: a socket has the packet, or the server, or nobody yet.  *)
LEMMA SendsParts ==
  ASSUME TypeOK, NEW c \in Clients, NEW kind \in TcpKinds \cup UdpKinds, Sends(c, kind)
  PROVE  /\ sends' = [sends EXCEPT ![c] = Append(@, NextPacket(c, kind))]
         /\ \/ \E f \in SocketsOf(c) :
                 /\ buffer' = [buffer EXCEPT ![f] = Append(@, NextPacket(c, kind))]
                 /\ UNCHANGED datagrams
            \/ /\ SocketsOf(c) = {}
               /\ \/ c \in UdpClients /\ datagrams' = Append(datagrams, NextPacket(c, kind))
                  \/ c \notin UdpClients /\ UNCHANGED datagrams
               /\ UNCHANGED buffer
         /\ UNCHANGED <<up, server, sockets, queue, conn, got, raced>>
<1> DEFINE p == [from |-> c, n |-> Len(sends[c]) + 1, kind |-> kind]
<1>1. p = NextPacket(c, kind)
  BY DEF NextPacket
<1>2. /\ sends' = [sends EXCEPT ![c] = Append(@, p)]
      /\ \/ \E f \in SocketsOf(c) : buffer' = [buffer EXCEPT ![f] = Append(@, p)] /\ UNCHANGED datagrams
         \/ /\ SocketsOf(c) = {}
            /\ datagrams' = IF c \in UdpClients THEN Append(datagrams, p) ELSE datagrams
            /\ UNCHANGED buffer
      /\ UNCHANGED <<up, server, sockets, queue, conn, got, raced>>
  BY DEF Sends
<1> HIDE DEF p
<1> QED BY <1>1, <1>2, Zenon

LEMMA TypeOfSends ==
  ASSUME TypeOK, NEW c \in Clients, NEW kind \in TcpKinds \cup UdpKinds, Sends(c, kind)
  PROVE  TypeOK'
<1> USE DEF server, clients, kernel, sockets
<1>1. PICK x : x = NextPacket(c, kind)
  OBVIOUS
<1>2. x \in Packet /\ Append(sends[c], x) \in Seq(Packet)
  BY <1>1, NextPacketType
<1>3. /\ sends' = [sends EXCEPT ![c] = Append(@, x)]
      /\ \/ \E f \in SocketsOf(c) : buffer' = [buffer EXCEPT ![f] = Append(@, x)] /\ UNCHANGED datagrams
         \/ /\ datagrams' = Append(datagrams, x) \/ UNCHANGED datagrams
            /\ UNCHANGED buffer
      /\ UNCHANGED <<up, server, sockets, queue, conn, got, raced>>
  BY <1>1, SendsParts
<1>4. Created' = Created
  BY <1>3 DEF Created
<1>5. sends' \in [Clients -> Seq(Packet)]
  BY <1>2, <1>3 DEF TypeOK
<1>6. ASSUME NEW f \in SocketsOf(c), buffer' = [buffer EXCEPT ![f] = Append(@, x)], UNCHANGED datagrams
      PROVE  TypeOK'
  <2>1. f \in Created /\ buffer[f] \in Seq(Packet)
    BY DEF SocketsOf, TypeOK
  <2>2. Append(buffer[f], x) \in Seq(Packet)
    BY <1>2, <2>1, AppendProperties
  <2>3. buffer' \in [Created -> Seq(Packet)]
    BY <1>6, <2>1, <2>2 DEF TypeOK
  <2> QED BY <1>3, <1>4, <1>5, <1>6, <2>3 DEF TypeOK
<1>7. Append(datagrams, x) \in Seq(Packet)
  BY <1>2, AppendProperties DEF TypeOK
<1>8. CASE UNCHANGED buffer
  BY <1>3, <1>4, <1>5, <1>7, <1>8 DEF TypeOK
<1> QED BY <1>3, <1>6, <1>8

LEMMA TypeNext ==
  ASSUME TypeOK, [Next]_vars
  PROVE  TypeOK'
<1> USE DEF server, clients, kernel, sockets
<1>1. CASE UNCHANGED vars
  <2>1. Created' = Created
    BY <1>1 DEF vars, Created
  <2> QED BY <1>1, <2>1 DEF vars, TypeOK
<1>2. CASE EventLoop
  BY <1>2, TypeOfFaces, TypeOfServers DEF EventLoop
<1>3. CASE Kernel
  BY <1>3, TypeOfKernel
<1>4. ASSUME NEW c \in Clients, Leaves(c) PROVE TypeOK'
  <2>1. Created' = Created
    BY <1>4 DEF Leaves, Created
  <2> QED BY <1>4, <2>1 DEF Leaves, TypeOK
<1>5. ASSUME NEW f \in Created, TimerExpires(f) PROVE TypeOK'
  <2>1. Created' = Created
    BY <1>5 DEF TimerExpires, Created
  <2>2. Append(queue, TimedOut(f)) \in Seq(Events(serial))
    <3>1. TimedOut(f) \in Events(serial)
      BY EventTypes DEF Ids, Created
    <3> QED BY <3>1, AppendProperties DEF TypeOK
  <2> QED BY <1>5, <2>1, <2>2 DEF TimerExpires, TypeOK
<1>6. ASSUME NEW f \in Created, SendFails(f) PROVE TypeOK'
  <2>1. Created' = Created
    BY <1>6 DEF SendFails, Created
  <2>2. Append(queue, Failed(f)) \in Seq(Events(serial))
    <3>1. Failed(f) \in Events(serial)
      BY EventTypes DEF Ids, Created
    <3> QED BY <3>1, AppendProperties DEF TypeOK
  <2> QED BY <1>6, <2>1, <2>2 DEF SendFails, TypeOK
<1>7. \A c \in Clients, kind \in TcpKinds \cup UdpKinds : Sends(c, kind) => TypeOK'
  BY TypeOfSends
<1>8. CASE Environment
  BY <1>4, <1>5, <1>6, <1>7, <1>8 DEF Environment, Clients
<1> QED BY <1>1, <1>2, <1>3, <1>8 DEF Next

-----------------------------------------------------------------------------
(***************************************************************************)
(* The queue, when nothing comes or goes that the invariant is about.      *)
(***************************************************************************)
QuietOps == {"acceptFailed", "failed", "handleTimeout", "handleShutdown"}

Loud(E) == \A e \in E : e.op \notin QuietOps

Alike(q, r, E) ==
  /\ Lacks(r, E) <=> Lacks(q, E)
  /\ AtMostOne(q, E) => AtMostOne(r, E)

QuietMove(q, r) == \A E : Loud(E) => Alike(q, r, E)

LEMMA LoudSets ==
  /\ Loud(Accepts)
  /\ \A c : Loud({Accepted(c)})
  /\ \A f : Loud(Reads(f)) /\ Loud({FaceShutdownPosted(f)})
  /\ \A p : Loud(Carriers(p)) /\ Loud({Datagram(p)})
  /\ \A f, p : Loud({Received(f, p)})
  BY DEF Loud, QuietOps, Accepts, Reads, Carriers, Accepted, FaceShutdownPosted, Datagram, Received

LEMMA QuietMoves ==
  ASSUME NEW S, NEW q \in Seq(S)
  PROVE  /\ QuietMove(q, q)
         /\ \A x \in S : x.op \in QuietOps => QuietMove(q, Append(q, x))
         /\ q # <<>> /\ Head(q).op \in QuietOps =>
              /\ QuietMove(q, Tail(q))
              /\ \A x \in S : x.op \in QuietOps => QuietMove(q, Append(Tail(q), x))
<1>1. QuietMove(q, q)
  BY DEF QuietMove, Alike
<1>2. ASSUME NEW r \in Seq(S), NEW x \in S, x.op \in QuietOps
      PROVE  QuietMove(r, Append(r, x))
  <2> SUFFICES ASSUME NEW E, Loud(E) PROVE Alike(r, Append(r, x), E)
    BY DEF QuietMove
  <2>1. x \notin E
    BY <1>2 DEF Loud
  <2> QED BY <2>1, AppendLacks DEF Alike
<1>3. ASSUME q # <<>>, Head(q).op \in QuietOps PROVE QuietMove(q, Tail(q))
  <2> SUFFICES ASSUME NEW E, Loud(E) PROVE Alike(q, Tail(q), E)
    BY DEF QuietMove
  <2>1. Head(q) \notin E
    BY <1>3 DEF Loud
  <2> QED BY <1>3, <2>1, TailLacks DEF Alike
<1>4. ASSUME q # <<>>, Head(q).op \in QuietOps, NEW x \in S, x.op \in QuietOps
      PROVE  QuietMove(q, Append(Tail(q), x))
  <2>1. Tail(q) \in Seq(S)
    BY <1>4, TailLacks
  <2>2. QuietMove(q, Tail(q)) /\ QuietMove(Tail(q), Append(Tail(q), x))
    BY <1>2, <1>3, <1>4, <2>1
  <2> QED BY <2>2 DEF QuietMove, Alike
<1> QED BY <1>1, <1>2, <1>3, <1>4

(* What a quiet move keeps of the sets of events that matter. *)
LEMMA QuietKeeps ==
  ASSUME NEW q, NEW r, QuietMove(q, r)
  PROVE  /\ Alike(q, r, Accepts)
         /\ \A c : Alike(q, r, {Accepted(c)})
         /\ \A f : Alike(q, r, Reads(f)) /\ Alike(q, r, {FaceShutdownPosted(f)})
         /\ \A p : Alike(q, r, Carriers(p))
         /\ \A p : Holds(r, Datagram(p)) <=> Holds(q, Datagram(p))
         /\ \A f, p : Holds(r, Received(f, p)) <=> Holds(q, Received(f, p))
<1>1. \A p : Alike(q, r, {Datagram(p)})
  BY LoudSets DEF QuietMove
<1>2. \A f, p : Alike(q, r, {Received(f, p)})
  BY LoudSets DEF QuietMove
<1>3. \A e : Alike(q, r, {e}) => (Holds(r, e) <=> Holds(q, e))
  BY LacksHolds DEF Alike
<1> QED BY <1>1, <1>2, <1>3, LoudSets DEF QuietMove

(* A step that changes nothing else that the invariant is about. *)
Calm ==
  /\ QuietMove(queue, queue')
  /\ \A f \in Created : link'[f] = "closed" <=> link[f] = "closed"
  /\ reading' \subseteq reading /\ (accepting' => accepting)
  /\ UNCHANGED <<faces, serial, owner, out, buffer, sends, got, datagrams, raced>>

LEMMA CalmShutdown ==
  ASSUME TypeOK, NEW f \in Created, queue # <<>>, Head(queue).op \in QuietOps, Shutdown(f),
         UNCHANGED <<up, server, clients, kernel>>
  PROVE  Calm
<1>1. queue \in Seq(Events(serial)) /\ ShutdownPosted(f) \in Events(serial) /\ f \in Ids(serial)
  BY EventTypes DEF TypeOK, Ids, Created
<1>2. QuietMove(queue, Append(Tail(queue), ShutdownPosted(f)))
  BY <1>1, QuietMoves, EventParts DEF QuietOps
<1>3. \A g \in Created : link'[g] = "closed" <=> link[g] = "closed"
  BY DEF Shutdown, TypeOK
<1> QED BY <1>2, <1>3 DEF Shutdown, Calm, server, clients, kernel

LEMMA CalmSteps ==
  ASSUME TypeOK, NEW c, NEW p, NEW f,
         \/ UNCHANGED vars \/ HandleFailure(f) \/ HandleTimeout(f) \/ HandleAcceptFailed
         \/ HandleDatagramThrows(p) \/ (HandleAccept(c) /\ Ends)
         \/ Leaves(c) \/ (f \in Created /\ (TimerExpires(f) \/ SendFails(f)))
         \/ (AcceptCompletes(c) /\ queue' = Append(queue, AcceptFailed))
         \/ (f \in Created /\ (ReadCompletes(f) \/ WriteCompletes(f)) /\ queue' = Append(queue, Failed(f)))
  PROVE  Calm
<1> USE DEF server, clients, kernel, sockets
<1>1. queue \in Seq(Events(serial))
  BY DEF TypeOK
<1>2. QuietMove(queue, queue)
  BY <1>1, QuietMoves
<1>3. f \in Created => Failed(f) \in Events(serial) /\ TimedOut(f) \in Events(serial)
  BY EventTypes DEF Ids, Created
<1>4. CASE UNCHANGED vars \/ Ends \/ Leaves(c)
  BY <1>2, <1>4 DEF vars, Ends, Leaves, Calm
<1>5. CASE HandleFailure(f) \/ (HandleTimeout(f) /\ ~Ends)
  <2>1. f \in Created /\ queue # <<>> /\ Head(queue).op \in QuietOps
    BY <1>5, TakenFace, TakenEvent, EventParts DEF HandleFailure, HandleTimeout, QuietOps
  <2>2. Shutdown(f) /\ UNCHANGED <<up, server, clients, kernel>>
    BY <1>5 DEF HandleFailure, HandleTimeout
  <2> QED BY <2>1, <2>2, CalmShutdown
<1>6. CASE HandleAcceptFailed
  <2>1. queue # <<>> /\ Head(queue).op \in QuietOps
    BY <1>6, TakenEvent, EventParts DEF HandleAcceptFailed, QuietOps
  <2>2. QuietMove(queue, Tail(queue))
    BY <1>1, <2>1, QuietMoves
  <2> QED BY <1>6, <2>2 DEF HandleAcceptFailed, Calm
<1>7. CASE f \in Created /\ TimerExpires(f)
  <2>1. QuietMove(queue, Append(queue, TimedOut(f)))
    BY <1>1, <1>3, <1>7, QuietMoves, EventParts DEF QuietOps
  <2> QED BY <1>7, <2>1 DEF TimerExpires, Calm
<1>8. CASE AcceptCompletes(c) /\ queue' = Append(queue, AcceptFailed)
  <2>1. QuietMove(queue, Append(queue, AcceptFailed))
    BY <1>1, EventTypes, QuietMoves, EventParts DEF QuietOps
  <2> QED BY <1>8, <2>1 DEF AcceptCompletes, Calm
<1>9. CASE f \in Created /\ (ReadCompletes(f) \/ WriteCompletes(f)) /\ queue' = Append(queue, Failed(f))
  <2>1. QuietMove(queue, Append(queue, Failed(f)))
    BY <1>1, <1>3, <1>9, QuietMoves, EventParts DEF QuietOps
  <2>2. CASE ReadCompletes(f)
    <3>1. UNCHANGED buffer
      <4>1. Failed(f) # Received(f, Head(buffer[f]))
        BY EventParts
      <4>2. Append(queue, Failed(f))[Len(queue)+1] = Failed(f)
        BY <1>1, <1>3, <1>9, AppendProperties
      <4>3. ASSUME buffer[f] # <<>>, queue' = Append(queue, Received(f, Head(buffer[f]))) PROVE FALSE
        <5>1. buffer[f] \in Seq(Packet)
          BY <1>9 DEF TypeOK
        <5>2. Received(f, Head(buffer[f])) \in Events(serial)
          BY <1>9, <4>3, <5>1, TailHolds, EventTypes DEF Ids, Created
        <5>3. Append(queue, Received(f, Head(buffer[f])))[Len(queue)+1] = Received(f, Head(buffer[f]))
          BY <1>1, <5>2, AppendProperties
        <5> QED BY <1>9, <4>1, <4>2, <4>3, <5>3
      <4> QED BY <2>2, <4>3 DEF ReadCompletes
    <3> QED BY <1>9, <2>1, <2>2, <3>1 DEF ReadCompletes, Calm
  <2>3. CASE WriteCompletes(f)
    <3>1. queue' # queue
      BY <1>1, <1>3, <1>9, AppendProperties
    <3> QED BY <1>9, <2>1, <2>3, <3>1 DEF WriteCompletes, Calm
  <2> QED BY <1>9, <2>2, <2>3
<1>10. CASE f \in Created /\ SendFails(f)
  <2>1. QuietMove(queue, Append(queue, Failed(f)))
    BY <1>1, <1>3, <1>10, QuietMoves, EventParts DEF QuietOps
  <2> QED BY <1>10, <2>1 DEF SendFails, Calm
<1> QED BY <1>4, <1>5, <1>6, <1>7, <1>8, <1>9, <1>10 DEF HandleDatagramThrows

LEMMA CalmFaces ==
  ASSUME RendezvousInv, Calm
  PROVE  FacesInv'
<1> DEFINE q == queue
           r == queue'
<1>1. QuietMove(q, r)
  BY DEF Calm
<1> HIDE DEF q, r
<1>2. /\ Alike(q, r, Accepts)
      /\ \A c : Alike(q, r, {Accepted(c)})
      /\ \A f : Alike(q, r, Reads(f)) /\ Alike(q, r, {FaceShutdownPosted(f)})
      /\ \A p : Alike(q, r, Carriers(p))
      /\ \A p : Holds(r, Datagram(p)) <=> Holds(q, Datagram(p))
      /\ \A f, p : Holds(r, Received(f, p)) <=> Holds(q, Received(f, p))
  BY <1>1, QuietKeeps
<1>3. /\ \A f \in Created : link'[f] = "closed" <=> link[f] = "closed"
      /\ reading' \subseteq reading /\ (accepting' => accepting)
      /\ UNCHANGED <<faces, serial, owner, out, buffer, sends, got, datagrams, raced>>
      /\ Created' = Created
  BY DEF Calm, Created
<1>4. FacesInv'
  <2>1. AcceptTurn'
    BY <1>2, <1>3 DEF RendezvousInv, FacesInv, AcceptTurn, Alike, q, r
  <2>2. OneFace'
    BY <1>2, <1>3 DEF RendezvousInv, FacesInv, OneFace, Alike, q, r
  <2>3. ClosedBeforeRemoved'
    BY <1>2, <1>3 DEF RendezvousInv, FacesInv, ClosedBeforeRemoved, Alike, q, r
  <2>4. ReadTurn'
    BY <1>2, <1>3 DEF RendezvousInv, FacesInv, ReadTurn, Alike, q, r
  <2> QED BY <2>1, <2>2, <2>3, <2>4 DEF FacesInv
<1> QED BY <1>4

-----------------------------------------------------------------------------
(***************************************************************************)
(* The queue, when an event comes or goes that the invariant is about.     *)
(***************************************************************************)
LEMMA EventSets ==
  /\ \A c : /\ c \in TcpClients => Accepted(c) \in Accepts
            /\ \A d : Accepted(c) \in {Accepted(d)} => c = d
            /\ \A f : Accepted(c) \notin {FaceShutdownPosted(f)} /\ Accepted(c) \notin Reads(f)
            /\ \A p : Accepted(c) \notin Carriers(p)
  /\ \A p : /\ Datagram(p) \notin Accepts /\ \A c : Datagram(p) \notin {Accepted(c)}
            /\ \A f : Datagram(p) \notin {FaceShutdownPosted(f)} /\ Datagram(p) \notin Reads(f)
            /\ \A o : Datagram(p) \in Carriers(o) <=> o = p
  /\ \A f, p : /\ Received(f, p) \notin Accepts /\ \A c : Received(f, p) \notin {Accepted(c)}
               /\ \A g : Received(f, p) \notin {FaceShutdownPosted(g)}
               /\ p \in Packet => \A g : Received(f, p) \in Reads(g) <=> g = f
               /\ f \in Nat => \A o : Received(f, p) \in Carriers(o) <=> o = p
  /\ \A f : /\ FaceShutdownPosted(f) \notin Accepts /\ \A c : FaceShutdownPosted(f) \notin {Accepted(c)}
            /\ \A g : /\ FaceShutdownPosted(f) \in {FaceShutdownPosted(g)} => f = g
                      /\ FaceShutdownPosted(f) \notin Reads(g)
            /\ \A p : FaceShutdownPosted(f) \notin Carriers(p)
  BY DEF Accepts, Reads, Carriers, Accepted, Datagram, Received, FaceShutdownPosted

LEMMA AppendAlike ==
  ASSUME NEW S, NEW q \in Seq(S), NEW x \in S
  PROVE  /\ \A E : x \notin E => Alike(q, Append(q, x), E)
         /\ \A E : x \in E => ~Lacks(Append(q, x), E) /\ (Lacks(q, E) => AtMostOne(Append(q, x), E))
  BY AppendLacks DEF Alike

LEMMA TailAlike ==
  ASSUME NEW S, NEW q \in Seq(S), q # <<>>
  PROVE  /\ \A E : Head(q) \notin E => Alike(q, Tail(q), E)
         /\ \A E : Lacks(q, E) => Lacks(Tail(q), E) /\ Head(q) \notin E
         /\ \A E : AtMostOne(q, E) => AtMostOne(Tail(q), E)
         /\ \A E : AtMostOne(q, E) /\ Head(q) \in E => Lacks(Tail(q), E)
         /\ \A E : Head(q) \in E => ~Lacks(q, E)
  BY TailLacks DEF Alike

LEMMA AlikeTwice ==
  ASSUME NEW q, NEW r, NEW s, NEW E, Alike(q, r, E), Alike(r, s, E)
  PROVE  Alike(q, s, E)
  BY DEF Alike

(* For the faces it does not matter how many packets of whom are queued.   *)
FacesAlike(q, r) ==
  /\ Alike(q, r, Accepts)
  /\ \A c : Alike(q, r, {Accepted(c)})
  /\ \A f : Alike(q, r, {FaceShutdownPosted(f)})

LEMMA FacesKept ==
  ASSUME FacesInv, FacesAlike(queue, queue'), Created' = Created,
         \A f \in Created : link'[f] = "closed" <=> link[f] = "closed",
         \A f \in Created : link[f] = "closed" /\ buffer[f] = <<>> => buffer'[f] = <<>>,
         accepting' => accepting, faces' = faces, owner' = owner, ReadTurn'
  PROVE  FacesInv'
<1>1. AcceptTurn'
  BY DEF FacesInv, FacesAlike, AcceptTurn, Alike
<1>2. OneFace'
  BY DEF FacesInv, FacesAlike, OneFace, Alike
<1>3. ClosedBeforeRemoved'
  BY DEF FacesInv, FacesAlike, ClosedBeforeRemoved, Alike
<1> QED BY <1>1, <1>2, <1>3 DEF FacesInv

(* A received packet is handled. *)
LEMMA FacesAfterReceive ==
  ASSUME TypeOK, FacesInv, NEW f \in Created, NEW p \in Packet, queue # <<>>,
         Head(queue) = Received(f, p), QuietMove(Tail(queue), queue'), Created' = Created,
         reading' \subseteq reading \cup {f},
         \A g \in Created : link'[g] = "closed" <=> link[g] = "closed",
         UNCHANGED <<accepting, faces, owner, buffer>>
  PROVE  /\ FacesInv'
         /\ Lacks(queue', Reads(f))
         /\ \A g : g # f => Alike(queue, queue', Reads(g))
<1>1. queue \in Seq(Events(serial))
  BY DEF TypeOK
<1>2. FacesAlike(queue, Tail(queue))
  BY <1>1, TailAlike, EventSets DEF FacesAlike
<1>3. FacesAlike(Tail(queue), queue') /\ \A g : Alike(Tail(queue), queue', Reads(g))
  BY QuietKeeps DEF FacesAlike
<1>4. FacesAlike(queue, queue')
  BY <1>2, <1>3, AlikeTwice DEF FacesAlike
<1>5. /\ Lacks(Tail(queue), Reads(f))
      /\ \A g : g # f => Alike(queue, Tail(queue), Reads(g))
  BY <1>1, TailAlike, EventSets DEF FacesInv, ReadTurn
<1>6. /\ Lacks(queue', Reads(f))
      /\ \A g : g # f => Alike(queue, queue', Reads(g))
  BY <1>3, <1>5, AlikeTwice DEF Alike
<1>7. ReadTurn'
  <2> SUFFICES ASSUME NEW g \in Created
               PROVE  AtMostOne(queue', Reads(g)) /\ (g \in reading' => Lacks(queue', Reads(g)))
    BY DEF ReadTurn
  <2>1. CASE g = f
    BY <1>6, <2>1 DEF Lacks, AtMostOne
  <2>2. CASE g # f
    BY <1>6, <2>2 DEF FacesInv, ReadTurn, Alike
  <2> QED BY <2>1, <2>2
<1> QED BY <1>4, <1>6, <1>7, FacesKept

(* A socket is closed. *)
LEMMA FacesAfterShutdown ==
  ASSUME TypeOK, FacesInv, NEW f, HandleShutdown(f)
  PROVE  /\ FacesInv'
         /\ f \in Created /\ Created' = Created
         /\ \A g : Alike(queue, queue', Reads(g))
         /\ \A p : Alike(queue, queue', Carriers(p))
         /\ \A e : e.op # "onFaceShutdown" /\ e.op # "handleShutdown" => (Holds(queue', e) <=> Holds(queue, e))
<1>1. /\ queue \in Seq(Events(serial)) /\ queue # <<>> /\ f \in Created
      /\ Head(queue) = ShutdownPosted(f) /\ Tail(queue) \in Seq(Events(serial))
      /\ Head(queue).op \in QuietOps
  <2>1. Running(ShutdownPosted(f)) /\ ShutdownPosted(f).op = "handleShutdown" /\ ShutdownPosted(f).face = f
    BY EventParts DEF HandleShutdown
  <2>2. f \in Created
    BY <2>1, TakenFace
  <2>3. queue # <<>> /\ ShutdownPosted(f) = Head(queue) /\ Tail(queue) \in Seq(Events(serial))
    BY <2>1, TakenEvent
  <2> QED BY <2>1, <2>2, <2>3 DEF TypeOK, QuietOps
<1>2. FaceShutdownPosted(f) \in Events(serial) /\ Created' = Created
  BY <1>1, EventTypes DEF Ids, Created, HandleShutdown
<1>3. QuietMove(queue, Tail(queue))
  BY <1>1, QuietMoves
<1>4. queue' \in {Tail(queue), Append(Tail(queue), FaceShutdownPosted(f))}
  BY DEF HandleShutdown
<1>5. \A E : FaceShutdownPosted(f) \notin E /\ Loud(E) => Alike(queue, queue', E)
  <2> SUFFICES ASSUME NEW E, FaceShutdownPosted(f) \notin E, Loud(E) PROVE Alike(queue, queue', E)
    OBVIOUS
  <2>1. Alike(queue, Tail(queue), E)
    BY <1>3 DEF QuietMove
  <2>2. Alike(Tail(queue), Append(Tail(queue), FaceShutdownPosted(f)), E)
    BY <1>1, <1>2, AppendAlike
  <2> QED BY <1>4, <2>1, <2>2, AlikeTwice
<1>6. /\ Alike(queue, queue', Accepts)
      /\ \A c : Alike(queue, queue', {Accepted(c)})
      /\ \A g : Alike(queue, queue', Reads(g))
      /\ \A g : g # f => Alike(queue, queue', {FaceShutdownPosted(g)})
  BY <1>5, EventSets, LoudSets
<1>7. \A p : Alike(queue, queue', Carriers(p))
  BY <1>5, EventSets, LoudSets
<1>8. \A e : e.op # "onFaceShutdown" /\ e.op # "handleShutdown" => (Holds(queue', e) <=> Holds(queue, e))
  <2> SUFFICES ASSUME NEW e, e.op # "onFaceShutdown", e.op # "handleShutdown"
               PROVE  Holds(queue', e) <=> Holds(queue, e)
    OBVIOUS
  <2>1. e # ShutdownPosted(f) /\ e # FaceShutdownPosted(f)
    BY EventParts
  <2>2. Holds(Tail(queue), e) <=> Holds(queue, e)
    BY <1>1, <2>1, TailHolds
  <2>3. Holds(Append(Tail(queue), FaceShutdownPosted(f)), e) <=> Holds(Tail(queue), e)
    BY <1>1, <1>2, <2>1, AppendHolds
  <2> QED BY <1>4, <2>2, <2>3
<1>9. /\ link' = [link EXCEPT ![f] = "closed"]
      /\ buffer' = [buffer EXCEPT ![f] = <<>>]
      /\ reading' = reading \ {f}
      /\ UNCHANGED <<accepting, faces, owner>>
  BY DEF HandleShutdown, server
<1>10. \A g \in Created : /\ link'[g] = "closed" <=> link[g] = "closed" \/ g = f
                          /\ buffer'[g] = IF g = f THEN <<>> ELSE buffer[g]
  BY <1>1, <1>9 DEF TypeOK
<1>11. AcceptTurn' /\ OneFace' /\ ReadTurn'
  BY <1>2, <1>6, <1>9 DEF FacesInv, AcceptTurn, OneFace, ReadTurn, Alike
<1>12. ClosedBeforeRemoved'
  BY <1>2, <1>6, <1>9, <1>10 DEF FacesInv, ClosedBeforeRemoved, Alike
<1> QED BY <1>1, <1>2, <1>6, <1>7, <1>8, <1>11, <1>12 DEF FacesInv

(* A face leaves the table. *)
LEMMA FacesAfterRemoval ==
  ASSUME TypeOK, FacesInv, NEW f, OnFaceShutdown(f)
  PROVE  /\ FacesInv'
         /\ Created' = Created
         /\ \A g : Alike(queue, queue', Reads(g))
         /\ \A p : Alike(queue, queue', Carriers(p))
         /\ \A e : e.op # "onFaceShutdown" => (Holds(queue', e) <=> Holds(queue, e))
<1>1. /\ queue \in Seq(Events(serial)) /\ queue # <<>> /\ f \in Created
      /\ Head(queue) = FaceShutdownPosted(f) /\ queue' = Tail(queue)
  <2>1. /\ Running(FaceShutdownPosted(f)) /\ queue' = Tail(queue)
        /\ FaceShutdownPosted(f).op = "onFaceShutdown" /\ FaceShutdownPosted(f).face = f
    BY EventParts DEF OnFaceShutdown
  <2>2. f \in Created
    BY <2>1, TakenFace
  <2>3. queue # <<>> /\ FaceShutdownPosted(f) = Head(queue)
    BY <2>1, TakenEvent
  <2> QED BY <2>1, <2>2, <2>3 DEF TypeOK
<1>2. Created' = Created /\ UNCHANGED <<accepting, owner, link, reading, buffer>> /\ faces' = faces \ {f}
  BY DEF OnFaceShutdown, Created, server, kernel
<1>3. /\ Alike(queue, queue', Accepts)
      /\ \A c : Alike(queue, queue', {Accepted(c)})
      /\ \A g : Alike(queue, queue', Reads(g))
      /\ \A g : g # f => Alike(queue, queue', {FaceShutdownPosted(g)})
      /\ \A p : Alike(queue, queue', Carriers(p))
  BY <1>1, TailAlike, EventSets
<1>4. \A e : e.op # "onFaceShutdown" => (Holds(queue', e) <=> Holds(queue, e))
  BY <1>1, TailHolds, EventParts
<1>5. link[f] = "closed"
  <2>1. Head(queue) \in {FaceShutdownPosted(f)}
    BY <1>1
  <2>2. ~Lacks(queue, {FaceShutdownPosted(f)})
    BY <1>1, <2>1, TailAlike
  <2> QED BY <1>1, <2>2 DEF FacesInv, ClosedBeforeRemoved
<1>6. AcceptTurn' /\ OneFace' /\ ReadTurn'
  BY <1>2, <1>3 DEF FacesInv, AcceptTurn, OneFace, ReadTurn, Alike
<1>7. ClosedBeforeRemoved'
  BY <1>2, <1>3, <1>5 DEF FacesInv, ClosedBeforeRemoved, Alike
<1> QED BY <1>2, <1>3, <1>4, <1>6, <1>7 DEF FacesInv

-----------------------------------------------------------------------------
(***************************************************************************)
(* A line, when its queue changes.                                         *)
(***************************************************************************)
ReadsAlike(q, r, f) ==
  Alike(q, r, Reads(f)) /\ \A p : Holds(r, Received(f, p)) <=> Holds(q, Received(f, p))

LEMMA AppendReads ==
  ASSUME NEW S, NEW q \in Seq(S), NEW x \in S, NEW f, x.op # "handleReceive" \/ x.face # f
  PROVE  ReadsAlike(q, Append(q, x), f)
<1>1. x \notin Reads(f) /\ \A p : x # Received(f, p)
  BY EventParts DEF Reads
<1> QED BY <1>1, AppendAlike, AppendHolds DEF ReadsAlike

LEMMA TailReads ==
  ASSUME NEW S, NEW q \in Seq(S), q # <<>>, NEW f, Head(q).op # "handleReceive" \/ Head(q).face # f
  PROVE  ReadsAlike(q, Tail(q), f)
<1>1. Head(q) \notin Reads(f) /\ \A p : Head(q) # Received(f, p)
  BY EventParts DEF Reads
<1> QED BY <1>1, TailAlike, TailHolds DEF ReadsAlike

LEMMA QuietReads ==
  ASSUME NEW q, NEW r, QuietMove(q, r), NEW f
  PROVE  ReadsAlike(q, r, f)
  BY QuietKeeps DEF ReadsAlike

LEMMA ReadsTwice ==
  ASSUME NEW q, NEW r, NEW s, NEW f, ReadsAlike(q, r, f), ReadsAlike(r, s, f)
  PROVE  ReadsAlike(q, s, f)
  BY AlikeTwice DEF ReadsAlike

LEMMA LineAlike ==
  ASSUME NEW q, NEW r, NEW f, NEW sent, NEW buf, NEW line, Line(q, f, sent, buf, line),
         ReadsAlike(q, r, f)
  PROVE  Line(r, f, sent, buf, line)
  BY DEF Line, ReadsAlike, Alike

LEMMA LineParts ==
  ASSUME NEW q, NEW f, NEW sent, NEW buf, NEW line, NEW m, Len(sent) - Len(buf) = m
  PROVE  Line(q, f, sent, buf, line) <=>
           /\ m \in Nat
           /\ \A i \in 1..Len(buf) : buf[i] = sent[m + i]
           /\ \/ Lacks(q, Reads(f)) /\ PublicationsOf(line, sent, m)
              \/ m > 0 /\ Holds(q, Received(f, sent[m])) /\ PublicationsOf(line, sent, m - 1)
  BY DEF Line

(* A face is made for a connection with all that the client sent.          *)
LEMMA LineStarts ==
  ASSUME NEW q, NEW f, NEW sent \in Seq(Packet), Lacks(q, Reads(f))
  PROVE  Line(q, f, sent, sent, <<>>)
<1>1. Len(sent) \in Nat /\ Len(sent) - Len(sent) = 0
  BY LenProperties
<1>2. \A i \in 1..Len(sent) : 0 + i = i
  BY <1>1
<1> QED BY <1>1, <1>2, NoneComesBack DEF Line

(* The client sends one packet more, into the socket. *)
LEMMA LineSends ==
  ASSUME NEW q, NEW f, NEW sent \in Seq(Packet), NEW buf \in Seq(Packet), NEW line \in Seq(Packet),
         NEW x \in Packet, Line(q, f, sent, buf, line)
  PROVE  Line(q, f, Append(sent, x), Append(buf, x), line)
<1> DEFINE s == Append(sent, x)
           b == Append(buf, x)
           m == Len(sent) - Len(buf)
<1>1. /\ m \in Nat
      /\ \A i \in 1..Len(buf) : buf[i] = sent[m + i]
      /\ \/ Lacks(q, Reads(f)) /\ PublicationsOf(line, sent, m)
         \/ m > 0 /\ Holds(q, Received(f, sent[m])) /\ PublicationsOf(line, sent, m - 1)
  BY DEF Line
<1>2. /\ s \in Seq(Packet) /\ Len(s) = Len(sent) + 1 /\ s[Len(sent) + 1] = x
      /\ \A i \in 1..Len(sent) : s[i] = sent[i]
      /\ b \in Seq(Packet) /\ Len(b) = Len(buf) + 1 /\ b[Len(buf) + 1] = x
      /\ \A i \in 1..Len(buf) : b[i] = buf[i]
      /\ Len(sent) \in Nat /\ Len(buf) \in Nat
  BY AppendProperties, LenProperties
<1>3. \A n \in 0..Len(sent) : PublicationsOf(line, sent, n) => PublicationsOf(line, s, n)
  BY OneMoreSent
<1> HIDE DEF s, b
<1>4. Len(s) - Len(b) = m /\ m \in 0..Len(sent) /\ (m > 0 => m - 1 \in 0..Len(sent) /\ m \in 1..Len(sent))
  BY <1>1, <1>2
<1>5. ASSUME NEW i \in 1..Len(b) PROVE b[i] = s[m + i]
  <2>1. CASE i \in 1..Len(buf)
    <3>1. m + i \in 1..Len(sent)
      BY <1>1, <1>2, <2>1
    <3> QED BY <1>1, <1>2, <2>1, <3>1
  <2>2. CASE i = Len(buf) + 1
    <3>1. m + i = Len(sent) + 1
      BY <1>2, <2>2
    <3> QED BY <1>2, <2>2, <3>1
  <2> QED BY <1>2, <2>1, <2>2
<1>6. m > 0 => s[m] = sent[m]
  BY <1>2, <1>4
<1>7. \/ Lacks(q, Reads(f)) /\ PublicationsOf(line, s, m)
      \/ m > 0 /\ Holds(q, Received(f, s[m])) /\ PublicationsOf(line, s, m - 1)
  BY <1>1, <1>3, <1>4, <1>6
<1> HIDE DEF m
<1>8. Line(q, f, s, b, line)
  BY <1>1, <1>4, <1>5, <1>7, LineParts
<1> QED BY <1>8 DEF s, b

(* The next packet is taken from the socket. *)
LEMMA LineReads ==
  ASSUME NEW S, NEW q \in Seq(S), NEW f, NEW sent \in Seq(Packet), NEW buf \in Seq(Packet), NEW line,
         buf # <<>>, Received(f, Head(buf)) \in S, Line(q, f, sent, buf, line), Lacks(q, Reads(f))
  PROVE  Line(Append(q, Received(f, Head(buf))), f, sent, Tail(buf), line)
<1> DEFINE m == Len(sent) - Len(buf)
           n == m + 1
           h == Head(buf)
           b == Tail(buf)
           r == Append(q, Received(f, h))
<1>1. /\ m \in Nat /\ \A i \in 1..Len(buf) : buf[i] = sent[m + i]
      /\ PublicationsOf(line, sent, m)
  <2>1. \A x \in Packet : ~Holds(q, Received(f, x))
    BY DEF Lacks, Holds, Reads, Received
  <2>2. \A k : k \in 1..Len(sent) => sent[k] \in Packet
    BY ElementOfSeq
  <2>3. m \in Nat /\ Len(sent) \in Nat /\ Len(buf) \in Nat /\ Len(buf) > 0
    BY LenProperties, EmptySeq DEF Line
  <2>4. m > 0 => m \in 1..Len(sent)
    BY <2>3
  <2> QED BY <2>1, <2>2, <2>4 DEF Line
<1>2. /\ Len(buf) \in Nat /\ Len(buf) >= 1 /\ Len(b) = Len(buf) - 1 /\ h = buf[1] /\ Len(sent) \in Nat
      /\ \A i \in 1..Len(b) : b[i] = buf[i + 1]
  BY HeadTailProperties, LenProperties, EmptySeq
<1>3. Holds(r, Received(f, h))
  BY AppendHolds
<1> HIDE DEF h, b, r
<1>4. n \in Nat /\ n > 0 /\ n - 1 = m /\ Len(sent) - Len(b) = n
  BY <1>1, <1>2
<1>5. h = sent[n]
  BY <1>1, <1>2
<1>6. ASSUME NEW i \in 1..Len(b) PROVE b[i] = sent[n + i]
  <2>1. i + 1 \in 1..Len(buf) /\ m + (i + 1) = n + i
    BY <1>1, <1>2
  <2> QED BY <1>1, <1>2, <2>1
<1> HIDE DEF n, m
<1>7. Line(r, f, sent, b, line)
  BY <1>1, <1>3, <1>4, <1>5, <1>6, LineParts
<1> QED BY <1>7 DEF r, b, h

Numbered(sent) == \A n \in 1..Len(sent) : sent[n].n = n

(* The packet that was taken from the socket is the one that is handled.   *)
LEMMA LineHandles ==
  ASSUME NEW S, NEW q \in Seq(S), NEW f, NEW sent \in Seq(Packet), NEW buf \in Seq(Packet),
         NEW line \in Seq(Packet), NEW p \in Packet, q # <<>>, Head(q) = Received(f, p),
         AtMostOne(q, Reads(f)), Line(q, f, sent, buf, line), Numbered(sent),
         NEW r, Lacks(r, Reads(f))
  PROVE  /\ \E n \in 1..Len(sent) : p = sent[n]
         /\ p.kind # "PubToRp" => Line(r, f, sent, buf, line)
         /\ p.kind = "PubToRp" => Line(r, f, sent, buf, Append(line, p))
<1> DEFINE m == Len(sent) - Len(buf)
<1>1. Received(f, p) \in Reads(f) /\ ~Lacks(q, Reads(f))
  BY TailAlike, EventSets
<1>2. /\ m \in Nat /\ m > 0 /\ \A i \in 1..Len(buf) : buf[i] = sent[m + i]
      /\ Holds(q, Received(f, sent[m])) /\ PublicationsOf(line, sent, m - 1)
  BY <1>1 DEF Line
<1>3. m \in 1..Len(sent) /\ sent[m] \in Packet
  <2>1. Len(sent) \in Nat /\ Len(buf) \in Nat
    BY LenProperties
  <2>2. m \in 1..Len(sent)
    BY <1>2, <2>1
  <2> QED BY <2>2, ElementOfSeq
<1> HIDE DEF m
<1>4. p = sent[m]
  <2>1. Received(f, sent[m]) \in Reads(f)
    BY <1>3, EventSets
  <2>2. Holds(q, Received(f, p))
    BY TailHolds
  <2>3. Received(f, sent[m]) = Received(f, p)
    <3>1. PICK i \in 1..Len(q) : q[i] = Received(f, sent[m])
      BY <1>2 DEF Holds
    <3>2. PICK j \in 1..Len(q) : q[j] = Received(f, p)
      BY <2>2 DEF Holds
    <3> QED BY <1>1, <2>1, <3>1, <3>2 DEF AtMostOne
  <2> QED BY <2>3, EventParts
<1>5. ASSUME NEW l, PublicationsOf(l, sent, m) PROVE Line(r, f, sent, buf, l)
  <2>1. Len(sent) - Len(buf) = m
    BY DEF m
  <2> QED BY <1>2, <1>5, <2>1, LineParts
<1>6. ASSUME p.kind # "PubToRp" PROVE PublicationsOf(line, sent, m)
  BY <1>2, <1>3, <1>4, <1>6, PacketSkipped
<1>7. ASSUME p.kind = "PubToRp" PROVE PublicationsOf(Append(line, p), sent, m)
  <2>1. PublicationsOf(Append(line, sent[m]), sent, m)
    BY <1>2, <1>3, <1>4, <1>7, PacketAnswered DEF Numbered
  <2> QED BY <1>4, <2>1
<1> QED BY <1>3, <1>4, <1>5, <1>6, <1>7

-----------------------------------------------------------------------------
(***************************************************************************)
(* A datagram moves from one place to another.                             *)
(***************************************************************************)
Fewer(q, r, E) == (Lacks(q, E) => Lacks(r, E)) /\ (AtMostOne(q, E) => AtMostOne(r, E))

LEMMA FewerCases ==
  ASSUME NEW q, NEW r, NEW E
  PROVE  /\ Fewer(q, q, E)
         /\ Alike(q, r, E) => Fewer(q, r, E)
         /\ Lacks(r, E) => Fewer(q, r, E) /\ AtMostOne(r, E)
         /\ Fewer(q, <<>>, E) /\ Lacks(<<>>, E)
<1>1. Lacks(r, E) => AtMostOne(r, E)
  BY DEF Lacks, AtMostOne
<1>2. Lacks(<<>>, E) /\ AtMostOne(<<>>, E)
  BY DEF Lacks, AtMostOne
<1> QED BY <1>1, <1>2 DEF Fewer, Alike

LEMMA PlacesFewer ==
  ASSUME NEW p, NEW D, NEW Q, NEW F, NEW B, NEW G, OnePlace(p, D, Q, F, B, G),
         NEW D2, NEW Q2, NEW F2, NEW B2, NEW G2,
         Fewer(D, D2, {p}), Fewer(Q, Q2, Carriers(p)),
         \A f \in F2 : \/ f \in F /\ Fewer(B[f], B2[f], {p})
                       \/ Lacks(B2[f], {p}),
         \A c \in UdpClients : Fewer(G[c], G2[c], {p})
  PROVE  /\ OnePlace(p, D2, Q2, F2, B2, G2)
         /\ AtAll(p, D2, Q2, F2, B2, G2) => AtAll(p, D, Q, F, B, G)
<1>1. \A f \in F2 : Lacks(B2[f], {p}) => AtMostOne(B2[f], {p})
  BY FewerCases
<1>2. AtAll(p, D2, Q2, F2, B2, G2) => AtAll(p, D, Q, F, B, G)
  BY DEF AtAll, Fewer
<1>3. OnePlace(p, D2, Q2, F2, B2, G2)
  BY <1>1 DEF OnePlace, Fewer
<1> QED BY <1>2, <1>3

(* Where it is now is the one place where it is. *)
LEMMA PlaceFound ==
  ASSUME NEW p, NEW D, NEW Q, NEW F, NEW B, NEW G
  PROVE  LET D0 == Lacks(D, {p})
             Q0 == Lacks(Q, Carriers(p))
             B0 == \A f \in F : Lacks(B[f], {p})
             G0 == \A c \in UdpClients : Lacks(G[c], {p})
         IN  /\ OnePlace(p, D, Q, F, B, G) =>
                  /\ ~D0 => Q0 /\ B0 /\ G0
                  /\ ~Q0 => D0 /\ B0 /\ G0
                  /\ ~B0 => /\ D0 /\ Q0 /\ G0
                            /\ \A f, g \in F : ~Lacks(B[f], {p}) /\ g # f => Lacks(B[g], {p})
             /\ D0 /\ Q0 /\ B0 /\ G0 => OnePlace(p, D, Q, F, B, G)
             /\ Q0 /\ B0 /\ G0 /\ AtMostOne(D, {p}) => OnePlace(p, D, Q, F, B, G)
             /\ D0 /\ B0 /\ G0 /\ AtMostOne(Q, Carriers(p)) => OnePlace(p, D, Q, F, B, G)
             /\ \A f \in F : /\ D0 /\ Q0 /\ G0 /\ AtMostOne(B[f], {p})
                             /\ \A g \in F : g # f => Lacks(B[g], {p})
                             => OnePlace(p, D, Q, F, B, G)
             /\ \A c \in UdpClients : /\ D0 /\ Q0 /\ B0 /\ AtMostOne(G[c], {p})
                                      /\ \A d \in UdpClients : d # c => Lacks(G[d], {p})
                                      => OnePlace(p, D, Q, F, B, G)
<1>1. \A q, E : Lacks(q, E) => AtMostOne(q, E)
  BY FewerCases
<1> QED BY <1>1 DEF OnePlace

-----------------------------------------------------------------------------
(***************************************************************************)
(* Nothing is sent, read or answered.                                      *)
(***************************************************************************)
Still ==
  /\ \A g \in Created : ReadsAlike(queue, queue', g)
  /\ \A p : Fewer(queue, queue', Carriers(p)) /\ (Holds(queue', Datagram(p)) => Holds(queue, Datagram(p)))
  /\ \A g \in Created : /\ \/ out'[g] = out[g] /\ buffer'[g] = buffer[g]
                           \/ link'[g] = "closed" /\ out'[g] = <<>> /\ buffer'[g] = <<>>
                        /\ link[g] = "closed" => link'[g] = "closed"
  /\ UNCHANGED <<serial, owner, sends, got, datagrams, raced>>

LEMMA StillKeeps ==
  ASSUME RendezvousInv, Still
  PROVE  SentInOrder' /\ TcpInv' /\ UdpInv'
<1>1. /\ Created' = Created
      /\ UNCHANGED <<owner, sends, got, datagrams, raced>>
  BY DEF Still, Created
<1>2. SentInOrder'
  BY <1>1 DEF RendezvousInv, SentInOrder
<1>3. CameBack' /\ NothingBefore'
  BY <1>1 DEF RendezvousInv, TcpInv, CameBack, NothingBefore
<1>4. AllInLine'
  <2> SUFFICES ASSUME NEW f \in Created, owner[f] \in TcpClients, link'[f] # "closed"
               PROVE  InLine(f)'
    BY <1>1 DEF AllInLine
  <2>1. link[f] # "closed" /\ out'[f] = out[f] /\ buffer'[f] = buffer[f]
    BY DEF Still
  <2>2. InLine(f)
    BY <2>1 DEF RendezvousInv, TcpInv, AllInLine
  <2>3. ReadsAlike(queue, queue', f)
    BY DEF Still
  <2>4. Line(queue', f, sends[owner[f]], buffer[f], got[owner[f]] \o out[f])
    BY <2>2, <2>3, LineAlike DEF InLine
  <2> QED BY <1>1, <2>1, <2>4 DEF InLine
<1>5. Placed'
  <2> SUFFICES ASSUME NEW p \in Packet, p.from \in UdpClients
               PROVE  InOnePlace(p)' /\ (Somewhere(p)' => WasSent(p)')
    BY DEF Placed
  <2>1. InOnePlace(p) /\ (Somewhere(p) => WasSent(p))
    BY DEF RendezvousInv, UdpInv, Placed
  <2>2. \A f \in Created' : f \in Created /\ Fewer(buffer[f], buffer'[f], {p})
    BY <1>1, FewerCases DEF Still
  <2>3. Fewer(datagrams, datagrams', {p}) /\ Fewer(queue, queue', Carriers(p))
        /\ \A c \in UdpClients : Fewer(got[c], got'[c], {p})
    BY <1>1, FewerCases DEF Still
  <2>4. InOnePlace(p)' /\ (Somewhere(p)' => Somewhere(p))
    BY <2>1, <2>2, <2>3, PlacesFewer DEF InOnePlace, Somewhere
  <2> QED BY <1>1, <2>1, <2>4 DEF WasSent
<1>6. ToServer'
  BY <1>1 DEF RendezvousInv, UdpInv, ToServer, Still
<1>7. ToSockets'
  <2> SUFFICES ASSUME NEW f \in Created, owner[f] \in UdpClients
               PROVE  /\ out'[f] = <<>>
                      /\ \A p : Holds(buffer'[f], p) \/ Holds(queue', Received(f, p))
                                => Own(owner[f], p, raced)
    BY <1>1 DEF ToSockets
  <2>1. \A p : Holds(queue', Received(f, p)) => Holds(queue, Received(f, p))
    BY DEF Still, ReadsAlike
  <2>2. \A p : ~Holds(<<>>, p)
    BY DEF Holds
  <2> QED BY <2>1, <2>2 DEF RendezvousInv, UdpInv, ToSockets, Still
<1>8. Answers'
  BY <1>1 DEF RendezvousInv, UdpInv, Answers
<1> QED BY <1>2, <1>3, <1>4, <1>5, <1>6, <1>7, <1>8 DEF TcpInv, UdpInv

LEMMA CalmStill == ASSUME RendezvousInv, Calm PROVE Still
<1>1. \A g \in Created : ReadsAlike(queue, queue', g)
  BY QuietReads DEF Calm
<1>2. \A p : /\ Fewer(queue, queue', Carriers(p))
             /\ Holds(queue', Datagram(p)) => Holds(queue, Datagram(p))
  BY QuietKeeps, FewerCases DEF Calm
<1> QED BY <1>1, <1>2 DEF Calm, Still

LEMMA CalmKeeps ==
  ASSUME RendezvousInv, Calm
  PROVE  FacesInv' /\ SentInOrder' /\ TcpInv' /\ UdpInv'
  BY CalmFaces, CalmStill, StillKeeps

LEMMA ShutdownKeeps ==
  ASSUME RendezvousInv, NEW f, HandleShutdown(f) \/ OnFaceShutdown(f)
  PROVE  FacesInv' /\ SentInOrder' /\ TcpInv' /\ UdpInv'
<1>1. TypeOK /\ FacesInv
  BY DEF RendezvousInv
<1>2. /\ FacesInv'
      /\ \A g : Alike(queue, queue', Reads(g))
      /\ \A p : Alike(queue, queue', Carriers(p))
      /\ \A e : e.op # "onFaceShutdown" /\ e.op # "handleShutdown" => (Holds(queue', e) <=> Holds(queue, e))
  BY <1>1, FacesAfterShutdown, FacesAfterRemoval
<1>3. \A g : ReadsAlike(queue, queue', g)
  BY <1>2, EventParts DEF ReadsAlike
<1>4. \A p : /\ Fewer(queue, queue', Carriers(p))
             /\ Holds(queue', Datagram(p)) => Holds(queue, Datagram(p))
  BY <1>2, EventParts, FewerCases
<1>5. CASE HandleShutdown(f)
  <2>1. /\ out' = [out EXCEPT ![f] = <<>>]
        /\ link' = [link EXCEPT ![f] = "closed"]
        /\ buffer' = [buffer EXCEPT ![f] = <<>>]
        /\ UNCHANGED <<serial, owner, sends, got, datagrams, raced>>
    BY <1>5 DEF HandleShutdown, clients
  <2>2. \A g \in Created : /\ \/ out'[g] = out[g] /\ buffer'[g] = buffer[g]
                              \/ link'[g] = "closed" /\ out'[g] = <<>> /\ buffer'[g] = <<>>
                           /\ link[g] = "closed" => link'[g] = "closed"
    BY <1>1, <2>1 DEF TypeOK
  <2>3. Still
    BY <1>3, <1>4, <2>1, <2>2 DEF Still
  <2> QED BY <1>2, <2>3, StillKeeps
<1>6. CASE OnFaceShutdown(f)
  <2>1. Still
    BY <1>3, <1>4, <1>6 DEF OnFaceShutdown, clients, kernel, Still
  <2> QED BY <1>2, <2>1, StillKeeps
<1> QED BY <1>5, <1>6

(* A connection is accepted. *)
LEMMA AcceptKeeps ==
  ASSUME RendezvousInv, NEW c \in TcpClients, AcceptCompletes(c), queue' = Append(queue, Accepted(c))
  PROVE  FacesInv' /\ SentInOrder' /\ TcpInv' /\ UdpInv'
<1>1. /\ queue \in Seq(Events(serial)) /\ Accepted(c) \in Events(serial)
      /\ Accepted(c).op = "handleAccept" /\ TypeOK /\ FacesInv
  BY EventTypes, EventParts DEF RendezvousInv, TypeOK
<1>2. /\ accepting /\ ~accepting' /\ \A f \in Created : owner[f] # c
      /\ UNCHANGED <<faces, serial, owner, link, reading, out, sends, got, buffer, datagrams, raced>>
      /\ Created' = Created
  <2>1. accepting' = FALSE
    BY DEF AcceptCompletes
  <2> QED BY <2>1 DEF AcceptCompletes, Handled, sockets, clients, kernel, Created
<1>3. /\ \A g : ReadsAlike(queue, queue', g)
      /\ \A p : Alike(queue, queue', Carriers(p)) /\ Alike(queue, queue', {Datagram(p)})
      /\ \A f : Alike(queue, queue', {FaceShutdownPosted(f)})
      /\ \A d : d # c => Alike(queue, queue', {Accepted(d)})
  <2>1. \A g : ReadsAlike(queue, queue', g)
    BY <1>1, AppendReads
  <2>2. \A p : Alike(queue, queue', Carriers(p)) /\ Alike(queue, queue', {Datagram(p)})
    <3>1. \A p : Accepted(c) \notin Carriers(p) /\ Accepted(c) \notin {Datagram(p)}
      BY EventSets, EventParts
    <3> QED BY <1>1, <3>1, AppendAlike
  <2>3. \A f : Alike(queue, queue', {FaceShutdownPosted(f)})
    BY <1>1, EventSets, AppendAlike
  <2>4. \A d : d # c => Alike(queue, queue', {Accepted(d)})
    BY <1>1, EventSets, AppendAlike
  <2> QED BY <2>1, <2>2, <2>3, <2>4
<1>4. Still
  <2>1. \A p : /\ Fewer(queue, queue', Carriers(p))
               /\ Holds(queue', Datagram(p)) => Holds(queue, Datagram(p))
    BY <1>3, FewerCases, LacksHolds DEF Alike
  <2> QED BY <1>2, <1>3, <2>1 DEF Still
<1>5. AcceptTurn'
  <2>1. Lacks(queue, Accepts)
    BY <1>1, <1>2 DEF FacesInv, AcceptTurn
  <2>2. AtMostOne(queue', Accepts)
    BY <1>1, <2>1, AppendAlike, EventSets
  <2> QED BY <1>2, <2>2 DEF AcceptTurn
<1>6. OneFace'
  BY <1>1, <1>2, <1>3 DEF FacesInv, OneFace, Alike
<1>7. ClosedBeforeRemoved'
  BY <1>1, <1>2, <1>3 DEF FacesInv, ClosedBeforeRemoved, Alike
<1>8. ReadTurn'
  BY <1>1, <1>2, <1>3 DEF FacesInv, ReadTurn, ReadsAlike, Alike
<1> QED BY <1>4, <1>5, <1>6, <1>7, <1>8, StillKeeps DEF FacesInv

-----------------------------------------------------------------------------
(***************************************************************************)
(* A packet is read, by the server or by a face.                           *)
(***************************************************************************)
LEMMA PacketQueued ==
  ASSUME NEW S, NEW q \in Seq(S), NEW p \in Packet, NEW x \in S,
         x = Datagram(p) \/ \E f \in Nat : x = Received(f, p)
  PROVE  /\ FacesAlike(q, Append(q, x))
         /\ \A o : o # p => Alike(q, Append(q, x), Carriers(o))
         /\ Lacks(q, Carriers(p)) => AtMostOne(Append(q, x), Carriers(p))
         /\ ~Lacks(Append(q, x), Carriers(p))
<1>1. /\ x \notin Accepts
      /\ \A c : x \notin {Accepted(c)}
      /\ \A f : x \notin {FaceShutdownPosted(f)}
  BY EventSets
<1>2. \A o : x \in Carriers(o) <=> o = p
  BY EventSets
<1> QED BY <1>1, <1>2, AppendAlike DEF FacesAlike

(* A packet leaves the sequence that it was in. *)
LEMMA PacketTaken ==
  ASSUME NEW q \in Seq(Packet), q # <<>>
  PROVE  /\ Head(q) \in Packet /\ Tail(q) \in Seq(Packet) /\ Holds(q, Head(q)) /\ ~Lacks(q, {Head(q)})
         /\ \A o : Fewer(q, Tail(q), {o})
         /\ AtMostOne(q, {Head(q)}) => Lacks(Tail(q), {Head(q)})
         /\ \A o : Holds(Tail(q), o) => Holds(q, o)
<1>1. /\ \A E : Lacks(q, E) => Lacks(Tail(q), E)
      /\ \A E : AtMostOne(q, E) => AtMostOne(Tail(q), E)
      /\ \A E : AtMostOne(q, E) /\ Head(q) \in E => Lacks(Tail(q), E)
  BY TailAlike
<1> QED BY <1>1, TailHolds, LacksHolds DEF Fewer

LEMMA ServerReceiveKeeps ==
  ASSUME RendezvousInv, ServerReceiveCompletes
  PROVE  FacesInv' /\ SentInOrder' /\ TcpInv' /\ UdpInv'
<1> DEFINE p == Head(datagrams)
<1>1. TypeOK /\ FacesInv /\ SentInOrder /\ TcpInv /\ UdpInv
  BY DEF RendezvousInv
<1>2. queue \in Seq(Events(serial)) /\ datagrams \in Seq(Packet) /\ datagrams # <<>>
  BY <1>1 DEF TypeOK, ServerReceiveCompletes
<1>3. /\ datagrams' = Tail(datagrams) /\ queue' = Append(queue, Datagram(p))
      /\ UNCHANGED <<accepting, faces, serial, owner, link, reading, out, sends, got, buffer, raced>>
      /\ Created' = Created
  BY DEF ServerReceiveCompletes, sockets, clients, Created
<1>4. /\ p \in Packet /\ Holds(datagrams, p) /\ ~Lacks(datagrams, {p})
      /\ \A o : Fewer(datagrams, datagrams', {o})
      /\ AtMostOne(datagrams, {p}) => Lacks(datagrams', {p})
      /\ \A o : Holds(datagrams', o) => Holds(datagrams, o)
  BY <1>2, <1>3, PacketTaken
<1> HIDE DEF p
<1>5. Datagram(p) \in Events(serial) /\ p.from \in UdpClients
  BY <1>1, <1>4, EventTypes DEF UdpInv, ToServer
<1>6. /\ FacesAlike(queue, queue')
      /\ \A o : o # p => Alike(queue, queue', Carriers(o))
      /\ Lacks(queue, Carriers(p)) => AtMostOne(queue', Carriers(p))
  BY <1>2, <1>3, <1>4, <1>5, PacketQueued
<1>7. \A f : ReadsAlike(queue, queue', f)
  BY <1>2, <1>3, <1>5, AppendReads, EventParts
<1>8. FacesInv'
  <2>1. ReadTurn'
    BY <1>1, <1>3, <1>7 DEF FacesInv, ReadTurn, ReadsAlike, Alike
  <2> QED BY <1>1, <1>3, <1>6, <2>1, FacesKept
<1>9. SentInOrder' /\ CameBack' /\ NothingBefore'
  BY <1>1, <1>3 DEF SentInOrder, TcpInv, CameBack, NothingBefore
<1>10. AllInLine'
  <2> SUFFICES ASSUME NEW f \in Created, InLine(f) PROVE InLine(f)'
    BY <1>1, <1>3 DEF TcpInv, AllInLine
  <2>1. Line(queue', f, sends[owner[f]], buffer[f], got[owner[f]] \o out[f])
    BY <1>7, LineAlike DEF InLine
  <2> QED BY <1>3, <2>1 DEF InLine
<1>11. Placed'
  <2> SUFFICES ASSUME NEW o \in Packet, o.from \in UdpClients
               PROVE  InOnePlace(o)' /\ (Somewhere(o)' => WasSent(o)')
    BY DEF Placed
  <2>1. InOnePlace(o) /\ (Somewhere(o) => WasSent(o))
    BY <1>1 DEF UdpInv, Placed
  <2>2. /\ \A f \in Created' : f \in Created /\ Fewer(buffer[f], buffer'[f], {o})
        /\ \A c \in UdpClients : Fewer(got[c], got'[c], {o})
    BY <1>3, FewerCases
  <2>3. CASE o # p
    <3>1. Fewer(queue, queue', Carriers(o))
      BY <1>6, <2>3, FewerCases
    <3>2. InOnePlace(o)' /\ (Somewhere(o)' => Somewhere(o))
      BY <1>4, <2>1, <2>2, <3>1, PlacesFewer DEF InOnePlace, Somewhere
    <3> QED BY <1>3, <2>1, <3>2 DEF WasSent
  <2>4. CASE o = p
    <3>1. /\ Lacks(queue, Carriers(p)) /\ \A f \in Created : Lacks(buffer[f], {p})
          /\ \A c \in UdpClients : Lacks(got[c], {p})
      BY <1>4, <2>1, <2>4, PlaceFound DEF InOnePlace
    <3>2. AtMostOne(queue', Carriers(p)) /\ Lacks(datagrams', {p})
      BY <1>4, <1>6, <2>1, <2>4, <3>1 DEF InOnePlace, OnePlace
    <3>3. InOnePlace(o)'
      BY <1>3, <2>4, <3>1, <3>2, PlaceFound DEF InOnePlace
    <3>4. WasSent(o)'
      BY <1>3, <1>4, <2>1, <2>4 DEF WasSent, Somewhere, AtAll
    <3> QED BY <3>3, <3>4
  <2> QED BY <2>3, <2>4
<1>12. ToServer'
  <2>1. \A o : Holds(queue', Datagram(o)) => Holds(queue, Datagram(o)) \/ o = p
    BY <1>2, <1>3, <1>5, AppendHolds, EventParts
  <2> QED BY <1>1, <1>4, <1>5, <2>1 DEF UdpInv, ToServer
<1>13. ToSockets' /\ Answers'
  BY <1>1, <1>3, <1>7 DEF UdpInv, ToSockets, Answers, ReadsAlike
<1> QED BY <1>8, <1>9, <1>10, <1>11, <1>12, <1>13 DEF TcpInv, UdpInv

TakesPacket(f) ==
  /\ ReadCompletes(f)
  /\ buffer[f] # <<>>
  /\ buffer' = [buffer EXCEPT ![f] = Tail(@)]
  /\ queue' = Append(queue, Received(f, Head(buffer[f])))

LEMMA ReadKeeps ==
  ASSUME RendezvousInv, NEW f \in Created, TakesPacket(f)
  PROVE  FacesInv' /\ SentInOrder' /\ TcpInv' /\ UdpInv'
<1> DEFINE p == Head(buffer[f])
<1>1. TypeOK /\ FacesInv /\ SentInOrder /\ TcpInv /\ UdpInv
  BY DEF RendezvousInv
<1>2. /\ queue \in Seq(Events(serial)) /\ buffer \in [Created -> Seq(Packet)]
      /\ buffer[f] \in Seq(Packet) /\ buffer[f] # <<>> /\ f \in Ids(serial) /\ f \in Nat
  BY <1>1, IdsOK DEF TypeOK, Ids, Created, TakesPacket
<1>3. /\ reading' = reading \ {f} /\ f \in reading
      /\ UNCHANGED <<accepting, faces, serial, owner, link, out, sends, got, datagrams, raced>>
      /\ Created' = Created
      /\ buffer'[f] = Tail(buffer[f])
      /\ \A g \in Created : g # f => buffer'[g] = buffer[g]
  BY <1>2 DEF TakesPacket, ReadCompletes, clients, server, Created
<1>4. /\ p \in Packet /\ Holds(buffer[f], p) /\ ~Lacks(buffer[f], {p})
      /\ \A o : Fewer(buffer[f], buffer'[f], {o})
      /\ AtMostOne(buffer[f], {p}) => Lacks(buffer'[f], {p})
      /\ \A o : Holds(buffer'[f], o) => Holds(buffer[f], o)
  BY <1>2, <1>3, PacketTaken
<1>5. queue' = Append(queue, Received(f, p)) /\ Received(f, p) \in Events(serial)
  BY <1>2, <1>4, EventTypes DEF TakesPacket
<1>6. Line(queue, f, sends[owner[f]], buffer[f], got[owner[f]] \o out[f]) /\ Lacks(queue, Reads(f))
        => Line(queue', f, sends[owner[f]], buffer'[f], got[owner[f]] \o out[f])
  <2>1. sends[owner[f]] \in Seq(Packet)
    BY <1>1 DEF TypeOK
  <2> QED BY <1>2, <1>3, <1>5, <2>1, LineReads
<1> HIDE DEF p
<1>7. /\ FacesAlike(queue, queue')
      /\ \A o : o # p => Alike(queue, queue', Carriers(o))
      /\ Lacks(queue, Carriers(p)) => AtMostOne(queue', Carriers(p))
  BY <1>2, <1>4, <1>5, PacketQueued
<1>8. \A g : g # f => ReadsAlike(queue, queue', g)
  BY <1>2, <1>5, AppendReads, EventParts
<1>9. Lacks(queue, Reads(f))
  BY <1>1, <1>3 DEF FacesInv, ReadTurn
<1>10. FacesInv'
  <2>1. ReadTurn'
    <3> SUFFICES ASSUME NEW g \in Created
                 PROVE  AtMostOne(queue', Reads(g)) /\ (g \in reading' => Lacks(queue', Reads(g)))
      BY <1>3 DEF ReadTurn
    <3>1. CASE g = f
      <4>1. Received(f, p) \in Reads(f)
        BY <1>4, EventSets
      <4>2. AtMostOne(queue', Reads(f))
        BY <1>2, <1>5, <1>9, <4>1, AppendAlike
      <4> QED BY <1>3, <3>1, <4>2
    <3>2. CASE g # f
      BY <1>1, <1>3, <1>8, <3>2 DEF FacesInv, ReadTurn, ReadsAlike, Alike
    <3> QED BY <3>1, <3>2
  <2>2. \A g \in Created : link[g] = "closed" /\ buffer[g] = <<>> => buffer'[g] = <<>>
    BY <1>2, <1>3
  <2> QED BY <1>1, <1>3, <1>7, <2>1, <2>2, FacesKept
<1>11. SentInOrder' /\ CameBack' /\ NothingBefore'
  BY <1>1, <1>3 DEF SentInOrder, TcpInv, CameBack, NothingBefore
<1>12. AllInLine'
  <2> SUFFICES ASSUME NEW g \in Created, InLine(g) PROVE InLine(g)'
    BY <1>1, <1>3 DEF TcpInv, AllInLine
  <2>1. CASE g = f
    BY <1>3, <1>6, <1>9, <2>1 DEF InLine
  <2>2. CASE g # f
    <3>1. Line(queue', g, sends[owner[g]], buffer[g], got[owner[g]] \o out[g])
      BY <1>8, <2>2, LineAlike DEF InLine
    <3> QED BY <1>3, <2>2, <3>1 DEF InLine
  <2> QED BY <2>1, <2>2
<1>13. Placed'
  <2> SUFFICES ASSUME NEW o \in Packet, o.from \in UdpClients
               PROVE  InOnePlace(o)' /\ (Somewhere(o)' => WasSent(o)')
    BY DEF Placed
  <2>1. InOnePlace(o) /\ (Somewhere(o) => WasSent(o))
    BY <1>1 DEF UdpInv, Placed
  <2>2. /\ \A g \in Created' : g \in Created /\ Fewer(buffer[g], buffer'[g], {o})
        /\ \A c \in UdpClients : Fewer(got[c], got'[c], {o})
        /\ Fewer(datagrams, datagrams', {o})
    BY <1>3, <1>4, FewerCases
  <2>3. CASE o # p
    <3>1. Fewer(queue, queue', Carriers(o))
      BY <1>7, <2>3, FewerCases
    <3>2. OnePlace(o, datagrams, queue, Created, buffer, got)
      BY <2>1 DEF InOnePlace
    <3>3. /\ OnePlace(o, datagrams', queue', Created', buffer', got')
          /\ AtAll(o, datagrams', queue', Created', buffer', got')
             => AtAll(o, datagrams, queue, Created, buffer, got)
      BY <2>2, <3>1, <3>2, PlacesFewer
    <3> QED BY <1>3, <2>1, <3>3 DEF WasSent, InOnePlace, Somewhere
  <2>4. CASE o = p
    <3>1. /\ Lacks(queue, Carriers(p)) /\ Lacks(datagrams, {p})
          /\ \A g \in Created : g # f => Lacks(buffer[g], {p})
          /\ \A c \in UdpClients : Lacks(got[c], {p})
      BY <1>4, <2>1, <2>4, PlaceFound DEF InOnePlace
    <3>2. AtMostOne(queue', Carriers(p)) /\ Lacks(buffer'[f], {p})
      BY <1>4, <1>7, <2>1, <2>4, <3>1 DEF InOnePlace, OnePlace
    <3>3. /\ Lacks(datagrams', {p}) /\ \A g \in Created' : Lacks(buffer'[g], {p})
          /\ \A c \in UdpClients : Lacks(got'[c], {p})
      BY <1>3, <3>1, <3>2
    <3>4. InOnePlace(o)'
      BY <2>4, <3>2, <3>3, PlaceFound DEF InOnePlace
    <3>5. WasSent(o)'
      BY <1>3, <1>4, <2>1, <2>4 DEF WasSent, Somewhere, AtAll
    <3> QED BY <3>4, <3>5
  <2> QED BY <2>3, <2>4
<1>14. ToServer'
  <2>1. \A o : Holds(queue', Datagram(o)) => Holds(queue, Datagram(o))
    BY <1>2, <1>5, AppendHolds, EventParts
  <2> QED BY <1>1, <1>3, <2>1 DEF UdpInv, ToServer
<1>15. ToSockets'
  <2> SUFFICES ASSUME NEW g \in Created, owner[g] \in UdpClients
               PROVE  /\ out[g] = <<>>
                      /\ \A o : Holds(buffer'[g], o) \/ Holds(queue', Received(g, o))
                                => Own(owner[g], o, raced)
    BY <1>3 DEF ToSockets
  <2>1. \A o : Holds(queue', Received(g, o)) => Holds(queue, Received(g, o)) \/ (g = f /\ o = p)
    BY <1>2, <1>5, AppendHolds, EventParts
  <2>2. \A o : Holds(buffer'[g], o) => Holds(buffer[g], o)
    BY <1>3, <1>4
  <2> QED BY <1>1, <1>4, <2>1, <2>2 DEF UdpInv, ToSockets
<1>16. Answers'
  BY <1>1, <1>3 DEF UdpInv, Answers
<1> QED BY <1>10, <1>11, <1>12, <1>13, <1>14, <1>15, <1>16 DEF TcpInv, UdpInv

-----------------------------------------------------------------------------
(***************************************************************************)
(* A client gets the head of the queue of its face.                        *)
(***************************************************************************)
LEMMA WriteKeeps ==
  ASSUME RendezvousInv, NEW f \in Created, out[f] # <<>>, link[f] = "open",
         got' = [got EXCEPT ![owner[f]] = Append(@, Head(out[f]))],
         out' = [out EXCEPT ![f] = Tail(@)],
         UNCHANGED <<server, faces, serial, owner, link, reading, queue, sends, kernel>>
  PROVE  FacesInv' /\ SentInOrder' /\ TcpInv' /\ UdpInv'
<1>1. TypeOK /\ FacesInv /\ SentInOrder /\ TcpInv /\ UdpInv
  BY DEF RendezvousInv
<1>2. PICK c \in Clients : c = owner[f]
  BY <1>1 DEF TypeOK
<1>3. c \in TcpClients /\ c \notin UdpClients
  BY <1>1, <1>2, RendezvousAssumption DEF UdpInv, ToSockets, Clients
<1>4. /\ got \in [Clients -> Seq(Packet)] /\ out \in [Created -> Seq(Packet)]
      /\ got[c] \in Seq(Packet) /\ out[f] \in Seq(Packet) /\ sends[c] \in Seq(Packet)
  BY <1>1 DEF TypeOK
<1>5. /\ got'[c] = Append(got[c], Head(out[f])) /\ out'[f] = Tail(out[f])
      /\ \A d \in Clients : d # c => got'[d] = got[d]
      /\ \A g \in Created : g # f => out'[g] = out[g]
  BY <1>2, <1>4
<1>6. /\ UNCHANGED <<accepting, faces, serial, owner, link, reading, queue, sends, buffer, datagrams, raced>>
      /\ Created' = Created
  BY DEF server, kernel, Created
<1>7. /\ Tail(out[f]) \in Seq(Packet) /\ got'[c] \in Seq(Packet)
      /\ got'[c] \o out'[f] = got[c] \o out[f]
  <2>1. /\ Tail(out[f]) \in Seq(Packet) /\ Append(got[c], Head(out[f])) \in Seq(Packet)
        /\ Append(got[c], Head(out[f])) \o Tail(out[f]) = got[c] \o out[f]
    BY <1>4, ConcatMove
  <2> QED BY <1>5, <2>1
<1>8. FacesInv'
  BY <1>1, <1>6 DEF FacesInv, AcceptTurn, OneFace, ClosedBeforeRemoved, ReadTurn
<1>9. SentInOrder'
  BY <1>1, <1>6 DEF SentInOrder
<1>10. InLine(f)
  BY <1>1, <1>2, <1>3 DEF TcpInv, AllInLine
<1>11. CameBack'
  <2>1. ComesBack(got[c] \o out[f], sends[c])
    BY <1>2, <1>10 DEF InLine, Line, PublicationsOf
  <2>2. \A n \in 1..Len(sends[c]) : sends[c][n].n = n
    BY <1>1 DEF SentInOrder
  <2>3. ComesBack(got'[c], sends[c])
    BY <1>4, <1>5, <1>7, <2>1, <2>2, FirstOnesComeBack
  <2>4. \A d \in TcpClients : d # c => got'[d] = got[d]
    BY <1>5 DEF Clients
  <2> QED BY <1>1, <1>6, <2>3, <2>4 DEF TcpInv, CameBack
<1>12. NothingBefore'
  <2>1. \A d \in TcpClients : d # c => got'[d] = got[d]
    BY <1>5 DEF Clients
  <2> QED BY <1>1, <1>2, <1>6, <2>1 DEF TcpInv, NothingBefore
<1>13. AllInLine'
  <2> SUFFICES ASSUME NEW g \in Created, owner[g] \in TcpClients, InLine(g) PROVE InLine(g)'
    BY <1>1, <1>6 DEF TcpInv, AllInLine
  <2>1. got'[owner[g]] \o out'[g] = got[owner[g]] \o out[g]
    <3>1. CASE g = f
      BY <1>2, <1>7, <3>1
    <3>2. CASE g # f
      <4>1. owner[g] # c /\ owner[g] \in Clients
        BY <1>1, <1>2, <1>3, <3>2 DEF FacesInv, OneFace, TypeOK
      <4> QED BY <1>5, <3>2, <4>1
    <3> QED BY <3>1, <3>2
  <2> QED BY <1>6, <2>1 DEF InLine
<1>14. \A d \in UdpClients : got'[d] = got[d]
  BY <1>3, <1>5 DEF Clients
<1>15. Placed'
  BY <1>1, <1>6, <1>14 DEF UdpInv, Placed, InOnePlace, OnePlace, Somewhere, AtAll, WasSent
<1>16. ToServer' /\ Answers'
  BY <1>1, <1>6, <1>14 DEF UdpInv, ToServer, Answers
<1>17. ToSockets'
  BY <1>1, <1>2, <1>3, <1>5, <1>6 DEF UdpInv, ToSockets
<1> QED BY <1>8, <1>9, <1>11, <1>12, <1>13, <1>15, <1>16, <1>17 DEF TcpInv, UdpInv

-----------------------------------------------------------------------------
(***************************************************************************)
(* A packet is handled.                                                    *)
(***************************************************************************)
MayGet(c, p) == got' = got \/ got' = [got EXCEPT ![c] = Append(@, p)]

LEMMA AnswerParts ==
  ASSUME NEW S, NEW f \in S, NEW p \in Packet, NEW table, NEW o \in [S -> Clients],
         NEW w \in [S -> Seq(Packet)], OnPacketReceived(f, p, table, o, w)
  PROVE  /\ \A g \in S : g # f => out'[g] = w[g]
         /\ o[f] \in TcpClients =>
              /\ got' = got
              /\ p.kind = "PubToRp" /\ f \in table => out'[f] = Append(w[f], p)
              /\ p.kind # "PubToRp" => out'[f] = w[f]
         /\ o[f] \in UdpClients =>
              /\ out'[f] = w[f]
              /\ MayGet(o[f], p)
  BY RendezvousAssumption
  DEF MayGet, OnPacketReceived, OnPubToRpReceived, TcpSend, UdpSend, Nothing

(* What the queue of the loop has lost.                                    *)
LEMMA PacketHandled ==
  ASSUME TypeOK, NEW p, NEW x, queue # <<>>, Head(queue) = x,
         x = Datagram(p) \/ \E f \in Nat : x = Received(f, p),
         NEW r, QuietMove(Tail(queue), r)
  PROVE  /\ ~Lacks(queue, Carriers(p))
         /\ AtMostOne(queue, Carriers(p)) => Lacks(r, Carriers(p))
         /\ \A o : Fewer(queue, r, Carriers(o))
         /\ \A o : Holds(r, Datagram(o)) => Holds(queue, Datagram(o))
         /\ \A g, o : Holds(r, Received(g, o)) => Holds(queue, Received(g, o))
         /\ \A g : x.op # "handleReceive" \/ x.face # g => ReadsAlike(queue, r, g)
         /\ Holds(queue, x)
<1> DEFINE t == Tail(queue)
<1>1. queue \in Seq(Events(serial))
  BY DEF TypeOK
<1>2. x \in Carriers(p)
  BY EventSets
<1>3. /\ \A E : Lacks(queue, E) => Lacks(t, E)
      /\ \A E : AtMostOne(queue, E) => AtMostOne(t, E)
      /\ \A E : AtMostOne(queue, E) /\ x \in E => Lacks(t, E)
      /\ \A E : x \in E => ~Lacks(queue, E)
  BY <1>1, TailAlike
<1>4. \A e : Holds(queue, e) <=> Holds(t, e) \/ e = x
  BY <1>1, TailHolds
<1>5. \A g : x.op # "handleReceive" \/ x.face # g => ReadsAlike(queue, t, g)
  BY <1>1, TailReads
<1> HIDE DEF t
<1>6. /\ \A o : Alike(t, r, Carriers(o))
      /\ \A o : Holds(r, Datagram(o)) <=> Holds(t, Datagram(o))
      /\ \A g, o : Holds(r, Received(g, o)) <=> Holds(t, Received(g, o))
  BY QuietKeeps DEF t
<1>7. \A g : ReadsAlike(t, r, g)
  BY QuietReads DEF t
<1>8. \A g : x.op # "handleReceive" \/ x.face # g => ReadsAlike(queue, r, g)
  BY <1>5, <1>7, ReadsTwice
<1>9. /\ ~Lacks(queue, Carriers(p))
      /\ AtMostOne(queue, Carriers(p)) => Lacks(r, Carriers(p))
      /\ \A o : Fewer(queue, r, Carriers(o))
  BY <1>2, <1>3, <1>6 DEF Fewer, Alike
<1> QED BY <1>4, <1>6, <1>8, <1>9

(* A datagram o after p was handled, and answered to d or to nobody.       *)
GotBy(d, p) ==
  \/ \A c \in UdpClients : got'[c] = got[c]
  \/ /\ d \in UdpClients /\ got'[d] = Append(got[d], p)
     /\ \A c \in UdpClients \ {d} : got'[c] = got[c]

LEMMA PlaceAnswered ==
  ASSUME TypeOK, NEW o \in Packet, NEW p \in Packet, NEW d, InOnePlace(o), GotBy(d, p),
         ~Lacks(queue, Carriers(p)),
         AtMostOne(queue, Carriers(p)) => Lacks(queue', Carriers(p)),
         Fewer(queue, queue', Carriers(o)), datagrams' = datagrams,
         \A g \in Created' : \/ g \in Created /\ buffer'[g] = buffer[g]
                             \/ Lacks(buffer'[g], {o})
  PROVE  InOnePlace(o)' /\ (Somewhere(o)' => Somewhere(o))
<1>1. /\ \A g \in Created' : \/ g \in Created /\ Fewer(buffer[g], buffer'[g], {o})
                             \/ Lacks(buffer'[g], {o})
      /\ Fewer(datagrams, datagrams', {o})
  BY FewerCases
<1>2. UdpClients \subseteq Clients /\ \A c \in UdpClients : got[c] \in Seq(Packet)
  BY DEF TypeOK, Clients
<1>3. OnePlace(o, datagrams, queue, Created, buffer, got)
  BY DEF InOnePlace
<1>4. CASE o # p \/ \A c \in UdpClients : got'[c] = got[c]
  <2>1. \A c \in UdpClients : Fewer(got[c], got'[c], {o})
    <3> SUFFICES ASSUME NEW c \in UdpClients PROVE Fewer(got[c], got'[c], {o})
      OBVIOUS
    <3>1. CASE got'[c] = got[c]
      BY <3>1, FewerCases
    <3>2. CASE got'[c] = Append(got[c], p) /\ o # p
      <4>1. Alike(got[c], Append(got[c], p), {o})
        BY <1>2, <3>2, AppendAlike
      <4> QED BY <3>2, <4>1, FewerCases
    <3> QED BY <1>4, <3>1, <3>2 DEF GotBy
  <2>2. /\ OnePlace(o, datagrams', queue', Created', buffer', got')
        /\ AtAll(o, datagrams', queue', Created', buffer', got')
           => AtAll(o, datagrams, queue, Created, buffer, got)
    BY <1>1, <1>3, <2>1, PlacesFewer
  <2> QED BY <2>2 DEF InOnePlace, Somewhere
<1>5. CASE o = p /\ d \in UdpClients /\ got'[d] = Append(got[d], p)
           /\ \A c \in UdpClients \ {d} : got'[c] = got[c]
  <2>1. /\ Lacks(datagrams, {p}) /\ \A g \in Created : Lacks(buffer[g], {p})
        /\ \A c \in UdpClients : Lacks(got[c], {p})
    BY <1>3, <1>5, PlaceFound
  <2>2. Lacks(queue', Carriers(p))
    BY <1>3, <1>5 DEF OnePlace
  <2>3. AtMostOne(got'[d], {p})
    <3>1. got[d] \in Seq(Packet) /\ Lacks(got[d], {p}) /\ p \in {p}
      BY <1>2, <1>5, <2>1
    <3>2. AtMostOne(Append(got[d], p), {p})
      BY <3>1, AppendAlike
    <3> QED BY <1>5, <3>2
  <2>4. /\ Lacks(datagrams', {p}) /\ \A g \in Created' : Lacks(buffer'[g], {p})
        /\ \A c \in UdpClients : c # d => Lacks(got'[c], {p})
    BY <1>5, <2>1
  <2>5. OnePlace(p, datagrams', queue', Created', buffer', got')
    <3>1. PICK D, Q, F, B, G :
            D = datagrams' /\ Q = queue' /\ F = Created' /\ B = buffer' /\ G = got'
      OBVIOUS
    <3>2. OnePlace(p, D, Q, F, B, G)
      <4>1. /\ Lacks(D, {p}) /\ Lacks(Q, Carriers(p)) /\ \A g \in F : Lacks(B[g], {p})
            /\ d \in UdpClients /\ AtMostOne(G[d], {p})
            /\ \A c \in UdpClients : c # d => Lacks(G[c], {p})
        BY <1>5, <2>2, <2>3, <2>4, <3>1
      <4> QED BY <4>1, PlaceFound
    <3> QED BY <3>1, <3>2
  <2>6. Somewhere(p)
    BY DEF Somewhere, AtAll
  <2> QED BY <1>5, <2>5, <2>6 DEF InOnePlace
<1> QED BY <1>4, <1>5 DEF GotBy

(* A face handles the packet that it read, and answers it or not.          *)
Handles(f, p) ==
  /\ queue # <<>> /\ Head(queue) = Received(f, p)
  /\ QuietMove(Tail(queue), queue')
  /\ \A g \in Created : (link'[g] = "closed" <=> link[g] = "closed") /\ (g # f => out'[g] = out[g])
  /\ reading' \subseteq reading \cup {f}
  /\ owner[f] \in TcpClients =>
       /\ got' = got
       /\ p.kind = "PubToRp" /\ f \in faces => out'[f] = Append(out[f], p)
       /\ p.kind # "PubToRp" => out'[f] = out[f]
  /\ owner[f] \in UdpClients =>
       /\ out'[f] = out[f]
       /\ MayGet(owner[f], p)
  /\ UNCHANGED <<server, faces, serial, owner, sends, kernel>>

LEMMA HandlesPacket ==
  ASSUME TypeOK, NEW f, NEW p, HandleReceive(f, p) \/ HandleGarbage(f, p)
  PROVE  f \in Created /\ p \in Packet /\ Handles(f, p)
<1>1. Running(Received(f, p))
  BY DEF HandleReceive, HandleGarbage
<1>2. /\ queue # <<>> /\ Received(f, p) = Head(queue) /\ Received(f, p) \in Events(serial)
      /\ Tail(queue) \in Seq(Events(serial))
  BY <1>1, TakenEvent
<1>3. f \in Ids(serial) /\ p \in Packet
  BY <1>2, EventFields, EventParts
<1>4. f \in Created /\ owner \in [Created -> Clients] /\ out \in [Created -> Seq(Packet)]
      /\ link \in [Created -> {"open", "closing", "closed"}]
  BY <1>3 DEF TypeOK, Ids, Created
<1>5. QuietMove(Tail(queue), Tail(queue)) /\ QuietMove(Tail(queue), Append(Tail(queue), ShutdownPosted(f)))
  <2>1. ShutdownPosted(f) \in Events(serial) /\ ShutdownPosted(f).op \in QuietOps
    BY <1>3, EventTypes, EventParts DEF QuietOps
  <2> QED BY <1>2, <2>1, QuietMoves
<1>6. CASE HandleReceive(f, p)
  <2>1. OnPacketReceived(f, p, faces, owner, out)
    BY <1>6 DEF HandleReceive
  <2>2. /\ \A g \in Created : g # f => out'[g] = out[g]
        /\ owner[f] \in TcpClients =>
             /\ got' = got
             /\ p.kind = "PubToRp" /\ f \in faces => out'[f] = Append(out[f], p)
             /\ p.kind # "PubToRp" => out'[f] = out[f]
        /\ owner[f] \in UdpClients =>
             /\ out'[f] = out[f]
             /\ MayGet(owner[f], p)
    BY <1>3, <1>4, <2>1, AnswerParts
  <2> QED BY <1>2, <1>3, <1>4, <1>5, <1>6, <2>2 DEF HandleReceive, Handles
<1>7. CASE HandleGarbage(f, p)
  <2>1. /\ p.kind = "garbage" /\ UNCHANGED <<server, faces, serial, owner, sends, got, out, kernel>>
        /\ reading' \subseteq reading
        /\ queue' = Append(Tail(queue), ShutdownPosted(f))
        /\ link' = [link EXCEPT ![f] = IF @ = "open" THEN "closing" ELSE @]
    BY <1>7 DEF HandleGarbage, Shutdown, clients
  <2>2. \A g \in Created : link'[g] = "closed" <=> link[g] = "closed"
    BY <1>4, <2>1
  <2> QED BY <1>2, <1>3, <1>4, <1>5, <2>1, <2>2 DEF Handles, MayGet
<1> QED BY <1>6, <1>7

LEMMA ReceiveKeeps ==
  ASSUME RendezvousInv, NEW f \in Created, NEW p \in Packet, Handles(f, p)
  PROVE  FacesInv' /\ SentInOrder' /\ TcpInv' /\ UdpInv'
<1>1. TypeOK /\ FacesInv /\ SentInOrder /\ TcpInv /\ UdpInv
  BY DEF RendezvousInv
<1>2. /\ queue # <<>> /\ Head(queue) = Received(f, p) /\ QuietMove(Tail(queue), queue')
      /\ UNCHANGED <<accepting, faces, serial, owner, sends, buffer, datagrams, raced>>
      /\ Created' = Created
  BY DEF Handles, server, kernel, Created
<1>3. f \in Nat
  BY <1>1, IdsOK DEF TypeOK, Ids, Created
<1>4. /\ ~Lacks(queue, Carriers(p))
      /\ AtMostOne(queue, Carriers(p)) => Lacks(queue', Carriers(p))
      /\ \A o : Fewer(queue, queue', Carriers(o))
      /\ \A o : Holds(queue', Datagram(o)) => Holds(queue, Datagram(o))
      /\ \A g, o : Holds(queue', Received(g, o)) => Holds(queue, Received(g, o))
      /\ \A g : g # f => ReadsAlike(queue, queue', g)
      /\ Holds(queue, Received(f, p))
  BY <1>1, <1>2, <1>3, PacketHandled, EventParts
<1>5. FacesInv' /\ Lacks(queue', Reads(f))
  BY <1>1, <1>2, FacesAfterReceive DEF Handles
<1>6. SentInOrder'
  BY <1>1, <1>2 DEF SentInOrder
<1>7. \A c \in TcpClients : got'[c] = got[c]
  <2>1. CASE owner[f] \in TcpClients
    BY <2>1 DEF Handles
  <2>2. CASE owner[f] \in UdpClients
    <3>1. \A c \in TcpClients : c # owner[f] /\ c \in Clients
      BY <2>2, RendezvousAssumption DEF Clients
    <3>2. got' = got \/ got' = [got EXCEPT ![owner[f]] = Append(@, p)]
      BY <2>2 DEF Handles, MayGet
    <3> QED BY <1>1, <3>1, <3>2 DEF TypeOK
  <2> QED BY <1>1, <2>1, <2>2 DEF TypeOK, Clients
<1>8. CameBack' /\ NothingBefore'
  BY <1>1, <1>2, <1>7 DEF TcpInv, CameBack, NothingBefore
<1>9. AllInLine'
  <2> SUFFICES ASSUME NEW g \in Created, owner[g] \in TcpClients, link[g] # "closed", InLine(g)
               PROVE  InLine(g)'
    BY <1>1, <1>2 DEF TcpInv, AllInLine, Handles
  <2>1. PICK c \in TcpClients : c = owner[g]
    OBVIOUS
  <2>2. /\ sends[c] \in Seq(Packet) /\ buffer[g] \in Seq(Packet)
        /\ got[c] \in Seq(Packet) /\ out[g] \in Seq(Packet) /\ got[c] \o out[g] \in Seq(Packet)
    <3>1. /\ sends[c] \in Seq(Packet) /\ buffer[g] \in Seq(Packet)
          /\ got[c] \in Seq(Packet) /\ out[g] \in Seq(Packet)
      BY <1>1 DEF TypeOK, Clients
    <3> QED BY <3>1, ConcatProperties
  <2>3. CASE g = f
    <3>1. /\ p.kind = "PubToRp" /\ f \in faces => out'[f] = Append(out[f], p)
          /\ p.kind # "PubToRp" => out'[f] = out[f]
      BY <2>3 DEF Handles
    <3>2. f \in faces
      BY <1>1, <2>3 DEF FacesInv, ClosedBeforeRemoved
    <3>3. Numbered(sends[c])
      BY <1>1 DEF SentInOrder, Clients, Numbered
    <3>4. queue \in Seq(Events(serial)) /\ AtMostOne(queue, Reads(f))
      BY <1>1 DEF TypeOK, FacesInv, ReadTurn
    <3>5. Line(queue, f, sends[c], buffer[f], got[c] \o out[f])
      BY <2>1, <2>3 DEF InLine
    <3>6. PICK s, b, back, w : s = sends[c] /\ b = buffer[f] /\ back = got[c] /\ w = out[f]
      OBVIOUS
    <3>7. /\ s \in Seq(Packet) /\ b \in Seq(Packet) /\ back \in Seq(Packet) /\ w \in Seq(Packet)
          /\ back \o w \in Seq(Packet) /\ Numbered(s)
          /\ Line(queue, f, s, b, back \o w)
      BY <2>2, <2>3, <3>3, <3>5, <3>6
    <3>8. /\ p.kind # "PubToRp" => Line(queue', f, s, b, back \o w)
          /\ p.kind = "PubToRp" => Line(queue', f, s, b, Append(back \o w, p))
      <4>1. PICK line, q, r : line = back \o w /\ q = queue /\ r = queue'
        OBVIOUS
      <4>2. /\ q \in Seq(Events(serial)) /\ q # <<>> /\ Head(q) = Received(f, p)
            /\ AtMostOne(q, Reads(f)) /\ Lacks(r, Reads(f))
            /\ line \in Seq(Packet) /\ Line(q, f, s, b, line)
        BY <1>2, <1>5, <3>4, <3>7, <4>1
      <4>3. /\ p.kind # "PubToRp" => Line(r, f, s, b, line)
            /\ p.kind = "PubToRp" => Line(r, f, s, b, Append(line, p))
        BY <3>7, <4>2, LineHandles
      <4> QED BY <4>1, <4>3
    <3>9. back \o Append(w, p) = Append(back \o w, p)
      BY <3>7, ConcatAppend
    <3>10. Line(queue', f, s, b, back \o out'[f])
      BY <3>1, <3>2, <3>6, <3>8, <3>9
    <3> QED BY <1>2, <1>7, <2>1, <2>3, <3>6, <3>10 DEF InLine
  <2>4. CASE g # f
    <3>1. Line(queue', g, sends[c], buffer[g], got[c] \o out[g])
      BY <1>4, <2>1, <2>4, LineAlike DEF InLine
    <3>2. out'[g] = out[g]
      BY <2>4 DEF Handles
    <3> QED BY <1>2, <1>7, <2>1, <3>1, <3>2 DEF InLine
  <2> QED BY <2>3, <2>4
<1>10. GotBy(owner[f], p)
  <2>1. UdpClients \subseteq Clients
    BY DEF Clients
  <2>2. CASE got' = got
    BY <2>2 DEF GotBy
  <2>3. CASE owner[f] \in UdpClients /\ got' = [got EXCEPT ![owner[f]] = Append(@, p)]
    BY <1>1, <2>1, <2>3 DEF GotBy, TypeOK
  <2>4. owner[f] \in TcpClients \cup UdpClients
    BY <1>1 DEF TypeOK, Clients
  <2> QED BY <2>2, <2>3, <2>4 DEF Handles, MayGet
<1>11. Placed'
  <2> SUFFICES ASSUME NEW o \in Packet, o.from \in UdpClients
               PROVE  InOnePlace(o)' /\ (Somewhere(o)' => WasSent(o)')
    BY DEF Placed
  <2>1. InOnePlace(o) /\ (Somewhere(o) => WasSent(o))
    BY <1>1 DEF UdpInv, Placed
  <2>2. PICK d : d = owner[f]
    OBVIOUS
  <2>3. InOnePlace(o)' /\ (Somewhere(o)' => Somewhere(o))
    BY <1>1, <1>2, <1>4, <1>10, <2>1, <2>2, PlaceAnswered
  <2> QED BY <1>2, <2>1, <2>3 DEF WasSent
<1>12. ToServer'
  BY <1>1, <1>2, <1>4 DEF UdpInv, ToServer
<1>13. ToSockets'
  <2>1. \A g \in Created : owner[g] \in UdpClients => out'[g] = out[g]
    BY DEF Handles
  <2> QED BY <1>1, <1>2, <1>4, <2>1 DEF UdpInv, ToSockets
<1>14. Answers'
  <2> SUFFICES ASSUME NEW c \in UdpClients, NEW o, Holds(got'[c], o) PROVE Own(c, o, raced)
    BY <1>2 DEF Answers
  <2>1. CASE Holds(got[c], o)
    BY <1>1, <2>1 DEF UdpInv, Answers
  <2>2. CASE ~Holds(got[c], o)
    <3>1. c = owner[f] /\ got'[c] = Append(got[c], p)
      BY <1>10, <2>2 DEF GotBy
    <3>2. got[c] \in Seq(Packet)
      BY <1>1 DEF TypeOK, Clients
    <3>3. o = p
      BY <2>2, <3>1, <3>2, AppendHolds
    <3> QED BY <1>1, <1>4, <3>1, <3>3 DEF UdpInv, ToSockets
  <2> QED BY <2>1, <2>2
<1> QED BY <1>5, <1>6, <1>8, <1>9, <1>11, <1>12, <1>13, <1>14 DEF TcpInv, UdpInv

-----------------------------------------------------------------------------
(***************************************************************************)
(* A face is made.                                                         *)
(***************************************************************************)
LEMMA CreateParts ==
  ASSUME TypeOK, NEW c \in Clients, NEW s \in {"open", "closing", "closed"}, NEW x \in Seq(Packet),
         CreateFace(c, s, x), NEW f, f = serial + 1
  PROVE  /\ Created' = Created \cup {f} /\ f \notin Created /\ f \in Nat
         /\ faces' = faces \cup {f} /\ reading' \subseteq reading \cup {f}
         /\ owner'[f] = c /\ link'[f] = s /\ buffer'[f] = x
         /\ \A g \in Created : owner'[g] = owner[g] /\ link'[g] = link[g] /\ buffer'[g] = buffer[g]
         /\ With(out, f, <<>>)[f] = <<>> /\ \A g \in Created : With(out, f, <<>>)[g] = out[g]
         /\ owner' = With(owner, f, c)
<1>1. /\ faces' = faces \cup {f}
      /\ owner' = With(owner, f, c) /\ link' = With(link, f, s) /\ buffer' = With(buffer, f, x)
      /\ reading' \subseteq reading \cup {f}
  BY DEF CreateFace
<1>2. Created' = Created \cup {f} /\ f \notin Created /\ f \in Nat
  BY CreateFaceType, IdsOK DEF TypeOK
<1>3. \A t, y : With(t, f, y)[f] = y /\ \A g \in Created : With(t, f, y)[g] = t[g]
  BY <1>2 DEF With
<1> QED BY <1>1, <1>2, <1>3

(* The queue has nothing of a face that is not made yet.                   *)
LEMMA NothingOfNewFace ==
  ASSUME TypeOK, NEW f, f = serial + 1
  PROVE  /\ Lacks(queue, Reads(f)) /\ Lacks(queue, {FaceShutdownPosted(f)})
         /\ \A p : ~Holds(queue, Received(f, p))
         /\ \A c : c \notin TcpClients => Lacks(queue, {Accepted(c)})
<1>1. \A i \in 1..Len(queue) : queue[i] \in Events(serial)
  BY ElementOfSeq DEF TypeOK
<1>2. f \notin Ids(serial)
  BY IdsOK DEF TypeOK
<1>3. \A e \in Events(serial) : /\ e \notin Reads(f) /\ e # FaceShutdownPosted(f)
                                /\ \A p : e # Received(f, p)
                                /\ \A c : e = Accepted(c) => c \in TcpClients
  <2> SUFFICES ASSUME NEW e \in Events(serial)
               PROVE  /\ e \notin Reads(f) /\ e # FaceShutdownPosted(f)
                      /\ \A p : e # Received(f, p)
                      /\ \A c : e = Accepted(c) => c \in TcpClients
    OBVIOUS
  <2>1. e.op = "handleReceive" \/ e.op = "onFaceShutdown" => e.face \in Ids(serial)
    BY EventFields
  <2>2. e \in Reads(f) => e.op = "handleReceive" /\ e.face = f
    BY DEF Reads
  <2> QED BY <1>2, <2>1, <2>2, EventFields, EventParts
<1> QED BY <1>1, <1>3 DEF Lacks, Holds

LEMMA FacesAfterCreate ==
  ASSUME TypeOK, FacesInv, NEW c \in Clients, NEW s \in {"open", "closing"}, NEW x \in Seq(Packet),
         CreateFace(c, s, x), NEW f, f = serial + 1,
         AcceptTurn', Lacks(queue', {Accepted(c)}),
         c \in TcpClients => \A g \in Created : owner[g] # c,
         \A g \in Created : Lacks(queue, {Accepted(owner[g])}) => Lacks(queue', {Accepted(owner[g])}),
         \A g : /\ Lacks(queue, {FaceShutdownPosted(g)}) => Lacks(queue', {FaceShutdownPosted(g)})
                /\ Fewer(queue, queue', Reads(g))
  PROVE  FacesInv'
<1>1. /\ Created' = Created \cup {f} /\ f \notin Created
      /\ faces' = faces \cup {f} /\ reading' \subseteq reading \cup {f}
      /\ owner'[f] = c /\ link'[f] = s /\ buffer'[f] = x
      /\ \A g \in Created : owner'[g] = owner[g] /\ link'[g] = link[g] /\ buffer'[g] = buffer[g]
  BY CreateParts
<1>2. Lacks(queue, Reads(f)) /\ Lacks(queue, {FaceShutdownPosted(f)})
  BY NothingOfNewFace
<1>3. Lacks(queue', {FaceShutdownPosted(f)}) /\ Lacks(queue', Reads(f)) /\ AtMostOne(queue', Reads(f))
  BY <1>2, FewerCases DEF Fewer
<1>4. OneFace'
  <2>1. \A g \in Created : Lacks(queue', {Accepted(owner[g])})
    BY DEF FacesInv, OneFace
  <2>2. \A g \in Created' : Lacks(queue', {Accepted(owner'[g])})
    BY <1>1, <2>1
  <2>3. \A g, h \in Created' : owner'[g] = owner'[h] /\ owner'[g] \in TcpClients => g = h
    BY <1>1 DEF FacesInv, OneFace
  <2> QED BY <2>2, <2>3 DEF OneFace
<1>5. ClosedBeforeRemoved'
  <2>1. \A g \in Created' \ faces' : link'[g] = "closed"
    BY <1>1 DEF FacesInv, ClosedBeforeRemoved
  <2>2. \A g \in Created' : link'[g] = "closed" \/ Lacks(queue', {FaceShutdownPosted(g)})
    BY <1>1, <1>3 DEF FacesInv, ClosedBeforeRemoved
  <2>3. \A g \in Created' : link'[g] = "closed" => buffer'[g] = <<>>
    BY <1>1 DEF FacesInv, ClosedBeforeRemoved
  <2> QED BY <2>1, <2>2, <2>3 DEF ClosedBeforeRemoved
<1>6. ReadTurn'
  BY <1>1, <1>3 DEF FacesInv, ReadTurn, Fewer
<1> QED BY <1>4, <1>5, <1>6 DEF FacesInv

LEMMA HandleAcceptKeeps ==
  ASSUME RendezvousInv, NEW c, HandleAccept(c), ~Ends
  PROVE  FacesInv' /\ SentInOrder' /\ TcpInv' /\ UdpInv'
<1>0. PICK f, sent : f = serial + 1 /\ sent = sends[c]
  OBVIOUS
<1>1. TypeOK /\ FacesInv /\ SentInOrder /\ TcpInv /\ UdpInv
  BY DEF RendezvousInv
<1>2. /\ Running(Accepted(c)) /\ CreateFace(c, "open", sent)
      /\ out' = With(out, f, <<>>) /\ queue' = Tail(queue)
      /\ UNCHANGED <<sends, got, datagrams, raced>>
  BY <1>0 DEF HandleAccept, clients
<1>3. /\ queue \in Seq(Events(serial)) /\ queue # <<>> /\ Head(queue) = Accepted(c)
      /\ c \in TcpClients /\ c \in Clients /\ c \notin UdpClients
  <2>1. queue # <<>> /\ Accepted(c) = Head(queue) /\ Accepted(c) \in Events(serial)
    BY <1>1, <1>2, TakenEvent
  <2>2. c \in TcpClients
    BY <2>1, EventFields, EventParts
  <2> QED BY <1>1, <2>1, <2>2, RendezvousAssumption DEF TypeOK, Clients
<1>4. sent \in Seq(Packet)
  BY <1>0, <1>1, <1>3 DEF TypeOK
<1>5. \A o \in Packet : o.from \in UdpClients => Lacks(sent, {o})
  BY <1>0, <1>1, <1>3 DEF SentInOrder, Lacks
<1>6. f = serial + 1
  BY <1>0
<1>7. /\ Created' = Created \cup {f} /\ f \notin Created
      /\ faces' = faces \cup {f} /\ reading' \subseteq reading \cup {f}
      /\ owner'[f] = c /\ link'[f] = "open" /\ buffer'[f] = sent
      /\ \A g \in Created : owner'[g] = owner[g] /\ link'[g] = link[g] /\ buffer'[g] = buffer[g]
      /\ out'[f] = <<>> /\ \A g \in Created : out'[g] = out[g]
  BY <1>1, <1>2, <1>3, <1>4, <1>6, CreateParts
<1>8. /\ Lacks(queue, Reads(f)) /\ \A p : ~Holds(queue, Received(f, p))
  BY <1>1, <1>6, NothingOfNewFace
<1>9. /\ \A E : Lacks(queue, E) => Lacks(queue', E)
      /\ \A E : AtMostOne(queue, E) => AtMostOne(queue', E)
      /\ \A E : Lacks(queue, E) => Accepted(c) \notin E
      /\ \A E : AtMostOne(queue, E) /\ Accepted(c) \in E => Lacks(queue', E)
  BY <1>2, <1>3, TailAlike
<1>10. \A e : Holds(queue', e) => Holds(queue, e)
  BY <1>2, <1>3, TailHolds
<1>11. \A g : ReadsAlike(queue, queue', g)
  BY <1>2, <1>3, TailReads, EventParts
<1>12. Lacks(queue', Accepts) /\ Lacks(queue', {Accepted(c)}) /\ AcceptTurn'
  <2>1. Lacks(queue', Accepts)
    BY <1>1, <1>3, <1>9, EventSets DEF FacesInv, AcceptTurn
  <2>2. Lacks(queue', {Accepted(c)})
    BY <1>3, <2>1, EventSets DEF Lacks
  <2>3. AtMostOne(queue', Accepts)
    BY <2>1, FewerCases
  <2> QED BY <2>1, <2>2, <2>3 DEF AcceptTurn
<1>13. \A g \in Created : owner[g] # c
  <2> SUFFICES ASSUME NEW g \in Created, owner[g] = c PROVE FALSE
    OBVIOUS
  <2>1. Lacks(queue, {Accepted(c)})
    BY <1>1 DEF FacesInv, OneFace
  <2> QED BY <1>9, <2>1
<1>14. FacesInv'
  <2>1. \A E : Fewer(queue, queue', E)
    BY <1>9 DEF Fewer
  <2> QED BY <1>1, <1>2, <1>3, <1>4, <1>6, <1>9, <1>12, <1>13, <2>1, FacesAfterCreate
<1>15. SentInOrder' /\ CameBack'
  BY <1>1, <1>2 DEF SentInOrder, TcpInv, CameBack
<1>16. NothingBefore'
  BY <1>1, <1>2, <1>7 DEF TcpInv, NothingBefore
<1>17. AllInLine'
  <2>1. InLine(f)'
    <3>1. got'[c] = <<>>
      BY <1>1, <1>2, <1>3, <1>13 DEF TcpInv, NothingBefore
    <3>2. <<>> \in Seq(Packet) /\ <<>> \o <<>> = <<>>
      OBVIOUS
    <3>3. Line(queue', f, sent, sent, <<>>)
      BY <1>4, <1>8, <1>9, LineStarts
    <3>4. sends'[c] = sent
      BY <1>0, <1>2
    <3> QED BY <1>7, <3>1, <3>2, <3>3, <3>4 DEF InLine
  <2>2. ASSUME NEW g \in Created, InLine(g) PROVE InLine(g)'
    <3>1. Line(queue', g, sends[owner[g]], buffer[g], got[owner[g]] \o out[g])
      BY <1>11, <2>2, LineAlike DEF InLine
    <3> QED BY <1>2, <1>7, <3>1 DEF InLine
  <2> QED BY <1>1, <1>7, <2>1, <2>2 DEF TcpInv, AllInLine
<1>18. Placed'
  <2> SUFFICES ASSUME NEW o \in Packet, o.from \in UdpClients
               PROVE  InOnePlace(o)' /\ (Somewhere(o)' => WasSent(o)')
    BY DEF Placed
  <2>1. OnePlace(o, datagrams, queue, Created, buffer, got) /\ (Somewhere(o) => WasSent(o))
    BY <1>1 DEF UdpInv, Placed, InOnePlace
  <2>2. /\ \A g \in Created' : \/ g \in Created /\ Fewer(buffer[g], buffer'[g], {o})
                               \/ Lacks(buffer'[g], {o})
        /\ \A d \in UdpClients : Fewer(got[d], got'[d], {o})
        /\ Fewer(datagrams, datagrams', {o})
    BY <1>2, <1>5, <1>7, FewerCases
  <2>3. Fewer(queue, queue', Carriers(o))
    BY <1>9 DEF Fewer
  <2>4. /\ OnePlace(o, datagrams', queue', Created', buffer', got')
        /\ AtAll(o, datagrams', queue', Created', buffer', got')
           => AtAll(o, datagrams, queue, Created, buffer, got)
    BY <2>1, <2>2, <2>3, PlacesFewer
  <2> QED BY <1>2, <2>1, <2>4 DEF WasSent, InOnePlace, Somewhere
<1>19. ToServer' /\ Answers'
  BY <1>1, <1>2, <1>10 DEF UdpInv, ToServer, Answers
<1>20. ToSockets'
  BY <1>1, <1>2, <1>3, <1>7, <1>10 DEF UdpInv, ToSockets
<1> QED BY <1>14, <1>15, <1>16, <1>17, <1>18, <1>19, <1>20 DEF TcpInv, UdpInv

(* A client sends a packet x. *)
SendsOne(d, x) ==
  /\ d \in Clients /\ x \in Packet /\ x.from = d /\ x.n = Len(sends[d]) + 1
  /\ sends' = [sends EXCEPT ![d] = Append(@, x)]

LEMMA OneSent ==
  ASSUME TypeOK, SentInOrder, NEW d, NEW x, SendsOne(d, x)
  PROVE  /\ SentInOrder'
         /\ sends'[d] = Append(sends[d], x)
         /\ \A c \in Clients : c # d => sends'[c] = sends[c]
         /\ \A p \in Packet : WasSent(p) => WasSent(p)'
         /\ ~WasSent(x) /\ WasSent(x)'
<1>1. d \in Clients /\ x \in Packet /\ x.from = d /\ x.n = Len(sends[d]) + 1
  BY DEF SendsOne
<1>2. /\ sends'[d] = Append(sends[d], x)
      /\ \A c \in Clients : c # d => sends'[c] = sends[c]
  BY DEF TypeOK, SendsOne
<1>3. /\ Len(Append(sends[d], x)) = Len(sends[d]) + 1 /\ Len(sends[d]) \in Nat
      /\ \A i \in 1..Len(sends[d]) : Append(sends[d], x)[i] = sends[d][i]
      /\ Append(sends[d], x)[Len(sends[d]) + 1] = x
  BY <1>1, AppendProperties, LenProperties DEF TypeOK
<1>4. \A n \in 1..Len(sends'[d]) : sends'[d][n].from = d /\ sends'[d][n].n = n
  <2> SUFFICES ASSUME NEW n \in 1..Len(sends'[d]) PROVE sends'[d][n].from = d /\ sends'[d][n].n = n
    OBVIOUS
  <2>1. CASE n \in 1..Len(sends[d])
    BY <1>1, <1>2, <1>3, <2>1 DEF SentInOrder
  <2>2. CASE n = Len(sends[d]) + 1
    BY <1>1, <1>2, <1>3, <2>2
  <2> QED BY <1>2, <1>3, <2>1, <2>2
<1>5. SentInOrder'
  BY <1>2, <1>4 DEF SentInOrder
<1>6. \A p \in Packet : WasSent(p) => WasSent(p)'
  <2> SUFFICES ASSUME NEW p \in Packet, WasSent(p) PROVE WasSent(p)'
    OBVIOUS
  <2>1. p.from \in Clients
    BY DEF Packet
  <2> QED BY <1>2, <1>3, <2>1 DEF WasSent
<1>7. ~WasSent(x) /\ WasSent(x)'
  BY <1>1, <1>2, <1>3 DEF WasSent
<1> QED BY <1>2, <1>5, <1>6, <1>7

(* What a face finds when it is made for a datagram: nothing, or one       *)
(* datagram of another client.                                             *)
Arrives(arrived, late) ==
  \/ arrived = <<>> /\ late = {} /\ UNCHANGED sends
  \/ \E d \in UdpClients : \E x : arrived = <<x>> /\ late = {x} /\ SendsOne(d, x)

LEMMA ArrivesSent ==
  ASSUME RendezvousInv, NEW arrived, NEW late, Arrives(arrived, late)
  PROVE  /\ SentInOrder'
         /\ \A c \in TcpClients : sends'[c] = sends[c]
         /\ \A p \in Packet : WasSent(p) => WasSent(p)'
         /\ late \subseteq Packet /\ \A x \in late : x.from \in UdpClients /\ ~WasSent(x) /\ WasSent(x)'
         /\ arrived \in Seq(Packet) /\ Range(arrived) = late
         /\ \A x : Holds(arrived, x) <=> x \in late
         /\ \A x : AtMostOne(arrived, {x}) /\ (x \notin late => Lacks(arrived, {x}))
<1>1. TypeOK /\ SentInOrder
  BY DEF RendezvousInv
<1>2. CASE arrived = <<>> /\ late = {} /\ UNCHANGED sends
  BY <1>1, <1>2 DEF SentInOrder, WasSent, Range, Holds, AtMostOne, Lacks
<1>3. ASSUME NEW d \in UdpClients, NEW x, arrived = <<x>>, late = {x}, SendsOne(d, x)
      PROVE  /\ SentInOrder'
             /\ \A c \in TcpClients : sends'[c] = sends[c]
             /\ \A p \in Packet : WasSent(p) => WasSent(p)'
             /\ late \subseteq Packet /\ \A y \in late : y.from \in UdpClients /\ ~WasSent(y) /\ WasSent(y)'
             /\ arrived \in Seq(Packet) /\ Range(arrived) = late
             /\ \A y : Holds(arrived, y) <=> y \in late
             /\ \A y : AtMostOne(arrived, {y}) /\ (y \notin late => Lacks(arrived, {y}))
  <2>1. x \in Packet /\ x.from = d
    BY <1>3 DEF SendsOne
  <2>2. \A c \in TcpClients : c # d /\ c \in Clients
    BY RendezvousAssumption DEF Clients
  <2>3. arrived \in Seq(Packet) /\ Len(arrived) = 1 /\ arrived[1] = x /\ Range(arrived) = late
    BY <1>3, <2>1 DEF Range
  <2>4. /\ \A y : Holds(arrived, y) <=> y \in late
        /\ \A y : AtMostOne(arrived, {y}) /\ (y \notin late => Lacks(arrived, {y}))
    BY <1>3, <2>3 DEF Holds, AtMostOne, Lacks
  <2>5. /\ SentInOrder'
        /\ \A c \in Clients : c # d => sends'[c] = sends[c]
        /\ \A p \in Packet : WasSent(p) => WasSent(p)'
        /\ ~WasSent(x) /\ WasSent(x)'
    BY <1>1, <1>3, OneSent
  <2> QED BY <1>3, <2>1, <2>2, <2>3, <2>4, <2>5
<1> QED BY <1>2, <1>3 DEF Arrives

LEMMA MakesFaceKeeps ==
  ASSUME RendezvousInv, NEW p, Running(Datagram(p)), NEW arrived, NEW late,
         MakesFace(p, arrived), Arrives(arrived, late)
  PROVE  FacesInv' /\ SentInOrder' /\ TcpInv' /\ UdpInv'
<1>0. PICK f, c, s : /\ f = serial + 1 /\ c = p.from
                     /\ s = IF p.kind = "garbage" THEN "closing" ELSE "open"
  OBVIOUS
<1>1. TypeOK /\ FacesInv /\ SentInOrder /\ TcpInv /\ UdpInv
  BY DEF RendezvousInv
<1>2. /\ CreateFace(c, s, arrived)
      /\ OnPacketReceived(f, p, faces \cup {f}, With(owner, f, c), With(out, f, <<>>))
      /\ raced' = raced \cup Range(arrived)
      /\ queue' = IF p.kind = "garbage" THEN Append(Tail(queue), ShutdownPosted(f)) ELSE Tail(queue)
      /\ UNCHANGED <<accepting, datagrams>>
  BY <1>0 DEF MakesFace
<1>3. /\ queue \in Seq(Events(serial)) /\ queue # <<>> /\ Head(queue) = Datagram(p)
      /\ Tail(queue) \in Seq(Events(serial)) /\ p \in Packet
  <2>1. queue # <<>> /\ Datagram(p) = Head(queue) /\ Datagram(p) \in Events(serial)
        /\ Tail(queue) \in Seq(Events(serial))
    BY <1>1, TakenEvent
  <2>2. p \in Packet
    BY <2>1, EventFields, EventParts
  <2> QED BY <1>1, <2>1, <2>2 DEF TypeOK
<1>4. /\ SentInOrder'
      /\ \A d \in TcpClients : sends'[d] = sends[d]
      /\ \A o \in Packet : WasSent(o) => WasSent(o)'
      /\ late \subseteq Packet /\ \A x \in late : x.from \in UdpClients /\ ~WasSent(x) /\ WasSent(x)'
      /\ arrived \in Seq(Packet) /\ Range(arrived) = late
      /\ \A x : Holds(arrived, x) <=> x \in late
      /\ \A x : AtMostOne(arrived, {x}) /\ (x \notin late => Lacks(arrived, {x}))
  BY ArrivesSent
<1>5. QuietMove(Tail(queue), queue')
  <2>1. ShutdownPosted(f) \in Events(serial + 1) /\ ShutdownPosted(f).op \in QuietOps
    <3>1. f \in Ids(serial + 1)
      BY <1>0, <1>1, IdsOK DEF TypeOK
    <3> QED BY <3>1, EventTypes, EventParts DEF QuietOps
  <2>2. Tail(queue) \in Seq(Events(serial + 1))
    BY <1>1, <1>3, EventsGrow DEF TypeOK
  <2>3. /\ QuietMove(Tail(queue), Tail(queue))
        /\ QuietMove(Tail(queue), Append(Tail(queue), ShutdownPosted(f)))
    BY <2>1, <2>2, QuietMoves
  <2> QED BY <1>2, <2>3
<1>6. /\ ~Lacks(queue, Carriers(p))
      /\ AtMostOne(queue, Carriers(p)) => Lacks(queue', Carriers(p))
      /\ \A o : Fewer(queue, queue', Carriers(o))
      /\ \A o : Holds(queue', Datagram(o)) => Holds(queue, Datagram(o))
      /\ \A g, o : Holds(queue', Received(g, o)) => Holds(queue, Received(g, o))
      /\ \A g : ReadsAlike(queue, queue', g)
      /\ Holds(queue, Datagram(p))
  BY <1>1, <1>3, <1>5, PacketHandled, EventParts
<1>7. c \in UdpClients /\ c \in Clients /\ c \notin TcpClients
  BY <1>0, <1>1, <1>6, RendezvousAssumption DEF UdpInv, ToServer, Clients
<1>8. /\ Created' = Created \cup {f} /\ f \notin Created /\ f \in Nat
      /\ faces' = faces \cup {f} /\ reading' \subseteq reading \cup {f}
      /\ owner'[f] = c /\ link'[f] = s /\ buffer'[f] = arrived
      /\ \A g \in Created : owner'[g] = owner[g] /\ link'[g] = link[g] /\ buffer'[g] = buffer[g]
      /\ With(out, f, <<>>)[f] = <<>> /\ \A g \in Created : With(out, f, <<>>)[g] = out[g]
      /\ owner' = With(owner, f, c)
      /\ s \in {"open", "closing"}
  BY <1>0, <1>1, <1>2, <1>4, <1>7, CreateParts
<1>9. /\ \A g \in Created' : g # f => out'[g] = With(out, f, <<>>)[g]
      /\ out'[f] = With(out, f, <<>>)[f]
      /\ MayGet(c, p)
  <2>1. owner' \in [Created' -> Clients] /\ With(out, f, <<>>) \in [Created' -> Seq(Packet)]
    BY <1>0, <1>1, <1>2, <1>4, <1>7, <1>8, CreateFaceType
  <2>2. PICK S, t, o, w : S = Created' /\ t = faces \cup {f} /\ o = owner' /\ w = With(out, f, <<>>)
    OBVIOUS
  <2>3. f \in S /\ o \in [S -> Clients] /\ w \in [S -> Seq(Packet)] /\ o[f] = c
        /\ OnPacketReceived(f, p, t, o, w)
    BY <1>2, <1>8, <2>1, <2>2
  <2>4. /\ \A g \in S : g # f => out'[g] = w[g]
        /\ out'[f] = w[f] /\ MayGet(c, p)
    <3>1. /\ \A g \in S : g # f => out'[g] = w[g]
          /\ o[f] \in UdpClients => out'[f] = w[f] /\ MayGet(o[f], p)
      <4>1. p \in Packet
        BY <1>3
      <4>2. f \in S
        BY <2>3
      <4>3. o \in [S -> Clients] /\ w \in [S -> Seq(Packet)]
        BY <2>3
      <4>4. OnPacketReceived(f, p, t, o, w)
        BY <2>3
      <4>5. /\ \A g \in S : g # f => out'[g] = w[g]
            /\ o[f] \in TcpClients =>
                 /\ got' = got
                 /\ p.kind = "PubToRp" /\ f \in t => out'[f] = Append(w[f], p)
                 /\ p.kind # "PubToRp" => out'[f] = w[f]
            /\ o[f] \in UdpClients => out'[f] = w[f] /\ MayGet(o[f], p)
        BY <4>1, <4>2, <4>3, <4>4, AnswerParts
      <4> QED BY <4>5
    <3> QED BY <1>7, <2>3, <3>1
  <2> QED BY <2>2, <2>4
<1>10. GotBy(c, p) /\ \A d \in TcpClients : got'[d] = got[d]
  <2>1. UdpClients \subseteq Clients /\ \A d \in TcpClients : d # c /\ d \in Clients
    BY <1>7 DEF Clients
  <2> QED BY <1>1, <1>7, <1>9, <2>1 DEF GotBy, MayGet, TypeOK
<1>11. out'[f] = <<>> /\ \A g \in Created : out'[g] = out[g]
  BY <1>8, <1>9
<1>12. /\ FacesAlike(Tail(queue), queue')
       /\ FacesAlike(queue, Tail(queue))
  <2>1. FacesAlike(queue, Tail(queue))
    BY <1>3, TailAlike, EventSets DEF FacesAlike
  <2> QED BY <1>5, <2>1, QuietKeeps DEF FacesAlike
<1>13. FacesAlike(queue, queue')
  BY <1>12, AlikeTwice DEF FacesAlike
<1>14. FacesInv'
  <2>1. AcceptTurn'
    BY <1>1, <1>2, <1>13 DEF FacesInv, AcceptTurn, FacesAlike, Alike
  <2>2. Lacks(queue', {Accepted(c)})
    <3>1. Lacks(queue, {Accepted(c)})
      BY <1>0, <1>1, <1>7, NothingOfNewFace
    <3> QED BY <1>13, <3>1 DEF FacesAlike, Alike
  <2>3. \A g : /\ Lacks(queue, {FaceShutdownPosted(g)}) => Lacks(queue', {FaceShutdownPosted(g)})
               /\ Fewer(queue, queue', Reads(g))
    BY <1>6, <1>13, FewerCases DEF FacesAlike, Alike, ReadsAlike
  <2>4. \A g \in Created : Lacks(queue, {Accepted(owner[g])}) => Lacks(queue', {Accepted(owner[g])})
    BY <1>13 DEF FacesAlike, Alike
  <2> QED BY <1>0, <1>1, <1>2, <1>4, <1>7, <1>8, <2>1, <2>2, <2>3, <2>4, FacesAfterCreate
<1>15. CameBack' /\ NothingBefore'
  BY <1>1, <1>4, <1>8, <1>10 DEF TcpInv, CameBack, NothingBefore
<1>16. AllInLine'
  <2> SUFFICES ASSUME NEW g \in Created', owner'[g] \in TcpClients, link'[g] # "closed"
               PROVE  InLine(g)'
    BY DEF AllInLine
  <2>1. PICK d : d = owner'[g]
    OBVIOUS
  <2>2. g \in Created /\ owner[g] = d /\ d \in TcpClients /\ link[g] # "closed"
    BY <1>7, <1>8, <2>1
  <2>3. Line(queue, g, sends[d], buffer[g], got[d] \o out[g])
    BY <1>1, <2>2 DEF TcpInv, AllInLine, InLine
  <2>4. Line(queue', g, sends[d], buffer[g], got[d] \o out[g])
    BY <1>6, <2>3, LineAlike
  <2> QED BY <1>4, <1>8, <1>10, <1>11, <2>1, <2>2, <2>4 DEF InLine
<1>17. Placed'
  <2> SUFFICES ASSUME NEW o \in Packet, o.from \in UdpClients
               PROVE  InOnePlace(o)' /\ (Somewhere(o)' => WasSent(o)')
    BY DEF Placed
  <2>1. InOnePlace(o) /\ (Somewhere(o) => WasSent(o))
    BY <1>1 DEF UdpInv, Placed
  <2>2. CASE o \notin late
    <3>1. \A g \in Created' : \/ g \in Created /\ buffer'[g] = buffer[g]
                              \/ Lacks(buffer'[g], {o})
      BY <1>4, <1>8, <2>2
    <3>2. InOnePlace(o)' /\ (Somewhere(o)' => Somewhere(o))
      BY <1>1, <1>2, <1>3, <1>6, <1>10, <2>1, <3>1, PlaceAnswered
    <3> QED BY <1>4, <2>1, <3>2
  <2>3. CASE o \in late
    <3>1. ~Somewhere(o) /\ WasSent(o)'
      BY <1>4, <2>1, <2>3
    <3>2. o # p
      BY <1>6, <3>1 DEF Somewhere, AtAll
    <3>3. \A d \in UdpClients : Lacks(got'[d], {o})
      <4> SUFFICES ASSUME NEW d \in UdpClients PROVE Lacks(got'[d], {o})
        OBVIOUS
      <4>1. Lacks(got[d], {o}) /\ got[d] \in Seq(Packet)
        BY <1>1, <3>1 DEF Somewhere, AtAll, TypeOK, Clients
      <4>2. Lacks(Append(got[d], p), {o})
        BY <1>3, <3>2, <4>1, AppendLacks
      <4> QED BY <1>10, <4>1, <4>2 DEF GotBy
    <3>4. /\ Lacks(datagrams', {o}) /\ Lacks(queue', Carriers(o))
          /\ \A g \in Created : Lacks(buffer'[g], {o})
      BY <1>2, <1>6, <1>8, <3>1 DEF Somewhere, AtAll, Fewer
    <3>5. PICK D, Q, F, B, G :
            D = datagrams' /\ Q = queue' /\ F = Created' /\ B = buffer' /\ G = got'
      OBVIOUS
    <3>6. /\ Lacks(D, {o}) /\ Lacks(Q, Carriers(o)) /\ \A d \in UdpClients : Lacks(G[d], {o})
          /\ f \in F /\ AtMostOne(B[f], {o}) /\ \A g \in F : g # f => Lacks(B[g], {o})
      BY <1>4, <1>8, <3>3, <3>4, <3>5
    <3>7. OnePlace(o, D, Q, F, B, G)
      <4>1. \A q, E : Lacks(q, E) => AtMostOne(q, E)
        BY FewerCases
      <4> QED BY <3>6, <4>1 DEF OnePlace
    <3> QED BY <3>1, <3>5, <3>7 DEF InOnePlace
  <2> QED BY <2>2, <2>3
<1>18. ToServer'
  BY <1>1, <1>2, <1>6 DEF UdpInv, ToServer
<1>19. raced \subseteq raced' /\ late \subseteq raced'
  BY <1>2, <1>4
<1>20. \A d, o : Own(d, o, raced) => Own(d, o, raced')
  BY <1>19 DEF Own
<1>21. ToSockets'
  <2> SUFFICES ASSUME NEW g \in Created', owner'[g] \in UdpClients
               PROVE  /\ out'[g] = <<>>
                      /\ \A o : Holds(buffer'[g], o) \/ Holds(queue', Received(g, o))
                                => Own(owner'[g], o, raced')
    BY DEF ToSockets
  <2>1. CASE g = f
    <3>1. \A o : ~Holds(queue, Received(f, o))
      BY <1>0, <1>1, NothingOfNewFace
    <3>2. \A o : Holds(buffer'[f], o) => Own(c, o, raced')
      BY <1>4, <1>8, <1>19 DEF Own
    <3> QED BY <1>6, <1>8, <1>11, <2>1, <3>1, <3>2
  <2>2. CASE g \in Created
    BY <1>1, <1>6, <1>8, <1>11, <1>20, <2>2 DEF UdpInv, ToSockets
  <2> QED BY <1>8, <2>1, <2>2
<1>22. Answers'
  <2> SUFFICES ASSUME NEW d \in UdpClients, NEW o, Holds(got'[d], o) PROVE Own(d, o, raced')
    BY DEF Answers
  <2>1. CASE Holds(got[d], o)
    BY <1>1, <1>20, <2>1 DEF UdpInv, Answers
  <2>2. CASE ~Holds(got[d], o)
    <3>1. d = c /\ got'[d] = Append(got[d], p)
      BY <1>10, <2>2 DEF GotBy
    <3>2. got[d] \in Seq(Packet)
      BY <1>1 DEF TypeOK, Clients
    <3>3. o = p
      BY <1>3, <2>2, <3>1, <3>2, AppendHolds
    <3> QED BY <1>0, <1>7, <3>1, <3>3 DEF Own
  <2> QED BY <2>1, <2>2
<1> QED BY <1>4, <1>14, <1>15, <1>16, <1>17, <1>18, <1>21, <1>22 DEF TcpInv, UdpInv

-----------------------------------------------------------------------------
(***************************************************************************)
(* A client sends.                                                         *)
(***************************************************************************)
LEMMA SendsKeeps ==
  ASSUME RendezvousInv, NEW c \in Clients, NEW kind \in TcpKinds \cup UdpKinds, Sends(c, kind)
  PROVE  FacesInv' /\ SentInOrder' /\ TcpInv' /\ UdpInv'
<1>0. PICK x : x = NextPacket(c, kind)
  OBVIOUS
<1>1. TypeOK /\ FacesInv /\ SentInOrder /\ TcpInv /\ UdpInv
  BY DEF RendezvousInv
<1>2. x \in Packet /\ x.from = c /\ x.n = Len(sends[c]) + 1
  BY <1>0, <1>1, NextPacketType DEF NextPacket
<1>3. /\ sends' = [sends EXCEPT ![c] = Append(@, x)]
      /\ \/ \E f \in SocketsOf(c) : buffer' = [buffer EXCEPT ![f] = Append(@, x)] /\ UNCHANGED datagrams
         \/ /\ SocketsOf(c) = {} /\ UNCHANGED buffer
            /\ \/ c \in UdpClients /\ datagrams' = Append(datagrams, x)
               \/ c \notin UdpClients /\ UNCHANGED datagrams
      /\ UNCHANGED <<up, server, sockets, queue, conn, got, raced>>
  BY <1>0, <1>1, SendsParts
<1>4. UNCHANGED <<accepting, faces, serial, owner, link, reading, out, queue, got, raced>>
  BY <1>3 DEF server, sockets
<1>5. Created' = Created
  BY <1>4 DEF Created
<1>6. /\ SentInOrder'
      /\ sends'[c] = Append(sends[c], x)
      /\ \A d \in Clients : d # c => sends'[d] = sends[d]
      /\ \A p \in Packet : WasSent(p) => WasSent(p)'
      /\ ~WasSent(x) /\ WasSent(x)'
  BY <1>1, <1>2, <1>3, OneSent DEF SendsOne
<1>7. buffer \in [Created -> Seq(Packet)] /\ datagrams \in Seq(Packet) /\ sends[c] \in Seq(Packet)
  BY <1>1 DEF TypeOK
<1>8. \A g \in Created :
        \/ buffer'[g] = buffer[g]
        \/ owner[g] = c /\ link[g] # "closed" /\ buffer'[g] = Append(buffer[g], x)
  BY <1>3, <1>7 DEF SocketsOf
<1>9. FacesInv'
  <2>1. \A g \in Created : link[g] = "closed" /\ buffer[g] = <<>> => buffer'[g] = <<>>
    BY <1>8
  <2>2. ReadTurn'
    BY <1>1, <1>4, <1>5 DEF FacesInv, ReadTurn
  <2>3. FacesAlike(queue, queue')
    BY <1>4 DEF FacesAlike, Alike
  <2> QED BY <1>1, <1>4, <1>5, <2>1, <2>2, <2>3, FacesKept
<1>10. CameBack'
  <2> SUFFICES ASSUME NEW d \in TcpClients PROVE ComesBack(got[d], sends'[d])
    BY <1>4 DEF CameBack
  <2>1. ComesBack(got[d], sends[d]) /\ got[d] \in Seq(Packet) /\ d \in Clients
    BY <1>1 DEF TcpInv, CameBack, TypeOK, Clients
  <2>2. CASE d = c
    <3>1. ComesBack(got[c], Append(sends[c], x))
      BY <1>2, <1>7, <2>1, <2>2, OneMoreSent
    <3> QED BY <1>6, <2>2, <3>1
  <2>3. CASE d # c
    BY <1>6, <2>1, <2>3
  <2> QED BY <2>2, <2>3
<1>11. NothingBefore'
  BY <1>1, <1>4, <1>5 DEF TcpInv, NothingBefore
<1>12. AllInLine'
  <2> SUFFICES ASSUME NEW g \in Created, owner[g] \in TcpClients, link[g] # "closed"
               PROVE  InLine(g)'
    BY <1>4, <1>5 DEF AllInLine
  <2>1. InLine(g) /\ owner[g] \in Clients
    BY <1>1 DEF TcpInv, AllInLine, Clients
  <2>2. CASE owner[g] # c
    <3>1. buffer'[g] = buffer[g]
      BY <1>8, <2>2
    <3> QED BY <1>4, <1>6, <2>1, <2>2, <3>1 DEF InLine
  <2>3. CASE owner[g] = c
    <3>1. buffer'[g] = Append(buffer[g], x)
      <4>1. g \in SocketsOf(c)
        BY <2>3 DEF SocketsOf
      <4>2. PICK f \in SocketsOf(c) : buffer' = [buffer EXCEPT ![f] = Append(@, x)]
        BY <1>3, <4>1
      <4>3. f = g
        BY <1>1, <2>3 DEF SocketsOf, FacesInv, OneFace
      <4> QED BY <1>7, <4>2, <4>3
    <3>2. PICK q, s, b, line : q = queue /\ s = sends[c] /\ b = buffer[g] /\ line = got[c] \o out[g]
      OBVIOUS
    <3>3. s \in Seq(Packet) /\ b \in Seq(Packet) /\ line \in Seq(Packet) /\ Line(q, g, s, b, line)
      <4>1. got[c] \in Seq(Packet) /\ out[g] \in Seq(Packet)
        BY <1>1 DEF TypeOK
      <4>2. got[c] \o out[g] \in Seq(Packet)
        BY <4>1, ConcatProperties
      <4> QED BY <1>7, <2>1, <2>3, <3>2, <4>2 DEF InLine
    <3>4. Line(q, g, Append(s, x), Append(b, x), line)
      BY <1>2, <3>3, LineSends
    <3> QED BY <1>4, <1>6, <2>3, <3>1, <3>2, <3>4 DEF InLine
  <2> QED BY <2>2, <2>3
<1>13. Placed'
  <2> SUFFICES ASSUME NEW o \in Packet, o.from \in UdpClients
               PROVE  InOnePlace(o)' /\ (Somewhere(o)' => WasSent(o)')
    BY DEF Placed
  <2>1. /\ OnePlace(o, datagrams, queue, Created, buffer, got)
        /\ AtAll(o, datagrams, queue, Created, buffer, got) => WasSent(o)
    BY <1>1 DEF UdpInv, Placed, InOnePlace, Somewhere
  <2>2. CASE o # x
    <3>1. \A g \in Created' : g \in Created /\ Fewer(buffer[g], buffer'[g], {o})
      <4> SUFFICES ASSUME NEW g \in Created PROVE Fewer(buffer[g], buffer'[g], {o})
        BY <1>5
      <4>1. Fewer(buffer[g], Append(buffer[g], x), {o})
        <5>1. buffer[g] \in Seq(Packet)
          BY <1>7
        <5> QED BY <1>2, <2>2, <5>1, AppendAlike, FewerCases
      <4> QED BY <1>8, <4>1, FewerCases
    <3>2. Fewer(datagrams, datagrams', {o})
      <4>1. Fewer(datagrams, Append(datagrams, x), {o})
        BY <1>2, <1>7, <2>2, AppendAlike, FewerCases
      <4> QED BY <1>3, <4>1, FewerCases
    <3>3. Fewer(queue, queue', Carriers(o)) /\ \A d \in UdpClients : Fewer(got[d], got'[d], {o})
      BY <1>4, FewerCases
    <3>4. /\ OnePlace(o, datagrams', queue', Created', buffer', got')
          /\ AtAll(o, datagrams', queue', Created', buffer', got')
             => AtAll(o, datagrams, queue, Created, buffer, got)
      BY <2>1, <3>1, <3>2, <3>3, PlacesFewer
    <3> QED BY <1>6, <2>1, <3>4 DEF InOnePlace, Somewhere
  <2>3. CASE o = x
    <3>1. /\ Lacks(datagrams, {x}) /\ Lacks(queue, Carriers(x))
          /\ \A g \in Created : Lacks(buffer[g], {x})
          /\ \A d \in UdpClients : Lacks(got[d], {x})
          /\ c \in UdpClients
      BY <1>2, <1>6, <2>1, <2>3 DEF AtAll
    <3>2. \A q \in Seq(Packet) : Lacks(q, {x}) => AtMostOne(Append(q, x), {x})
      BY <1>2, AppendAlike
    <3>3. CASE SocketsOf(c) = {} /\ UNCHANGED buffer /\ datagrams' = Append(datagrams, x)
      <4>1. AtMostOne(datagrams', {x})
        BY <1>7, <3>1, <3>2, <3>3
      <4>2. OnePlace(x, datagrams', queue', Created', buffer', got')
        BY <1>4, <1>5, <3>1, <3>3, <4>1, FewerCases DEF OnePlace
      <4> QED BY <1>6, <2>3, <4>2 DEF InOnePlace
    <3>4. ASSUME NEW f \in SocketsOf(c), buffer' = [buffer EXCEPT ![f] = Append(@, x)],
                 UNCHANGED datagrams
          PROVE  OnePlace(x, datagrams', queue', Created', buffer', got')
      <4>1. f \in Created
        BY DEF SocketsOf
      <4>2. AtMostOne(Append(buffer[f], x), {x})
        BY <1>7, <3>1, <3>2, <4>1
      <4>3. /\ AtMostOne(buffer'[f], {x})
            /\ \A g \in Created : g # f => Lacks(buffer'[g], {x})
        BY <1>7, <3>1, <3>4, <4>1, <4>2
      <4>4. PICK D, Q, F, B, G :
              D = datagrams' /\ Q = queue' /\ F = Created' /\ B = buffer' /\ G = got'
        OBVIOUS
      <4>5. /\ Lacks(D, {x}) /\ Lacks(Q, Carriers(x)) /\ \A d \in UdpClients : Lacks(G[d], {x})
            /\ f \in F /\ AtMostOne(B[f], {x}) /\ \A g \in F : g # f => Lacks(B[g], {x})
        BY <1>4, <1>5, <3>1, <3>4, <4>1, <4>3, <4>4
      <4>6. \A q, E : Lacks(q, E) => AtMostOne(q, E)
        BY FewerCases
      <4>7. OnePlace(x, D, Q, F, B, G)
        BY <4>5, <4>6 DEF OnePlace
      <4> QED BY <4>4, <4>7
    <3> QED BY <1>3, <1>6, <2>3, <3>1, <3>3, <3>4 DEF InOnePlace
  <2> QED BY <2>2, <2>3
<1>14. ToServer'
  <2>1. \A o : Holds(datagrams', o) => Holds(datagrams, o) \/ (o = x /\ c \in UdpClients)
    BY <1>2, <1>3, <1>7, AppendHolds
  <2> QED BY <1>1, <1>2, <1>4, <2>1 DEF UdpInv, ToServer
<1>15. ToSockets'
  <2> SUFFICES ASSUME NEW g \in Created, owner[g] \in UdpClients
               PROVE  /\ out[g] = <<>>
                      /\ \A o : Holds(buffer'[g], o) \/ Holds(queue, Received(g, o))
                                => Own(owner[g], o, raced)
    BY <1>4, <1>5 DEF ToSockets
  <2>1. \A o : Holds(buffer'[g], o) => Holds(buffer[g], o) \/ (o = x /\ owner[g] = c)
    <3>1. \A o : Holds(Append(buffer[g], x), o) <=> Holds(buffer[g], o) \/ o = x
      BY <1>2, <1>7, AppendHolds
    <3> QED BY <1>8, <3>1
  <2> QED BY <1>1, <1>2, <2>1 DEF UdpInv, ToSockets, Own
<1>16. Answers'
  BY <1>1, <1>4 DEF UdpInv, Answers
<1> QED BY <1>6, <1>9, <1>10, <1>11, <1>12, <1>13, <1>14, <1>15, <1>16 DEF TcpInv, UdpInv

-----------------------------------------------------------------------------
(***************************************************************************)
(* The invariant.                                                          *)
(***************************************************************************)
LEMMA RendezvousInit == Init => RendezvousInv
<1> SUFFICES ASSUME Init PROVE RendezvousInv
  OBVIOUS
<1>1. TypeOK
  BY TypeInit
<1>2. Created = {}
  BY DEF Init, Created, FirstSerial
<1>3. /\ queue = <<>> /\ datagrams = <<>> /\ faces = {}
      /\ sends = [c \in Clients |-> <<>>] /\ got = [c \in Clients |-> <<>>]
  BY DEF Init
<1>4. /\ \A E : Lacks(<<>>, E) /\ AtMostOne(<<>>, E)
      /\ \A e : ~Holds(<<>>, e)
  BY DEF Lacks, AtMostOne, Holds
<1>5. FacesInv
  BY <1>2, <1>3, <1>4 DEF FacesInv, AcceptTurn, OneFace, ClosedBeforeRemoved, ReadTurn
<1>6. \A c \in Clients : sends[c] = <<>> /\ got[c] = <<>>
  BY <1>3
<1>7. Len(<<>>) = 0
  OBVIOUS
<1>8. SentInOrder
  BY <1>6, <1>7 DEF SentInOrder
<1>9. TcpInv
  BY <1>2, <1>6, NoneComesBack DEF TcpInv, CameBack, NothingBefore, AllInLine, Clients
<1>10. \A c \in UdpClients : got[c] = <<>>
  BY <1>6 DEF Clients
<1>11. Placed
  BY <1>2, <1>3, <1>4, <1>10 DEF Placed, InOnePlace, OnePlace, Somewhere, AtAll
<1>12. ToServer /\ ToSockets /\ Answers
  BY <1>2, <1>3, <1>4, <1>10 DEF ToServer, ToSockets, Answers
<1> QED BY <1>1, <1>5, <1>8, <1>9, <1>11, <1>12 DEF RendezvousInv, UdpInv

LEMMA DatagramKeeps ==
  ASSUME RendezvousInv, NEW p, HandleDatagram(p)
  PROVE  FacesInv' /\ SentInOrder' /\ TcpInv' /\ UdpInv'
<1>1. Running(Datagram(p)) /\ TypeOK
  BY DEF HandleDatagram, RendezvousInv
<1>2. CASE MakesFace(p, <<>>) /\ UNCHANGED sends
  <2>1. Arrives(<<>>, {})
    BY <1>2 DEF Arrives
  <2> QED BY <1>1, <1>2, <2>1, MakesFaceKeeps
<1>3. ASSUME NEW d \in Newcomers(p.from), NEW kind \in UdpKinds,
             MakesFace(p, <<NextPacket(d, kind)>>),
             sends' = [sends EXCEPT ![d] = Append(@, NextPacket(d, kind))]
      PROVE  FacesInv' /\ SentInOrder' /\ TcpInv' /\ UdpInv'
  <2>1. d \in UdpClients /\ d \in Clients
    BY DEF Newcomers, Clients
  <2>2. PICK x : x = NextPacket(d, kind)
    OBVIOUS
  <2>3. x \in Packet /\ x.from = d /\ x.n = Len(sends[d]) + 1
    BY <1>1, <2>1, <2>2, NextPacketType DEF NextPacket
  <2>4. MakesFace(p, <<x>>) /\ SendsOne(d, x)
    BY <1>3, <2>1, <2>2, <2>3 DEF SendsOne
  <2>5. Arrives(<<x>>, {x})
    BY <2>1, <2>4 DEF Arrives
  <2> QED BY <1>1, <2>4, <2>5, MakesFaceKeeps
<1> QED BY <1>2, <1>3, DatagramCases

LEMMA KernelKeeps ==
  ASSUME RendezvousInv, Kernel
  PROVE  FacesInv' /\ SentInOrder' /\ TcpInv' /\ UdpInv'
<1>1. TypeOK
  BY DEF RendezvousInv
<1>2. ASSUME NEW c \in TcpClients, AcceptCompletes(c)
      PROVE  FacesInv' /\ SentInOrder' /\ TcpInv' /\ UdpInv'
  <2>1. queue' = Append(queue, AcceptFailed) \/ queue' = Append(queue, Accepted(c))
    BY <1>2 DEF AcceptCompletes
  <2>2. CASE queue' = Append(queue, AcceptFailed)
    <3>1. Calm
      BY <1>1, <1>2, <2>2, CalmSteps
    <3> QED BY <3>1, CalmKeeps
  <2>3. CASE queue' = Append(queue, Accepted(c))
    BY <1>2, <2>3, AcceptKeeps
  <2> QED BY <2>1, <2>2, <2>3
<1>3. ASSUME NEW f \in Created, ReadCompletes(f)
      PROVE  FacesInv' /\ SentInOrder' /\ TcpInv' /\ UdpInv'
  <2>1. TakesPacket(f) \/ queue' = Append(queue, Failed(f))
    BY <1>3 DEF ReadCompletes, TakesPacket
  <2>2. CASE queue' = Append(queue, Failed(f))
    <3>1. Calm
      BY <1>1, <1>3, <2>2, CalmSteps
    <3> QED BY <3>1, CalmKeeps
  <2> QED BY <2>1, <2>2, ReadKeeps
<1>4. ASSUME NEW f \in Created, WriteCompletes(f)
      PROVE  FacesInv' /\ SentInOrder' /\ TcpInv' /\ UdpInv'
  <2>1. CASE queue' = Append(queue, Failed(f))
    <3>1. Calm
      BY <1>1, <1>4, <2>1, CalmSteps
    <3> QED BY <3>1, CalmKeeps
  <2>2. CASE queue' # Append(queue, Failed(f))
    <3>1. /\ out[f] # <<>> /\ link[f] = "open"
          /\ got' = [got EXCEPT ![owner[f]] = Append(@, Head(out[f]))]
          /\ out' = [out EXCEPT ![f] = Tail(@)]
          /\ UNCHANGED <<server, faces, serial, owner, link, reading, queue, sends, kernel>>
      BY <1>4, <2>2 DEF WriteCompletes
    <3> QED BY <3>1, WriteKeeps
  <2> QED BY <2>1, <2>2
<1> QED BY <1>2, <1>3, <1>4, ServerReceiveKeeps DEF Kernel

LEMMA EventLoopKeeps ==
  ASSUME RendezvousInv, EventLoop
  PROVE  FacesInv' /\ SentInOrder' /\ TcpInv' /\ UdpInv'
<1>1. TypeOK
  BY DEF RendezvousInv
<1>2. ASSUME NEW f, NEW p, HandleReceive(f, p) \/ HandleGarbage(f, p)
      PROVE  FacesInv' /\ SentInOrder' /\ TcpInv' /\ UdpInv'
  BY <1>1, <1>2, HandlesPacket, ReceiveKeeps
<1>3. ASSUME NEW f, HandleFailure(f) \/ HandleTimeout(f)
      PROVE  FacesInv' /\ SentInOrder' /\ TcpInv' /\ UdpInv'
  BY <1>1, <1>3, CalmSteps, CalmKeeps
<1>4. ASSUME NEW p, HandleAcceptFailed \/ HandleDatagramThrows(p)
      PROVE  FacesInv' /\ SentInOrder' /\ TcpInv' /\ UdpInv'
  BY <1>1, <1>4, CalmSteps, CalmKeeps
<1>5. ASSUME NEW c, HandleAccept(c)
      PROVE  FacesInv' /\ SentInOrder' /\ TcpInv' /\ UdpInv'
  <2>1. CASE Ends
    <3>1. Calm
      BY <1>1, <1>5, <2>1, CalmSteps
    <3> QED BY <3>1, CalmKeeps
  <2> QED BY <1>5, <2>1, HandleAcceptKeeps
<1> QED BY <1>2, <1>3, <1>4, <1>5, ShutdownKeeps, DatagramKeeps DEF EventLoop

LEMMA RendezvousStep ==
  ASSUME RendezvousInv, [Next]_vars
  PROVE  RendezvousInv'
<1>1. TypeOK
  BY DEF RendezvousInv
<1>2. TypeOK'
  BY <1>1, TypeNext
<1>3. CASE UNCHANGED vars
  <2>1. Calm
    BY <1>1, <1>3, CalmSteps
  <2> QED BY <1>2, <2>1, CalmKeeps DEF RendezvousInv
<1>4. ASSUME NEW c \in Clients, Leaves(c) PROVE RendezvousInv'
  <2>1. Calm
    BY <1>1, <1>4, CalmSteps
  <2> QED BY <1>2, <2>1, CalmKeeps DEF RendezvousInv
<1>5. ASSUME NEW f \in Created, TimerExpires(f) \/ SendFails(f) PROVE RendezvousInv'
  <2>1. Calm
    BY <1>1, <1>5, CalmSteps
  <2> QED BY <1>2, <2>1, CalmKeeps DEF RendezvousInv
<1>6. \A c \in Clients, kind \in TcpKinds \cup UdpKinds : Sends(c, kind) => RendezvousInv'
  BY <1>2, SendsKeeps DEF RendezvousInv
<1>7. CASE Environment
  BY <1>4, <1>5, <1>6, <1>7 DEF Environment, Clients
<1>8. CASE EventLoop
  BY <1>2, <1>8, EventLoopKeeps DEF RendezvousInv
<1>9. CASE Kernel
  BY <1>2, <1>9, KernelKeeps DEF RendezvousInv
<1> QED BY <1>3, <1>7, <1>8, <1>9 DEF Next

(* Whose faces there are, what is where, and what came back, in every      *)
(* state of the rendezvous point.                                          *)
THEOREM RendezvousInvariant == Spec => []RendezvousInv
<1>1. Init => RendezvousInv
  BY RendezvousInit
<1>2. RendezvousInv /\ [Next]_vars => RendezvousInv'
  BY RendezvousStep
<1> QED BY <1>1, <1>2, PTL DEF Spec

LEMMA InvAnswers == RendezvousInv => AnsweredToPublisher
<1> SUFFICES ASSUME RendezvousInv PROVE AnsweredToPublisher
  OBVIOUS
<1>1. TypeOK /\ CameBack /\ Placed /\ Answers
  BY DEF RendezvousInv, TcpInv, UdpInv
<1>2. \A c \in TcpClients : ComesBack(got[c], sends[c])
  BY <1>1 DEF CameBack
<1>3. ASSUME NEW c \in UdpClients
      PROVE  IsInjective(got[c]) /\ \A p \in Range(got[c]) : p.from = c \/ p \in raced
  <2>1. got[c] \in Seq(Packet)
    BY <1>1 DEF TypeOK, Clients
  <2>2. \A p \in Range(got[c]) : p \in Packet /\ Own(c, p, raced)
    BY <1>1, <2>1, HoldsIsRange DEF Answers
  <2>3. \A i \in DOMAIN got[c] : i \in 1..Len(got[c]) /\ got[c][i] \in Range(got[c])
    BY <2>1 DEF Range
  <2>4. \A p \in Range(got[c]) : AtMostOne(got[c], {p})
    BY <1>1, <2>2 DEF Placed, InOnePlace, OnePlace, Own
  <2>5. IsInjective(got[c])
    BY <2>3, <2>4 DEF IsInjective, AtMostOne
  <2> QED BY <2>2, <2>5 DEF Own
<1> QED BY <1>2, <1>3 DEF AnsweredToPublisher

(* A publication goes back to the client that sent it: to a tcp client     *)
(* each of its own, once and in order; to a udp client none twice, and     *)
(* none of another but what came between bind() and connect().             *)
THEOREM RendezvousAnsweredToPublisher == Spec => []AnsweredToPublisher
<1>1. RendezvousInv => AnsweredToPublisher
  BY InvAnswers
<1> QED BY <1>1, RendezvousInvariant, PTL

(* Types. *)
THEOREM RendezvousTypeOK == Spec => []TypeOK
<1>1. RendezvousInv => TypeOK
  BY DEF RendezvousInv
<1> QED BY <1>1, RendezvousInvariant, PTL

=============================================================================

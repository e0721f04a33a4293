--------------------------- MODULE NetworkProofs ---------------------------
(***************************************************************************)
(* Proofs of what the network promises to publishers and subscribers, for  *)
(* every set of nodes and connections, every tables at the start and every *)
(* bound.                                                                  *)
(***************************************************************************)
EXTENDS Network, DataProofs, FiniteSetTheorems

(***************************************************************************)
(* The invariant.                                                          *)
(***************************************************************************)
Packets ==
  [type : {"Sub"}, cd : CdBlocks, content : {NoWire}] \cup
  [type : {"PubToRp", "PubFromRp"}, cd : CdBlocks, content : [by : Publishers, content : Nat]]

Said == [by : Publishers, cd : CdBlocks, content : Nat]

(* What a router does not have a connection for is in neither table.       *)
StOK ==
  /\ DOMAIN st = Routers
  /\ \A r \in Routers : /\ IsTable(st[r], CdBlocks, TimerStates)
                        /\ \A hop \in Hops(st[r]) : {r, hop[2]} \in links

FibOK ==
  /\ DOMAIN fib = Routers
  /\ \A r \in Routers : /\ IsTable(fib[r], CdBlocks, Nat)
                        /\ AllEntriesUsed(fib[r])
                        /\ \A hop \in Hops(fib[r]) : {r, hop[2]} \in links

(* A packet is only on a connection that is up. *)
ChanOK ==
  /\ chan \in [Directions -> Seq(Packets)]
  /\ \A d \in Directions : \A p : Holds(chan[d], p) => {d[1], d[2]} \in links

(* The cached wire is that of the CD and the content of the object. *)
ObjectOK ==
  /\ DOMAIN object = Publishers
  /\ \A p \in Publishers :
       /\ object[p].cd \in PubCds
       /\ object[p].content \in Nat
       /\ object[p] = [cd |-> object[p].cd, content |-> object[p].content, wire |-> object[p].wire]
       /\ object[p].wire \in {NoWire, <<[cd |-> object[p].cd, content |-> object[p].content]>>}

HistoryOK ==
  /\ published \in [Publishers -> Seq(Said)]
  /\ delivered \in [Subscribers -> Seq(Said)]
  /\ steady \subseteq Said \X Subscribers
  /\ reroutes \in Nat

TypeOK == links \subseteq Links /\ StOK /\ FibOK /\ ChanOK /\ ObjectOK /\ HistoryOK

(* What a packet with a publication tells of it. *)
SaidBy(p) == [by |-> p.content.by, cd |-> p.cd, content |-> p.content.content]

(* A Sub on the connection of a subscriber is one of its own; every other  *)
(* packet has a publication.                                               *)
Honest(d, p) ==
  IF p.type = "Sub" THEN d[1] \in Subscribers => p.cd \in SubsOf[d[1]]
  ELSE SaidBy(p) \in Publications

(* And so is what the Sub leaves in a table. *)
NothingInvented ==
  /\ \A d \in Directions : \A p : Holds(chan[d], p) => Honest(d, p)
  /\ \A r \in Routers : \A hop \in Hops(st[r]) :
       hop[2] \in Subscribers => hop[1] \in SubsOf[hop[2]]

(* Where a publication is that will come to a subscriber.                  *)
ToRp(q) ==
  [type |-> "PubToRp", cd |-> q.cd, content |-> [by |-> q.by, content |-> q.content]]
FromRp(q) ==
  [type |-> "PubFromRp", cd |-> q.cd, content |-> [by |-> q.by, content |-> q.content]]

Rises(path, cd) ==
  /\ \A i \in 2..Len(path) : path[i] \in NextTo(path[i-1], cd)
  /\ RP \in NextTo(path[Len(path)], cd)

OnWayUp(q, s) ==
  \E d \in Directions : \E up, down \in Paths :
    /\ Holds(chan[d], ToRp(q))
    /\ up[1] = d[2]
    /\ Rises(up, q.cd)
    /\ down[1] = up[Len(up)]
    /\ Descends(down, s, q.cd)

AtRp(q, s) ==
  \E d \in Directions : \E down \in Paths :
    /\ Holds(chan[d], ToRp(q))
    /\ d[2] = RP
    /\ down[1] = d[1]
    /\ Descends(down, s, q.cd)

OnWayDown(q, s) ==
  \E d \in Directions : \E down \in Paths :
    /\ Holds(chan[d], FromRp(q))
    /\ down[1] = d[2]
    /\ Descends(down, s, q.cd)

Arrived(q, s) == q \in Range(delivered[s])

Progress(q, s) == OnWayUp(q, s) \/ AtRp(q, s) \/ OnWayDown(q, s) \/ Arrived(q, s)

SteadyPathsLead == \A pair \in steady : Progress(pair[1], pair[2])

NetworkInv == TypeOK /\ NothingInvented /\ DeliveredWasPublished /\ SteadyPathsLead

-----------------------------------------------------------------------------
(***************************************************************************)
(* Connections and packets.                                                *)
(***************************************************************************)
LEMMA DirectionsOK ==
  /\ \A d \in Directions : /\ d = <<d[1], d[2]>>
                           /\ d[1] \in Nodes /\ d[2] \in Nodes
                           /\ d[2] = RP \/ d[2] \in Routers
  /\ \A a, b : {a, b} \in Links /\ b \in {RP} \cup Routers => <<a, b>> \in Directions
<1>1. ASSUME NEW a, NEW b, {a, b} \in Links
      PROVE  a \in Nodes /\ b \in Nodes
  <2>1. PICK x, y \in Nodes : {a, b} = {x, y}
    BY <1>1, NetworkAssumption
  <2> QED BY <2>1
<1> QED BY <1>1 DEF Directions

LEMMA LinkedAreNodes ==
  ASSUME NEW a, NEW b, {a, b} \in Links
  PROVE  a # b /\ a \in Nat /\ b \in Nat
<1>1. PICK x, y \in Nodes : x # y /\ {a, b} = {x, y}
  BY NetworkAssumption
<1>2. x \in Nat /\ y \in Nat
  BY NetworkAssumption
<1> QED BY <1>1, <1>2

(* What is on the connections after a step that takes the head of some and *)
(* sends one packet.                                                       *)
Carries(d, a, to) == d[1] = a /\ d[2] \in to /\ {d[1], d[2]} \in links

LEMMA MovesChan ==
  ASSUME ChanOK, NEW taken \in SUBSET Directions, \A d \in taken : chan[d] # <<>>,
         NEW a, NEW to, NEW p \in Packets, Moves(taken, a, to, p)
  PROVE  /\ chan' \in [Directions -> Seq(Packets)]
         /\ \A d \in Directions : \A e : Holds(chan'[d], e) =>
              Holds(chan[d], e) \/ (e = p /\ Carries(d, a, to))
         /\ \A d \in Directions : \A e : Holds(chan[d], e) =>
              Holds(chan'[d], e) \/ (d \in taken /\ e = Head(chan[d]))
         /\ \A d \in Directions : Carries(d, a, to) => Holds(chan'[d], p)
<1> DEFINE rest(d) == IF d \in taken THEN Tail(chan[d]) ELSE chan[d]
           goes(d) == Carries(d, a, to)
<1>1. \A d \in Directions : chan'[d] = rest(d) \o (IF goes(d) THEN <<p>> ELSE <<>>)
  BY DEF Moves, Carries
<1>2. chan' = [d \in Directions |-> chan'[d]]
  BY <1>1 DEF Moves
<1>3. ASSUME NEW d \in Directions
      PROVE  /\ rest(d) \in Seq(Packets)
             /\ \A e : Holds(rest(d), e) => Holds(chan[d], e)
             /\ \A e : Holds(chan[d], e) => Holds(rest(d), e) \/ (d \in taken /\ e = Head(chan[d]))
  <2>1. chan[d] \in Seq(Packets)
    BY DEF ChanOK
  <2>2. CASE d \in taken
    BY <2>1, <2>2, TailHolds
  <2>3. CASE d \notin taken
    BY <2>1, <2>3
  <2> QED BY <2>2, <2>3
<1> HIDE DEF rest
<1>4. ASSUME NEW d \in Directions
      PROVE  /\ chan'[d] \in Seq(Packets)
             /\ \A e : Holds(chan'[d], e) <=> Holds(rest(d), e) \/ (goes(d) /\ e = p)
  <2>1. rest(d) \in Seq(Packets)
    BY <1>3
  <2>2. CASE goes(d)
    <3>1. chan'[d] = rest(d) \o <<p>>
      BY <1>1, <2>2
    <3> HIDE DEF goes
    <3> QED BY <2>1, <2>2, <3>1, ConcatHolds
  <2>3. CASE ~goes(d)
    <3>1. chan'[d] = rest(d)
      BY <1>1, <2>1, <2>3, ConcatHolds
    <3> HIDE DEF goes
    <3> QED BY <2>1, <2>3, <3>1
  <2> QED BY <2>2, <2>3
<1>5. chan' \in [Directions -> Seq(Packets)]
  BY <1>2, <1>4
<1> QED BY <1>3, <1>4, <1>5

LEMMA MovesChanOK ==
  ASSUME ChanOK, NEW taken \in SUBSET Directions, \A d \in taken : chan[d] # <<>>,
         NEW a, NEW to, NEW p \in Packets, Moves(taken, a, to, p), UNCHANGED links
  PROVE  ChanOK'
<1>1. Directions' = Directions
  BY DEF Directions
<1>2. ASSUME NEW d \in Directions, NEW e, Holds(chan'[d], e)
      PROVE  {d[1], d[2]} \in links
  <2>1. Holds(chan[d], e) \/ Carries(d, a, to)
    BY <1>2, MovesChan
  <2> QED BY <2>1 DEF ChanOK, Carries
<1>3. chan' \in [Directions -> Seq(Packets)]
  BY MovesChan
<1> QED BY <1>1, <1>2, <1>3 DEF ChanOK

-----------------------------------------------------------------------------
(***************************************************************************)
(* Types.                                                                  *)
(***************************************************************************)

(* What a publisher publishes is the CD and the content of its object.     *)
LEMMA WireIsCurrent ==
  ASSUME ObjectOK, NEW p \in Publishers
  PROVE  /\ WireOf(object[p]) = <<[cd |-> object[p].cd, content |-> object[p].content]>>
         /\ PubToRp(p, object[p]) = ToRp([by |-> p, cd |-> object[p].cd, content |-> object[p].content])
         /\ PubToRp(p, object[p]) \in Packets
         /\ [by |-> p, cd |-> object[p].cd, content |-> object[p].content] \in Said
         /\ SaidBy(PubToRp(p, object[p])) = [by |-> p, cd |-> object[p].cd, content |-> object[p].content]
<1>1. object[p].cd \in CdBlocks /\ object[p].content \in Nat
  BY NetworkAssumption DEF ObjectOK
<1>2. WireOf(object[p]) = <<[cd |-> object[p].cd, content |-> object[p].content]>>
  BY DEF ObjectOK, WireOf
<1>3. PubToRp(p, object[p]) = ToRp([by |-> p, cd |-> object[p].cd, content |-> object[p].content])
  BY <1>2 DEF PubToRp, ToRp
<1> QED BY <1>1, <1>2, <1>3 DEF ToRp, Packets, Said, SaidBy

LEMMA FirstTypes == Init => TypeOK
<1> SUFFICES ASSUME Init PROVE TypeOK
  OBVIOUS
<1>1. StOK
  BY NetworkAssumption DEF Init, StOK
<1>2. FibOK
  BY NetworkAssumption DEF Init, FibOK
<1>3. ChanOK
  <2>1. \A d \in Directions : chan[d] = <<>> /\ Len(chan[d]) = 0
    BY DEF Init
  <2>2. chan \in [Directions -> Seq(Packets)]
    BY DEF Init
  <2> QED BY <2>1, <2>2 DEF ChanOK, Holds
<1>4. ObjectOK
  <2>1. object \in [Publishers -> {[cd |-> cd, content |-> 1, wire |-> NoWire] : cd \in PubCds}]
    BY DEF Init
  <2> QED BY <2>1 DEF ObjectOK
<1>5. HistoryOK
  BY DEF Init, HistoryOK
<1> QED BY <1>1, <1>2, <1>3, <1>4, <1>5 DEF TypeOK, Init

LEMMA PublishTypes ==
  ASSUME TypeOK, NEW p \in Publishers, Publish(p)
  PROVE  TypeOK'
<1> DEFINE said == [by |-> p, cd |-> object[p].cd, content |-> object[p].content]
<1>1. said \in Said /\ WireOf(object[p]) = <<[cd |-> object[p].cd, content |-> object[p].content]>>
      /\ PubToRp(p, object[p]) \in Packets
  BY WireIsCurrent DEF TypeOK
<1>2. UNCHANGED <<links, st, fib, delivered, reroutes>>
  BY DEF Publish
<1>3. ChanOK'
  <2>1. Moves({}, p, Routers, PubToRp(p, object[p]))
    BY DEF Publish
  <2> QED BY <1>1, <1>2, <2>1, MovesChanOK DEF TypeOK
<1>4. ObjectOK'
  <2>1. object' = [object EXCEPT ![p].wire = WireOf(object[p])]
    BY DEF Publish
  <2> QED BY <1>1, <2>1 DEF TypeOK, ObjectOK
<1>5. HistoryOK'
  <2>1. published' = [published EXCEPT ![p] = Append(@, said)]
    BY DEF Publish
  <2>2. published' \in [Publishers -> Seq(Said)]
    BY <1>1, <2>1 DEF TypeOK, HistoryOK
  <2>3. steady' = steady \cup {<<said, s>> : s \in {s \in Subscribers : Reaches(p, s, object[p].cd)}}
    BY DEF Publish
  <2> HIDE DEF said
  <2>4. steady' \subseteq Said \X Subscribers
    BY <1>1, <2>3 DEF TypeOK, HistoryOK
  <2> QED BY <1>2, <2>2, <2>4 DEF TypeOK, HistoryOK
<1>6. StOK' /\ FibOK'
  BY <1>2 DEF TypeOK, StOK, FibOK
<1> QED BY <1>2, <1>3, <1>4, <1>5, <1>6 DEF TypeOK

LEMMA SetPublicationTypes ==
  ASSUME TypeOK, NEW p \in Publishers, NEW cd \in PubCds, SetPublication(p, cd)
  PROVE  TypeOK'
<1>1. UNCHANGED <<links, chan, st, fib, published, delivered, steady, reroutes>>
  BY DEF SetPublication
<1>2. ObjectOK'
  <2>1. object' = [object EXCEPT ![p] = [cd |-> cd, content |-> Len(published[p]) + 1, wire |-> NoWire]]
    BY DEF SetPublication
  <2>2. Len(published[p]) + 1 \in Nat
    BY DEF TypeOK, HistoryOK
  <2> QED BY <2>1, <2>2 DEF TypeOK, ObjectOK
<1>3. ChanOK' /\ StOK' /\ FibOK' /\ HistoryOK'
  BY <1>1 DEF TypeOK, ChanOK, StOK, FibOK, HistoryOK, Directions
<1> QED BY <1>1, <1>2, <1>3 DEF TypeOK

LEMMA SendSubTypes ==
  ASSUME TypeOK, NEW s \in Subscribers, NEW cd \in SubsOf[s], SendSub(s, cd)
  PROVE  TypeOK'
<1>1. UNCHANGED <<links, st, fib, object, published, delivered, steady, reroutes>>
  BY DEF SendSub
<1>2. Sub(cd) \in Packets
  <2>1. cd \in CdBlocks
    BY NetworkAssumption
  <2> QED BY <2>1 DEF Sub, Packets
<1>3. ChanOK'
  <2>1. Moves({}, s, Routers, Sub(cd))
    BY DEF SendSub
  <2> QED BY <1>1, <1>2, <2>1, MovesChanOK DEF TypeOK
<1>4. StOK' /\ FibOK' /\ HistoryOK' /\ ObjectOK'
  BY <1>1 DEF TypeOK, StOK, FibOK, HistoryOK, ObjectOK
<1> QED BY <1>1, <1>3, <1>4 DEF TypeOK

(* The packet a node takes is one that was sent to it. *)
LEMMA TakenPacket ==
  ASSUME ChanOK, NEW d \in Directions, chan[d] # <<>>
  PROVE  /\ Head(chan[d]) \in Packets
         /\ Holds(chan[d], Head(chan[d]))
         /\ {d[1], d[2]} \in links
<1>1. chan[d] \in Seq(Packets)
  BY DEF ChanOK
<1>2. Head(chan[d]) \in Packets /\ Holds(chan[d], Head(chan[d]))
  BY <1>1, TailHolds
<1> QED BY <1>2 DEF ChanOK

(* Where a router sends what it got.                                       *)
Onward(r, p) == IF p.type = "PubFromRp" THEN StMatch(st[r], p.cd) ELSE FibMatch(fib[r], p.cd)

LEMMA RouterReceivesParts ==
  ASSUME ChanOK, NEW r \in Routers, NEW a, <<a, r>> \in Directions, RouterReceives(r, a)
  PROVE  /\ {<<a, r>>} \in SUBSET Directions
         /\ \A d \in {<<a, r>>} : chan[d] # <<>>
         /\ {a, r} \in links
         /\ Head(chan[<<a, r>>]) \in Packets
         /\ Holds(chan[<<a, r>>], Head(chan[<<a, r>>]))
         /\ Moves({<<a, r>>}, r, Onward(r, Head(chan[<<a, r>>])), Head(chan[<<a, r>>]))
         /\ st' = IF Head(chan[<<a, r>>]).type = "Sub"
                  THEN [st EXCEPT ![r] = StAdd(@, Head(chan[<<a, r>>]).cd, a)] ELSE st
         /\ IF Head(chan[<<a, r>>]).type = "PubFromRp"
            THEN Deliver(r, Onward(r, Head(chan[<<a, r>>])), Head(chan[<<a, r>>]))
            ELSE UNCHANGED delivered
         /\ UNCHANGED <<links, fib, object, published, steady, reroutes, cuts>>
<1>1. chan[<<a, r>>] # <<>>
  BY DEF RouterReceives
<1>2. Head(chan[<<a, r>>]) \in Packets /\ Holds(chan[<<a, r>>], Head(chan[<<a, r>>])) /\ {a, r} \in links
  BY <1>1, TakenPacket
<1>3. Moves({<<a, r>>}, r, Onward(r, Head(chan[<<a, r>>])), Head(chan[<<a, r>>]))
  BY DEF RouterReceives, Onward
<1>4. IF Head(chan[<<a, r>>]).type = "PubFromRp"
      THEN Deliver(r, Onward(r, Head(chan[<<a, r>>])), Head(chan[<<a, r>>]))
      ELSE UNCHANGED delivered
  BY DEF RouterReceives, Onward
<1> QED BY <1>1, <1>2, <1>3, <1>4 DEF RouterReceives

(* A Sub adds one next hop, for the node it came from. *)
LEMMA RouterReceivesSt ==
  ASSUME TypeOK, NEW r \in Routers, NEW a, <<a, r>> \in Directions, RouterReceives(r, a)
  PROVE  /\ StOK'
         /\ \A x \in Routers : Hops(st[x]) \subseteq Hops(st'[x])
         /\ \A x \in Routers : \A hop \in Hops(st'[x]) :
              \/ hop \in Hops(st[x])
              \/ x = r /\ Head(chan[<<a, r>>]).type = "Sub" /\ hop = <<Head(chan[<<a, r>>]).cd, a>>
<1> DEFINE p == Head(chan[<<a, r>>])
<1>1. p \in Packets /\ {a, r} \in links /\ UNCHANGED links
  BY RouterReceivesParts DEF TypeOK
<1>2. CASE p.type = "Sub"
  <2>1. st' = [st EXCEPT ![r] = StAdd(@, p.cd, a)]
    BY <1>2, RouterReceivesParts DEF TypeOK
  <2>2. st'[r] = AddHop(st[r], p.cd, a, "armed") /\ \A x \in Routers \ {r} : st'[x] = st[x]
    BY <2>1 DEF TypeOK, StOK, StAdd
  <2>3. Hops(st'[r]) = Hops(st[r]) \cup {<<p.cd, a>>}
    BY <2>2, AddHopHops
  <2>4. IsTable(st'[r], CdBlocks, TimerStates)
    <3>1. p.cd \in CdBlocks /\ "armed" \in TimerStates /\ IsTable(st[r], CdBlocks, TimerStates)
      BY <1>1 DEF Packets, TimerStates, TypeOK, StOK
    <3> QED BY <2>2, <3>1, AddHopTable
  <2>5. {r, a} \in links
    <3>1. {r, a} = {a, r}
      OBVIOUS
    <3> QED BY <1>1, <3>1
  <2> HIDE DEF p
  <2>6. \A hop \in Hops(st'[r]) : {r, hop[2]} \in links
    <3>1. \A hop \in Hops(st[r]) : {r, hop[2]} \in links
      BY DEF TypeOK, StOK
    <3>2. ASSUME NEW hop, hop = <<p.cd, a>> PROVE {r, hop[2]} \in links
      <4>1. hop[2] = a
        BY <3>2
      <4> QED BY <2>5, <4>1
    <3> QED BY <2>3, <3>1, <3>2
  <2>7. DOMAIN st' = Routers
    BY <2>1 DEF TypeOK, StOK
  <2>8. StOK'
    BY <1>1, <2>2, <2>4, <2>6, <2>7 DEF TypeOK, StOK
  <2> QED BY <1>2, <2>2, <2>3, <2>8 DEF p
<1>3. CASE p.type # "Sub"
  <2>1. st' = st
    BY <1>3, RouterReceivesParts DEF TypeOK
  <2> QED BY <1>1, <2>1 DEF TypeOK, StOK
<1> QED BY <1>2, <1>3

(* What a subscriber gets is appended to what it has. *)
LEMMA DeliverOK ==
  ASSUME HistoryOK, NEW r, NEW to, NEW p \in Packets, p.type = "PubFromRp", Deliver(r, to, p)
  PROVE  /\ delivered' \in [Subscribers -> Seq(Said)]
         /\ \A s \in Subscribers : \A q : q \in Range(delivered[s]) => q \in Range(delivered'[s])
         /\ \A s \in Subscribers : \A q : q \in Range(delivered'[s]) =>
              \/ q \in Range(delivered[s])
              \/ q = SaidBy(p) /\ s \in to
         /\ \A s \in Subscribers : s \in to /\ {r, s} \in links => SaidBy(p) \in Range(delivered'[s])
<1>1. SaidBy(p) \in Said
  BY DEF Packets, SaidBy, Said
<1> DEFINE gets(s) == s \in to /\ {r, s} \in links /\ (reroutes = 0 \/ SaidBy(p) \notin Range(delivered[s]))
<1>2. delivered' = [s \in Subscribers |-> IF gets(s) THEN Append(delivered[s], SaidBy(p)) ELSE delivered[s]]
  BY DEF Deliver, SaidBy
<1>3. \A s \in Subscribers : s \in to /\ {r, s} \in links => gets(s) \/ SaidBy(p) \in Range(delivered[s])
  OBVIOUS
<1>4. \A s \in Subscribers : gets(s) => s \in to
  OBVIOUS
<1> HIDE DEF gets
<1>5. ASSUME NEW s \in Subscribers
      PROVE  /\ delivered'[s] \in Seq(Said)
             /\ \A q : q \in Range(delivered'[s]) <=> q \in Range(delivered[s]) \/ (gets(s) /\ q = SaidBy(p))
  <2>1. delivered[s] \in Seq(Said)
    BY DEF HistoryOK
  <2>2. CASE gets(s)
    <3>1. delivered'[s] = Append(delivered[s], SaidBy(p))
      BY <1>2, <2>2
    <3>2. delivered'[s] \in Seq(Said) /\ \A q : Holds(delivered'[s], q) <=> Holds(delivered[s], q) \/ q = SaidBy(p)
      BY <1>1, <2>1, <3>1, AppendHolds
    <3> QED BY <2>1, <2>2, <3>2, HoldsIsRange
  <2>3. CASE ~gets(s)
    BY <1>2, <2>1, <2>3
  <2> QED BY <2>2, <2>3
<1>6. delivered' \in [Subscribers -> Seq(Said)]
  BY <1>2, <1>5
<1> QED BY <1>3, <1>4, <1>5, <1>6

LEMMA RouterReceivesTypes ==
  ASSUME TypeOK, NEW r \in Routers, NEW a, <<a, r>> \in Directions, RouterReceives(r, a)
  PROVE  TypeOK'
<1>1. UNCHANGED <<links, fib, object, published, steady, reroutes>>
  BY RouterReceivesParts DEF TypeOK
<1>2. ChanOK'
  BY <1>1, RouterReceivesParts, MovesChanOK DEF TypeOK
<1>3. delivered' \in [Subscribers -> Seq(Said)]
  BY RouterReceivesParts, DeliverOK DEF TypeOK, HistoryOK
<1>4. FibOK' /\ HistoryOK' /\ ObjectOK'
  BY <1>1, <1>3 DEF TypeOK, FibOK, HistoryOK, ObjectOK
<1> QED BY <1>1, <1>2, <1>4, RouterReceivesSt DEF TypeOK

LEMMA RpReceivesParts ==
  ASSUME ChanOK, NEW a, <<a, RP>> \in Directions, RpReceives(a)
  PROVE  /\ {<<a, RP>>} \in SUBSET Directions
         /\ \A d \in {<<a, RP>>} : chan[d] # <<>>
         /\ {a, RP} \in links
         /\ Head(chan[<<a, RP>>]) \in Packets
         /\ Holds(chan[<<a, RP>>], Head(chan[<<a, RP>>]))
         /\ Moves({<<a, RP>>}, RP, IF Head(chan[<<a, RP>>]).type = "PubToRp" THEN {a} ELSE {},
                  PubFromRp(Head(chan[<<a, RP>>])))
         /\ UNCHANGED <<links, st, fib, object, published, delivered, steady, reroutes, cuts>>
<1>1. chan[<<a, RP>>] # <<>>
  BY DEF RpReceives
<1>2. Head(chan[<<a, RP>>]) \in Packets /\ Holds(chan[<<a, RP>>], Head(chan[<<a, RP>>])) /\ {a, RP} \in links
  BY <1>1, TakenPacket
<1> QED BY <1>1, <1>2 DEF RpReceives

LEMMA RpReceivesTypes ==
  ASSUME TypeOK, NEW a, <<a, RP>> \in Directions, RpReceives(a)
  PROVE  TypeOK'
<1> DEFINE p == Head(chan[<<a, RP>>])
<1>1. UNCHANGED <<links, st, fib, object, published, delivered, steady, reroutes>> /\ p \in Packets
  BY RpReceivesParts DEF TypeOK
<1>2. CASE p.type = "PubToRp"
  <2>1. PubFromRp(p) \in Packets
    BY <1>1, <1>2 DEF PubFromRp, Packets
  <2>2. ChanOK'
    BY <1>1, <2>1, RpReceivesParts, MovesChanOK DEF TypeOK
  <2> QED BY <1>1, <2>2 DEF TypeOK, StOK, FibOK, HistoryOK, ObjectOK
<1>3. CASE p.type # "PubToRp"
  <2>1. Moves({<<a, RP>>}, RP, {}, PubFromRp(p))
    BY <1>3, RpReceivesParts DEF TypeOK
  <2>2. Moves({<<a, RP>>}, RP, {}, p)
    BY <2>1 DEF Moves
  <2>3. ChanOK'
    BY <1>1, <2>2, RpReceivesParts, MovesChanOK DEF TypeOK
  <2> QED BY <1>1, <2>3 DEF TypeOK, StOK, FibOK, HistoryOK, ObjectOK
<1> QED BY <1>2, <1>3

LEMMA ExpiresTypes ==
  ASSUME TypeOK, NEW r \in Routers, NEW cd, NEW a, Expires(r, cd, a)
  PROVE  /\ TypeOK'
         /\ \A x \in Routers : Hops(st'[x]) \subseteq Hops(st[x])
<1>1. UNCHANGED <<links, chan, fib, object, published, delivered, reroutes>> /\ steady' = {}
  BY DEF Expires
<1>2. st' = [st EXCEPT ![r] = StRemoveHop(@, cd, a)]
  BY DEF Expires
<1>3. /\ DOMAIN st' = Routers
      /\ st'[r] = RemoveHop(st[r], cd, a)
      /\ \A x \in Routers \ {r} : st'[x] = st[x]
  BY <1>2 DEF TypeOK, StOK, StRemoveHop
<1>4. Hops(st'[r]) \subseteq Hops(st[r])
  BY <1>3, RemoveHopHops
<1>5. IsTable(st'[r], CdBlocks, TimerStates)
  BY <1>3, RemoveHopTable DEF TypeOK, StOK
<1>6. StOK'
  BY <1>1, <1>3, <1>4, <1>5 DEF TypeOK, StOK
<1>7. ChanOK' /\ FibOK' /\ HistoryOK' /\ ObjectOK'
  BY <1>1 DEF TypeOK, ChanOK, FibOK, HistoryOK, ObjectOK, Directions
<1> QED BY <1>1, <1>3, <1>4, <1>6, <1>7 DEF TypeOK

LEMMA ReroutesTypes ==
  ASSUME TypeOK, NEW routes, Reroutes(routes),
         DOMAIN routes = Routers,
         \A r \in Routers : /\ IsTable(routes[r], CdBlocks, Nat)
                            /\ AllEntriesUsed(routes[r])
                            /\ \A hop \in Hops(routes[r]) : {r, hop[2]} \in links
  PROVE  TypeOK'
<1>1. UNCHANGED <<links, chan, st, object, published, delivered>> /\ steady' = {}
      /\ reroutes' = reroutes + 1 /\ fib' = routes
  BY DEF Reroutes
<1>2. FibOK'
  BY <1>1 DEF FibOK
<1>3. ChanOK' /\ StOK' /\ ObjectOK'
  BY <1>1 DEF TypeOK, ChanOK, StOK, ObjectOK, Directions
<1>4. HistoryOK'
  BY <1>1 DEF TypeOK, HistoryOK
<1> QED BY <1>1, <1>2, <1>3, <1>4 DEF TypeOK

LEMMA FibAddRouteTypes ==
  ASSUME TypeOK, NEW r \in Routers, NEW a, FibAddRoute(r, a)
  PROVE  TypeOK'
<1> DEFINE routes == [fib EXCEPT ![r] = FibAdd(@, Root, a, 0)]
<1>1. {r, a} \in links /\ Reroutes(routes)
  BY DEF FibAddRoute
<1>2. /\ DOMAIN routes = Routers
      /\ routes[r] = AddHop(fib[r], Root, a, 0)
      /\ \A x \in Routers \ {r} : routes[x] = fib[x]
  BY DEF TypeOK, FibOK, FibAdd
<1> HIDE DEF routes
<1>3. Hops(routes[r]) = Hops(fib[r]) \cup {<<Root, a>>}
  BY <1>2, AddHopHops
<1>4. IsTable(routes[r], CdBlocks, Nat) /\ AllEntriesUsed(routes[r])
  <2>1. Root \in CdBlocks
    BY EmptySeq DEF Root, CdBlocks
  <2> QED BY <1>2, <2>1, AddHopTable DEF TypeOK, FibOK
<1>5. \A hop \in Hops(routes[r]) : {r, hop[2]} \in links
  <2>1. ASSUME NEW hop, hop = <<Root, a>> PROVE {r, hop[2]} \in links
    <3>1. hop[2] = a
      BY <2>1
    <3> QED BY <1>1, <3>1
  <2>2. \A hop \in Hops(fib[r]) : {r, hop[2]} \in links
    BY DEF TypeOK, FibOK
  <2> QED BY <1>3, <2>1, <2>2
<1>6. \A x \in Routers : /\ IsTable(routes[x], CdBlocks, Nat)
                         /\ AllEntriesUsed(routes[x])
                         /\ \A hop \in Hops(routes[x]) : {x, hop[2]} \in links
  BY <1>2, <1>4, <1>5 DEF TypeOK, FibOK
<1> QED BY <1>1, <1>2, <1>6, ReroutesTypes

LEMMA FibDelRouteTypes ==
  ASSUME TypeOK, NEW r \in Routers, NEW a, FibDelRoute(r, a)
  PROVE  TypeOK'
<1> DEFINE routes == [fib EXCEPT ![r] = FibRemoveHop(@, Root, a)]
<1>1. Reroutes(routes)
  BY DEF FibDelRoute
<1>2. /\ DOMAIN routes = Routers
      /\ routes[r] = RemoveHop(fib[r], Root, a)
      /\ \A x \in Routers \ {r} : routes[x] = fib[x]
  BY DEF TypeOK, FibOK, FibRemoveHop
<1> HIDE DEF routes
<1>3. Hops(routes[r]) \subseteq Hops(fib[r])
  BY <1>2, RemoveHopHops
<1>4. IsTable(routes[r], CdBlocks, Nat) /\ AllEntriesUsed(routes[r])
  BY <1>2, RemoveHopTable DEF TypeOK, FibOK
<1>5. \A x \in Routers : /\ IsTable(routes[x], CdBlocks, Nat)
                         /\ AllEntriesUsed(routes[x])
                         /\ \A hop \in Hops(routes[x]) : {x, hop[2]} \in links
  BY <1>2, <1>3, <1>4 DEF TypeOK, FibOK
<1> QED BY <1>1, <1>2, <1>5, ReroutesTypes

(* A router that loses a connection has no next hop over it any more.      *)
LEMMA CutTypes ==
  ASSUME TypeOK, NEW a, NEW b, Cut(a, b)
  PROVE  /\ TypeOK'
         /\ \A x \in Routers : Hops(st'[x]) \subseteq Hops(st[x])
         /\ \A d \in Directions : \A e : Holds(chan'[d], e) => Holds(chan[d], e)
<1>1. /\ UNCHANGED <<object, published, delivered, reroutes>> /\ steady' = {}
      /\ {a, b} \in links
      /\ links' = links \ {{a, b}}
      /\ chan' = [d \in Directions |-> IF d \in {<<a, b>>, <<b, a>>} THEN <<>> ELSE chan[d]]
      /\ st' = [r \in Routers |-> IF r \in {a, b} THEN RemoveFace(st[r], IF r = a THEN b ELSE a) ELSE st[r]]
      /\ fib' = [r \in Routers |-> IF r \in {a, b} THEN RemoveFace(fib[r], IF r = a THEN b ELSE a) ELSE fib[r]]
  BY DEF Cut, StRemoveFace, FibRemoveFace
<1>2. a # b
  BY <1>1, LinkedAreNodes DEF TypeOK
<1>3. ASSUME NEW r \in Routers
      PROVE  /\ IsTable(st'[r], CdBlocks, TimerStates)
             /\ Hops(st'[r]) \subseteq Hops(st[r])
             /\ IsTable(fib'[r], CdBlocks, Nat) /\ AllEntriesUsed(fib'[r])
             /\ Hops(fib'[r]) \subseteq Hops(fib[r])
             /\ \A hop \in Hops(st'[r]) \cup Hops(fib'[r]) : {r, hop[2]} # {a, b}
  <2>1. CASE r \notin {a, b}
    <3>1. st'[r] = st[r] /\ fib'[r] = fib[r] /\ \A x : {r, x} # {a, b}
      BY <1>1, <2>1
    <3> QED BY <3>1 DEF TypeOK, StOK, FibOK
  <2>2. CASE r \in {a, b}
    <3> DEFINE other == IF r = a THEN b ELSE a
    <3>1. st'[r] = RemoveFace(st[r], other) /\ fib'[r] = RemoveFace(fib[r], other)
      BY <1>1, <2>2
    <3>2. \A x : {r, x} = {a, b} => x = other
      BY <1>2, <2>2
    <3> HIDE DEF other
    <3>3. IsTable(st'[r], CdBlocks, TimerStates) /\ Hops(st'[r]) = {h \in Hops(st[r]) : h[2] # other}
      BY <3>1, RemoveFaceHops, RemoveFaceTable DEF TypeOK, StOK
    <3>4. /\ IsTable(fib'[r], CdBlocks, Nat) /\ AllEntriesUsed(fib'[r])
          /\ Hops(fib'[r]) = {h \in Hops(fib[r]) : h[2] # other}
      BY <3>1, RemoveFaceHops, RemoveFaceTable DEF TypeOK, FibOK
    <3> QED BY <3>2, <3>3, <3>4
  <2> QED BY <2>1, <2>2
<1>4. StOK'
  BY <1>1, <1>3 DEF TypeOK, StOK
<1>5. FibOK'
  BY <1>1, <1>3 DEF TypeOK, FibOK
<1>6. ASSUME NEW d \in Directions
      PROVE  /\ chan'[d] \in Seq(Packets)
             /\ \A e : Holds(chan'[d], e) => Holds(chan[d], e) /\ {d[1], d[2]} # {a, b}
  <2>1. CASE d \in {<<a, b>>, <<b, a>>}
    <3>1. chan'[d] = <<>>
      BY <1>1, <2>1
    <3> QED BY <3>1 DEF Holds
  <2>2. CASE d \notin {<<a, b>>, <<b, a>>}
    <3>1. chan'[d] = chan[d] /\ chan[d] \in Seq(Packets)
      BY <1>1, <2>2 DEF TypeOK, ChanOK
    <3>2. {d[1], d[2]} # {a, b}
      <4>1. d = <<d[1], d[2]>>
        BY DirectionsOK
      <4>2. ~(d[1] = a /\ d[2] = b) /\ ~(d[1] = b /\ d[2] = a)
        BY <2>2, <4>1
      <4> QED BY <1>2, <4>2
    <3> QED BY <3>1, <3>2
  <2> QED BY <2>1, <2>2
<1>7. ChanOK'
  <2>1. chan' \in [Directions -> Seq(Packets)]
    <3>1. chan' = [d \in Directions |-> chan'[d]]
      BY <1>1
    <3> QED BY <1>6, <3>1
  <2>2. Directions' = Directions
    BY DEF Directions
  <2>3. \A d \in Directions : \A p : Holds(chan'[d], p) => {d[1], d[2]} \in links'
    BY <1>1, <1>6 DEF TypeOK, ChanOK
  <2> QED BY <2>1, <2>2, <2>3 DEF ChanOK
<1>8. HistoryOK' /\ ObjectOK'
  BY <1>1 DEF TypeOK, HistoryOK, ObjectOK
<1> QED BY <1>1, <1>3, <1>4, <1>5, <1>6, <1>7, <1>8 DEF TypeOK

LEMMA ReconnectsTypes ==
  ASSUME TypeOK, NEW c, Reconnects(c)
  PROVE  TypeOK'
<1>1. UNCHANGED <<chan, st, fib, object, published, delivered, steady, reroutes>>
      /\ links \subseteq links' /\ links' \subseteq Links
  BY DEF Reconnects, TypeOK
<1>2. StOK' /\ FibOK' /\ HistoryOK' /\ ObjectOK'
  BY <1>1 DEF TypeOK, StOK, FibOK, HistoryOK, ObjectOK
<1>3. ChanOK'
  BY <1>1 DEF TypeOK, ChanOK, Directions
<1> QED BY <1>1, <1>2, <1>3 DEF TypeOK

(* The disjuncts of Next, one by one. *)
LEMMA NextCases ==
  ASSUME [Next]_vars
  PROVE  \/ \E p \in Publishers : Publish(p)
         \/ \E p \in Publishers : \E cd \in PubCds : SetPublication(p, cd)
         \/ \E s \in Subscribers : \E cd \in SubsOf[s] : SendSub(s, cd)
         \/ \E r \in Routers : \E a : <<a, r>> \in Directions /\ RouterReceives(r, a)
         \/ \E a : <<a, RP>> \in Directions /\ RpReceives(a)
         \/ \E r \in Routers : \E cd, a : Expires(r, cd, a)
         \/ \E r \in Routers : \E a : FibAddRoute(r, a) \/ FibDelRoute(r, a)
         \/ \E a, b : Cut(a, b)
         \/ \E c : Reconnects(c)
         \/ UNCHANGED vars
<1>1. ASSUME NEW d \in Directions, Receives(d[1], d[2])
      PROVE  \/ \E r \in Routers : \E a : <<a, r>> \in Directions /\ RouterReceives(r, a)
             \/ \E a : <<a, RP>> \in Directions /\ RpReceives(a)
  <2>1. d = <<d[1], d[2]>>
    BY DirectionsOK
  <2> QED BY <1>1, <2>1 DEF Receives
<1>2. ASSUME NEW route \in NewRoutes, FibAddRoute(route[1], route[2]) \/ FibDelRoute(route[1], route[2])
      PROVE  \E r \in Routers : \E a : FibAddRoute(r, a) \/ FibDelRoute(r, a)
  <2>1. route[1] \in Routers
    BY NetworkAssumption
  <2> QED BY <1>2, <2>1
<1> QED BY <1>1, <1>2 DEF Next

LEMMA TypesStay ==
  ASSUME TypeOK, [Next]_vars
  PROVE  TypeOK'
<1>1. CASE UNCHANGED vars
  BY <1>1 DEF vars, TypeOK, StOK, FibOK, ChanOK, ObjectOK, HistoryOK, Directions
<1> QED BY <1>1, NextCases, PublishTypes, SetPublicationTypes, SendSubTypes, RouterReceivesTypes,
           RpReceivesTypes, ExpiresTypes, FibAddRouteTypes, FibDelRouteTypes, CutTypes, ReconnectsTypes

-----------------------------------------------------------------------------
(***************************************************************************)
(* Nothing is invented on the way.                                         *)
(***************************************************************************)
LEMMA PublicationsOK ==
  ASSUME NEW h \in [Publishers -> Seq(Said)]
  PROVE  \A q : q \in UNION {Range(h[p]) : p \in Publishers} <=> \E p \in Publishers : Holds(h[p], q)
<1>1. \A p \in Publishers : h[p] \in Seq(Said)
  OBVIOUS
<1>2. \A p \in Publishers : \A q : Holds(h[p], q) <=> q \in Range(h[p])
  BY <1>1, HoldsIsRange
<1> QED BY <1>2

LEMMA PublishAdds ==
  ASSUME TypeOK, NEW p \in Publishers, Publish(p)
  PROVE  /\ Publications \subseteq Publications'
         /\ [by |-> p, cd |-> object[p].cd, content |-> object[p].content] \in Publications'
<1> DEFINE said == [by |-> p, cd |-> object[p].cd, content |-> object[p].content]
<1>1. said \in Said
  BY WireIsCurrent DEF TypeOK
<1>2. published \in [Publishers -> Seq(Said)] /\ published' = [published EXCEPT ![p] = Append(@, said)]
  BY DEF TypeOK, HistoryOK, Publish
<1>3. published' \in [Publishers -> Seq(Said)]
  BY PublishTypes DEF TypeOK, HistoryOK
<1> HIDE DEF said
<1>4. \A e : Holds(published'[p], e) <=> Holds(published[p], e) \/ e = said
  BY <1>1, <1>2, AppendHolds
<1>5. \A x \in Publishers : \A e : Holds(published[x], e) => Holds(published'[x], e)
  BY <1>2, <1>4
<1>6. \A q : q \in Publications <=> \E x \in Publishers : Holds(published[x], q)
  BY <1>2, PublicationsOK DEF Publications
<1>7. \A q : q \in Publications' <=> \E x \in Publishers : Holds(published'[x], q)
  BY <1>3, PublicationsOK DEF Publications
<1>8. Publications \subseteq Publications'
  BY <1>5, <1>6, <1>7
<1>9. said \in Publications'
  BY <1>4, <1>7
<1> QED BY <1>8, <1>9 DEF said

LEMMA MovesHonestly ==
  ASSUME TypeOK, NothingInvented, NEW taken \in SUBSET Directions, \A d \in taken : chan[d] # <<>>,
         NEW a, NEW to, NEW p \in Packets, Moves(taken, a, to, p),
         Publications \subseteq Publications',
         IF p.type = "Sub" THEN a \in Subscribers => p.cd \in SubsOf[a]
         ELSE SaidBy(p) \in Publications'
  PROVE  (\A d \in Directions : \A e : Holds(chan[d], e) => Honest(d, e))'
<1>1. Directions' = Directions
  BY DEF Directions
<1>2. ASSUME NEW d \in Directions, NEW e, Holds(chan'[d], e)
      PROVE  Honest(d, e)'
  <2>1. CASE Holds(chan[d], e)
    <3>1. Honest(d, e)
      BY <2>1 DEF NothingInvented
    <3> QED BY <3>1 DEF Honest, SaidBy
  <2>2. CASE e = p /\ d[1] = a
    BY <2>2 DEF Honest, SaidBy
  <2>3. Holds(chan[d], e) \/ (e = p /\ Carries(d, a, to))
    <3>1. ChanOK
      BY DEF TypeOK
    <3> QED BY <1>2, <3>1, MovesChan
  <2> QED BY <2>1, <2>2, <2>3 DEF Carries
<1> QED BY <1>1, <1>2

(* What a subscriber already has stays published.                          *)
LEMMA HonestyStays ==
  ASSUME NothingInvented, DeliveredWasPublished,
         Publications \subseteq Publications', UNCHANGED delivered,
         (\A d \in Directions : \A e : Holds(chan[d], e) => Honest(d, e))',
         \A r \in Routers : Hops(st'[r]) \subseteq Hops(st[r])
  PROVE  NothingInvented' /\ DeliveredWasPublished'
<1>1. DeliveredWasPublished'
  BY DEF DeliveredWasPublished
<1>2. \A r \in Routers : \A hop \in Hops(st'[r]) : hop[2] \in Subscribers => hop[1] \in SubsOf[hop[2]]
  BY DEF NothingInvented
<1> QED BY <1>1, <1>2 DEF NothingInvented

LEMMA RouterReceivesHonestly ==
  ASSUME TypeOK, NothingInvented, DeliveredWasPublished,
         NEW r \in Routers, NEW a, <<a, r>> \in Directions, RouterReceives(r, a)
  PROVE  NothingInvented' /\ DeliveredWasPublished'
<1> DEFINE p == Head(chan[<<a, r>>])
<1>1. p \in Packets /\ Holds(chan[<<a, r>>], p) /\ UNCHANGED published
  BY RouterReceivesParts DEF TypeOK
<1>2. Honest(<<a, r>>, p) /\ <<a, r>>[1] = a
  BY <1>1 DEF NothingInvented
<1>3. Publications' = Publications
  BY <1>1 DEF Publications
<1>4. (\A d \in Directions : \A e : Holds(chan[d], e) => Honest(d, e))'
  <2>1. r \notin Subscribers
    BY NetworkAssumption
  <2>2. p.type # "Sub" => SaidBy(p) \in Publications'
    BY <1>2, <1>3 DEF Honest
  <2>3. Moves({<<a, r>>}, r, Onward(r, p), p) /\ \A d \in {<<a, r>>} : chan[d] # <<>>
    BY RouterReceivesParts DEF TypeOK
  <2> HIDE DEF p
  <2> QED BY <1>1, <1>3, <2>1, <2>2, <2>3, MovesHonestly
<1>5. \A x \in Routers : \A hop \in Hops(st'[x]) : hop[2] \in Subscribers => hop[1] \in SubsOf[hop[2]]
  <2>1. \A x \in Routers : \A hop \in Hops(st'[x]) :
          hop \in Hops(st[x]) \/ (p.type = "Sub" /\ hop = <<p.cd, a>>)
    BY RouterReceivesSt
  <2>2. p.type = "Sub" => (a \in Subscribers => p.cd \in SubsOf[a])
    BY <1>2 DEF Honest
  <2> HIDE DEF p
  <2> QED BY <2>1, <2>2 DEF NothingInvented
<1>6. DeliveredWasPublished'
  <2>1. CASE p.type = "PubFromRp"
    <3>1. Deliver(r, Onward(r, p), p)
      BY <2>1, RouterReceivesParts DEF TypeOK
    <3>2. \A s \in Subscribers : \A q : q \in Range(delivered'[s]) =>
            q \in Range(delivered[s]) \/ (q = SaidBy(p) /\ s \in Onward(r, p))
      BY <1>1, <2>1, <3>1, DeliverOK DEF TypeOK
    <3>3. ASSUME NEW s \in Subscribers, s \in Onward(r, p)
          PROVE  \E cd \in SubsOf[s] : MatchRegex(cd, SaidBy(p).cd)
      <4>1. s \in StMatch(st[r], p.cd)
        BY <2>1, <3>3 DEF Onward
      <4>2. PICK hop \in Hops(st[r]) : hop[2] = s /\ MatchRegex(hop[1], p.cd)
        BY <4>1, StMatchHops
      <4>3. hop[1] \in SubsOf[s]
        BY <4>2 DEF NothingInvented
      <4> QED BY <4>2, <4>3 DEF SaidBy
    <3>4. SaidBy(p) \in Publications
      BY <1>2, <2>1 DEF Honest
    <3> QED BY <1>3, <3>2, <3>3, <3>4 DEF DeliveredWasPublished
  <2>2. CASE p.type # "PubFromRp"
    <3>1. UNCHANGED delivered
      BY <2>2, RouterReceivesParts DEF TypeOK
    <3> QED BY <1>3, <3>1 DEF DeliveredWasPublished
  <2> QED BY <2>1, <2>2
<1> QED BY <1>4, <1>5, <1>6 DEF NothingInvented

LEMMA PublishHonestly ==
  ASSUME TypeOK, NothingInvented, DeliveredWasPublished, NEW p \in Publishers, Publish(p)
  PROVE  NothingInvented' /\ DeliveredWasPublished'
<1> DEFINE packet == PubToRp(p, object[p])
<1>1. Publications \subseteq Publications' /\ SaidBy(packet) \in Publications'
  BY PublishAdds, WireIsCurrent DEF TypeOK
<1>2. packet \in Packets /\ packet.type # "Sub"
  BY WireIsCurrent DEF TypeOK, PubToRp
<1>3. Moves({}, p, Routers, packet) /\ UNCHANGED <<st, delivered>>
  BY DEF Publish
<1> HIDE DEF packet
<1>4. (\A d \in Directions : \A e : Holds(chan[d], e) => Honest(d, e))'
  BY <1>1, <1>2, <1>3, MovesHonestly
<1> QED BY <1>1, <1>3, <1>4, HonestyStays

LEMMA SendSubHonestly ==
  ASSUME TypeOK, NothingInvented, DeliveredWasPublished,
         NEW s \in Subscribers, NEW cd \in SubsOf[s], SendSub(s, cd)
  PROVE  NothingInvented' /\ DeliveredWasPublished'
<1>1. Publications' = Publications /\ UNCHANGED <<st, delivered>> /\ Moves({}, s, Routers, Sub(cd))
  BY DEF SendSub, Publications
<1>2. Sub(cd) \in Packets /\ Sub(cd).type = "Sub" /\ Sub(cd).cd = cd
  <2>1. cd \in CdBlocks
    BY NetworkAssumption
  <2> QED BY <2>1 DEF Sub, Packets
<1>3. (\A d \in Directions : \A e : Holds(chan[d], e) => Honest(d, e))'
  BY <1>1, <1>2, MovesHonestly
<1> QED BY <1>1, <1>3, HonestyStays

LEMMA RpReceivesHonestly ==
  ASSUME TypeOK, NothingInvented, DeliveredWasPublished,
         NEW a, <<a, RP>> \in Directions, RpReceives(a)
  PROVE  NothingInvented' /\ DeliveredWasPublished'
<1> DEFINE p == Head(chan[<<a, RP>>])
           back == IF p.type = "PubToRp" THEN {a} ELSE {}
<1>1. UNCHANGED <<st, published, delivered>> /\ p \in Packets /\ Holds(chan[<<a, RP>>], p)
      /\ \A d \in {<<a, RP>>} : chan[d] # <<>>
  BY RpReceivesParts DEF TypeOK
<1>2. Publications' = Publications
  BY <1>1 DEF Publications
<1>3. Moves({<<a, RP>>}, RP, back, PubFromRp(p))
  BY RpReceivesParts DEF TypeOK
<1>4. RP \notin Subscribers
  BY NetworkAssumption
<1>5. Honest(<<a, RP>>, p)
  BY <1>1 DEF NothingInvented
<1>6. (\A d \in Directions : \A e : Holds(chan[d], e) => Honest(d, e))'
  <2>1. CASE p.type = "PubToRp"
    <3>1. PubFromRp(p) \in Packets /\ PubFromRp(p).type # "Sub" /\ SaidBy(PubFromRp(p)) = SaidBy(p)
      BY <1>1, <2>1 DEF PubFromRp, Packets, SaidBy
    <3>2. SaidBy(PubFromRp(p)) \in Publications'
      BY <1>2, <1>5, <2>1, <3>1 DEF Honest
    <3> HIDE DEF p, back
    <3> QED BY <1>1, <1>2, <1>3, <3>1, <3>2, MovesHonestly
  <2>2. CASE p.type # "PubToRp"
    <3>1. Moves({<<a, RP>>}, RP, {}, p)
      BY <1>3, <2>2 DEF Moves
    <3>2. IF p.type = "Sub" THEN RP \in Subscribers => p.cd \in SubsOf[RP] ELSE SaidBy(p) \in Publications'
      BY <1>2, <1>4, <1>5 DEF Honest
    <3> HIDE DEF p, back
    <3> QED BY <1>1, <1>2, <3>1, <3>2, MovesHonestly
  <2> QED BY <2>1, <2>2
<1> QED BY <1>1, <1>2, <1>6, HonestyStays

LEMMA HonestyKept ==
  ASSUME TypeOK, NothingInvented, DeliveredWasPublished, [Next]_vars
  PROVE  NothingInvented' /\ DeliveredWasPublished'
<1> DEFINE Quiet == /\ \A d \in Directions : \A e : Holds(chan'[d], e) => Holds(chan[d], e)
                    /\ UNCHANGED <<published, delivered>>
                    /\ \A r \in Routers : Hops(st'[r]) \subseteq Hops(st[r])
<1>1. ASSUME Quiet PROVE NothingInvented' /\ DeliveredWasPublished'
  <2>1. Publications' = Publications /\ Directions' = Directions
    BY <1>1 DEF Publications, Directions
  <2>2. ASSUME NEW d \in Directions, NEW e, Holds(chan'[d], e)
        PROVE  Honest(d, e)'
    <3>1. Honest(d, e)
      BY <1>1, <2>2 DEF NothingInvented
    <3> QED BY <2>1, <3>1 DEF Honest, SaidBy
  <2> QED BY <1>1, <2>1, <2>2, HonestyStays
<1>2. ASSUME NEW p \in Publishers, NEW cd \in PubCds, SetPublication(p, cd) PROVE Quiet
  BY <1>2 DEF SetPublication
<1>3. ASSUME NEW r \in Routers, NEW cd, NEW a, Expires(r, cd, a) PROVE Quiet
  <2>1. UNCHANGED <<chan, published, delivered>>
    BY <1>3 DEF Expires
  <2> QED BY <1>3, <2>1, ExpiresTypes
<1>4. ASSUME NEW r, NEW a, FibAddRoute(r, a) \/ FibDelRoute(r, a) PROVE Quiet
  BY <1>4 DEF FibAddRoute, FibDelRoute, Reroutes
<1>5. ASSUME NEW a, NEW b, Cut(a, b) PROVE Quiet
  <2>1. UNCHANGED <<published, delivered>>
    BY <1>5 DEF Cut
  <2> QED BY <1>5, <2>1, CutTypes
<1>6. ASSUME NEW c, Reconnects(c) PROVE Quiet
  BY <1>6 DEF Reconnects
<1>7. ASSUME UNCHANGED vars PROVE Quiet
  BY <1>7 DEF vars
<1> HIDE DEF Quiet
<1> QED BY <1>1, <1>2, <1>3, <1>4, <1>5, <1>6, <1>7, NextCases, PublishHonestly, SendSubHonestly,
           RouterReceivesHonestly, RpReceivesHonestly

-----------------------------------------------------------------------------
(***************************************************************************)
(* A publication comes one node further along its path.                    *)
(***************************************************************************)
LEMMA PathOK ==
  ASSUME NEW path \in Paths
  PROVE  /\ Len(path) \in Nat /\ Len(path) >= 1
         /\ path[1] \in Routers
         /\ \A i \in 1..Len(path) : path[i] \in Routers
         /\ Len(path) # 1 => /\ Tail(path) \in Paths
                             /\ Len(path) >= 2
                             /\ Len(Tail(path)) = Len(path) - 1
                             /\ \A i \in 1..Len(path)-1 : Tail(path)[i] = path[i+1]
<1>1. PICK n \in 1..Cardinality(Routers) : path \in [1..n -> Routers]
  BY DEF Paths
<1>2. Cardinality(Routers) \in Nat
  BY NetworkAssumption, FS_CardinalityType
<1>3. path \in Seq(Routers) /\ Len(path) = n /\ n \in Nat /\ n >= 1
  BY <1>1, <1>2, IsASeq, LenProperties
<1>4. ASSUME n # 1
      PROVE  /\ Tail(path) \in Paths
             /\ Len(path) >= 2
             /\ Len(Tail(path)) = Len(path) - 1
             /\ \A i \in 1..Len(path)-1 : Tail(path)[i] = path[i+1]
  <2>1. path # <<>>
    BY <1>3, EmptySeq
  <2>2. Tail(path) \in Seq(Routers) /\ Len(Tail(path)) = n - 1
        /\ \A i \in 1..Len(Tail(path)) : Tail(path)[i] = path[i+1]
    BY <1>3, <2>1, HeadTailProperties
  <2>3. Tail(path) \in [1..n-1 -> Routers]
    BY <2>2, LenProperties
  <2>4. n - 1 \in 1..Cardinality(Routers)
    BY <1>1, <1>2, <1>3, <1>4
  <2>5. Tail(path) \in Paths
    BY <2>3, <2>4 DEF Paths
  <2> QED BY <1>3, <1>4, <2>2, <2>5
<1>5. \A i \in 1..Len(path) : path[i] \in Routers
  BY <1>1, <1>3
<1> QED BY <1>3, <1>4, <1>5

LEMMA RisesOn ==
  ASSUME NEW path \in Paths, NEW cd, Rises(path, cd)
  PROVE  \/ /\ path[Len(path)] = path[1]
            /\ RP \in NextTo(path[1], cd)
         \/ /\ Tail(path) \in Paths
            /\ Tail(path)[1] \in NextTo(path[1], cd)
            /\ Rises(Tail(path), cd)
            /\ Tail(path)[Len(Tail(path))] = path[Len(path)]
<1>1. CASE Len(path) = 1
  BY <1>1 DEF Rises
<1>2. CASE Len(path) # 1
  <2>1. /\ Tail(path) \in Paths
        /\ Len(Tail(path)) = Len(path) - 1
        /\ Len(path) \in Nat /\ Len(path) >= 2
        /\ \A i \in 1..Len(path)-1 : Tail(path)[i] = path[i+1]
    BY <1>2, PathOK
  <2>2. Tail(path)[1] = path[2] /\ Tail(path)[Len(Tail(path))] = path[Len(path)]
    BY <2>1
  <2>3. \A i \in 2..Len(path) : path[i] \in NextTo(path[i-1], cd)
    BY DEF Rises
  <2>4. path[2] \in NextTo(path[1], cd)
    BY <2>1, <2>3
  <2>5. ASSUME NEW i \in 2..Len(Tail(path))
        PROVE  Tail(path)[i] \in NextTo(Tail(path)[i-1], cd)
    <3>1. i + 1 \in 2..Len(path) /\ Tail(path)[i] = path[i+1] /\ Tail(path)[i-1] = path[i] /\ (i + 1) - 1 = i
      BY <2>1
    <3> QED BY <2>3, <3>1
  <2>6. Rises(Tail(path), cd)
    BY <2>2, <2>5 DEF Rises
  <2> QED BY <2>1, <2>2, <2>4, <2>6
<1> QED BY <1>1, <1>2

LEMMA DescendsOn ==
  ASSUME NEW path \in Paths, NEW s, NEW cd, Descends(path, s, cd)
  PROVE  \/ HopTo(path[1], s, cd)
         \/ /\ Tail(path) \in Paths
            /\ HopTo(path[1], Tail(path)[1], cd)
            /\ Descends(Tail(path), s, cd)
<1>1. CASE Len(path) = 1
  BY <1>1 DEF Descends
<1>2. CASE Len(path) # 1
  <2>1. /\ Tail(path) \in Paths
        /\ Len(Tail(path)) = Len(path) - 1
        /\ Len(path) \in Nat /\ Len(path) >= 2
        /\ \A i \in 1..Len(path)-1 : Tail(path)[i] = path[i+1]
    BY <1>2, PathOK
  <2>2. Tail(path)[1] = path[2] /\ Tail(path)[Len(Tail(path))] = path[Len(path)]
    BY <2>1
  <2>3. \A i \in 2..Len(path) : HopTo(path[i-1], path[i], cd)
    BY DEF Descends
  <2>4. HopTo(path[1], path[2], cd)
    <3>1. 2 \in 2..Len(path) /\ 2 - 1 = 1
      BY <2>1
    <3> QED BY <2>3, <3>1
  <2>5. ASSUME NEW i \in 2..Len(Tail(path))
        PROVE  HopTo(Tail(path)[i-1], Tail(path)[i], cd)
    <3>1. i + 1 \in 2..Len(path) /\ Tail(path)[i] = path[i+1] /\ Tail(path)[i-1] = path[i] /\ (i + 1) - 1 = i
      BY <2>1
    <3> QED BY <2>3, <3>1
  <2>6. Descends(Tail(path), s, cd)
    BY <2>2, <2>5 DEF Descends
  <2> QED BY <2>1, <2>2, <2>4, <2>6
<1> QED BY <1>1, <1>2

(* Paths stay paths while tables only grow. *)
Grow == UNCHANGED fib /\ \A x \in Routers : Hops(st[x]) \subseteq Hops(st'[x])

LEMMA PathsStay ==
  ASSUME Grow, NEW path \in Paths, NEW cd
  PROVE  /\ Rises(path, cd) => Rises(path, cd)'
         /\ \A s : Descends(path, s, cd) => Descends(path, s, cd)'
<1>1. Rises(path, cd) => Rises(path, cd)'
  BY DEF Grow, Rises, NextTo
<1>2. \A r \in Routers : \A x : HopTo(r, x, cd) => HopTo(r, x, cd)'
  BY DEF Grow, HopTo
<1>3. \A i \in 1..Len(path) : path[i] \in Routers
  BY PathOK
<1>4. Len(path) \in Nat /\ Len(path) >= 1
  BY PathOK
<1>5. \A i \in 2..Len(path) : path[i-1] \in Routers
  BY <1>3, <1>4
<1>6. path[Len(path)] \in Routers
  BY <1>3, <1>4
<1>7. ASSUME NEW s, Descends(path, s, cd) PROVE Descends(path, s, cd)'
  BY <1>2, <1>5, <1>6, <1>7 DEF Descends
<1> QED BY <1>1, <1>7

(* Witnesses of the ways to progress after a step.                         *)
LEMMA StepUp ==
  ASSUME Grow, NEW q, NEW s, NEW d \in Directions, NEW up \in Paths, NEW down \in Paths,
         Holds(chan'[d], ToRp(q)), up[1] = d[2], Rises(up, q.cd),
         down[1] = up[Len(up)], Descends(down, s, q.cd)
  PROVE  Progress(q, s)'
<1>1. Rises(up, q.cd)' /\ Descends(down, s, q.cd)'
  BY PathsStay
<1>2. Directions' = Directions
  BY DEF Directions
<1> QED BY <1>1, <1>2 DEF Progress, OnWayUp

LEMMA StepAtRp ==
  ASSUME Grow, NEW q, NEW s, NEW d \in Directions, NEW down \in Paths,
         Holds(chan'[d], ToRp(q)), d[2] = RP, down[1] = d[1], Descends(down, s, q.cd)
  PROVE  Progress(q, s)'
<1>1. Descends(down, s, q.cd)'
  BY PathsStay
<1>2. Directions' = Directions
  BY DEF Directions
<1> QED BY <1>1, <1>2 DEF Progress, AtRp

LEMMA StepDown ==
  ASSUME Grow, NEW q, NEW s, NEW d \in Directions, NEW down \in Paths,
         Holds(chan'[d], FromRp(q)), down[1] = d[2], Descends(down, s, q.cd)
  PROVE  Progress(q, s)'
<1>1. Descends(down, s, q.cd)'
  BY PathsStay
<1>2. Directions' = Directions
  BY DEF Directions
<1> QED BY <1>1, <1>2 DEF Progress, OnWayDown

LEMMA ProgressStays ==
  ASSUME Grow, NEW q, NEW s \in Subscribers, Progress(q, s),
         \A d \in Directions : \A e : Holds(chan[d], e) => Holds(chan'[d], e),
         q \in Range(delivered[s]) => q \in Range(delivered'[s])
  PROVE  Progress(q, s)'
<1>1. CASE OnWayUp(q, s)
  <2>1. PICK d \in Directions, up \in Paths, down \in Paths :
          /\ Holds(chan[d], ToRp(q))
          /\ up[1] = d[2] /\ Rises(up, q.cd) /\ down[1] = up[Len(up)] /\ Descends(down, s, q.cd)
    BY <1>1 DEF OnWayUp
  <2> QED BY <2>1, StepUp
<1>2. CASE AtRp(q, s)
  <2>1. PICK d \in Directions, down \in Paths :
          Holds(chan[d], ToRp(q)) /\ d[2] = RP /\ down[1] = d[1] /\ Descends(down, s, q.cd)
    BY <1>2 DEF AtRp
  <2> QED BY <2>1, StepAtRp
<1>3. CASE OnWayDown(q, s)
  <2>1. PICK d \in Directions, down \in Paths :
          Holds(chan[d], FromRp(q)) /\ down[1] = d[2] /\ Descends(down, s, q.cd)
    BY <1>3 DEF OnWayDown
  <2> QED BY <2>1, StepDown
<1>4. CASE Arrived(q, s)
  BY <1>4 DEF Arrived, Progress
<1> QED BY <1>1, <1>2, <1>3, <1>4 DEF Progress

LEMMA NextToIsLinked ==
  ASSUME TypeOK, NEW r \in Routers, NEW cd \in CdBlocks, NEW x \in NextTo(r, cd)
  PROVE  {r, x} \in links
<1>1. IsTable(fib[r], CdBlocks, Nat) /\ AllEntriesUsed(fib[r])
      /\ \A hop \in Hops(fib[r]) : {r, hop[2]} \in links
  BY DEF TypeOK, FibOK
<1>2. \A hop \in Hops(fib[r]) : hop[2] \in Nat
  BY <1>1, LinkedAreNodes DEF TypeOK
<1>3. PICK hop \in Hops(fib[r]) : hop[2] = x
  BY <1>1, <1>2, FibMatchHops DEF NextTo
<1> QED BY <1>1, <1>3

LEMMA HopToIsLinked ==
  ASSUME TypeOK, NEW r \in Routers, NEW x, NEW cd, HopTo(r, x, cd)
  PROVE  {r, x} \in links /\ x \in StMatch(st[r], cd)
<1>1. PICK hop \in Hops(st[r]) : hop[2] = x /\ MatchRegex(hop[1], cd)
  BY DEF HopTo
<1>2. {r, hop[2]} \in links
  BY DEF TypeOK, StOK
<1> QED BY <1>1, <1>2, StMatchHops

(* What a node sends to a router or to the RP is on the connection then.   *)
LEMMA Sent ==
  ASSUME TypeOK, NEW taken \in SUBSET Directions, \A d \in taken : chan[d] # <<>>,
         NEW a, NEW to, NEW p \in Packets, Moves(taken, a, to, p),
         NEW x \in to, {a, x} \in links, x = RP \/ x \in Routers
  PROVE  <<a, x>> \in Directions /\ Holds(chan'[<<a, x>>], p)
<1>1. <<a, x>> \in Directions
  BY DirectionsOK DEF TypeOK
<1>2. Carries(<<a, x>>, a, to)
  BY DEF Carries
<1>3. \A d \in Directions : Carries(d, a, to) => Holds(chan'[d], p)
  BY MovesChan DEF TypeOK
<1> QED BY <1>1, <1>2, <1>3

(* What is not taken stays. *)
LEMMA Stays ==
  ASSUME TypeOK, NEW taken \in SUBSET Directions, \A d \in taken : chan[d] # <<>>,
         NEW a, NEW to, NEW p \in Packets, Moves(taken, a, to, p),
         NEW d \in Directions, NEW e, Holds(chan[d], e)
  PROVE  Holds(chan'[d], e) \/ (d \in taken /\ e = Head(chan[d]))
  BY MovesChan DEF TypeOK

LEMMA RouterGrows ==
  ASSUME TypeOK, NEW r \in Routers, NEW a, <<a, r>> \in Directions, RouterReceives(r, a)
  PROVE  Grow
<1>1. UNCHANGED fib
  BY RouterReceivesParts DEF TypeOK
<1> QED BY <1>1, RouterReceivesSt DEF Grow

LEMMA RouterMovesUp ==
  ASSUME TypeOK, NEW r \in Routers, NEW a, <<a, r>> \in Directions, RouterReceives(r, a),
         NEW q \in Said, NEW s \in Subscribers, OnWayUp(q, s)
  PROVE  Progress(q, s)'
<1> DEFINE p == Head(chan[<<a, r>>])
<1>1. PICK d \in Directions, up \in Paths, down \in Paths :
        /\ Holds(chan[d], ToRp(q))
        /\ up[1] = d[2] /\ Rises(up, q.cd) /\ down[1] = up[Len(up)] /\ Descends(down, s, q.cd)
  BY DEF OnWayUp
<1>2. /\ {<<a, r>>} \in SUBSET Directions /\ \A x \in {<<a, r>>} : chan[x] # <<>>
      /\ p \in Packets /\ Moves({<<a, r>>}, r, Onward(r, p), p)
  BY RouterReceivesParts DEF TypeOK
<1>3. Grow
  BY RouterGrows
<1>4. Holds(chan'[d], ToRp(q)) \/ (d = <<a, r>> /\ ToRp(q) = p)
  <2> HIDE DEF p
  <2>1. Holds(chan'[d], ToRp(q)) \/ (d \in {<<a, r>>} /\ ToRp(q) = Head(chan[d]))
    BY <1>1, <1>2, Stays
  <2> QED BY <2>1 DEF p
<1>5. CASE Holds(chan'[d], ToRp(q))
  BY <1>1, <1>3, <1>5, StepUp
<1>6. CASE d = <<a, r>> /\ ToRp(q) = p
  <2>1. Onward(r, p) = NextTo(r, q.cd) /\ up[1] = r /\ q.cd \in CdBlocks
    BY <1>1, <1>6 DEF Onward, NextTo, ToRp, Said
  <2> HIDE DEF p
  <2>2. CASE up[Len(up)] = up[1] /\ RP \in NextTo(up[1], q.cd)
    <3>1. {r, RP} \in links
      BY <2>1, <2>2, NextToIsLinked
    <3>2. <<r, RP>> \in Directions /\ Holds(chan'[<<r, RP>>], ToRp(q))
      BY <1>2, <1>6, <2>1, <2>2, <3>1, Sent
    <3> QED BY <1>1, <1>3, <2>1, <2>2, <3>2, StepAtRp
  <2>3. CASE /\ Tail(up) \in Paths
             /\ Tail(up)[1] \in NextTo(up[1], q.cd)
             /\ Rises(Tail(up), q.cd)
             /\ Tail(up)[Len(Tail(up))] = up[Len(up)]
    <3>1. {r, Tail(up)[1]} \in links
      BY <2>1, <2>3, NextToIsLinked
    <3>2. Tail(up)[1] \in Routers
      BY <2>3, PathOK
    <3>3. <<r, Tail(up)[1]>> \in Directions /\ Holds(chan'[<<r, Tail(up)[1]>>], ToRp(q))
      BY <1>2, <1>6, <2>1, <2>3, <3>1, <3>2, Sent
    <3> QED BY <1>1, <1>3, <2>3, <3>3, StepUp
  <2> QED BY <1>1, <2>2, <2>3, RisesOn
<1> QED BY <1>4, <1>5, <1>6

LEMMA RouterMovesDown ==
  ASSUME TypeOK, NEW r \in Routers, NEW a, <<a, r>> \in Directions, RouterReceives(r, a),
         NEW q \in Said, NEW s \in Subscribers, OnWayDown(q, s)
  PROVE  Progress(q, s)'
<1> DEFINE p == Head(chan[<<a, r>>])
<1>1. PICK d \in Directions, down \in Paths :
        Holds(chan[d], FromRp(q)) /\ down[1] = d[2] /\ Descends(down, s, q.cd)
  BY DEF OnWayDown
<1>2. /\ {<<a, r>>} \in SUBSET Directions /\ \A x \in {<<a, r>>} : chan[x] # <<>>
      /\ p \in Packets /\ Moves({<<a, r>>}, r, Onward(r, p), p)
  BY RouterReceivesParts DEF TypeOK
<1>3. Grow
  BY RouterGrows
<1>4. Holds(chan'[d], FromRp(q)) \/ (d = <<a, r>> /\ FromRp(q) = p)
  <2> HIDE DEF p
  <2>1. Holds(chan'[d], FromRp(q)) \/ (d \in {<<a, r>>} /\ FromRp(q) = Head(chan[d]))
    BY <1>1, <1>2, Stays
  <2> QED BY <2>1 DEF p
<1>5. CASE Holds(chan'[d], FromRp(q))
  BY <1>1, <1>3, <1>5, StepDown
<1>6. CASE d = <<a, r>> /\ FromRp(q) = p
  <2>1. /\ Onward(r, p) = StMatch(st[r], q.cd) /\ down[1] = r
        /\ p.type = "PubFromRp" /\ SaidBy(p) = q
    BY <1>1, <1>6 DEF Onward, FromRp, SaidBy, Said
  <2>2. CASE HopTo(down[1], s, q.cd)
    <3>1. {r, s} \in links /\ s \in Onward(r, p)
      BY <2>1, <2>2, HopToIsLinked
    <3>2. Deliver(r, Onward(r, p), p)
      BY <2>1, RouterReceivesParts DEF TypeOK
    <3> HIDE DEF p
    <3>3. q \in Range(delivered'[s])
      BY <1>2, <2>1, <3>1, <3>2, DeliverOK DEF TypeOK
    <3> QED BY <3>3 DEF Progress, Arrived
  <2>3. CASE /\ Tail(down) \in Paths
             /\ HopTo(down[1], Tail(down)[1], q.cd)
             /\ Descends(Tail(down), s, q.cd)
    <3> HIDE DEF p
    <3>1. {r, Tail(down)[1]} \in links /\ Tail(down)[1] \in Onward(r, p)
      BY <2>1, <2>3, HopToIsLinked
    <3>2. Tail(down)[1] \in Routers
      BY <2>3, PathOK
    <3>3. <<r, Tail(down)[1]>> \in Directions /\ Holds(chan'[<<r, Tail(down)[1]>>], FromRp(q))
      BY <1>2, <1>6, <3>1, <3>2, Sent
    <3> QED BY <1>3, <2>3, <3>3, StepDown
  <2> QED BY <1>1, <2>2, <2>3, DescendsOn
<1> QED BY <1>4, <1>5, <1>6

LEMMA RouterLeads ==
  ASSUME TypeOK, NEW r \in Routers, NEW a, <<a, r>> \in Directions, RouterReceives(r, a),
         NEW q \in Said, NEW s \in Subscribers, Progress(q, s)
  PROVE  Progress(q, s)'
<1> DEFINE p == Head(chan[<<a, r>>])
<1>1. CASE AtRp(q, s)
  <2>1. PICK d \in Directions, down \in Paths :
          Holds(chan[d], ToRp(q)) /\ d[2] = RP /\ down[1] = d[1] /\ Descends(down, s, q.cd)
    BY <1>1 DEF AtRp
  <2>2. /\ {<<a, r>>} \in SUBSET Directions /\ \A x \in {<<a, r>>} : chan[x] # <<>>
        /\ p \in Packets /\ Moves({<<a, r>>}, r, Onward(r, p), p)
    BY RouterReceivesParts DEF TypeOK
  <2>3. d \notin {<<a, r>>}
    BY <2>1, NetworkAssumption
  <2> HIDE DEF p
  <2>4. Holds(chan'[d], ToRp(q))
    BY <2>1, <2>2, <2>3, Stays
  <2> QED BY <2>1, <2>4, RouterGrows, StepAtRp
<1>2. CASE Arrived(q, s)
  <2>1. q \in Range(delivered'[s])
    <3>1. CASE p.type = "PubFromRp"
      <4>1. Deliver(r, Onward(r, p), p) /\ p \in Packets
        BY <3>1, RouterReceivesParts DEF TypeOK
      <4> HIDE DEF p
      <4> QED BY <1>2, <3>1, <4>1, DeliverOK DEF Arrived, TypeOK
    <3>2. CASE p.type # "PubFromRp"
      <4>1. UNCHANGED delivered
        BY <3>2, RouterReceivesParts DEF TypeOK
      <4> QED BY <1>2, <4>1 DEF Arrived
    <3> QED BY <3>1, <3>2
  <2> QED BY <2>1 DEF Progress, Arrived
<1> QED BY <1>1, <1>2, RouterMovesUp, RouterMovesDown DEF Progress

LEMMA RpLeads ==
  ASSUME TypeOK, NEW a, <<a, RP>> \in Directions, RpReceives(a),
         NEW q \in Said, NEW s \in Subscribers, Progress(q, s)
  PROVE  Progress(q, s)'
<1> DEFINE p == Head(chan[<<a, RP>>])
           back == IF p.type = "PubToRp" THEN {a} ELSE {}
           answer == IF p.type = "PubToRp" THEN PubFromRp(p) ELSE p
<1>1. /\ {<<a, RP>>} \in SUBSET Directions /\ \A x \in {<<a, RP>>} : chan[x] # <<>>
      /\ p \in Packets /\ {a, RP} \in links
      /\ UNCHANGED <<links, st, fib, delivered>>
  BY RpReceivesParts DEF TypeOK
<1>2. Moves({<<a, RP>>}, RP, back, answer)
  <2>1. Moves({<<a, RP>>}, RP, back, PubFromRp(p))
    BY RpReceivesParts DEF TypeOK
  <2>2. CASE p.type = "PubToRp"
    BY <2>1, <2>2
  <2>3. CASE p.type # "PubToRp"
    BY <2>1, <2>3 DEF Moves
  <2> QED BY <2>2, <2>3
<1>3. answer \in Packets
  BY <1>1 DEF PubFromRp, Packets
<1>4. Grow
  BY <1>1 DEF Grow
<1>5. ASSUME NEW d \in Directions, NEW e, Holds(chan[d], e)
      PROVE  Holds(chan'[d], e) \/ (d = <<a, RP>> /\ e = p)
  <2>1. Holds(chan'[d], e) \/ (d \in {<<a, RP>>} /\ e = Head(chan[d]))
    <3> HIDE DEF back, answer, p
    <3> QED BY <1>1, <1>2, <1>3, <1>5, Stays
  <2> QED BY <2>1
<1>6. ASSUME NEW d \in Directions, NEW e, Holds(chan[d], e), d[2] \in Routers
      PROVE  Holds(chan'[d], e)
  <2>1. d # <<a, RP>>
    BY <1>6, NetworkAssumption
  <2> QED BY <1>5, <1>6, <2>1
<1>7. CASE OnWayUp(q, s)
  <2>1. PICK d \in Directions, up \in Paths, down \in Paths :
          /\ Holds(chan[d], ToRp(q))
          /\ up[1] = d[2] /\ Rises(up, q.cd) /\ down[1] = up[Len(up)] /\ Descends(down, s, q.cd)
    BY <1>7 DEF OnWayUp
  <2>2. d[2] \in Routers
    BY <2>1, PathOK
  <2>3. Holds(chan'[d], ToRp(q))
    BY <1>6, <2>1, <2>2
  <2> HIDE DEF p, back, answer
  <2> QED BY <1>4, <2>1, <2>3, StepUp
<1>8. CASE OnWayDown(q, s)
  <2>1. PICK d \in Directions, down \in Paths :
          Holds(chan[d], FromRp(q)) /\ down[1] = d[2] /\ Descends(down, s, q.cd)
    BY <1>8 DEF OnWayDown
  <2>2. d[2] \in Routers
    BY <2>1, PathOK
  <2>3. Holds(chan'[d], FromRp(q))
    BY <1>6, <2>1, <2>2
  <2> HIDE DEF p, back, answer
  <2> QED BY <1>4, <2>1, <2>3, StepDown
<1>9. CASE AtRp(q, s)
  <2>1. PICK d \in Directions, down \in Paths :
          Holds(chan[d], ToRp(q)) /\ d[2] = RP /\ down[1] = d[1] /\ Descends(down, s, q.cd)
    BY <1>9 DEF AtRp
  <2>2. CASE Holds(chan'[d], ToRp(q))
    BY <1>4, <2>1, <2>2, StepAtRp
  <2>3. CASE d = <<a, RP>> /\ ToRp(q) = p
    <3>1. answer = FromRp(q) /\ a \in back /\ d[1] = a
      BY <2>3 DEF ToRp, FromRp, PubFromRp
    <3>2. a \in Routers
      BY <2>1, <3>1, PathOK
    <3>3. {RP, a} \in links
      <4>1. {RP, a} = {a, RP}
        OBVIOUS
      <4> QED BY <1>1, <4>1
    <3> HIDE DEF p, back, answer
    <3>4. <<RP, a>> \in Directions /\ Holds(chan'[<<RP, a>>], FromRp(q))
      BY <1>1, <1>2, <1>3, <3>1, <3>2, <3>3, Sent
    <3>5. <<RP, a>>[2] = down[1]
      BY <2>1, <3>1
    <3> QED BY <1>4, <2>1, <3>4, <3>5, StepDown
  <2> QED BY <1>5, <2>1, <2>2, <2>3
<1>10. CASE Arrived(q, s)
  BY <1>1, <1>10 DEF Arrived, Progress
<1> QED BY <1>7, <1>8, <1>9, <1>10 DEF Progress

(* A node that only sends takes nothing away. *)
LEMMA AllStays ==
  ASSUME TypeOK, NEW a, NEW to, NEW p \in Packets, Moves({}, a, to, p)
  PROVE  \A d \in Directions : \A e : Holds(chan[d], e) => Holds(chan'[d], e)
<1>1. {} \in SUBSET Directions /\ \A d \in {} : chan[d] # <<>>
  OBVIOUS
<1>2. ASSUME NEW d \in Directions, NEW e, Holds(chan[d], e) PROVE Holds(chan'[d], e)
  <2>1. Holds(chan'[d], e) \/ (d \in {} /\ e = Head(chan[d]))
    BY <1>1, <1>2, Stays
  <2> QED BY <2>1
<1> QED BY <1>2

(* A new publication is on its way to every router the publisher has.      *)
LEMMA PublishLeads ==
  ASSUME TypeOK, NEW p \in Publishers, Publish(p), SteadyPathsLead
  PROVE  SteadyPathsLead'
<1>1. PICK said \in Said : said = [by |-> p, cd |-> object[p].cd, content |-> object[p].content]
  BY WireIsCurrent DEF TypeOK
<1>2. ToRp(said) \in Packets /\ ToRp(said) = PubToRp(p, object[p]) /\ said.cd = object[p].cd
  BY <1>1, WireIsCurrent DEF TypeOK
<1>3. Moves({}, p, Routers, ToRp(said)) /\ UNCHANGED <<links, st, fib, delivered>>
  BY <1>2 DEF Publish
<1>4. steady' = steady \cup {<<said, s>> : s \in {s \in Subscribers : Reaches(p, s, said.cd)}}
  BY <1>1, <1>2 DEF Publish
<1>5. Grow
  BY <1>3 DEF Grow
<1>6. ASSUME NEW s \in Subscribers, Reaches(p, s, said.cd)
      PROVE  Progress(said, s)'
  <2>1. PICK up \in Paths, down \in Paths :
          Climbs(p, up, said.cd) /\ down[1] = up[Len(up)] /\ Descends(down, s, said.cd)
    BY <1>6 DEF Reaches
  <2>2. {p, up[1]} \in links /\ Rises(up, said.cd)
    BY <2>1 DEF Climbs, Rises
  <2>3. up[1] \in Routers
    BY PathOK
  <2>4. <<p, up[1]>> \in Directions /\ Holds(chan'[<<p, up[1]>>], ToRp(said))
    BY <1>2, <1>3, <2>2, <2>3, Sent
  <2>5. up[1] = <<p, up[1]>>[2]
    OBVIOUS
  <2> QED BY <1>5, <2>1, <2>2, <2>4, <2>5, StepUp
<1>7. ASSUME NEW pair \in steady PROVE Progress(pair[1], pair[2])'
  <2>1. Progress(pair[1], pair[2]) /\ pair[2] \in Subscribers
    BY DEF SteadyPathsLead, TypeOK, HistoryOK
  <2>2. \A d \in Directions : \A e : Holds(chan[d], e) => Holds(chan'[d], e)
    BY <1>2, <1>3, AllStays
  <2> QED BY <1>3, <1>5, <2>1, <2>2, ProgressStays
<1>8. ASSUME NEW pair \in steady' PROVE Progress(pair[1], pair[2])'
  <2>1. CASE pair \in steady
    BY <1>7, <2>1
  <2>2. CASE pair \notin steady
    <3>1. PICK s \in Subscribers : Reaches(p, s, said.cd) /\ pair = <<said, s>>
      BY <1>4, <2>2
    <3>2. pair[1] = said /\ pair[2] = s
      BY <3>1
    <3> QED BY <1>6, <3>1, <3>2
  <2> QED BY <2>1, <2>2
<1> QED BY <1>8 DEF SteadyPathsLead

LEMMA SteadyStays ==
  ASSUME TypeOK, SteadyPathsLead, UNCHANGED steady,
         \A q \in Said : \A s \in Subscribers : Progress(q, s) => Progress(q, s)'
  PROVE  SteadyPathsLead'
<1> SUFFICES ASSUME NEW pair \in steady PROVE Progress(pair[1], pair[2])'
  BY DEF SteadyPathsLead
<1>1. pair[1] \in Said /\ pair[2] \in Subscribers /\ Progress(pair[1], pair[2])
  BY DEF TypeOK, HistoryOK, SteadyPathsLead
<1> QED BY <1>1

LEMMA PathsKeepLeading ==
  ASSUME TypeOK, SteadyPathsLead, [Next]_vars
  PROVE  SteadyPathsLead'
<1> DEFINE Quiet == /\ UNCHANGED <<st, fib, delivered, steady>>
                    /\ \A d \in Directions : \A e : Holds(chan[d], e) => Holds(chan'[d], e)
<1>1. ASSUME Quiet PROVE SteadyPathsLead'
  <2>1. Grow
    BY <1>1 DEF Grow
  <2>2. \A q \in Said : \A s \in Subscribers : Progress(q, s) => Progress(q, s)'
    BY <1>1, <2>1, ProgressStays
  <2> QED BY <1>1, <2>2, SteadyStays
<1>2. ASSUME steady' = {} PROVE SteadyPathsLead'
  BY <1>2 DEF SteadyPathsLead
<1>3. ASSUME NEW p \in Publishers, NEW cd \in PubCds, SetPublication(p, cd) PROVE Quiet
  BY <1>3 DEF SetPublication
<1>4. ASSUME NEW s \in Subscribers, NEW cd \in SubsOf[s], SendSub(s, cd) PROVE Quiet
  <2>1. Sub(cd) \in Packets
    <3>1. cd \in CdBlocks
      BY NetworkAssumption
    <3> QED BY <3>1 DEF Sub, Packets
  <2>2. Moves({}, s, Routers, Sub(cd)) /\ UNCHANGED <<st, fib, delivered, steady>>
    BY <1>4 DEF SendSub
  <2>3. \A d \in Directions : \A e : Holds(chan[d], e) => Holds(chan'[d], e)
    BY <2>1, <2>2, AllStays
  <2> QED BY <2>2, <2>3
<1>5. ASSUME NEW r \in Routers, NEW a, <<a, r>> \in Directions, RouterReceives(r, a)
      PROVE  SteadyPathsLead'
  <2>1. UNCHANGED steady
    BY <1>5, RouterReceivesParts DEF TypeOK
  <2>2. \A q \in Said : \A s \in Subscribers : Progress(q, s) => Progress(q, s)'
    BY <1>5, RouterLeads
  <2> QED BY <2>1, <2>2, SteadyStays
<1>6. ASSUME NEW a, <<a, RP>> \in Directions, RpReceives(a)
      PROVE  SteadyPathsLead'
  <2>1. UNCHANGED steady
    BY <1>6, RpReceivesParts DEF TypeOK
  <2>2. \A q \in Said : \A s \in Subscribers : Progress(q, s) => Progress(q, s)'
    BY <1>6, RpLeads
  <2> QED BY <2>1, <2>2, SteadyStays
<1>7. ASSUME NEW r, NEW cd, NEW a, Expires(r, cd, a) PROVE steady' = {}
  BY <1>7 DEF Expires
<1>8. ASSUME NEW r, NEW a, FibAddRoute(r, a) \/ FibDelRoute(r, a) PROVE steady' = {}
  BY <1>8 DEF FibAddRoute, FibDelRoute, Reroutes
<1>9. ASSUME NEW a, NEW b, Cut(a, b) PROVE steady' = {}
  BY <1>9 DEF Cut
<1>10. ASSUME NEW c, Reconnects(c) PROVE Quiet
  BY <1>10 DEF Reconnects
<1>11. ASSUME UNCHANGED vars PROVE Quiet
  BY <1>11 DEF vars
<1> HIDE DEF Quiet
<1> QED BY <1>1, <1>2, <1>3, <1>4, <1>5, <1>6, <1>7, <1>8, <1>9, <1>10, <1>11, NextCases, PublishLeads

-----------------------------------------------------------------------------
(***************************************************************************)
(* The theorems.                                                           *)
(***************************************************************************)
LEMMA FirstInv == Init => NetworkInv
<1> SUFFICES ASSUME Init PROVE NetworkInv
  OBVIOUS
<1>1. TypeOK
  BY FirstTypes
<1>2. \A d \in Directions : \A p : ~Holds(chan[d], p)
  <2>1. \A d \in Directions : chan[d] = <<>> /\ Len(chan[d]) = 0
    BY DEF Init
  <2> QED BY <2>1 DEF Holds
<1>3. NothingInvented
  BY <1>2, NetworkAssumption DEF Init, NothingInvented
<1>4. DeliveredWasPublished
  <2>1. \A s \in Subscribers : delivered[s] = <<>> /\ Range(delivered[s]) = {}
    BY DEF Init, Range
  <2> QED BY <2>1 DEF DeliveredWasPublished
<1>5. SteadyPathsLead
  BY DEF Init, SteadyPathsLead
<1> QED BY <1>1, <1>3, <1>4, <1>5 DEF NetworkInv

THEOREM NetworkInvariant == Spec => []NetworkInv
<1>1. NetworkInv /\ [Next]_vars => NetworkInv'
  BY TypesStay, HonestyKept, PathsKeepLeading DEF NetworkInv
<1> QED BY <1>1, FirstInv, PTL DEF Spec

(* Tables, channels and objects keep their types; no router has a next hop *)
(* without a connection, no packet is on a connection that is down, and    *)
(* what wireEncode has cached is what the object is now.                   *)
THEOREM NetworkTypeOK == Spec => []TypeOK
<1>1. NetworkInv => TypeOK
  BY DEF NetworkInv
<1> QED BY <1>1, NetworkInvariant, PTL

(* In every network, whatever is lost and however the routes change, a     *)
(* subscriber only gets what was published and what it asked for.          *)
THEOREM NetworkDeliveredWasPublished == Spec => []DeliveredWasPublished
<1>1. NetworkInv => DeliveredWasPublished
  BY DEF NetworkInv
<1> QED BY <1>1, NetworkInvariant, PTL

(* In every network, a publication whose path to a subscriber stays as it  *)
(* was is delivered or still under way.                                    *)
THEOREM NetworkSubscriberHears == Spec => []SubscriberHears
<1>1. ASSUME NetworkInv, NEW pair \in steady
      PROVE  \/ pair[1] \in Range(delivered[pair[2]])
             \/ \E d \in Directions : \E i \in 1..Len(chan[d]) :
                  /\ chan[d][i].type # "Sub"
                  /\ chan[d][i].content = [by |-> pair[1].by, content |-> pair[1].content]
  <2>1. Progress(pair[1], pair[2])
    BY <1>1 DEF NetworkInv, SteadyPathsLead
  <2>2. ASSUME NEW d \in Directions, NEW p,
               Holds(chan[d], p), p = ToRp(pair[1]) \/ p = FromRp(pair[1])
        PROVE  \E i \in 1..Len(chan[d]) :
                 /\ chan[d][i].type # "Sub"
                 /\ chan[d][i].content = [by |-> pair[1].by, content |-> pair[1].content]
    <3>1. /\ p.type # "Sub"
          /\ p.content = [by |-> pair[1].by, content |-> pair[1].content]
      BY <2>2 DEF ToRp, FromRp
    <3> QED BY <2>2, <3>1 DEF Holds
  <2>3. \/ Arrived(pair[1], pair[2])
        \/ \E d \in Directions : Holds(chan[d], ToRp(pair[1])) \/ Holds(chan[d], FromRp(pair[1]))
    BY <2>1 DEF Progress, OnWayUp, AtRp, OnWayDown
  <2> QED BY <2>2, <2>3 DEF Arrived
<1>2. NetworkInv => SubscriberHears
  BY <1>1 DEF SubscriberHears
<1> QED BY <1>2, NetworkInvariant, PTL

=============================================================================

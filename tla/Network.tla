------------------------------ MODULE Network ------------------------------
(***************************************************************************)
(* Publishers, subscribers, routers and the rendezvous point, joined by    *)
(* connections.  A Sub climbs the forwarding tables towards the RP and     *)
(* leaves a next hop in the subscription table of every router it passes;  *)
(* a PubToRp climbs the same way, the RP turns it round as a PubFromRp on  *)
(* the face it came from, and that follows the next hops down.             *)
(*                                                                         *)
(* A router handles a packet in one step here: modules Router and          *)
(* TcpTransport have the steps of one process.  The face of a router to a  *)
(* neighbour has the number of the neighbour, the RP is 0.                 *)
(***************************************************************************)
EXTENDS St, Fib, SequencesExt

CONSTANTS
  Routers, Publishers, Subscribers,  \* numbers of the nodes
  Links,        \* pairs {a, b} of nodes that may have a connection
  SubsOf,       \* the CDs of the Subs of every subscriber
  PubCds,       \* CDs of publications
  FirstRoutes,  \* forwarding table of every router at the start
  FirstHops,    \* and its subscription table, left by earlier Subs
  NewRoutes,    \* <<router, neighbour>>: routes of cost 0 that may come and go
  MaxPublished, \* bound on the publications
  MaxChanges    \* bound on the changes of routes and lost connections

RP == 0
Nodes == {RP} \cup Routers \cup Publishers \cup Subscribers

(* The tables at the start lead over connections, and what leads to a      *)
(* subscriber came from a Sub of it.                                       *)
ASSUME NetworkAssumption ==
  /\ Nodes \subseteq Nat
  /\ IsFiniteSet(Routers)
  /\ RP \notin Routers
  /\ Subscribers \cap (Routers \cup {RP}) = {}
  /\ \A l \in Links : \E a, b \in Nodes : a # b /\ l = {a, b}
  /\ SubsOf \in [Subscribers -> SUBSET CdBlocks]
  /\ PubCds \subseteq CdBlocks
  /\ DOMAIN FirstRoutes = Routers
  /\ \A r \in Routers : /\ IsTable(FirstRoutes[r], CdBlocks, Nat)
                        /\ AllEntriesUsed(FirstRoutes[r])
                        /\ \A hop \in Hops(FirstRoutes[r]) : {r, hop[2]} \in Links
  /\ DOMAIN FirstHops = Routers
  /\ \A r \in Routers : /\ IsTable(FirstHops[r], CdBlocks, TimerStates)
                        /\ \A hop \in Hops(FirstHops[r]) :
                             /\ {r, hop[2]} \in Links
                             /\ hop[2] \in Subscribers => hop[1] \in SubsOf[hop[2]]
  /\ NewRoutes \subseteq Routers \X Nodes

VARIABLES
  links,      \* the connections that are up
  chan,       \* chan[<<a, b>>]: packets on their way from a to b
  st, fib,    \* the tables of every router
  object,     \* the PubToRp of every publisher: cd, content and cached wire
  published,  \* what the application asked every publisher to publish
  delivered,  \* what the callback of every subscriber got
  steady,     \* pairs of publication and subscriber whose path has not changed since
  reroutes, cuts

vars == <<links, chan, st, fib, object, published, delivered, steady, reroutes, cuts>>

(* Directions in which packets travel; what a router sends to a subscriber *)
(* is delivered at once.                                                   *)
Directions ==
  {d \in Nodes \X Nodes : {d[1], d[2]} \in Links /\ d[2] \in {RP} \cup Routers}
AllSubs == UNION {SubsOf[s] : s \in Subscribers}
Root == <<>>
NoWire == <<>>

(* A publication of a publisher: what wireEncode() has cached, or the CD   *)
(* and the content it has now.                                             *)
WireOf(o) == IF o.wire = NoWire THEN <<[cd |-> o.cd, content |-> o.content]>> ELSE o.wire

(* The packets, as they are encoded and decoded again.                     *)
Sub(cd) == [type |-> "Sub", cd |-> cd, content |-> NoWire]
PubToRp(p, o) ==
  [type |-> "PubToRp", cd |-> WireOf(o)[1].cd, content |-> [by |-> p, content |-> WireOf(o)[1].content]]
PubFromRp(pub) == [pub EXCEPT !.type = "PubFromRp"]

(* Send p from a to every node in to, after the first packet of taken was  *)
(* taken.  A packet without a connection is lost.                          *)
Moves(taken, a, to, p) ==
  chan' = [d \in Directions |->
             (IF d \in taken THEN Tail(chan[d]) ELSE chan[d]) \o
             (IF d[1] = a /\ d[2] \in to /\ {a, d[2]} \in links THEN <<p>> ELSE <<>>)]

Init ==
  /\ links = Links
  /\ chan = [d \in Directions |-> <<>>]
  /\ st = FirstHops
  /\ fib = FirstRoutes
  /\ object \in [Publishers -> {[cd |-> cd, content |-> 1, wire |-> NoWire] : cd \in PubCds}]
  /\ published = [p \in Publishers |-> <<>>]
  /\ delivered = [s \in Subscribers |-> <<>>]
  /\ steady = {}
  /\ reroutes = 0
  /\ cuts = 0

-----------------------------------------------------------------------------
(* Where publications go, to say which subscribers must get one. *)

NextTo(r, cd) == FibMatch(fib[r], cd)

HopTo(r, x, cd) == \E hop \in Hops(st[r]) : hop[2] = x /\ MatchRegex(hop[1], cd)

(* The routers that a publication from publisher p passes on its way up. *)
Paths == UNION {[1..n -> Routers] : n \in 1..Cardinality(Routers)}

Climbs(p, path, cd) ==
  /\ {p, path[1]} \in links
  /\ \A i \in 2..Len(path) : path[i] \in NextTo(path[i-1], cd)
  /\ RP \in NextTo(path[Len(path)], cd)

Descends(path, s, cd) ==
  /\ \A i \in 2..Len(path) : HopTo(path[i-1], path[i], cd)
  /\ HopTo(path[Len(path)], s, cd)

Reaches(p, s, cd) ==
  \E up, down \in Paths :
    Climbs(p, up, cd) /\ down[1] = up[Len(up)] /\ Descends(down, s, cd)

-----------------------------------------------------------------------------
(* Publishers *)

Publications == UNION {Range(published[p]) : p \in Publishers}

(* Mutant: the setters leave the cached wire. *)
SetPublicationOnly(p, cd) ==
  /\ object[p].content <= Len(published[p])
  /\ Len(published[p]) < MaxPublished
  /\ object' = [object EXCEPT ![p].cd = cd, ![p].content = Len(published[p]) + 1]
  /\ UNCHANGED <<links, chan, st, fib, published, delivered, steady, reroutes, cuts>>

(* setCd and setContent after the last one was published. *)
SetPublication(p, cd) ==
  /\ object[p].content <= Len(published[p])
  /\ Len(published[p]) < MaxPublished
  /\ object' = [object EXCEPT ![p] = [cd |-> cd, content |-> Len(published[p]) + 1, wire |-> NoWire]]
  /\ UNCHANGED <<links, chan, st, fib, published, delivered, steady, reroutes, cuts>>

(* Face::publish: wireEncode caches what it encodes. *)
Publish(p) ==
  LET o == object[p]
      said == [by |-> p, cd |-> o.cd, content |-> o.content]
  IN  /\ o.content > Len(published[p])
      /\ published' = [published EXCEPT ![p] = Append(@, said)]
      /\ object' = [object EXCEPT ![p].wire = WireOf(o)]
      /\ Moves({}, p, Routers, PubToRp(p, o))
      /\ steady' = steady \cup {<<said, s>> : s \in {s \in Subscribers : Reaches(p, s, o.cd)}}
      /\ UNCHANGED <<links, st, fib, delivered, reroutes, cuts>>

-----------------------------------------------------------------------------
(* Subscribers *)

NoSubInFlight == \A d \in Directions : \A i \in 1..Len(chan[d]) : chan[d][i].type # "Sub"

(* subscribe() and, again and again, the resend timer.  (Bound: one Sub at *)
(* a time is on its way.)                                                  *)
SendSub(s, cd) ==
  /\ NoSubInFlight
  /\ \E r \in Routers : {s, r} \in links
  /\ Moves({}, s, Routers, Sub(cd))
  /\ UNCHANGED <<links, st, fib, object, published, delivered, steady, reroutes, cuts>>

(* The callback gets whatever the router sends, without a look at the CD. *)
(* (Bound: after a change of routes, what came already is not counted.)    *)
Deliver(r, to, p) ==
  LET got == [by |-> p.content.by, cd |-> p.cd, content |-> p.content.content]
  IN  delivered' =
        [s \in Subscribers |->
           IF s \in to /\ {r, s} \in links /\ (reroutes = 0 \/ got \notin Range(delivered[s]))
           THEN Append(delivered[s], got)
           ELSE delivered[s]]

-----------------------------------------------------------------------------
(* Routers and the RP *)

(* Forwarder: a Sub is recorded for the face it came from, and goes like a *)
(* PubToRp to the cheapest next hop; a PubFromRp to every next hop that    *)
(* matches, also back to where it came from.                               *)
RouterReceives(r, a) ==
  /\ chan[<<a, r>>] # <<>>
  /\ LET p == Head(chan[<<a, r>>])
         to == IF p.type = "PubFromRp" THEN StMatch(st[r], p.cd) ELSE FibMatch(fib[r], p.cd)
     IN  /\ st' = IF p.type = "Sub" THEN [st EXCEPT ![r] = StAdd(@, p.cd, a)] ELSE st
         /\ Moves({<<a, r>>}, r, to, p)
         /\ IF p.type = "PubFromRp" THEN Deliver(r, to, p) ELSE UNCHANGED delivered
  /\ UNCHANGED <<links, fib, object, published, steady, reroutes, cuts>>

(* PubFromRp(pub) has the CD and the content of the PubToRp; a Sub ends    *)
(* here.                                                                   *)
RpReceives(a) ==
  /\ chan[<<a, RP>>] # <<>>
  /\ LET p == Head(chan[<<a, RP>>])
     IN  Moves({<<a, RP>>}, RP, IF p.type = "PubToRp" THEN {a} ELSE {}, PubFromRp(p))
  /\ UNCHANGED <<links, st, fib, object, published, delivered, steady, reroutes, cuts>>

(* Mutant: the last next hop of an entry is kept. *)
ExpiresUnlessLast(r, cd, a) ==
  /\ <<cd, a>> \in Hops(st[r])
  /\ DOMAIN st[r][cd] # {a}
  /\ st' = [st EXCEPT ![r] = StRemoveHop(@, cd, a)]
  /\ steady' = {}
  /\ UNCHANGED <<links, chan, fib, object, published, delivered, reroutes, cuts>>

Expires(r, cd, a) ==
  /\ <<cd, a>> \in Hops(st[r])
  /\ st' = [st EXCEPT ![r] = StRemoveHop(@, cd, a)]
  /\ steady' = {}
  /\ UNCHANGED <<links, chan, fib, object, published, delivered, reroutes, cuts>>

-----------------------------------------------------------------------------
(* The operator, who never lets the routers send in circles, and faults. *)

(* Following the routes from any router, one comes to an end. *)
EndsSomewhere(routes, cd) ==
  ~\E path \in [1..Cardinality(Routers)+1 -> Routers] :
     \A i \in 2..Cardinality(Routers)+1 : path[i] \in FibMatch(routes[path[i-1]], cd)

Reroutes(routes) ==
  /\ reroutes + cuts < MaxChanges
  /\ \A cd \in PubCds : EndsSomewhere(routes, cd)
  /\ fib' = routes
  /\ reroutes' = reroutes + 1
  /\ steady' = {}
  /\ UNCHANGED <<links, chan, st, object, published, delivered, cuts>>

FibAddRoute(r, a) ==
  {r, a} \in links /\ Reroutes([fib EXCEPT ![r] = FibAdd(@, Root, a, 0)])

FibDelRoute(r, a) ==
  <<Root, a>> \in Hops(fib[r]) /\ Reroutes([fib EXCEPT ![r] = FibRemoveHop(@, Root, a)])

(* A connection is lost with what is on it, and both ends notice before it *)
(* is used again: a router drops the face from both tables.                *)
Cut(a, b) ==
  /\ {a, b} \in links
  /\ reroutes + cuts < MaxChanges
  /\ cuts' = cuts + 1
  /\ links' = links \ {{a, b}}
  /\ chan' = [d \in Directions |-> IF d \in {<<a, b>>, <<b, a>>} THEN <<>> ELSE chan[d]]
  /\ st' = [r \in Routers |-> IF r \in {a, b} THEN StRemoveFace(st[r], IF r = a THEN b ELSE a) ELSE st[r]]
  /\ fib' = [r \in Routers |-> IF r \in {a, b} THEN FibRemoveFace(fib[r], IF r = a THEN b ELSE a) ELSE fib[r]]
  /\ steady' = {}
  /\ UNCHANGED <<object, published, delivered, reroutes>>

(* The client library connects again before it sends. *)
Reconnects(c) ==
  /\ \E l \in Links \ links : c \in l /\ links' = links \cup {l}
  /\ UNCHANGED <<chan, st, fib, object, published, delivered, steady, reroutes, cuts>>

-----------------------------------------------------------------------------
Receives(a, b) ==
  \/ b \in Routers /\ RouterReceives(b, a)
  \/ b = RP /\ RpReceives(a)

Next ==
  \/ \E p \in Publishers : Publish(p) \/ \E cd \in PubCds : SetPublication(p, cd)
  \/ \E s \in Subscribers : \E cd \in SubsOf[s] : SendSub(s, cd)
  \/ \E d \in Directions : Receives(d[1], d[2])
  \/ \E r \in Routers : \E hop \in Hops(st[r]) : Expires(r, hop[1], hop[2])
  \/ \E route \in NewRoutes : FibAddRoute(route[1], route[2]) \/ FibDelRoute(route[1], route[2])
  \/ \E d \in Directions : Cut(d[1], d[2])
  \/ \E c \in Publishers \cup Subscribers : Reconnects(c)

(* Connections deliver, and a subscription that is not refreshed expires.  *)
(* (As nothing says when, so may one that is.)                             *)
Fairness ==
  /\ \A d \in Directions : WF_vars(Receives(d[1], d[2]))
  /\ \A d \in Directions, cd \in AllSubs : WF_vars(d[2] \in Routers /\ Expires(d[2], cd, d[1]))

Spec == Init /\ [][Next]_vars /\ Fairness

-----------------------------------------------------------------------------
(* What a subscriber gets was published, with that CD and that content,    *)
(* and matches a subscription of its own.                                  *)
DeliveredWasPublished ==
  \A s \in Subscribers : \A got \in Range(delivered[s]) :
    /\ got \in Publications
    /\ \E cd \in SubsOf[s] : MatchRegex(cd, got.cd)

(* Unless the routes changed, a subscriber gets the publications of a      *)
(* publisher at most once and in order, however many of its subscriptions  *)
(* match and whatever is lost.                                             *)
DeliveredOnceInOrder ==
  \A s \in Subscribers :
    reroutes = 0 =>
      \A i, j \in 1..Len(delivered[s]) :
        i < j /\ delivered[s][i].by = delivered[s][j].by =>
          delivered[s][i].content < delivered[s][j].content

(* Both: nothing that was not published or not asked for, nothing twice.   *)
DeliveredAsPublished == DeliveredWasPublished /\ DeliveredOnceInOrder

(* After a change of routes two routers may have each other as next hops,  *)
(* and a publication goes round between them; not for ever, as no Sub      *)
(* refreshes both next hops any more.                                      *)
CirculationEnds ==
  []<>(\A d \in Directions : \A i \in 1..Len(chan[d]) : chan[d][i].type = "Sub")

(* A publication comes to every subscriber whose path to the RP joins that *)
(* of the publisher below the RP: while no table on the way changes, it    *)
(* was delivered or is still under way.  (It leaves the network in the     *)
(* end: CirculationEnds.)                                                  *)
SubscriberHears ==
  \A pair \in steady :
    \/ pair[1] \in Range(delivered[pair[2]])
    \/ \E d \in Directions : \E i \in 1..Len(chan[d]) :
         /\ chan[d][i].type # "Sub"
         /\ chan[d][i].content = [by |-> pair[1].by, content |-> pair[1].content]
=============================================================================

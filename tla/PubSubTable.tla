---------------------------- MODULE PubSubTable ----------------------------
(***************************************************************************)
(* What a router promises to the processes attached to it, with no event   *)
(* loop, no timers and no sockets: a set of attached faces, what each of   *)
(* them is subscribed to and what is routed to it.  Only attached faces    *)
(* have subscriptions and routes; a face is detached in one step, with all *)
(* it has, only after its connection was lost; and an id is never attached *)
(* again.                                                                  *)
(***************************************************************************)
EXTENDS Naturals

CONSTANTS Faces, Cds, Names

VARIABLES attached,  \* faces that take part
          former,    \* faces that did and do not any more
          doomed,    \* attached faces whose connection is lost
          subs,      \* pairs <<cd, face>>
          routes     \* pairs <<name, face>>

vars == <<attached, former, doomed, subs, routes>>

Init ==
  /\ attached = {}
  /\ former = {}
  /\ doomed = {}
  /\ subs = {}
  /\ routes = {}

(* A face may come with a first subscription or a first route. *)
Attach(f) ==
  /\ f \notin attached \cup former
  /\ attached' = attached \cup {f}
  /\ doomed' \in {doomed, doomed \cup {f}}
  /\ \/ UNCHANGED <<subs, routes>>
     \/ /\ \E cd \in Cds : subs' = subs \cup {<<cd, f>>}
        /\ UNCHANGED routes
     \/ /\ \E name \in Names, g \in attached' : routes' = routes \cup {<<name, g>>}
        /\ UNCHANGED subs
  /\ UNCHANGED former

Subscribe(cd, f) ==
  /\ f \in attached
  /\ subs' = subs \cup {<<cd, f>>}
  /\ UNCHANGED <<attached, former, doomed, routes>>

(* Subscriptions are soft state: one of them, or all, may be forgotten. *)
Forget ==
  /\ subs' \in {{}} \cup {subs \ {s} : s \in subs}
  /\ UNCHANGED <<attached, former, doomed, routes>>

Route(name, f) ==
  /\ f \in attached
  /\ routes' = routes \cup {<<name, f>>}
  /\ UNCHANGED <<attached, former, doomed, subs>>

(* The operator takes back one route, all routes of a name, or all. *)
Unroute ==
  /\ \/ routes' = {}
     \/ \E name \in Names : routes' = {r \in routes : r[1] # name}
     \/ \E r \in routes : routes' = routes \ {r}
  /\ UNCHANGED <<attached, former, doomed, subs>>

Lose(f) ==
  /\ f \in attached
  /\ doomed' = doomed \cup {f}
  /\ UNCHANGED <<attached, former, subs, routes>>

Detach(f) ==
  /\ f \in doomed
  /\ attached' = attached \ {f}
  /\ former' = former \cup {f}
  /\ doomed' = doomed \ {f}
  /\ subs' = {s \in subs : s[2] # f}
  /\ routes' = {r \in routes : r[2] # f}

Next ==
  \/ \E f \in Faces : Attach(f) \/ Lose(f) \/ Detach(f)
  \/ \E f \in Faces, cd \in Cds : Subscribe(cd, f)
  \/ \E f \in Faces, name \in Names : Route(name, f)
  \/ Forget
  \/ Unroute

Spec == Init /\ [][Next]_vars

=============================================================================

----------------------------- MODULE MCNetwork -----------------------------
(* Two routers that know each other and the RP, for TLC: routes may lead   *)
(* to the RP directly or through the other router.                         *)
EXTENDS Network

Name(words) == [i \in 1..Len(words) |-> Component(words[i])]

(* /1(/2)/s and /1, and the publication /1/2/s that both match. *)
FlexibleSub == <<Component("1"), Optional("2"), Asterisk, Component("s")>>
PlainSub    == Name(<<"1">>)
Pub2 == Name(<<"1", "2", "s">>)
Pub3 == Name(<<"1", "3", "s">>)

OnePub  == {Pub2}
TwoPubs == {Pub2, Pub3}

Triangle == {{0, 1}, {0, 2}, {1, 2}, {1, 3}, {1, 4}, {2, 5}}
SubsOfEach == (4 :> {FlexibleSub}) @@ (5 :> {PlainSub})

(* Router 2 was behind router 1 until now: its next hop is still there.    *)
BothDirect == [r \in {1, 2} |-> FibAdd(EmptyTable, Root, 0, 1)]
SecondWasBehindFirst == (1 :> StAdd(EmptyTable, PlainSub, 2)) @@ (2 :> EmptyTable)
Across == {<<1, 2>>, <<2, 0>>}
=============================================================================

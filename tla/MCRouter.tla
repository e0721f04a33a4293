------------------------------ MODULE MCRouter ------------------------------
(* Small instances of the router for TLC. *)
EXTENDS RouterProperties

Name(words) == [i \in 1..Len(words) |-> Component(words[i])]

(* /1(/2)/s and /1, and the publication /1/2/s that both match. *)
FlexibleSub == <<Component("1"), Optional("2"), Asterisk, Component("s")>>
PlainSub    == Name(<<"1">>)
Pub2 == Name(<<"1", "2", "s">>)

Root == <<>>
One  == Name(<<"1">>)

FlexibleOnly == {FlexibleSub}
TwoSubs == {FlexibleSub, PlainSub}
OnePub  == {Pub2}
NoCds   == {}
RootAndOne == {Root, One}
RootOnly == {Root}
=============================================================================

-------------------------------- MODULE Fib --------------------------------
(***************************************************************************)
(* The forwarding table, class Fib.  A next hop carries its cost.          *)
(***************************************************************************)
EXTENDS HopTables

FibAdd(fib, name, id, cost)  == AddHop(fib, name, id, cost)
FibRemoveHop(fib, name, id)  == RemoveHop(fib, name, id)
FibRemoveName(fib, name)     == RemoveEntry(fib, name)
FibRemoveFace(fib, id)       == RemoveFace(fib, id)
FibClear                     == EmptyTable

(* min_element over a set ordered by face id: the first of the cheapest. *)
Cheapest(hops) ==
  CHOOSE id \in DOMAIN hops :
    \A other \in DOMAIN hops :
      \/ hops[id] < hops[other]
      \/ hops[id] = hops[other] /\ id <= other

PrefixEntries(fib, cd) == {name \in DOMAIN fib : IsPrefixOf(name, cd)}

LongestPrefix(fib, cd) ==
  CHOOSE name \in PrefixEntries(fib, cd) :
    \A other \in PrefixEntries(fib, cd) : Len(other) <= Len(name)

(* Longest prefix, then cheapest next hop: at most one face. *)
FibMatch(fib, cd) ==
  IF PrefixEntries(fib, cd) = {} THEN {} ELSE {Cheapest(fib[LongestPrefix(fib, cd)])}

=============================================================================

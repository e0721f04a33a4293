-------------------------------- MODULE Cds --------------------------------
(***************************************************************************)
(* Content descriptors (class Cd) and the pure operations on them.         *)
(*                                                                         *)
(* A CD is the sequence of TLV elements of its block.  The URI             *)
(* /1(/2/3/0)/sports is held as                                            *)
(*     C1  O2  O3  O0  A  Csports                                          *)
(* where C is tlv::CdComponent, O is tlv::CdOptional and A is              *)
(* tlv::CdAsterisk, the empty element that closes an optional group.       *)
(***************************************************************************)
EXTENDS Naturals, Sequences

Component(v) == [type |-> "C", value |-> v]
Optional(v)  == [type |-> "O", value |-> v]
Asterisk     == [type |-> "A", value |-> ""]

Elements(Values) ==
  {Component(v) : v \in Values} \cup {Optional(v) : v \in Values} \cup {Asterisk}

(* What the block of a CD may be: elements of these types, any values. *)
CdBlocks == Seq([type : {"C", "O", "A"}, value : STRING])

(* Cd::isPrefixOf compares type and value of every element. *)
IsPrefixOf(a, b) ==
  /\ Len(a) <= Len(b)
  /\ \A i \in 1..Len(a) : a[i] = b[i]

(* StImpl::isEqualValue compares the values only, never the types. *)
IsEqualValue(entry, input) == entry.value = input.value

(* The inner do-while of matchRegex: the next normal component after       *)
(* position i.  A parsed CD never ends in an optional part, so it exists.  *)
NextComponent(entry, i) ==
  CHOOSE k \in i+1..Len(entry) :
    /\ entry[k].type = "C"
    /\ \A m \in i+1..k-1 : entry[m].type # "C"

(* StImpl::matchRegex, one disjunct for each way an iteration goes on.     *)
(* The subscription entry is consumed greedily and never backtracks.       *)
MatchRegex(entry, input) ==
  LET matches[at \in (1..Len(entry)+1) \X (1..Len(input)+1)] ==
        LET i == at[1]
            j == at[2]
        IN  \/ i = Len(entry) + 1
            \/ /\ i <= Len(entry)
               /\ j <= Len(input)
               /\ \/ /\ entry[i].type = "A"
                     /\ matches[<<i + 1, j>>]
                  \/ /\ entry[i].type # "A"
                     /\ IsEqualValue(entry[i], input[j])
                     /\ matches[<<i + 1, j + 1>>]
                  \/ /\ entry[i].type = "O"
                     /\ ~IsEqualValue(entry[i], input[j])
                     /\ matches[<<NextComponent(entry, i), j>>]
  IN  matches[<<1, 1>>]

=============================================================================

------------------------------- MODULE CdOrder -------------------------------
(***************************************************************************)
(* How CDs are compared and told apart.  An element that has been encoded  *)
(* is compared by its octets on the wire; otherwise by its type, then the  *)
(* length of its value, then the value.  The same text stands in Cd, in    *)
(* cd::Optional and in cd::Asterisk.                                       *)
(*                                                                         *)
(* Values of one length are ordered by their octets; a rank stands for     *)
(* these, so that a value on the wire is its length followed by its rank.  *)
(***************************************************************************)
EXTENDS Cds, Integers, SequencesExt

CONSTANTS LengthOf, RankOf   \* functions from values

Texts == DOMAIN LengthOf

MaxLength == 65535   \* no text is longer than a packet: two octets hold its length

(* Texts of one length are told apart by their ranks, and only one has no  *)
(* octets.                                                                 *)
ASSUME CdOrderAssumption ==
  /\ LengthOf \in [Texts -> 0..MaxLength]
  /\ RankOf \in [Texts -> Nat]
  /\ "" \in Texts
  /\ \A v \in Texts : LengthOf[v] = 0 <=> v = ""
  /\ \A v, w \in Texts : LengthOf[v] = LengthOf[w] /\ RankOf[v] = RankOf[w] => v = w

(* tlv::CdComponent, tlv::CdOptional, tlv::CdAsterisk *)
TypeCode(element) ==
  CASE element.type = "C" -> 8 [] element.type = "O" -> 81 [] element.type = "A" -> 82

ValueSize(element) == LengthOf[element.value]
ValueRank(element) == RankOf[element.value]

(* Mutant: one octet for every length. *)
VarNumberOfOneOctet(n) == <<n % 256>>

(* prependVarNumber: one octet up to 252, else a marker and two octets.    *)
VarNumber(n) == IF n < 253 THEN <<n>> ELSE <<253, n \div 256, n % 256>>

Wire(element) ==
  VarNumber(TypeCode(element)) \o VarNumber(ValueSize(element))
    \o (IF ValueSize(element) > 0 THEN <<ValueRank(element)>> ELSE <<>>)

(* memcmp of the first n octets: where they differ first decides.          *)
Memcmp(a, b, n) ==
  LET differ == {i \in 1..n : a[i] # b[i]}
  IN  IF differ = {} THEN 0 ELSE a[Min(differ)] - b[Min(differ)]

CompareWires(a, b) == Memcmp(Wire(a), Wire(b), Min({Len(Wire(a)), Len(Wire(b))}))

CompareValues(a, b) ==
  IF TypeCode(a) # TypeCode(b) THEN TypeCode(a) - TypeCode(b)
  ELSE IF ValueSize(a) # ValueSize(b) THEN ValueSize(a) - ValueSize(b)
  ELSE ValueRank(a) - ValueRank(b)

CompareElements(a, b, haveWire) == IF haveWire THEN CompareWires(a, b) ELSE CompareValues(a, b)

(* compare(): the first element that differs decides, else the sizes.      *)
Compare(a, b, haveWire) ==
  LET differ == {i \in 1..Min({Len(a), Len(b)}) : CompareElements(a[i], b[i], haveWire) # 0}
  IN  IF differ = {} THEN Len(a) - Len(b)
      ELSE CompareElements(a[Min(differ)], b[Min(differ)], haveWire)

Less(a, b, haveWire)    == Compare(a, b, haveWire) < 0
Greater(a, b, haveWire) == Compare(a, b, haveWire) > 0

Equals(a, b) == Len(a) = Len(b) /\ \A i \in 1..Len(a) : Wire(a[i]) = Wire(b[i])

-----------------------------------------------------------------------------
(* The canonical order, without octets: a CD is the sequence of what its   *)
(* elements are, and sequences are ordered as in a dictionary.             *)
Canonical(cd) ==
  FoldLeft(LAMBDA keys, e : keys \o <<TypeCode(e), ValueSize(e), ValueRank(e)>>, <<>>, cd)

Precedes(a, b) ==
  \/ IsStrictPrefix(a, b)
  \/ \E n \in 1..Len(a) :
       /\ n <= Len(b) /\ a[n] < b[n]
       /\ \A i \in 1..n-1 : a[i] = b[i]

(* With or without wire, two CDs are ordered as their elements are, and    *)
(* are equal only if neither precedes the other, which is when their texts *)
(* are the same.                                                           *)
OrderIsCanonical(a, b) ==
  \A haveWire \in BOOLEAN :
    /\ Less(a, b, haveWire)    = Precedes(Canonical(a), Canonical(b))
    /\ Greater(a, b, haveWire) = Precedes(Canonical(b), Canonical(a))
    /\ Equals(a, b)            = (Compare(a, b, haveWire) = 0)
    /\ Equals(a, b)            = (a = b)

=============================================================================

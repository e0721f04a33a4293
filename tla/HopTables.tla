----------------------------- MODULE HopTables -----------------------------
(***************************************************************************)
(* A table of next hops: list<StEntry> in class StImpl and list<FibEntry>  *)
(* in class Fib.  Both keep at most one entry per CD (every insertion is   *)
(* preceded by a find_if on m_cd) and at most one next hop per face in an  *)
(* entry (a std::set ordered by face id only), so a table is a function    *)
(* from the CDs that have an entry to a function from face ids to what the *)
(* next hop carries: its expiry timer in the ST, its cost in the FIB.      *)
(* The order of the list, visible only in a dump, is left out.             *)
(***************************************************************************)
EXTENDS Cds

EmptyTable == [cd \in {} |-> {}]

(* All pairs <<cd, face>> that have a next hop. *)
Hops(t) == UNION {{<<cd, id>> : id \in DOMAIN t[cd]} : cd \in DOMAIN t}

HopsOf(t, cd) == IF cd \in DOMAIN t THEN DOMAIN t[cd] ELSE {}

(* A table whose entries are for CDs in C, with next hops that carry x in X. *)
IsTable(t, C, X) ==
  /\ DOMAIN t \subseteq C
  /\ \A c \in DOMAIN t : t[c] \in [DOMAIN t[c] -> X]

AllEntriesUsed(t) == \A c \in DOMAIN t : DOMAIN t[c] # {}

(* add: an existing next hop of the face is erased and replaced. *)
AddHop(t, cd, id, x) ==
  [c \in DOMAIN t \cup {cd} |->
     IF c # cd THEN t[c]
     ELSE [i \in HopsOf(t, cd) \cup {id} |-> IF i = id THEN x ELSE t[cd][i]]]

RemoveEntry(t, cd) == [c \in DOMAIN t \ {cd} |-> t[c]]

(* remove(cd, id): an entry goes away with its last next hop. *)
RemoveHop(t, cd, id) ==
  IF HopsOf(t, cd) \subseteq {id}
  THEN RemoveEntry(t, cd)
  ELSE [t EXCEPT ![cd] = [i \in DOMAIN t[cd] \ {id} |-> t[cd][i]]]

(* Mutant: the entry that lost its last next hop is not erased. *)
RemoveFaceOnly(t, id) ==
  [c \in DOMAIN t |-> [i \in DOMAIN t[c] \ {id} |-> t[c][i]]]

(* remove(id): the next hops of one face in every entry. *)
RemoveFace(t, id) ==
  [c \in {c \in DOMAIN t : ~(DOMAIN t[c] \subseteq {id})} |->
     [i \in DOMAIN t[c] \ {id} |-> t[c][i]]]

=============================================================================

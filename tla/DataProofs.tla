----------------------------- MODULE DataProofs -----------------------------
(***************************************************************************)
(* Facts about the data of several modules: what is in a queue after a     *)
(* step, what the operations on a table of next hops do to the set of its  *)
(* next hops, to what the next hops carry and to entries that become       *)
(* empty, and that the lookups in the tables find what is there.           *)
(***************************************************************************)
EXTENDS St, Fib, SequenceTheorems, WellFoundedInduction, TLAPS

(***************************************************************************)
(* Queues: what a step that pops the head or appends something leaves.     *)
(***************************************************************************)
Holds(q, e) == \E i \in 1..Len(q) : q[i] = e

LEMMA AppendHolds ==
  ASSUME NEW S, NEW q \in Seq(S), NEW x \in S
  PROVE  /\ Append(q, x) \in Seq(S)
         /\ \A e : Holds(Append(q, x), e) <=> Holds(q, e) \/ e = x
<1>1. /\ Append(q, x) \in Seq(S)
      /\ Len(Append(q, x)) = Len(q) + 1
      /\ Append(q, x)[Len(q) + 1] = x
      /\ \A i \in 1..Len(q) : Append(q, x)[i] = q[i]
  BY AppendProperties
<1>2. Len(q) \in Nat
  OBVIOUS
<1>3. ASSUME NEW e PROVE Holds(Append(q, x), e) <=> Holds(q, e) \/ e = x
  <2>1. ASSUME Holds(Append(q, x), e) PROVE Holds(q, e) \/ e = x
    <3>1. PICK i \in 1..Len(q)+1 : Append(q, x)[i] = e
      BY <1>1, <2>1 DEF Holds
    <3>2. CASE i = Len(q) + 1
      BY <1>1, <3>1, <3>2
    <3>3. CASE i \in 1..Len(q)
      BY <1>1, <3>1, <3>3 DEF Holds
    <3> QED BY <1>2, <3>1, <3>2, <3>3
  <2>2. ASSUME Holds(q, e) PROVE Holds(Append(q, x), e)
    <3>1. PICK i \in 1..Len(q) : q[i] = e
      BY <2>2 DEF Holds
    <3>2. i \in 1..Len(Append(q, x)) /\ Append(q, x)[i] = e
      BY <1>1, <1>2, <3>1
    <3> QED BY <3>2 DEF Holds
  <2>3. ASSUME e = x PROVE Holds(Append(q, x), e)
    <3>1. Len(q) + 1 \in 1..Len(Append(q, x))
      BY <1>1, <1>2
    <3> QED BY <1>1, <2>3, <3>1 DEF Holds
  <2> QED BY <2>1, <2>2, <2>3
<1> QED BY <1>1, <1>3

LEMMA TailHolds ==
  ASSUME NEW S, NEW q \in Seq(S), q # <<>>
  PROVE  /\ Head(q) \in S
         /\ Tail(q) \in Seq(S)
         /\ Holds(q, Head(q))
         /\ \A e : Holds(q, e) <=> Holds(Tail(q), e) \/ e = Head(q)
<1>1. /\ Head(q) \in S /\ Tail(q) \in Seq(S)
      /\ Head(q) = q[1]
      /\ Len(Tail(q)) = Len(q) - 1
      /\ \A i \in 1..Len(Tail(q)) : Tail(q)[i] = q[i+1]
      /\ Len(q) \in Nat /\ Len(q) >= 1
  BY HeadTailProperties, EmptySeq, LenProperties
<1>2. Holds(q, Head(q))
  BY <1>1 DEF Holds
<1>3. ASSUME NEW e, Holds(q, e) PROVE Holds(Tail(q), e) \/ e = Head(q)
  <2>1. PICK i \in 1..Len(q) : q[i] = e
    BY <1>3 DEF Holds
  <2>2. CASE i = 1
    BY <1>1, <2>1, <2>2
  <2>3. CASE i # 1
    <3>1. i - 1 \in 1..Len(Tail(q)) /\ Tail(q)[i-1] = q[i]
      BY <1>1, <2>1, <2>3
    <3> QED BY <2>1, <3>1 DEF Holds
  <2> QED BY <2>2, <2>3
<1>4. ASSUME NEW e, Holds(Tail(q), e) PROVE Holds(q, e)
  <2>1. PICK i \in 1..Len(Tail(q)) : Tail(q)[i] = e
    BY <1>4 DEF Holds
  <2>2. i + 1 \in 1..Len(q) /\ q[i+1] = e
    BY <1>1, <2>1
  <2> QED BY <2>2 DEF Holds
<1> QED BY <1>1, <1>2, <1>3, <1>4

(* The same for a queue to which none or one is appended with \o.          *)
LEMMA ConcatHolds ==
  ASSUME NEW S, NEW q \in Seq(S), NEW x \in S
  PROVE  /\ q \o <<>> = q
         /\ q \o <<x>> \in Seq(S)
         /\ \A e : Holds(q \o <<x>>, e) <=> Holds(q, e) \/ e = x
<1>1. q \o <<>> = q
  BY ConcatEmptySeq
<1>2. Append(q, x) = q \o <<x>>
  BY AppendIsConcat
<1>3. Append(q, x) \in Seq(S) /\ \A e : Holds(Append(q, x), e) <=> Holds(q, e) \/ e = x
  BY AppendHolds
<1> QED BY <1>1, <1>2, <1>3, Zenon

LEMMA HoldsIsRange ==
  ASSUME NEW S, NEW q \in Seq(S)
  PROVE  /\ \A e : Holds(q, e) <=> e \in Range(q)
         /\ \A e : Holds(q, e) => e \in S
<1>1. DOMAIN q = 1..Len(q) /\ \A i \in 1..Len(q) : q[i] \in S
  BY LenProperties, ElementOfSeq
<1> QED BY <1>1 DEF Holds, Range

(* No element occurs twice. *)
Distinct(q) == \A i, j \in 1..Len(q) : q[i] = q[j] => i = j

LEMMA AppendDistinct ==
  ASSUME NEW S, NEW q \in Seq(S), NEW x \in S, Distinct(q), ~Holds(q, x)
  PROVE  Distinct(Append(q, x))
<1>1. /\ Len(Append(q, x)) = Len(q) + 1
      /\ Append(q, x)[Len(q) + 1] = x
      /\ \A i \in 1..Len(q) : Append(q, x)[i] = q[i]
      /\ Len(q) \in Nat
  BY AppendProperties
<1>2. \A i : i \in 1..Len(Append(q, x)) <=> i \in 1..Len(q) \/ i = Len(q) + 1
  BY <1>1
<1> QED BY <1>1, <1>2 DEF Distinct, Holds

LEMMA TailDistinct ==
  ASSUME NEW S, NEW q \in Seq(S), q # <<>>, Distinct(q)
  PROVE  Distinct(Tail(q)) /\ ~Holds(Tail(q), Head(q))
<1>1. /\ Head(q) = q[1]
      /\ Len(Tail(q)) = Len(q) - 1
      /\ \A i \in 1..Len(Tail(q)) : Tail(q)[i] = q[i+1]
      /\ Len(q) \in Nat /\ Len(q) >= 1
  BY HeadTailProperties, EmptySeq, LenProperties
<1>2. 1 \in 1..Len(q) /\ \A i \in 1..Len(Tail(q)) : i \in Nat /\ i + 1 \in 1..Len(q) /\ i + 1 # 1
  BY <1>1
<1>3. ASSUME NEW i \in 1..Len(Tail(q)), NEW j \in 1..Len(Tail(q)), Tail(q)[i] = Tail(q)[j]
      PROVE  i = j
  <2>1. i + 1 = j + 1
    BY <1>1, <1>2, <1>3 DEF Distinct
  <2> QED BY <1>2, <2>1
<1>4. ~Holds(Tail(q), Head(q))
  BY <1>1, <1>2 DEF Distinct, Holds
<1> QED BY <1>3, <1>4 DEF Distinct

-----------------------------------------------------------------------------
(***************************************************************************)
(* Queues of events, of which some operations matter: none is queued, or   *)
(* one event and no other.                                                 *)
(***************************************************************************)
Free(q, ops) == \A i \in 1..Len(q) : q[i].op \notin ops

Only(q, ops, e) ==
  /\ e.op \in ops
  /\ \E i \in 1..Len(q) : /\ q[i] = e
                          /\ \A j \in 1..Len(q) : q[j].op \in ops => j = i

(* One event at most is the only one. *)
LEMMA OnlyIsOne ==
  ASSUME NEW q, NEW ops, NEW e, Only(q, ops, e)
  PROVE  /\ ~Free(q, ops)
         /\ \A f : Only(q, ops, f) => e = f
  BY DEF Only, Free

LEMMA AppendOnly ==
  ASSUME NEW S, NEW q \in Seq(S), NEW x \in S, NEW ops
  PROVE  /\ x.op \notin ops /\ Free(q, ops) => Free(Append(q, x), ops)
         /\ x.op \notin ops => \A e : Only(q, ops, e) => Only(Append(q, x), ops, e)
         /\ x.op \in ops /\ Free(q, ops) => Only(Append(q, x), ops, x)
<1>1. /\ Len(Append(q, x)) = Len(q) + 1
      /\ Append(q, x)[Len(q) + 1] = x
      /\ \A i \in 1..Len(q) : Append(q, x)[i] = q[i]
      /\ Len(q) \in Nat
  BY AppendProperties
<1>2. \A i : i \in 1..Len(Append(q, x)) <=> i \in 1..Len(q) \/ i = Len(q) + 1
  BY <1>1
<1>3. ASSUME x.op \notin ops, Free(q, ops) PROVE Free(Append(q, x), ops)
  BY <1>1, <1>2, <1>3 DEF Free
<1>4. ASSUME x.op \notin ops, NEW e, Only(q, ops, e) PROVE Only(Append(q, x), ops, e)
  BY <1>1, <1>2, <1>4 DEF Only
<1>5. ASSUME x.op \in ops, Free(q, ops) PROVE Only(Append(q, x), ops, x)
  BY <1>1, <1>2, <1>5 DEF Free, Only
<1> QED BY <1>3, <1>4, <1>5

LEMMA TailOnly ==
  ASSUME NEW S, NEW q \in Seq(S), q # <<>>, NEW ops
  PROVE  /\ Free(q, ops) => Head(q).op \notin ops /\ Free(Tail(q), ops)
         /\ \A e : Only(q, ops, e) =>
              IF Head(q).op \in ops THEN Head(q) = e /\ Free(Tail(q), ops) ELSE Only(Tail(q), ops, e)
<1>1. /\ Head(q) = q[1]
      /\ Len(Tail(q)) = Len(q) - 1
      /\ \A i \in 1..Len(Tail(q)) : Tail(q)[i] = q[i+1]
      /\ Len(q) \in Nat /\ Len(q) >= 1
  BY HeadTailProperties, EmptySeq, LenProperties
<1>2. \A i \in 1..Len(Tail(q)) : i + 1 \in 1..Len(q) /\ i + 1 # 1 /\ Tail(q)[i] = q[i+1]
  BY <1>1
<1>3. ASSUME Free(q, ops) PROVE Head(q).op \notin ops /\ Free(Tail(q), ops)
  BY <1>1, <1>2, <1>3 DEF Free
<1>4. ASSUME NEW e, Only(q, ops, e)
      PROVE  IF Head(q).op \in ops THEN Head(q) = e /\ Free(Tail(q), ops) ELSE Only(Tail(q), ops, e)
  <2>1. e.op \in ops
    BY <1>4 DEF Only
  <2>2. PICK i \in 1..Len(q) : q[i] = e /\ \A j \in 1..Len(q) : q[j].op \in ops => j = i
    BY <1>4 DEF Only
  <2>3. CASE i = 1
    <3>1. Head(q) = e
      BY <1>1, <2>2, <2>3
    <3>2. Free(Tail(q), ops)
      BY <1>2, <2>2, <2>3 DEF Free
    <3> QED BY <2>1, <3>1, <3>2
  <2>4. CASE i # 1
    <3>1. Head(q).op \notin ops
      BY <1>1, <2>2, <2>4
    <3>2. i - 1 \in 1..Len(Tail(q)) /\ Tail(q)[i-1] = e
      BY <1>1, <2>2, <2>4
    <3>3. \A j \in 1..Len(Tail(q)) : Tail(q)[j].op \in ops => j = i - 1
      <4> SUFFICES ASSUME NEW j \in 1..Len(Tail(q)), Tail(q)[j].op \in ops PROVE j = i - 1
        OBVIOUS
      <4>1. j + 1 = i
        BY <1>2, <2>2
      <4> QED BY <4>1
    <3> QED BY <2>1, <3>1, <3>2, <3>3 DEF Only
  <2> QED BY <2>3, <2>4
<1> QED BY <1>3, <1>4

(* Events that do not matter may be appended. *)
LEMMA ConcatOnly ==
  ASSUME NEW S, NEW q \in Seq(S), NEW rest \in Seq(S), NEW ops, Free(rest, ops)
  PROVE  /\ q \o rest \in Seq(S)
         /\ Free(q, ops) => Free(q \o rest, ops)
         /\ \A e : Only(q, ops, e) => Only(q \o rest, ops, e)
<1>1. /\ q \o rest \in Seq(S)
      /\ Len(q \o rest) = Len(q) + Len(rest)
      /\ \A i \in 1..Len(q) + Len(rest) : (q \o rest)[i] = IF i <= Len(q) THEN q[i] ELSE rest[i - Len(q)]
      /\ Len(q) \in Nat /\ Len(rest) \in Nat
  BY ConcatProperties, LenProperties
<1>2. \A i \in 1..Len(q) : i \in 1..Len(q \o rest) /\ (q \o rest)[i] = q[i]
  BY <1>1
<1>3. ASSUME NEW i \in 1..Len(q \o rest), (q \o rest)[i].op \in ops
      PROVE  i \in 1..Len(q) /\ (q \o rest)[i] = q[i]
  <2>1. CASE i <= Len(q)
    BY <1>1, <2>1
  <2>2. CASE ~(i <= Len(q))
    <3>1. i - Len(q) \in 1..Len(rest) /\ (q \o rest)[i] = rest[i - Len(q)]
      BY <1>1, <2>2
    <3> QED BY <1>3, <3>1 DEF Free
  <2> QED BY <2>1, <2>2
<1>4. ASSUME Free(q, ops) PROVE Free(q \o rest, ops)
  BY <1>3, <1>4 DEF Free
<1>5. ASSUME NEW e, Only(q, ops, e) PROVE Only(q \o rest, ops, e)
  BY <1>2, <1>3, <1>5 DEF Only
<1> QED BY <1>1, <1>4, <1>5

(* The queue q is as the queue p for the operations in ops. *)
SameFor(ops, p, q) == (Free(p, ops) => Free(q, ops)) /\ \A e : Only(p, ops, e) => Only(q, ops, e)

(* An event that does not matter is appended, or is the head. *)
LEMMA AppendSame ==
  ASSUME NEW S, NEW q \in Seq(S), NEW x \in S, NEW ops, x.op \notin ops
  PROVE  SameFor(ops, q, Append(q, x))
  BY AppendOnly DEF SameFor

LEMMA TailSame ==
  ASSUME NEW S, NEW q \in Seq(S), q # <<>>, NEW ops, Head(q).op \notin ops
  PROVE  SameFor(ops, q, Tail(q))
  BY TailOnly DEF SameFor

LEMMA ConcatSame ==
  ASSUME NEW S, NEW q \in Seq(S), NEW rest \in Seq(S), NEW ops, Free(rest, ops)
  PROVE  q \o rest \in Seq(S) /\ SameFor(ops, q, q \o rest)
  BY ConcatOnly DEF SameFor

-----------------------------------------------------------------------------
(***************************************************************************)
(* Queues of which some elements matter: there is none of them, or one at  *)
(* most, or all of some come before those of others.                       *)
(***************************************************************************)
Lacks(q, ops) == \A i \in 1..Len(q) : q[i] \notin ops

AtMostOne(q, ops) == \A i, j \in 1..Len(q) : q[i] \in ops /\ q[j] \in ops => i = j

Before(q, first, second) ==
  \A i, j \in 1..Len(q) : q[i] \in first /\ q[j] \in second => i < j

LEMMA LacksBefore ==
  ASSUME NEW q, NEW first, NEW second, Lacks(q, first) \/ Lacks(q, second)
  PROVE  Before(q, first, second)
  BY DEF Lacks, Before

LEMMA AppendLacks ==
  ASSUME NEW S, NEW q \in Seq(S), NEW x \in S
  PROVE  /\ Append(q, x) \in Seq(S)
         /\ \A ops : x \notin ops => /\ Lacks(Append(q, x), ops) <=> Lacks(q, ops)
                                     /\ AtMostOne(q, ops) => AtMostOne(Append(q, x), ops)
         /\ \A ops : x \in ops => /\ ~Lacks(Append(q, x), ops)
                                  /\ Lacks(q, ops) => AtMostOne(Append(q, x), ops)
         /\ \A first, second : Before(q, first, second) /\ x \notin first =>
                                  Before(Append(q, x), first, second)
<1> DEFINE s == Append(q, x)
<1>1. /\ s \in Seq(S)
      /\ Len(s) = Len(q) + 1
      /\ s[Len(q) + 1] = x
      /\ \A i \in 1..Len(q) : s[i] = q[i]
      /\ Len(q) \in Nat
  <2>1. q \in Seq(S) /\ Len(q) \in Nat
    BY LenProperties
  <2> QED BY <2>1, AppendProperties
<1>2. \A i : i \in 1..Len(s) <=> i \in 1..Len(q) \/ i = Len(q) + 1
  BY <1>1
<1> HIDE DEF s
<1>3. ASSUME NEW ops, x \notin ops PROVE Lacks(s, ops) <=> Lacks(q, ops)
  BY <1>1, <1>2, <1>3 DEF Lacks
<1>4. ASSUME NEW ops, x \notin ops, AtMostOne(q, ops) PROVE AtMostOne(s, ops)
  BY <1>1, <1>2, <1>4 DEF AtMostOne
<1>5. ASSUME NEW ops, x \in ops PROVE ~Lacks(s, ops)
  BY <1>1, <1>2, <1>5 DEF Lacks
<1>6. ASSUME NEW ops, Lacks(q, ops) PROVE AtMostOne(s, ops)
  BY <1>1, <1>2, <1>6 DEF Lacks, AtMostOne
<1>7. ASSUME NEW first, NEW second, Before(q, first, second), x \notin first
      PROVE  Before(s, first, second)
  <2> SUFFICES ASSUME NEW i \in 1..Len(s), NEW j \in 1..Len(s), s[i] \in first, s[j] \in second
               PROVE  i < j
    BY DEF Before
  <2>1. i \in 1..Len(q) /\ q[i] \in first
    BY <1>1, <1>2, <1>7
  <2>2. CASE j \in 1..Len(q)
    BY <1>1, <1>7, <2>1, <2>2 DEF Before
  <2>3. CASE j = Len(q) + 1
    BY <1>1, <2>1, <2>3
  <2> QED BY <1>2, <2>2, <2>3
<1> QED BY <1>1, <1>3, <1>4, <1>5, <1>6, <1>7 DEF s

LEMMA TailLacks ==
  ASSUME NEW S, NEW q \in Seq(S), q # <<>>
  PROVE  /\ Tail(q) \in Seq(S) /\ Head(q) \in S
         /\ \A ops : Lacks(q, ops) <=> Head(q) \notin ops /\ Lacks(Tail(q), ops)
         /\ \A ops : AtMostOne(q, ops) => /\ AtMostOne(Tail(q), ops)
                                          /\ Head(q) \in ops => Lacks(Tail(q), ops)
         /\ \A first, second : Before(q, first, second) =>
              /\ Before(Tail(q), first, second)
              /\ Head(q) \in second => Lacks(q, first)
<1> DEFINE s == Tail(q)
<1>1. /\ s \in Seq(S) /\ Head(q) \in S /\ Head(q) = q[1]
      /\ Len(s) = Len(q) - 1
      /\ \A i \in 1..Len(s) : s[i] = q[i+1]
      /\ Len(q) \in Nat /\ Len(q) >= 1
  BY HeadTailProperties, EmptySeq, LenProperties
<1>2. /\ 1 \in 1..Len(q)
      /\ \A i \in 1..Len(s) : i \in Nat /\ i + 1 \in 1..Len(q) /\ i + 1 # 1 /\ s[i] = q[i+1]
      /\ \A i \in 1..Len(q) : i = 1 \/ (i - 1 \in 1..Len(s) /\ s[i-1] = q[i])
  BY <1>1
<1> HIDE DEF s
<1>3. ASSUME NEW ops PROVE Lacks(q, ops) <=> Head(q) \notin ops /\ Lacks(s, ops)
  BY <1>1, <1>2 DEF Lacks
<1>4. ASSUME NEW ops, AtMostOne(q, ops), NEW i \in 1..Len(s), NEW j \in 1..Len(s), s[i] \in ops, s[j] \in ops
      PROVE  i = j
  <2>1. i + 1 = j + 1
    BY <1>2, <1>4 DEF AtMostOne
  <2> QED BY <1>2, <2>1
<1>5. ASSUME NEW ops, AtMostOne(q, ops), Head(q) \in ops PROVE Lacks(s, ops)
  BY <1>1, <1>2, <1>5 DEF AtMostOne, Lacks
<1>6. ASSUME NEW first, NEW second, Before(q, first, second),
             NEW i \in 1..Len(s), NEW j \in 1..Len(s), s[i] \in first, s[j] \in second
      PROVE  i < j
  <2>1. i + 1 < j + 1
    BY <1>2, <1>6 DEF Before
  <2> QED BY <1>2, <2>1
<1>7. ASSUME NEW first, NEW second, Before(q, first, second), Head(q) \in second PROVE Lacks(q, first)
  <2> SUFFICES ASSUME NEW i \in 1..Len(q), q[i] \in first PROVE FALSE
    BY DEF Lacks
  <2>1. i < 1
    BY <1>1, <1>2, <1>7 DEF Before
  <2> QED BY <1>1, <2>1
<1>8. \A ops : AtMostOne(q, ops) => AtMostOne(s, ops)
  BY <1>4 DEF AtMostOne
<1>9. \A first, second : Before(q, first, second) => Before(s, first, second)
  BY <1>6 DEF Before
<1> QED BY <1>1, <1>3, <1>5, <1>7, <1>8, <1>9 DEF s

-----------------------------------------------------------------------------
(***************************************************************************)
(* Tables of next hops.                                                    *)
(***************************************************************************)

(* Membership in Hops without the nested set constructors. *)
LEMMA HopsMembership ==
  ASSUME NEW t
  PROVE  /\ \A c, i : <<c, i>> \in Hops(t) <=> c \in DOMAIN t /\ i \in DOMAIN t[c]
         /\ \A h \in Hops(t) : h = <<h[1], h[2]>> /\ h[1] \in DOMAIN t /\ h[2] \in DOMAIN t[h[1]]
  BY DEF Hops

(* Two sets of pairs with the same pairs are the same set. *)
LEMMA HopsEquality ==
  ASSUME NEW t, NEW S,
         \A h \in S : h = <<h[1], h[2]>>,
         \A c, i : <<c, i>> \in Hops(t) <=> <<c, i>> \in S
  PROVE  Hops(t) = S
<1>1. ASSUME NEW h \in Hops(t) PROVE h \in S
  BY <1>1, HopsMembership
<1>2. ASSUME NEW h \in S PROVE h \in Hops(t)
  BY <1>2
<1> QED BY <1>1, <1>2

LEMMA EmptyTableHops ==
  /\ Hops(EmptyTable) = {}
  /\ AllEntriesUsed(EmptyTable)
  /\ \A C, X : IsTable(EmptyTable, C, X)
  BY DEF Hops, EmptyTable, AllEntriesUsed, IsTable

(* AddHop adds the one pair, and every other next hop keeps what it has.   *)
LEMMA AddHopHops ==
  ASSUME NEW t, NEW cd, NEW id, NEW x
  PROVE  Hops(AddHop(t, cd, id, x)) = Hops(t) \cup {<<cd, id>>}
<1> DEFINE n == AddHop(t, cd, id, x)
<1>1. DOMAIN n = DOMAIN t \cup {cd}
  BY DEF AddHop
<1>2. \A c \in DOMAIN n : c # cd => n[c] = t[c]
  BY DEF AddHop
<1>3. DOMAIN n[cd] = HopsOf(t, cd) \cup {id}
  BY DEF AddHop
<1>4. ASSUME NEW c, NEW i
      PROVE  <<c, i>> \in Hops(n) <=> <<c, i>> \in Hops(t) \cup {<<cd, id>>}
  <2>1. CASE c = cd
    BY <2>1, <1>1, <1>3, HopsMembership DEF HopsOf
  <2>2. CASE c # cd
    BY <2>2, <1>1, <1>2, HopsMembership
  <2> QED BY <2>1, <2>2
<1>5. \A h \in Hops(t) \cup {<<cd, id>>} : h = <<h[1], h[2]>>
  BY HopsMembership
<1> HIDE DEF n
<1>6. Hops(n) = Hops(t) \cup {<<cd, id>>}
  BY <1>4, <1>5, HopsEquality
<1> QED BY <1>6 DEF n

LEMMA AddHopValues ==
  ASSUME NEW t, NEW cd, NEW id, NEW x
  PROVE  /\ AddHop(t, cd, id, x)[cd][id] = x
         /\ \A h \in Hops(t) : h # <<cd, id>> =>
              AddHop(t, cd, id, x)[h[1]][h[2]] = t[h[1]][h[2]]
<1> DEFINE n == AddHop(t, cd, id, x)
<1>1. n[cd][id] = x
  BY DEF AddHop
<1>2. ASSUME NEW h \in Hops(t), h # <<cd, id>>
      PROVE  n[h[1]][h[2]] = t[h[1]][h[2]]
  <2>1. h[1] \in DOMAIN t /\ h[2] \in DOMAIN t[h[1]] /\ h = <<h[1], h[2]>>
    BY HopsMembership
  <2>2. CASE h[1] = cd
    BY <1>2, <2>1, <2>2 DEF AddHop, HopsOf
  <2>3. CASE h[1] # cd
    BY <2>1, <2>3 DEF AddHop
  <2> QED BY <2>2, <2>3
<1> QED BY <1>1, <1>2

LEMMA AddHopTable ==
  ASSUME NEW t, NEW C, NEW X, NEW cd \in C, NEW id, NEW x \in X
  PROVE  /\ IsTable(t, C, X) => IsTable(AddHop(t, cd, id, x), C, X)
         /\ AllEntriesUsed(t) => AllEntriesUsed(AddHop(t, cd, id, x))
<1>1. ASSUME IsTable(t, C, X)
      PROVE  IsTable(AddHop(t, cd, id, x), C, X)
  BY <1>1 DEF IsTable, AddHop, HopsOf
<1>2. ASSUME AllEntriesUsed(t)
      PROVE  AllEntriesUsed(AddHop(t, cd, id, x))
  BY <1>2 DEF AllEntriesUsed, AddHop
<1> QED BY <1>1, <1>2

(* RemoveEntry takes away the next hops of one CD. *)
LEMMA RemoveEntryHops ==
  ASSUME NEW t, NEW cd
  PROVE  /\ Hops(RemoveEntry(t, cd)) = {h \in Hops(t) : h[1] # cd}
         /\ \A h \in Hops(RemoveEntry(t, cd)) : RemoveEntry(t, cd)[h[1]][h[2]] = t[h[1]][h[2]]
<1> DEFINE n == RemoveEntry(t, cd)
           S == {h \in Hops(t) : h[1] # cd}
<1>1. DOMAIN n = DOMAIN t \ {cd} /\ \A c \in DOMAIN n : n[c] = t[c]
  BY DEF RemoveEntry
<1>2. ASSUME NEW c, NEW i
      PROVE  <<c, i>> \in Hops(n) <=> <<c, i>> \in S
  BY <1>1, HopsMembership
<1>3. \A h \in S : h = <<h[1], h[2]>>
  BY HopsMembership
<1>4. \A h \in Hops(n) : n[h[1]][h[2]] = t[h[1]][h[2]]
  BY <1>1, HopsMembership
<1> HIDE DEF n, S
<1>5. Hops(n) = S
  BY <1>2, <1>3, HopsEquality
<1> QED BY <1>4, <1>5 DEF n, S

LEMMA RemoveEntryTable ==
  ASSUME NEW t, NEW C, NEW X, NEW cd
  PROVE  /\ IsTable(t, C, X) => IsTable(RemoveEntry(t, cd), C, X)
         /\ AllEntriesUsed(t) => AllEntriesUsed(RemoveEntry(t, cd))
  BY DEF IsTable, AllEntriesUsed, RemoveEntry

(* RemoveHop takes away one pair. *)
LEMMA RemoveHopHops ==
  ASSUME NEW t, NEW cd, NEW id
  PROVE  /\ Hops(RemoveHop(t, cd, id)) = Hops(t) \ {<<cd, id>>}
         /\ \A h \in Hops(RemoveHop(t, cd, id)) : RemoveHop(t, cd, id)[h[1]][h[2]] = t[h[1]][h[2]]
<1> DEFINE n == RemoveHop(t, cd, id)
           S == Hops(t) \ {<<cd, id>>}
<1>1. \A h \in S : h = <<h[1], h[2]>>
  BY HopsMembership
<1>2. CASE HopsOf(t, cd) \subseteq {id}
  <2>1. n = RemoveEntry(t, cd)
    BY <1>2 DEF RemoveHop
  <2>2. {h \in Hops(t) : h[1] # cd} = S
    BY <1>2, HopsMembership DEF HopsOf
  <2> QED BY <2>1, <2>2, RemoveEntryHops
<1>3. CASE ~(HopsOf(t, cd) \subseteq {id})
  <2>1. cd \in DOMAIN t
    BY <1>3 DEF HopsOf
  <2>2. DOMAIN n = DOMAIN t /\ DOMAIN n[cd] = DOMAIN t[cd] \ {id}
    BY <1>3, <2>1 DEF RemoveHop
  <2>3. \A c \in DOMAIN t : c # cd => n[c] = t[c]
    BY <1>3 DEF RemoveHop
  <2>4. \A i \in DOMAIN n[cd] : n[cd][i] = t[cd][i]
    BY <1>3, <2>1 DEF RemoveHop
  <2> HIDE DEF n
  <2>5. ASSUME NEW c, NEW i
        PROVE  <<c, i>> \in Hops(n) <=> <<c, i>> \in S
    BY <2>1, <2>2, <2>3, HopsMembership
  <2> HIDE DEF S
  <2>6. Hops(n) = S
    BY <2>5, <1>1, HopsEquality
  <2>7. \A h \in Hops(n) : n[h[1]][h[2]] = t[h[1]][h[2]]
    BY <2>2, <2>3, <2>4, HopsMembership
  <2> QED BY <2>6, <2>7 DEF n, S
<1> QED BY <1>2, <1>3

LEMMA RemoveHopTable ==
  ASSUME NEW t, NEW C, NEW X, NEW cd, NEW id
  PROVE  /\ IsTable(t, C, X) => IsTable(RemoveHop(t, cd, id), C, X)
         /\ AllEntriesUsed(t) => AllEntriesUsed(RemoveHop(t, cd, id))
<1>1. CASE HopsOf(t, cd) \subseteq {id}
  BY <1>1, RemoveEntryTable DEF RemoveHop
<1>2. CASE ~(HopsOf(t, cd) \subseteq {id})
  <2>1. cd \in DOMAIN t /\ ~(DOMAIN t[cd] \subseteq {id})
    BY <1>2 DEF HopsOf
  <2> QED BY <1>2, <2>1 DEF RemoveHop, IsTable, AllEntriesUsed
<1> QED BY <1>1, <1>2

(* RemoveFace takes away every pair of one face and leaves no entry empty, *)
(* whether or not there was an empty one before.                           *)
LEMMA RemoveFaceHops ==
  ASSUME NEW t, NEW id
  PROVE  /\ Hops(RemoveFace(t, id)) = {h \in Hops(t) : h[2] # id}
         /\ \A h \in Hops(RemoveFace(t, id)) : RemoveFace(t, id)[h[1]][h[2]] = t[h[1]][h[2]]
         /\ AllEntriesUsed(RemoveFace(t, id))
<1> DEFINE n == RemoveFace(t, id)
           S == {h \in Hops(t) : h[2] # id}
<1>1. \A h \in S : h = <<h[1], h[2]>>
  BY HopsMembership
<1>2. DOMAIN n = {c \in DOMAIN t : ~(DOMAIN t[c] \subseteq {id})}
  BY DEF RemoveFace
<1>3. \A c \in DOMAIN n : /\ DOMAIN n[c] = DOMAIN t[c] \ {id}
                          /\ \A i \in DOMAIN n[c] : n[c][i] = t[c][i]
  BY DEF RemoveFace
<1> HIDE DEF n
<1>4. ASSUME NEW c, NEW i
      PROVE  <<c, i>> \in Hops(n) <=> <<c, i>> \in S
  <2>1. <<c, i>> \in Hops(n) => <<c, i>> \in S
    BY <1>2, <1>3, HopsMembership
  <2>2. <<c, i>> \in S => <<c, i>> \in Hops(n)
    BY <1>2, <1>3, HopsMembership
  <2> QED BY <2>1, <2>2
<1>5. \A h \in Hops(n) : n[h[1]][h[2]] = t[h[1]][h[2]]
  BY <1>2, <1>3, HopsMembership
<1>6. AllEntriesUsed(n)
  BY <1>2, <1>3 DEF AllEntriesUsed
<1> HIDE DEF S
<1>7. Hops(n) = S
  BY <1>1, <1>4, HopsEquality
<1> QED BY <1>5, <1>6, <1>7 DEF n, S

LEMMA RemoveFaceTable ==
  ASSUME NEW t, NEW C, NEW X, NEW id
  PROVE  IsTable(t, C, X) => IsTable(RemoveFace(t, id), C, X)
  BY DEF IsTable, RemoveFace

-----------------------------------------------------------------------------
(***************************************************************************)
(* Lookups.                                                                *)
(***************************************************************************)

(* A set of naturals that is not empty has a least element. *)
LEMMA LeastExists ==
  ASSUME NEW T \in SUBSET Nat, T # {}
  PROVE  \E x \in T : \A y \in T : x <= y
<1>1. PICK x \in T : \A y \in T : ~(<<y, x>> \in OpToRel(<, Nat))
  BY WFMin, NatLessThanWellFounded
<1>2. \A y \in T : ~(y < x)
  BY <1>1 DEF OpToRel
<1> QED BY <1>2

(* Induction over a set of naturals. *)
LEMMA NatSetInduction ==
  ASSUME NEW T, 0 \in T, \A n \in Nat : n \in T => n + 1 \in T
  PROVE  \A n \in Nat : n \in T
<1> DEFINE others == {n \in Nat : n \notin T}
<1>1. CASE others # {}
  <2>1. others \in SUBSET Nat
    OBVIOUS
  <2> HIDE DEF others
  <2>2. PICK x \in others : \A y \in others : x <= y
    BY <1>1, <2>1, LeastExists
  <2>3. x \in Nat /\ x \notin T
    BY DEF others
  <2>4. x - 1 \in Nat /\ x - 1 \notin others
    BY <2>2, <2>3
  <2>5. x - 1 \in T
    BY <2>4 DEF others
  <2>6. (x - 1) + 1 \in T
    BY <2>4, <2>5
  <2> QED BY <2>3, <2>6
<1>2. CASE others = {}
  BY <1>2
<1> QED BY <1>1, <1>2

(* A recursive function over a finite measure exists.  In each step it is  *)
(* applied to one argument at most, of less measure.                       *)
Recursion(f, D, more, next, base, step) ==
  \A x \in D : f[x] = IF x \in more THEN step[x][f[next[x]]] ELSE base[x]

LEMMA RecursionExists ==
  ASSUME NEW D, NEW N \in Nat, NEW measure \in [D -> 0..N], NEW more \in SUBSET D,
         NEW next \in [more -> D], \A x \in more : measure[next[x]] < measure[x],
         NEW V, NEW base \in [D -> V], NEW step \in [D -> [V -> V]]
  PROVE  \E f \in [D -> V] : Recursion(f, D, more, next, base, step)
<1> DEFINE Upto(f, k) ==
             \A x \in D : measure[x] < k => f[x] = IF x \in more THEN step[x][f[next[x]]] ELSE base[x]
           T == {k \in Nat : \E f \in [D -> V] : Upto(f, k)}
<1>1. \A x \in D : measure[x] \in Nat /\ measure[x] < N + 1
  OBVIOUS
<1>2. 0 \in T
  <2>1. \A f : Upto(f, 0)
    BY <1>1
  <2> QED BY <2>1
<1>3. ASSUME NEW k \in Nat, k \in T PROVE k + 1 \in T
  <2>1. PICK f \in [D -> V] : Upto(f, k)
    BY <1>3
  <2> DEFINE g == [x \in D |-> IF measure[x] = k
                               THEN IF x \in more THEN step[x][f[next[x]]] ELSE base[x]
                               ELSE f[x]]
  <2>2. g \in [D -> V]
    <3>1. \A x \in more : f[next[x]] \in V /\ step[x][f[next[x]]] \in V
      OBVIOUS
    <3> QED BY <3>1
  <2>3. ASSUME NEW x \in more, measure[x] <= k PROVE g[next[x]] = f[next[x]]
    <3>1. next[x] \in D /\ measure[next[x]] # k
      BY <1>1, <2>3
    <3> QED BY <3>1
  <2>4. ASSUME NEW x \in D, measure[x] < k + 1
        PROVE  g[x] = IF x \in more THEN step[x][g[next[x]]] ELSE base[x]
    <3> DEFINE mx == measure[x]
    <3>1. mx <= k /\ (mx # k => mx < k)
      <4>1. mx \in Nat /\ mx < k + 1
        BY <1>1, <2>4
      <4> HIDE DEF mx
      <4> QED BY <4>1
    <3>2. CASE measure[x] = k
      BY <2>3, <3>1, <3>2
    <3>3. CASE measure[x] < k
      BY <2>1, <2>3, <3>1, <3>3
    <3> QED BY <3>1, <3>2, <3>3
  <2>5. Upto(g, k + 1)
    BY <2>4
  <2> HIDE DEF g, Upto
  <2> QED BY <2>2, <2>5
<1> HIDE DEF T
<1>4. N + 1 \in T
  BY <1>2, <1>3, NatSetInduction
<1>5. PICK f \in [D -> V] : Upto(f, N + 1)
  BY <1>4 DEF T
<1>6. Recursion(f, D, more, next, base, step)
  BY <1>1, <1>5 DEF Recursion
<1> QED BY <1>6

(* The entry with the longest name is an entry. *)
LEMMA LongestPrefixOK ==
  ASSUME NEW C \in SUBSET CdBlocks, NEW t, DOMAIN t \subseteq C,
         NEW cd \in CdBlocks, PrefixEntries(t, cd) # {}
  PROVE  LongestPrefix(t, cd) \in PrefixEntries(t, cd)
<1> DEFINE missing == {Len(cd) - Len(name) : name \in PrefixEntries(t, cd)}
<1>1. \A name \in PrefixEntries(t, cd) : Len(name) \in Nat /\ Len(cd) \in Nat /\ Len(name) <= Len(cd)
  BY DEF PrefixEntries, IsPrefixOf, CdBlocks
<1>2. missing \in SUBSET Nat /\ missing # {}
  BY <1>1
<1>3. PICK x \in missing : \A y \in missing : x <= y
  BY <1>2, LeastExists
<1>4. PICK name \in PrefixEntries(t, cd) : x = Len(cd) - Len(name)
  BY <1>3
<1>5. ASSUME NEW other \in PrefixEntries(t, cd) PROVE Len(other) <= Len(name)
  <2>1. Len(cd) - Len(name) <= Len(cd) - Len(other)
    BY <1>3, <1>4
  <2>2. Len(cd) \in Nat /\ Len(name) \in Nat /\ Len(other) \in Nat
    BY <1>1
  <2> HIDE DEF missing
  <2> QED BY <2>1, <2>2
<1> QED BY <1>5 DEF LongestPrefix

(* The cheapest next hop of an entry that has one is one of its next hops. *)
LEMMA CheapestOK ==
  ASSUME NEW D \in SUBSET Nat, D # {}, NEW hops \in [D -> Nat]
  PROVE  Cheapest(hops) \in D
<1> DEFINE costs == {hops[id] : id \in D}
<1>1. PICK c \in costs : \A y \in costs : c <= y
  <2>1. costs \in SUBSET Nat /\ costs # {}
    OBVIOUS
  <2> HIDE DEF costs
  <2> QED BY <2>1, LeastExists
<1> DEFINE cheap == {id \in D : hops[id] = c}
<1>2. PICK id \in cheap : \A y \in cheap : id <= y
  <2>1. cheap \in SUBSET Nat /\ cheap # {}
    BY <1>1
  <2> HIDE DEF cheap
  <2> QED BY <2>1, LeastExists
<1>3. \A other \in D : \/ hops[id] < hops[other]
                       \/ hops[id] = hops[other] /\ id <= other
  BY <1>1, <1>2
<1> QED BY <1>2, <1>3 DEF Cheapest

(* The faces that a PubFromRp goes to are those of the next hops that      *)
(* match.                                                                  *)
LEMMA StMatchHops ==
  ASSUME NEW t, NEW cd, NEW x
  PROVE  x \in StMatch(t, cd) <=> \E hop \in Hops(t) : hop[2] = x /\ MatchRegex(hop[1], cd)
<1>1. ASSUME x \in StMatch(t, cd)
      PROVE  \E hop \in Hops(t) : hop[2] = x /\ MatchRegex(hop[1], cd)
  <2>1. PICK c \in DOMAIN t : MatchRegex(c, cd) /\ x \in DOMAIN t[c]
    BY <1>1 DEF StMatch
  <2>2. <<c, x>> \in Hops(t)
    BY <2>1, HopsMembership
  <2> QED BY <2>1, <2>2
<1>2. ASSUME NEW hop \in Hops(t), hop[2] = x, MatchRegex(hop[1], cd)
      PROVE  x \in StMatch(t, cd)
  BY <1>2, HopsMembership DEF StMatch
<1> QED BY <1>1, <1>2

(* The face that a PubToRp goes to is the face of a next hop.              *)
LEMMA FibMatchHops ==
  ASSUME NEW t, IsTable(t, CdBlocks, Nat), AllEntriesUsed(t),
         \A hop \in Hops(t) : hop[2] \in Nat,
         NEW cd \in CdBlocks, NEW x \in FibMatch(t, cd)
  PROVE  \E hop \in Hops(t) : hop[2] = x
<1> DEFINE longest == LongestPrefix(t, cd)
<1>1. PrefixEntries(t, cd) # {} /\ x = Cheapest(t[longest])
  BY DEF FibMatch
<1>2. longest \in DOMAIN t
  <2>1. CdBlocks \in SUBSET CdBlocks /\ DOMAIN t \subseteq CdBlocks
    BY DEF IsTable
  <2>2. longest \in PrefixEntries(t, cd)
    BY <1>1, <2>1, LongestPrefixOK
  <2> QED BY <2>2 DEF PrefixEntries
<1> HIDE DEF longest
<1>3. \A id \in DOMAIN t[longest] : <<longest, id>> \in Hops(t)
  BY <1>2, HopsMembership
<1>4. DOMAIN t[longest] \in SUBSET Nat /\ DOMAIN t[longest] # {}
  BY <1>2, <1>3 DEF AllEntriesUsed
<1>5. t[longest] \in [DOMAIN t[longest] -> Nat]
  BY <1>2 DEF IsTable
<1>6. x \in DOMAIN t[longest]
  BY <1>1, <1>4, <1>5, CheapestOK
<1> QED BY <1>3, <1>6

=============================================================================

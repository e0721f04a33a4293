---------------------------- MODULE RtctrlProofs ----------------------------
(***************************************************************************)
(* Proofs, for all URIs, command lines and FIB files and whatever the      *)
(* router does between two requests: that the parser of URIs accepts their *)
(* grammar, that the router understands what rtctrl sends, that a file is  *)
(* loaded line by line, that a route deleted by its remote is gone, and    *)
(* that a dump names the faces of its next hops.  What a URI or a command  *)
(* line becomes is a fold over its words, its options, or the entries of a *)
(* file: the first half is about these folds, the second about the steps   *)
(* of the programs.  The matching loop is here too, for it starts from a   *)
(* URI: it accepts what the subscription stands for, as the function       *)
(* MatchRegex of the router's model does.  Last comes the order of CDs:    *)
(* octets, and types, lengths and values, decide alike.                    *)
(***************************************************************************)
EXTENDS Rtctrl, CdMatch, DataProofs, FiniteSetTheorems

(***************************************************************************)
(* Folds.                                                                  *)
(***************************************************************************)
LEMMA GreatestExists ==
  ASSUME NEW n \in Nat, NEW s \in SUBSET (1..n), s # {}
  PROVE  Max(s) \in s /\ Max(s) \in 1..n /\ \A x \in s : x <= Max(s)
<1> DEFINE below == {n - x : x \in s}
<1>1. below \in SUBSET Nat /\ below # {}
  OBVIOUS
<1>2. PICK y \in below : \A z \in below : y <= z
  <2> HIDE DEF below
  <2> QED BY <1>1, LeastExists
<1>3. PICK m \in s : y = n - m
  OBVIOUS
<1>4. m \in 1..n
  OBVIOUS
<1>5. ASSUME NEW x \in s PROVE m >= x
  <2>1. n - m <= n - x
    BY <1>2, <1>3
  <2>2. x \in 1..n
    OBVIOUS
  <2> HIDE DEF below
  <2> QED BY <1>4, <2>1, <2>2
<1>6. \E a \in s : \A b \in s : a >= b
  BY <1>5
<1>7. Max(s) \in s /\ \A b \in s : Max(s) >= b
  BY <1>6, Zenon DEF Max
<1>8. \A x \in s : x \in 1..n
  OBVIOUS
<1> HIDE DEF below
<1> QED BY <1>7, <1>8

(* The iteration that FoldLeft is, over the indices of a sequence.         *)
IsFold(f, n, base, step) ==
  \A s \in SUBSET (1..n) : f[s] = IF s = {} THEN base ELSE step[Max(s)][f[s \ {Max(s)}]]

(* Such an iteration exists, over any set of values.                       *)
LEMMA FoldExists ==
  ASSUME NEW n \in Nat, NEW V, NEW base \in V, NEW step \in [1..n -> [V -> V]]
  PROVE  \E f \in [SUBSET (1..n) -> V] : IsFold(f, n, base, step)
<1> DEFINE D       == SUBSET (1..n)
           more    == D \ {{}}
           measure == [s \in D |-> IF s = {} THEN 0 ELSE Max(s)]
           next    == [s \in more |-> s \ {Max(s)}]
           first   == [s \in D |-> base]
           apply   == [s \in D |-> IF s = {} THEN [v \in V |-> v] ELSE step[Max(s)]]
<1>1. \A s \in more : Max(s) \in s /\ Max(s) \in 1..n /\ \A x \in s : x <= Max(s)
  BY GreatestExists
<1>2. measure \in [D -> 0..n]
  BY <1>1
<1>3. more \in SUBSET D /\ next \in [more -> D] /\ first \in [D -> V]
  OBVIOUS
<1>4. apply \in [D -> [V -> V]]
  BY <1>1
<1>5. ASSUME NEW s \in more PROVE measure[next[s]] < measure[s]
  <2>1. PICK m : m = Max(s)
    OBVIOUS
  <2>2. m \in 1..n /\ m \in s /\ \A x \in s : x <= m
    BY <1>1, <2>1
  <2>3. PICK t : t = next[s]
    OBVIOUS
  <2>4. t = s \ {m} /\ t \in D
    BY <2>1, <2>3
  <2>5. measure[s] = m
    BY <2>1
  <2>6. CASE t = {}
    <3>1. measure[t] = 0
      BY <2>4, <2>6
    <3>2. 0 < m
      BY <2>2
    <3> HIDE DEF measure, next, more
    <3> QED BY <2>3, <2>5, <3>1, <3>2
  <2>7. CASE t # {}
    <3>1. PICK k : k = Max(t)
      OBVIOUS
    <3>2. k \in t /\ k \in 1..n
      BY <1>1, <2>4, <2>7, <3>1
    <3>3. measure[t] = k
      BY <2>4, <2>7, <3>1
    <3>4. k < m
      BY <2>2, <2>4, <3>2
    <3> HIDE DEF measure, next, more
    <3> QED BY <2>3, <2>5, <3>3, <3>4
  <2> QED BY <2>6, <2>7
<1>6. \E f \in [D -> V] : Recursion(f, D, more, next, first, apply)
  <2> HIDE DEF D, more, measure, next, first, apply
  <2> QED BY <1>2, <1>3, <1>4, <1>5, RecursionExists
<1>7. PICK f \in [D -> V] : Recursion(f, D, more, next, first, apply)
  BY <1>6
<1>8. ASSUME NEW s \in D PROVE f[s] = IF s = {} THEN base ELSE step[Max(s)][f[s \ {Max(s)}]]
  <2>1. f[s] = IF s \in more THEN apply[s][f[next[s]]] ELSE first[s]
    BY <1>7 DEF Recursion
  <2>2. CASE s = {}
    BY <2>1, <2>2
  <2>3. CASE s # {}
    <3>1. s \in more /\ next[s] = s \ {Max(s)} /\ apply[s] = step[Max(s)]
      BY <2>3
    <3> HIDE DEF more, next, apply, first
    <3> QED BY <2>1, <2>3, <3>1
  <2> QED BY <2>2, <2>3
<1> QED BY <1>7, <1>8 DEF IsFold

(* The greatest of the first i indices is i, and i-1 are left.             *)
LEMMA FirstIndices ==
  ASSUME NEW n \in Nat, NEW i \in 1..n
  PROVE  1..i \in SUBSET (1..n) /\ 1..i # {} /\ Max(1..i) = i /\ (1..i) \ {i} = 1..i-1
<1>1. 1..i \in SUBSET (1..n) /\ 1..i # {} /\ i \in 1..i
  OBVIOUS
<1>2. PICK s : s = 1..i
  OBVIOUS
<1>3. Max(s) \in s /\ \A x \in s : x <= Max(s)
  BY <1>1, <1>2, GreatestExists
<1>4. Max(s) = i
  <2>1. PICK m : m = Max(s)
    OBVIOUS
  <2>2. m \in 1..i /\ i <= m
    BY <1>1, <1>2, <1>3, <2>1
  <2> QED BY <2>1, <2>2
<1>5. (1..i) \ {i} = 1..i-1
  OBVIOUS
<1>6. Max(1..i) = i
  BY <1>2, <1>4
<1> QED BY <1>1, <1>5, <1>6
-----------------------------------------------------------------------------
(***************************************************************************)
(* The parameters that a list of options makes.                            *)
(***************************************************************************)
IsParamsFold(f, n, options) ==
  f = [s \in SUBSET (1..n) |->
         IF s = {} THEN NoParam ELSE With(f[s \ {Max(s)}], ParamOf(options[Max(s)]))]

(* No list of options makes the parameters Illegal and legal at once.      *)
LEMMA IllegalIsNoParam == ~IsParam(Illegal) /\ IsParam(NoParam)
<1>1. "ILLEGAL" \in DOMAIN Illegal
  BY DEF Illegal
<1>2. "ILLEGAL" \notin DOMAIN NoParam
  BY DEF NoParam
<1> QED BY <1>1, <1>2 DEF IsParam

(* The parameters are made option by option.                               *)
LEMMA ParamsFold ==
  ASSUME NEW options, NEW n \in Nat, DOMAIN options = 1..n
  PROVE  \E p : /\ p[0] = NoParam /\ p[n] = ParamsOf(options)
                /\ \A i \in 1..n : p[i] = With(p[i-1], ParamOf(options[i]))
<1> DEFINE keys   == UNION {DOMAIN ParamOf(options[i]) : i \in 1..n}
           values == {""} \cup UNION {{ParamOf(options[i])[k] : k \in keys} : i \in 1..n}
           V      == {Illegal} \cup UNION {[D -> values] : D \in SUBSET keys}
           step   == [i \in 1..n |-> [v \in V |-> With(v, ParamOf(options[i]))]]
<1>1. ASSUME NEW D \in SUBSET keys, NEW v \in [D -> values] PROVE v \in V
  BY <1>1
<1>2. NoParam \in V
  <2>1. NoParam \in [{} -> values] /\ {} \in SUBSET keys
    BY DEF NoParam
  <2> QED BY <1>1, <2>1
<1>3. Illegal \in V
  OBVIOUS
<1>4. ASSUME NEW i \in 1..n, NEW v \in V PROVE With(v, ParamOf(options[i])) \in V
  <2>1. v = Illegal \/ \E D \in SUBSET keys : v \in [D -> values]
    OBVIOUS
  <2>2. PICK new : new = ParamOf(options[i])
    OBVIOUS
  <2>3. DOMAIN new \in SUBSET keys
    <3>1. DOMAIN new \in {DOMAIN ParamOf(options[j]) : j \in 1..n}
      BY <2>2
    <3> QED BY <3>1
  <2>4. ASSUME NEW k \in DOMAIN new PROVE new[k] \in values
    <3>1. k \in keys
      BY <2>3
    <3>2. new[k] \in {ParamOf(options[i])[j] : j \in keys}
      <4> HIDE DEF keys
      <4> QED BY <2>2, <3>1
    <3>3. {ParamOf(options[i])[j] : j \in keys} \in {{ParamOf(options[a])[j] : j \in keys} : a \in 1..n}
      <4> HIDE DEF keys
      <4> QED OBVIOUS
    <3> QED BY <3>2, <3>3
  <2> HIDE DEF V, keys, values
  <2>5. CASE IsParam(v) /\ IsParam(new)
    <3>1. PICK D \in SUBSET keys : v \in [D -> values]
      BY <2>1, <2>5, IllegalIsNoParam
    <3> DEFINE E == D \cup DOMAIN new
    <3>2. With(v, new) = [k \in E |-> IF k \in DOMAIN new THEN new[k] ELSE v[k]]
      BY <2>5, <3>1 DEF With
    <3>3. E \in SUBSET keys /\ With(v, new) \in [E -> values]
      BY <2>3, <2>4, <3>1, <3>2
    <3> QED BY <1>1, <2>2, <3>3
  <2>6. CASE ~(IsParam(v) /\ IsParam(new))
    BY <1>3, <2>2, <2>6 DEF With
  <2> QED BY <2>5, <2>6
<1>5. step \in [1..n -> [V -> V]]
  BY <1>4
<1>6. PICK f \in [SUBSET (1..n) -> V] : IsFold(f, n, NoParam, step)
  <2> HIDE DEF V, step
  <2> QED BY <1>2, <1>5, FoldExists
<1>7. ASSUME NEW s \in SUBSET (1..n)
      PROVE  f[s] = IF s = {} THEN NoParam ELSE With(f[s \ {Max(s)}], ParamOf(options[Max(s)]))
  <2>1. f[s] = IF s = {} THEN NoParam ELSE step[Max(s)][f[s \ {Max(s)}]]
    BY <1>6 DEF IsFold
  <2>2. CASE s # {}
    <3>1. PICK m : m = Max(s)
      OBVIOUS
    <3>2. m \in 1..n
      BY <2>2, <3>1, GreatestExists
    <3>3. PICK v : v = f[s \ {m}]
      OBVIOUS
    <3>4. v \in V
      <4> HIDE DEF V
      <4> QED BY <1>6, <3>3
    <3>5. step[m][v] = With(v, ParamOf(options[m]))
      <4> HIDE DEF V
      <4> QED BY <3>2, <3>4
    <3> HIDE DEF V, step
    <3> QED BY <2>1, <2>2, <3>1, <3>3, <3>5
  <2> QED BY <2>1, <2>2
<1> HIDE DEF keys, values, V, step
<1>8. IsParamsFold(f, n, options)
  <2>1. f = [s \in SUBSET (1..n) |-> f[s]]
    BY <1>6
  <2> QED BY <1>7, <2>1 DEF IsParamsFold
<1>9. PICK g : g = CHOOSE h : IsParamsFold(h, n, options)
  OBVIOUS
<1>10. IsParamsFold(g, n, options)
  BY <1>8, <1>9, Zenon
<1>11. ParamsOf(options) = g[1..n]
  BY <1>9, Zenon DEF ParamsOf, FoldLeft, MapThenFoldSet, IsParamsFold
<1>12. \A s \in SUBSET (1..n) : g[s] = IF s = {} THEN NoParam ELSE With(g[s \ {Max(s)}], ParamOf(options[Max(s)]))
  BY <1>10, Zenon DEF IsParamsFold
<1> DEFINE p == [i \in 0..n |-> g[1..i]]
<1>13. p[0] = NoParam
  <2>1. 1..0 = {} /\ {} \in SUBSET (1..n) /\ 0 \in 0..n
    OBVIOUS
  <2>2. g[{}] = NoParam
    BY <1>12, <2>1
  <2> QED BY <2>1, <2>2
<1>14. ASSUME NEW i \in 1..n PROVE p[i] = With(p[i-1], ParamOf(options[i]))
  <2>1. 1..i \in SUBSET (1..n) /\ 1..i # {} /\ Max(1..i) = i /\ (1..i) \ {i} = 1..i-1
    BY FirstIndices
  <2>2. g[1..i] = With(g[1..i-1], ParamOf(options[i]))
    BY <1>12, <2>1
  <2>3. i \in 0..n /\ i - 1 \in 0..n
    OBVIOUS
  <2> QED BY <2>2, <2>3
<1>15. p[n] = ParamsOf(options)
  BY <1>11
<1> HIDE DEF p
<1> QED BY <1>13, <1>14, <1>15
-----------------------------------------------------------------------------
(* The values of the keys that the server looks into.                      *)
ParamIsGood(param) ==
  /\ "TYPE" \in DOMAIN param => param.TYPE \in {"tcp", "udp"}
  /\ "COST" \in DOMAIN param => IsNumber(param.COST)

(* What an option is turned into is good, or Illegal.                      *)
LEMMA ParamOfIsGood ==
  ASSUME NEW option
  PROVE  ParamIsGood(ParamOf(option))
<1>1. ParamIsGood(Illegal)
  BY DEF ParamIsGood, Illegal
<1>2. \A v : ParamIsGood([NAME |-> v]) /\ ParamIsGood([FACE |-> v])
  BY DEF ParamIsGood
<1>3. \A v, w : ParamIsGood([IP |-> v, PORT |-> w])
  BY DEF ParamIsGood
<1>4. ParamIsGood(ParamName(option[2])) /\ ParamIsGood(ParamFaceID(option[2]))
  BY <1>1, <1>2 DEF ParamName, ParamFaceID
<1>5. ParamIsGood(ParamType(option[2]))
  <2>1. ParamIsGood([TYPE |-> "tcp"]) /\ ParamIsGood([TYPE |-> "udp"])
    BY DEF ParamIsGood
  <2> QED BY <1>1, <2>1 DEF ParamType
<1>6. ParamIsGood(ParamRemote(option[2]))
  BY <1>1, <1>3 DEF ParamRemote
<1>7. ParamIsGood(ParamCost(option[2]))
  <2>1. IsNumber(option[2]) => ParamIsGood([COST |-> option[2]])
    BY DEF ParamIsGood
  <2> QED BY <1>1, <2>1 DEF ParamCost
<1> QED BY <1>1, <1>4, <1>5, <1>6, <1>7 DEF ParamOf

(* Parameters that are joined stay good.                                   *)
LEMMA WithIsGood ==
  ASSUME NEW param, NEW new, ParamIsGood(param), ParamIsGood(new)
  PROVE  ParamIsGood(With(param, new))
<1>1. CASE IsParam(param) /\ IsParam(new)
  <2> DEFINE E == DOMAIN param \cup DOMAIN new
  <2>1. With(param, new) = [k \in E |-> IF k \in DOMAIN new THEN new[k] ELSE param[k]]
    BY <1>1 DEF With
  <2>2. DOMAIN With(param, new) = E
    BY <2>1
  <2>3. ASSUME NEW k \in E
        PROVE  \/ k \in DOMAIN new /\ With(param, new)[k] = new[k]
               \/ k \in DOMAIN param /\ With(param, new)[k] = param[k]
    BY <2>1
  <2> QED BY <2>2, <2>3 DEF ParamIsGood
<1>2. CASE ~(IsParam(param) /\ IsParam(new))
  <2>1. With(param, new) = Illegal
    BY <1>2 DEF With
  <2> QED BY <2>1 DEF ParamIsGood, Illegal
<1> QED BY <1>1, <1>2

(* Whatever the options, their parameters are good.                        *)
LEMMA ParamsAreGood ==
  ASSUME NEW options, NEW n \in Nat, DOMAIN options = 1..n
  PROVE  ParamIsGood(ParamsOf(options))
<1>1. PICK p : /\ p[0] = NoParam /\ p[n] = ParamsOf(options)
               /\ \A i \in 1..n : p[i] = With(p[i-1], ParamOf(options[i]))
  BY ParamsFold
<1> DEFINE T == {i \in Nat : i <= n => ParamIsGood(p[i])}
<1>2. 0 \in T
  <2>1. ParamIsGood(NoParam)
    BY DEF ParamIsGood, NoParam
  <2> QED BY <1>1, <2>1
<1>3. ASSUME NEW i \in Nat, i \in T PROVE i + 1 \in T
  <2> SUFFICES ASSUME i + 1 <= n PROVE ParamIsGood(p[i + 1])
    OBVIOUS
  <2>1. PICK j : j = i + 1
    OBVIOUS
  <2>2. j \in 1..n /\ j - 1 = i /\ i <= n
    BY <2>1
  <2>3. ParamIsGood(p[i])
    BY <1>3, <2>2
  <2>4. p[j] = With(p[i], ParamOf(options[j]))
    BY <1>1, <2>2
  <2>5. ParamIsGood(p[j])
    BY <2>3, <2>4, ParamOfIsGood, WithIsGood
  <2> QED BY <2>1, <2>5
<1> HIDE DEF T
<1>4. n \in T
  BY <1>2, <1>3, NatSetInduction
<1>5. ParamIsGood(p[n])
  BY <1>4 DEF T
<1> QED BY <1>1, <1>5

-----------------------------------------------------------------------------
(* The parameters of one route of a FIB file.                              *)
AddKeys == {"NAME", "TYPE", "IP", "PORT", "COST"}

IsRoute(param, name, type, remote, cost) ==
  /\ DOMAIN param = AddKeys
  /\ IsLegal(name) /\ param.NAME = ToUri(CdOf(name))
  /\ IsParam(ParamType(type)) /\ param.TYPE = ParamType(type).TYPE
  /\ IsParam(ParamRemote(remote))
  /\ param.IP = ParamRemote(remote).IP /\ param.PORT = ParamRemote(remote).PORT
  /\ param.COST = cost /\ IsNumber(cost)

Joins(both, param, new) ==
  /\ IsParam(param) /\ IsParam(new)
  /\ DOMAIN both = DOMAIN param \cup DOMAIN new
  /\ \A k \in DOMAIN new : both[k] = new[k]
  /\ \A k \in DOMAIN param \ DOMAIN new : both[k] = param[k]

(* What a legal union of parameters is made of.                            *)
LEMMA WithJoins ==
  ASSUME NEW param, NEW new, NEW both, both = With(param, new), IsParam(both)
  PROVE  Joins(both, param, new)
<1>1. IsParam(param) /\ IsParam(new)
  BY IllegalIsNoParam DEF With
<1>2. both = [k \in DOMAIN param \cup DOMAIN new |-> IF k \in DOMAIN new THEN new[k] ELSE param[k]]
  BY <1>1 DEF With
<1> QED BY <1>1, <1>2 DEF Joins

(* The four options of a route of a file, when they are legal.             *)
LEMMA RouteOfFour ==
  ASSUME NEW name, NEW type, NEW remote, NEW cost, NEW param,
         param = ParamsOf(<< <<"-n", name>>, <<"-t", type>>, <<"-r", remote>>, <<"-c", cost>> >>),
         IsParam(param)
  PROVE  IsRoute(param, name, type, remote, cost)
<1>1. PICK options : options = << <<"-n", name>>, <<"-t", type>>, <<"-r", remote>>, <<"-c", cost>> >>
  OBVIOUS
<1>2. DOMAIN options = 1..4 /\ 4 \in Nat
  BY <1>1
<1>3. PICK p : /\ p[0] = NoParam /\ p[4] = ParamsOf(options)
               /\ \A i \in 1..4 : p[i] = With(p[i-1], ParamOf(options[i]))
  BY <1>2, ParamsFold
<1>4. /\ p[1] = With(p[0], ParamOf(options[1])) /\ p[2] = With(p[1], ParamOf(options[2]))
      /\ p[3] = With(p[2], ParamOf(options[3])) /\ p[4] = With(p[3], ParamOf(options[4]))
  <2>1. 1 \in 1..4 /\ 2 \in 1..4 /\ 3 \in 1..4 /\ 4 \in 1..4 /\ 1-1 = 0 /\ 2-1 = 1 /\ 3-1 = 2 /\ 4-1 = 3
    OBVIOUS
  <2> QED BY <1>3, <2>1
<1>5. ParamOf(options[1]) = ParamName(name)
  <2>1. options[1][1] = "-n" /\ options[1][2] = name
    BY <1>1
  <2> QED BY <2>1 DEF ParamOf
<1>6. ParamOf(options[2]) = ParamType(type)
  <2>1. options[2][1] = "-t" /\ options[2][2] = type
    BY <1>1
  <2> QED BY <2>1 DEF ParamOf
<1>7. ParamOf(options[3]) = ParamRemote(remote)
  <2>1. options[3][1] = "-r" /\ options[3][2] = remote
    BY <1>1
  <2> QED BY <2>1 DEF ParamOf
<1>8. ParamOf(options[4]) = ParamCost(cost)
  <2>1. options[4][1] = "-c" /\ options[4][2] = cost
    BY <1>1
  <2> QED BY <2>1 DEF ParamOf
<1>9. PICK a, b, c, d : a = ParamName(name) /\ b = ParamType(type) /\ c = ParamRemote(remote) /\ d = ParamCost(cost)
  OBVIOUS
<1>10. PICK p1, p2, p3 : p1 = p[1] /\ p2 = p[2] /\ p3 = p[3]
  OBVIOUS
<1>11. param = p[4]
  BY <1>1, <1>3
<1>12. p1 = With(NoParam, a) /\ p2 = With(p1, b) /\ p3 = With(p2, c) /\ param = With(p3, d)
  BY <1>3, <1>4, <1>5, <1>6, <1>7, <1>8, <1>9, <1>10, <1>11
<1>13. Joins(param, p3, d)
  BY <1>12, WithJoins
<1>14. Joins(p3, p2, c)
  <2>1. IsParam(p3)
    BY <1>13 DEF Joins
  <2> QED BY <1>12, <2>1, WithJoins
<1>15. Joins(p2, p1, b)
  <2>1. IsParam(p2)
    BY <1>14 DEF Joins
  <2> QED BY <1>12, <2>1, WithJoins
<1>16. Joins(p1, NoParam, a)
  <2>1. IsParam(p1)
    BY <1>15 DEF Joins
  <2> QED BY <1>12, <2>1, WithJoins
<1>17. DOMAIN NoParam = {}
  BY DEF NoParam
<1>18. IsLegal(name) /\ DOMAIN a = {"NAME"} /\ a["NAME"] = ToUri(CdOf(name))
  BY <1>9, <1>16, IllegalIsNoParam DEF ParamName, Joins
<1>19. DOMAIN b = {"TYPE"}
  BY <1>9, <1>15, IllegalIsNoParam DEF ParamType, Joins
<1>20. DOMAIN c = {"IP", "PORT"}
  BY <1>9, <1>14, IllegalIsNoParam DEF ParamRemote, Joins
<1>21. DOMAIN d = {"COST"} /\ d["COST"] = cost /\ IsNumber(cost)
  BY <1>9, <1>13, IllegalIsNoParam DEF ParamCost, Joins
<1>22. DOMAIN param = AddKeys
  BY <1>13, <1>14, <1>15, <1>16, <1>17, <1>18, <1>19, <1>20, <1>21 DEF AddKeys, Joins
<1>23. param["NAME"] = a["NAME"]
  BY <1>13, <1>14, <1>15, <1>16, <1>17, <1>18, <1>19, <1>20, <1>21 DEF Joins
<1>24. param["TYPE"] = b["TYPE"]
  BY <1>13, <1>14, <1>15, <1>18, <1>19, <1>20, <1>21 DEF Joins
<1>25. param["IP"] = c["IP"] /\ param["PORT"] = c["PORT"]
  BY <1>13, <1>14, <1>20, <1>21 DEF Joins
<1>26. param["COST"] = cost
  BY <1>13, <1>21 DEF Joins
<1> QED BY <1>9, <1>13, <1>14, <1>15, <1>18, <1>21, <1>22, <1>23, <1>24, <1>25, <1>26 DEF IsRoute, Joins
-----------------------------------------------------------------------------
(* The same, in the form in which it is used.                              *)
Folded(f, n, V, base, step) ==
  /\ f = [s \in SUBSET (1..n) |-> f[s]]
  /\ f[{}] = base
  /\ \A s \in SUBSET (1..n) :
       s # {} => /\ Max(s) \in 1..n /\ f[s \ {Max(s)}] \in V
                 /\ f[s] = step[Max(s)][f[s \ {Max(s)}]]

LEMMA FoldedExists ==
  ASSUME NEW n \in Nat, NEW V, NEW base \in V, NEW step \in [1..n -> [V -> V]]
  PROVE  \E f : Folded(f, n, V, base, step)
<1>1. PICK f \in [SUBSET (1..n) -> V] : IsFold(f, n, base, step)
  BY FoldExists
<1>2. f = [s \in SUBSET (1..n) |-> f[s]]
  OBVIOUS
<1>3. f[{}] = base
  BY <1>1 DEF IsFold
<1>4. ASSUME NEW s \in SUBSET (1..n), s # {}
      PROVE  Max(s) \in 1..n /\ f[s \ {Max(s)}] \in V /\ f[s] = step[Max(s)][f[s \ {Max(s)}]]
  BY <1>1, <1>4, GreatestExists DEF IsFold
<1> QED BY <1>2, <1>3, <1>4 DEF Folded

-----------------------------------------------------------------------------
(***************************************************************************)
(* Lists of a FIB file.                                                    *)
(***************************************************************************)
IsKeptFold(f, n, csv) ==
  f = [s \in SUBSET (1..n) |->
         IF s = {} THEN <<>>
         ELSE IF csv[Max(s)] = " " THEN f[s \ {Max(s)}] ELSE Append(f[s \ {Max(s)}], csv[Max(s)])]

KeptIn(csv) == FoldLeft(LAMBDA text, c : IF c = " " THEN text ELSE Append(text, c), <<>>, csv)

(* What is kept of a list without its blanks.                              *)
LEMMA KeptFold ==
  ASSUME NEW C, NEW csv \in Seq(C)
  PROVE  KeptIn(csv) \in Seq(C) /\ Len(KeptIn(csv)) <= Len(csv)
<1>1. PICK n \in Nat : DOMAIN csv = 1..n /\ n = Len(csv)
  BY LenProperties
<1> DEFINE V    == Seq(C)
           step == [i \in 1..n |-> [v \in V |-> IF csv[i] = " " THEN v ELSE Append(v, csv[i])]]
<1>2. \A i \in 1..n : csv[i] \in C
  BY <1>1, ElementOfSeq
<1>3. step \in [1..n -> [V -> V]]
  <2>1. ASSUME NEW i \in 1..n, NEW v \in Seq(C) PROVE Append(v, csv[i]) \in Seq(C)
    BY <1>2, AppendProperties
  <2> QED BY <2>1
<1>4. <<>> \in V
  OBVIOUS
<1>5. PICK f : Folded(f, n, V, <<>>, step)
  <2> HIDE DEF V, step
  <2> QED BY <1>3, <1>4, FoldedExists
<1>6. IsKeptFold(f, n, csv)
  <2>1. ASSUME NEW s \in SUBSET (1..n), s # {}
        PROVE  f[s] = IF csv[Max(s)] = " " THEN f[s \ {Max(s)}] ELSE Append(f[s \ {Max(s)}], csv[Max(s)])
    <3>1. PICK m, v : m = Max(s) /\ v = f[s \ {m}]
      OBVIOUS
    <3>2. m \in 1..n /\ v \in V /\ f[s] = step[m][v]
      BY <1>5, <2>1, <3>1 DEF Folded
    <3>3. step[m][v] = IF csv[m] = " " THEN v ELSE Append(v, csv[m])
      BY <3>2
    <3> QED BY <3>1, <3>2, <3>3
  <2> QED BY <1>5, <2>1 DEF IsKeptFold, Folded
<1>7. PICK g : g = CHOOSE h : IsKeptFold(h, n, csv)
  OBVIOUS
<1>8. IsKeptFold(g, n, csv)
  BY <1>6, <1>7, Zenon
<1>9. KeptIn(csv) = g[1..n]
  BY <1>1, <1>7, Zenon DEF KeptIn, FoldLeft, MapThenFoldSet, IsKeptFold
<1> HIDE DEF V, step
<1> DEFINE T == {i \in Nat : i <= n => g[1..i] \in Seq(C) /\ Len(g[1..i]) <= i}
<1>10. 0 \in T
  <2>1. 1..0 = {} /\ {} \in SUBSET (1..n)
    OBVIOUS
  <2>2. g[{}] = <<>>
    BY <1>8, <2>1 DEF IsKeptFold
  <2>3. g[1..0] = <<>> /\ <<>> \in Seq(C)
    BY <2>1, <2>2
  <2>4. PICK v : v = g[1..0]
    OBVIOUS
  <2>5. v \in Seq(C) /\ Len(v) <= 0
    BY <2>3, <2>4
  <2> QED BY <2>4, <2>5
<1>11. ASSUME NEW i \in Nat, i \in T PROVE i + 1 \in T
  <2> SUFFICES ASSUME i + 1 <= n PROVE g[1..i+1] \in Seq(C) /\ Len(g[1..i+1]) <= i + 1
    OBVIOUS
  <2>1. PICK j : j = i + 1
    OBVIOUS
  <2>2. j \in 1..n /\ j - 1 = i /\ g[1..i] \in Seq(C) /\ Len(g[1..i]) <= i
    BY <1>11, <2>1
  <2>3. 1..j \in SUBSET (1..n) /\ 1..j # {} /\ Max(1..j) = j /\ (1..j) \ {j} = 1..i
    BY <2>2, FirstIndices
  <2>4. g[1..j] = IF csv[j] = " " THEN g[1..i] ELSE Append(g[1..i], csv[j])
    BY <1>8, <2>3, Zenon DEF IsKeptFold
  <2>5. csv[j] \in C
    BY <1>2, <2>2
  <2>6. PICK v \in Seq(C) : v = g[1..i]
    BY <2>2
  <2>7. Append(v, csv[j]) \in Seq(C) /\ Len(Append(v, csv[j])) = Len(v) + 1
    BY <2>5, AppendProperties
  <2>8. Len(v) \in Nat /\ Len(v) <= i
    BY <2>2, <2>6
  <2>9. PICK w : w = g[1..j]
    OBVIOUS
  <2>10. w = IF csv[j] = " " THEN v ELSE Append(v, csv[j])
    BY <2>4, <2>6, <2>9
  <2>11. w \in Seq(C) /\ Len(w) <= i + 1
    <3>1. CASE w = v
      BY <2>6, <2>8, <3>1
    <3>2. CASE w = Append(v, csv[j])
      <4>1. w \in Seq(C) /\ Len(w) = Len(v) + 1
        BY <2>7, <3>2, Zenon
      <4> QED BY <2>8, <4>1
    <3> QED BY <2>10, <3>1, <3>2
  <2> QED BY <2>1, <2>9, <2>11
<1> HIDE DEF T
<1>12. n \in T
  BY <1>10, <1>11, NatSetInduction
<1>13. g[1..n] \in Seq(C) /\ Len(g[1..n]) <= n
  BY <1>12 DEF T
<1> QED BY <1>1, <1>9, <1>13

(* What squeezing a list leaves is a list, of the same characters.         *)
LEMMA SqueezedIsList ==
  ASSUME NEW C, NEW csv \in Seq(C)
  PROVE  Squeezed(csv) \in Seq(C)
<1>1. PICK kept : kept = KeptIn(csv)
  OBVIOUS
<1>2. kept \in Seq(C) /\ Len(kept) <= Len(csv) /\ Len(kept) \in Nat /\ Len(csv) \in Nat
  BY <1>1, KeptFold
<1>3. Len(kept) + 1 \in 1..Len(csv)+1 /\ Len(csv) \in Len(kept)+1-1..Len(csv)
  BY <1>2
<1>4. SubSeq(csv, Len(kept) + 1, Len(csv)) \in Seq(C)
  BY <1>3, SubSeqProperties
<1>5. Squeezed(csv) = kept \o SubSeq(csv, Len(kept) + 1, Len(csv))
  BY <1>1 DEF Squeezed, KeptIn
<1> QED BY <1>2, <1>4, <1>5, ConcatProperties

IsSplitFold(f, n, csv) ==
  f = [s \in SUBSET (1..n) |->
         IF s = {} THEN << <<>> >>
         ELSE IF csv[Max(s)] = "," THEN Append(f[s \ {Max(s)}], <<>>)
         ELSE [f[s \ {Max(s)}] EXCEPT ![Len(f[s \ {Max(s)}])] = Append(@, csv[Max(s)])]]

SplitIn(csv) ==
  FoldLeft(LAMBDA items, c :
             IF c = "," THEN Append(items, <<>>)
             ELSE [items EXCEPT ![Len(items)] = Append(@, c)],
           << <<>> >>, csv)

SplitNext(items, c) ==
  IF c = "," THEN Append(items, <<>>) ELSE [items EXCEPT ![Len(items)] = Append(@, c)]

LEMMA SplitNextOK ==
  ASSUME NEW C, NEW items \in Seq(Seq(C)), NEW c \in C
  PROVE  SplitNext(items, c) \in Seq(Seq(C))
<1>1. <<>> \in Seq(C)
  OBVIOUS
<1>2. Append(items, <<>>) \in Seq(Seq(C))
  BY <1>1, AppendProperties
<1>3. PICK m : m = Len(items)
  OBVIOUS
<1>4. m \in Nat /\ items \in [1..m -> Seq(C)]
  BY <1>3, LenProperties
<1>5. ASSUME m \in 1..m PROVE Append(items[m], c) \in Seq(C)
  BY <1>4, <1>5, AppendProperties
<1>6. [items EXCEPT ![m] = Append(@, c)] \in [1..m -> Seq(C)]
  BY <1>4, <1>5
<1>7. [items EXCEPT ![m] = Append(@, c)] \in Seq(Seq(C))
  BY <1>4, <1>6, SeqDef
<1> QED BY <1>2, <1>3, <1>7 DEF SplitNext

(* Items of a list are lists themselves.                                   *)
LEMMA SplitIsList ==
  ASSUME NEW C, NEW csv \in Seq(C)
  PROVE  SplitIn(csv) \in Seq(Seq(C))
<1>1. PICK n \in Nat : DOMAIN csv = 1..n /\ n = Len(csv)
  BY LenProperties
<1> DEFINE V    == Seq(Seq(C))
           step == [i \in 1..n |-> [v \in V |-> SplitNext(v, csv[i])]]
<1>2. \A i \in 1..n : csv[i] \in C
  BY <1>1, ElementOfSeq
<1>3. step \in [1..n -> [V -> V]]
  BY <1>2, SplitNextOK
<1>4. << <<>> >> \in V
  OBVIOUS
<1>5. PICK f : Folded(f, n, V, << <<>> >>, step)
  <2> HIDE DEF V, step
  <2> QED BY <1>3, <1>4, FoldedExists
<1>6. IsSplitFold(f, n, csv)
  <2>1. ASSUME NEW s \in SUBSET (1..n), s # {}
        PROVE  f[s] = SplitNext(f[s \ {Max(s)}], csv[Max(s)])
    <3>1. PICK m, v : m = Max(s) /\ v = f[s \ {m}]
      OBVIOUS
    <3>2. m \in 1..n /\ v \in V /\ f[s] = step[m][v]
      BY <1>5, <2>1, <3>1 DEF Folded
    <3>3. step[m][v] = SplitNext(v, csv[m])
      BY <3>2
    <3> QED BY <3>1, <3>2, <3>3
  <2>2. f = [s \in SUBSET (1..n) |-> IF s = {} THEN << <<>> >> ELSE SplitNext(f[s \ {Max(s)}], csv[Max(s)])]
    BY <1>5, <2>1 DEF Folded
  <2> QED BY <2>2, Zenon DEF IsSplitFold, SplitNext
<1>7. PICK g : g = CHOOSE h : IsSplitFold(h, n, csv)
  OBVIOUS
<1>8. IsSplitFold(g, n, csv)
  BY <1>6, <1>7, Zenon
<1>9. SplitIn(csv) = g[1..n]
  BY <1>1, <1>7, Zenon DEF SplitIn, FoldLeft, MapThenFoldSet, IsSplitFold
<1> HIDE DEF V, step
<1>10. g = [s \in SUBSET (1..n) |-> IF s = {} THEN << <<>> >> ELSE SplitNext(g[s \ {Max(s)}], csv[Max(s)])]
  BY <1>8, Zenon DEF IsSplitFold, SplitNext
<1> DEFINE T == {i \in Nat : i <= n => g[1..i] \in Seq(Seq(C))}
<1>11. 0 \in T
  <2>1. 1..0 = {} /\ {} \in SUBSET (1..n)
    OBVIOUS
  <2>2. g[{}] = << <<>> >>
    BY <1>10, <2>1
  <2>3. g[1..0] = << <<>> >> /\ << <<>> >> \in Seq(Seq(C))
    BY <2>1, <2>2
  <2>4. g[1..0] \in Seq(Seq(C))
    BY <2>3, Zenon
  <2> QED BY <2>4
<1>12. ASSUME NEW i \in Nat, i \in T PROVE i + 1 \in T
  <2> SUFFICES ASSUME i + 1 <= n PROVE g[1..i+1] \in Seq(Seq(C))
    OBVIOUS
  <2>1. PICK j : j = i + 1
    OBVIOUS
  <2>2. j \in 1..n /\ j - 1 = i /\ g[1..i] \in Seq(Seq(C))
    BY <1>12, <2>1
  <2>3. 1..j \in SUBSET (1..n) /\ 1..j # {} /\ Max(1..j) = j /\ (1..j) \ {j} = 1..i
    BY <2>2, FirstIndices
  <2>4. g[1..j] = SplitNext(g[1..i], csv[j])
    BY <1>10, <2>3
  <2>5. csv[j] \in C
    BY <1>2, <2>2
  <2>6. g[1..j] \in Seq(Seq(C))
    BY <2>2, <2>4, <2>5, SplitNextOK
  <2> QED BY <2>1, <2>6
<1> HIDE DEF T
<1>13. n \in T
  BY <1>11, <1>12, NatSetInduction
<1> QED BY <1>9, <1>13 DEF T

LEMMA SplitCsvIsList ==
  ASSUME NEW csv, IsList(csv)
  PROVE  SplitCsv(csv) \in Seq(Seq(Range(csv)))
<1>1. Squeezed(csv) \in Seq(Range(csv))
  BY SqueezedIsList DEF IsList
<1>2. SplitCsv(csv) = SplitIn(Squeezed(csv))
  BY DEF SplitCsv, SplitIn
<1> QED BY <1>1, <1>2, SplitIsList
-----------------------------------------------------------------------------
(* A fold that puts sequences one after the other.                         *)
IsConcat(f, n, part) ==
  f = [s \in SUBSET (1..n) |-> IF s = {} THEN <<>> ELSE f[s \ {Max(s)}] \o part[Max(s)]]

LEMMA ConcatExists ==
  ASSUME NEW n \in Nat, NEW P, NEW part \in [1..n -> Seq(P)]
  PROVE  \E f : IsConcat(f, n, part)
<1> DEFINE V    == Seq(P)
           step == [i \in 1..n |-> [v \in V |-> v \o part[i]]]
<1>1. ASSUME NEW i \in 1..n, NEW v \in V PROVE v \o part[i] \in V
  BY ConcatProperties
<1>2. step \in [1..n -> [V -> V]] /\ <<>> \in V
  <2> HIDE DEF V
  <2>1. <<>> \in V
    BY DEF V
  <2> QED BY <1>1, <2>1
<1>3. PICK f : Folded(f, n, V, <<>>, step)
  <2> HIDE DEF V, step
  <2> QED BY <1>2, FoldedExists
<1>4. ASSUME NEW s \in SUBSET (1..n), s # {} PROVE f[s] = f[s \ {Max(s)}] \o part[Max(s)]
  <2>1. PICK m, v : m = Max(s) /\ v = f[s \ {m}]
    OBVIOUS
  <2>2. m \in 1..n /\ v \in V /\ f[s] = step[m][v]
    BY <1>3, <1>4, <2>1 DEF Folded
  <2>3. step[m][v] = v \o part[m]
    <3> HIDE DEF V
    <3> QED BY <2>2
  <2> QED BY <2>1, <2>2, <2>3
<1> HIDE DEF V, step
<1>5. IsConcat(f, n, part)
  BY <1>3, <1>4, Zenon DEF IsConcat, Folded
<1> QED BY <1>5

(* What it is after each of its parts.                                     *)
LEMMA ConcatPrefixes ==
  ASSUME NEW n \in Nat, NEW P, NEW part \in [1..n -> Seq(P)], NEW f, IsConcat(f, n, part)
  PROVE  /\ f[1..0] = <<>>
         /\ \A i \in 1..n : f[1..i] = f[1..i-1] \o part[i]
         /\ \A i \in 0..n : f[1..i] \in Seq(P)
<1>1. f[1..0] = <<>>
  <2>1. 1..0 = {} /\ {} \in SUBSET (1..n)
    OBVIOUS
  <2> QED BY <2>1 DEF IsConcat
<1>2. ASSUME NEW i \in 1..n PROVE f[1..i] = f[1..i-1] \o part[i]
  <2>1. 1..i \in SUBSET (1..n) /\ 1..i # {} /\ Max(1..i) = i /\ (1..i) \ {i} = 1..i-1
    BY FirstIndices
  <2>2. \A s \in SUBSET (1..n) : s # {} => f[s] = f[s \ {Max(s)}] \o part[Max(s)]
    BY Zenon DEF IsConcat
  <2>3. f[1..i] = f[(1..i) \ {Max(1..i)}] \o part[Max(1..i)]
    BY <2>1, <2>2, Zenon
  <2> QED BY <2>1, <2>3
<1> DEFINE T == {i \in Nat : i <= n => f[1..i] \in Seq(P)}
<1>3. 0 \in T
  <2>1. <<>> \in Seq(P)
    OBVIOUS
  <2>2. f[1..0] \in Seq(P)
    BY <1>1, <2>1, Zenon
  <2> QED BY <2>2
<1>4. ASSUME NEW i \in Nat, i \in T PROVE i + 1 \in T
  <2> SUFFICES ASSUME i + 1 <= n PROVE f[1..i+1] \in Seq(P)
    OBVIOUS
  <2>1. PICK j : j = i + 1
    OBVIOUS
  <2>2. j \in 1..n /\ j - 1 = i /\ f[1..i] \in Seq(P)
    BY <1>4, <2>1
  <2>3. f[1..j] = f[1..i] \o part[j] /\ part[j] \in Seq(P)
    BY <1>2, <2>2
  <2>4. f[1..j] \in Seq(P)
    BY <2>2, <2>3, ConcatProperties
  <2> QED BY <2>1, <2>4
<1>5. \A i \in Nat : i \in T
  <2> HIDE DEF T
  <2> QED BY <1>3, <1>4, NatSetInduction
<1>6. \A i \in 0..n : f[1..i] \in Seq(P)
  BY <1>5
<1> HIDE DEF T
<1> QED BY <1>1, <1>2, <1>6, Zenon

(* A sequence of sequences, whatever their elements.                       *)
LEMMA PartsAreLists ==
  ASSUME NEW n \in Nat, NEW part, part = [i \in 1..n |-> part[i]],
         \A i \in 1..n : \E Q : part[i] \in Seq(Q)
  PROVE  \E P : part \in [1..n -> Seq(P)]
<1> DEFINE P == UNION {Range(part[i]) : i \in 1..n}
<1>1. ASSUME NEW i \in 1..n PROVE part[i] \in Seq(P)
  <2>1. PICK v : v = part[i]
    OBVIOUS
  <2>2. PICK Q : v \in Seq(Q)
    BY <2>1
  <2>3. PICK m \in Nat : DOMAIN v = 1..m /\ v \in [1..m -> Q]
    BY <2>2, LenProperties
  <2>4. \A j \in 1..m : v[j] \in P
    <3>1. Range(v) \in {Range(part[k]) : k \in 1..n}
      BY <2>1
    <3>2. \A j \in 1..m : v[j] \in Range(v)
      BY <2>3 DEF Range
    <3> QED BY <3>1, <3>2
  <2> HIDE DEF P
  <2>5. v \in [1..m -> P]
    BY <2>3, <2>4
  <2>6. v \in Seq(P)
    BY <2>5, SeqDef
  <2> QED BY <2>1, <2>6
<1> HIDE DEF P
<1>2. part \in [1..n -> Seq(P)]
  BY <1>1
<1> QED BY <1>2
-----------------------------------------------------------------------------
(***************************************************************************)
(* A FIB file: what is asked for, and what is meant.                       *)
(***************************************************************************)
ParamsIn(file, record) == IF EntryIsSplit(record) THEN EntryParams(file, record) ELSE <<Illegal>>

(* Where the names of a file are taken from. *)
AreNames(names, file) == \A record \in Range(file.entries) : record.name \in names

(* The request for a route, one of whose names is in names. *)
Asks(names, param, route) ==
  \E name \in names : \E type, remote, cost :
    /\ IsRoute(param, name, type, remote, cost)
    /\ route = [name |-> CdOf(name),
                to   |-> Remote(With(ParamType(type), ParamRemote(remote))),
                cost |-> ValueOf(cost)]

AreLegal(params) == \A i \in DOMAIN params : IsParam(params[i])

AsksEach(names, params, routes) ==
  AreLegal(params) => /\ Len(params) = Len(routes)
                      /\ \A i \in 1..Len(params) : Asks(names, params[i], routes[i])

(* The parameters of an entry and a next hop ask for its route.            *)
LEMMA FileParamAsks ==
  ASSUME NEW file, NEW record, NEW id, NEW cost, NEW names, record.name \in names,
         IsParam(FileParam(file, record, id, cost))
  PROVE  Asks(names, FileParam(file, record, id, cost),
              [name |-> CdOf(record.name),
               to   |-> Remote(With(ParamType(FileFace(file, id).protocol), ParamRemote(FileFace(file, id).remote))),
               cost |-> ValueOf(cost)])
<1>1. PICK name, type, remote : /\ name = record.name /\ type = FileFace(file, id).protocol
                                /\ remote = FileFace(file, id).remote
  OBVIOUS
<1>2. PICK param : param = FileParam(file, record, id, cost)
  OBVIOUS
<1>3. param = ParamsOf(<< <<"-n", name>>, <<"-t", type>>, <<"-r", remote>>, <<"-c", cost>> >>)
  BY <1>1, <1>2, IllegalIsNoParam DEF FileParam
<1>4. IsRoute(param, name, type, remote, cost)
  BY <1>2, <1>3, RouteOfFour
<1>5. name \in names
  BY <1>1
<1>6. Asks(names, param, [name |-> CdOf(name), to |-> Remote(With(ParamType(type), ParamRemote(remote))),
                   cost |-> ValueOf(cost)])
  BY <1>4, <1>5, Zenon DEF Asks
<1> QED BY <1>1, <1>2, <1>6

(* An entry: one request for each of its routes, in their order.           *)
LEMMA EntryAsksEach ==
  ASSUME NEW file, NEW record, NEW names, record.name \in names, IsList(record.nextHops), IsList(record.costs)
  PROVE  /\ \E Q : ParamsIn(file, record) \in Seq(Q)
         /\ \E Q : RoutesIn(file, record) \in Seq(Q)
         /\ AsksEach(names, ParamsIn(file, record), RoutesIn(file, record))
<1>1. PICK hops, costs : hops = SplitCsv(record.nextHops) /\ costs = SplitCsv(record.costs)
  OBVIOUS
<1>2. PICK m \in Nat : DOMAIN hops = 1..m /\ m = Len(hops)
  BY <1>1, SplitCsvIsList, LenProperties
<1>3. PICK routes : routes = RoutesIn(file, record)
  OBVIOUS
<1>4. PICK params : params = ParamsIn(file, record)
  OBVIOUS
<1> DEFINE R == {routes[i] : i \in 1..m}
           Q == {params[i] : i \in 1..m}
           route(i) == [name |-> CdOf(record.name),
                        to   |-> Remote(With(ParamType(FileFace(file, hops[i]).protocol),
                                             ParamRemote(FileFace(file, hops[i]).remote))),
                        cost |-> ValueOf(costs[i])]
<1>5. routes = [i \in 1..m |-> route(i)]
  BY <1>1, <1>2, <1>3, Zenon DEF RoutesIn
<1>6. routes \in Seq(R) /\ Len(routes) = m
  <2>1. routes \in [1..m -> R]
    BY <1>5
  <2> HIDE DEF R, route
  <2> QED BY <2>1, SeqDef, LenProperties
<1>7. CASE EntryIsSplit(record)
  <2>1. params = [i \in 1..m |-> FileParam(file, record, hops[i], costs[i])]
    BY <1>1, <1>2, <1>4, <1>7 DEF ParamsIn, EntryParams, NextHopsIn, CostsIn
  <2>2. params \in Seq(Q) /\ Len(params) = m /\ DOMAIN params = 1..m
    <3>1. params \in [1..m -> Q]
      BY <2>1
    <3> HIDE DEF Q, route
    <3> QED BY <3>1, SeqDef, LenProperties
  <2>3. ASSUME AreLegal(params), NEW i \in 1..m PROVE Asks(names, params[i], routes[i])
    <3>1. IsParam(params[i])
      BY <2>2, <2>3 DEF AreLegal
    <3>2. PICK id, cost : id = hops[i] /\ cost = costs[i]
      OBVIOUS
    <3>3. params[i] = FileParam(file, record, id, cost)
      BY <2>1, <3>2
    <3>4. Asks(names, FileParam(file, record, id, cost),
               [name |-> CdOf(record.name),
                to   |-> Remote(With(ParamType(FileFace(file, id).protocol),
                                     ParamRemote(FileFace(file, id).remote))),
                cost |-> ValueOf(cost)])
      BY <3>1, <3>3, FileParamAsks
    <3>5. routes[i] = route(i)
      BY <1>5
    <3> QED BY <3>2, <3>3, <3>4, <3>5, Zenon
  <2>4. AsksEach(names, params, routes)
    BY <1>6, <2>2, <2>3 DEF AsksEach
  <2> QED BY <1>3, <1>4, <1>6, <2>2, <2>4
<1>8. CASE ~EntryIsSplit(record)
  <2>1. params = <<Illegal>>
    BY <1>4, <1>8 DEF ParamsIn
  <2>2. params \in Seq({Illegal}) /\ ~AreLegal(params)
    <3>1. 1 \in DOMAIN params /\ params[1] = Illegal
      BY <2>1
    <3>2. ~AreLegal(params)
      BY <3>1, IllegalIsNoParam DEF AreLegal
    <3> QED BY <2>1, <3>2
  <2>3. AsksEach(names, params, routes)
    BY <2>2 DEF AsksEach
  <2> QED BY <1>3, <1>4, <1>6, <2>2, <2>3
<1> QED BY <1>7, <1>8

LEMMA ConcatAsksEach ==
  ASSUME NEW names, NEW P, NEW R, NEW p \in Seq(P), NEW q \in Seq(P), NEW r \in Seq(R), NEW s \in Seq(R),
         AsksEach(names, p, r), AsksEach(names, q, s)
  PROVE  AsksEach(names, p \o q, r \o s)
<1> SUFFICES ASSUME AreLegal(p \o q)
             PROVE  /\ Len(p \o q) = Len(r \o s)
                    /\ \A i \in 1..Len(p \o q) : Asks(names, (p \o q)[i], (r \o s)[i])
  BY DEF AsksEach
<1>1. PICK a \in Nat, b \in Nat : a = Len(p) /\ b = Len(q) /\ DOMAIN p = 1..a /\ DOMAIN q = 1..b
  BY LenProperties
<1>2. /\ Len(p \o q) = a + b /\ DOMAIN (p \o q) = 1..a+b
      /\ \A i \in 1..a+b : (p \o q)[i] = IF i <= a THEN p[i] ELSE q[i - a]
  BY <1>1, ConcatProperties, LenProperties
<1>3. AreLegal(p)
  <2> SUFFICES ASSUME NEW i \in 1..a PROVE IsParam(p[i])
    BY <1>1 DEF AreLegal
  <2>1. i \in 1..a+b /\ i <= a
    BY <1>1
  <2>2. (p \o q)[i] = p[i]
    BY <1>2, <2>1
  <2> QED BY <1>2, <2>1, <2>2 DEF AreLegal
<1>4. AreLegal(q)
  <2> SUFFICES ASSUME NEW i \in 1..b PROVE IsParam(q[i])
    BY <1>1 DEF AreLegal
  <2>1. PICK j : j = a + i
    OBVIOUS
  <2>2. j \in 1..a+b /\ ~(j <= a) /\ j - a = i
    BY <1>1, <2>1
  <2>3. (p \o q)[j] = q[i]
    BY <1>2, <2>2
  <2> QED BY <1>2, <2>2, <2>3 DEF AreLegal
<1>5. /\ Len(r) = a /\ Len(s) = b
      /\ \A i \in 1..a : Asks(names, p[i], r[i])
      /\ \A i \in 1..b : Asks(names, q[i], s[i])
  BY <1>1, <1>3, <1>4 DEF AsksEach
<1>6. /\ Len(r \o s) = a + b
      /\ \A i \in 1..a+b : (r \o s)[i] = IF i <= a THEN r[i] ELSE s[i - a]
  BY <1>5, ConcatProperties
<1>7. ASSUME NEW i \in 1..a+b PROVE Asks(names, (p \o q)[i], (r \o s)[i])
  <2>1. CASE i <= a
    <3>1. i \in 1..a
      BY <1>1, <2>1
    <3> QED BY <1>2, <1>5, <1>6, <2>1, <3>1
  <2>2. CASE ~(i <= a)
    <3>1. PICK k : k = i - a
      OBVIOUS
    <3>2. k \in 1..b
      BY <1>1, <2>2, <3>1
    <3> QED BY <1>2, <1>5, <1>6, <2>2, <3>1, <3>2
  <2> QED BY <2>1, <2>2
<1> QED BY <1>2, <1>6, <1>7

(* A file: one request for each of its routes, in their order, or none.    *)
LEMMA FileAsksEach ==
  ASSUME NEW file, IsFile(file), NEW names, AreNames(names, file)
  PROVE  /\ \E Q : FileParams(file) \in Seq(Q)
         /\ \E Q : FileRoutes(file) \in Seq(Q)
         /\ AsksEach(names, FileParams(file), FileRoutes(file))
<1>1. PICK entries : entries = file.entries
  OBVIOUS
<1>2. PICK n \in Nat : DOMAIN entries = 1..n
  BY <1>1, LenProperties DEF IsFile, IsList
<1> DEFINE params == [i \in 1..n |-> ParamsIn(file, entries[i])]
           routes == [i \in 1..n |-> RoutesIn(file, entries[i])]
<1>3. ASSUME NEW i \in 1..n
      PROVE  /\ \E Q : ParamsIn(file, entries[i]) \in Seq(Q)
             /\ \E Q : RoutesIn(file, entries[i]) \in Seq(Q)
             /\ AsksEach(names, ParamsIn(file, entries[i]), RoutesIn(file, entries[i]))
  <2>1. PICK record : record = entries[i]
    OBVIOUS
  <2>2. record \in Range(file.entries)
    BY <1>1, <1>2, <2>1 DEF Range
  <2>3. record.name \in names /\ IsList(record.nextHops) /\ IsList(record.costs)
    BY <2>2 DEF IsFile, AreNames
  <2> QED BY <2>1, <2>3, EntryAsksEach
<1>4. PICK P : params \in [1..n -> Seq(P)]
  <2>1. params = [i \in 1..n |-> params[i]] /\ \A i \in 1..n : params[i] = ParamsIn(file, entries[i])
    OBVIOUS
  <2> HIDE DEF params
  <2>2. \A i \in 1..n : \E Q : params[i] \in Seq(Q)
    BY <1>3, <2>1
  <2> QED BY <2>1, <2>2, PartsAreLists
<1>5. PICK R : routes \in [1..n -> Seq(R)]
  <2>1. routes = [i \in 1..n |-> routes[i]] /\ \A i \in 1..n : routes[i] = RoutesIn(file, entries[i])
    OBVIOUS
  <2> HIDE DEF routes
  <2>2. \A i \in 1..n : \E Q : routes[i] \in Seq(Q)
    BY <1>3, <2>1
  <2> QED BY <2>1, <2>2, PartsAreLists
<1> DEFINE JoinsParams(f) ==
             f = [s \in SUBSET (1..n) |->
                    IF s = {} THEN <<>> ELSE f[s \ {Max(s)}] \o ParamsIn(file, entries[Max(s)])]
           JoinsRoutes(f) ==
             f = [s \in SUBSET (1..n) |->
                    IF s = {} THEN <<>> ELSE f[s \ {Max(s)}] \o RoutesIn(file, entries[Max(s)])]
<1>6. ASSUME NEW f PROVE (IsConcat(f, n, params) <=> JoinsParams(f)) /\ (IsConcat(f, n, routes) <=> JoinsRoutes(f))
  <2>1. ASSUME NEW s \in SUBSET (1..n), s # {}
        PROVE  params[Max(s)] = ParamsIn(file, entries[Max(s)]) /\ routes[Max(s)] = RoutesIn(file, entries[Max(s)])
    <3>1. PICK m : m = Max(s)
      OBVIOUS
    <3>2. m \in 1..n
      BY <2>1, <3>1, GreatestExists
    <3> QED BY <3>1, <3>2
  <2>2. [s \in SUBSET (1..n) |-> IF s = {} THEN <<>> ELSE f[s \ {Max(s)}] \o params[Max(s)]]
          = [s \in SUBSET (1..n) |-> IF s = {} THEN <<>> ELSE f[s \ {Max(s)}] \o ParamsIn(file, entries[Max(s)])]
    <3> HIDE DEF params, routes
    <3> QED BY <2>1
  <2>3. [s \in SUBSET (1..n) |-> IF s = {} THEN <<>> ELSE f[s \ {Max(s)}] \o routes[Max(s)]]
          = [s \in SUBSET (1..n) |-> IF s = {} THEN <<>> ELSE f[s \ {Max(s)}] \o RoutesIn(file, entries[Max(s)])]
    <3> HIDE DEF params, routes
    <3> QED BY <2>1
  <2> HIDE DEF params, routes
  <2> QED BY <2>2, <2>3, Zenon DEF IsConcat
<1>7. PICK g, h : g = (CHOOSE f : JoinsParams(f)) /\ h = (CHOOSE f : JoinsRoutes(f))
  OBVIOUS
<1>8. IsConcat(g, n, params) /\ IsConcat(h, n, routes)
  <2> HIDE DEF params, routes, JoinsParams, JoinsRoutes
  <2>1. (\E f : IsConcat(f, n, params)) /\ (\E f : IsConcat(f, n, routes))
    BY <1>4, <1>5, ConcatExists
  <2>2. (\E f : JoinsParams(f)) /\ (\E f : JoinsRoutes(f))
    BY <1>6, <2>1, Zenon
  <2>3. JoinsParams(g) /\ JoinsRoutes(h)
    BY <1>7, <2>2, Zenon
  <2> QED BY <1>6, <2>3
<1>9. FileParams(file) = g[1..n]
  BY <1>1, <1>2, <1>7, Zenon DEF FileParams, ParamsIn, FoldLeft, MapThenFoldSet
<1>10. FileRoutes(file) = h[1..n]
  BY <1>1, <1>2, <1>7, Zenon DEF FileRoutes, FoldLeft, MapThenFoldSet
<1>11. \A i \in 1..n : params[i] = ParamsIn(file, entries[i]) /\ routes[i] = RoutesIn(file, entries[i])
  OBVIOUS
<1> HIDE DEF params, routes, JoinsParams, JoinsRoutes
<1>12. /\ g[1..0] = <<>>
       /\ \A i \in 1..n : g[1..i] = g[1..i-1] \o params[i]
       /\ \A i \in 0..n : g[1..i] \in Seq(P)
  BY <1>4, <1>8, ConcatPrefixes
<1>13. /\ h[1..0] = <<>>
       /\ \A i \in 1..n : h[1..i] = h[1..i-1] \o routes[i]
       /\ \A i \in 0..n : h[1..i] \in Seq(R)
  BY <1>5, <1>8, ConcatPrefixes
<1> DEFINE T == {i \in Nat : i <= n => AsksEach(names, g[1..i], h[1..i])}
<1>14. 0 \in T
  <2>1. AsksEach(names, <<>>, <<>>)
    BY DEF AsksEach
  <2>2. AsksEach(names, g[1..0], h[1..0])
    BY <1>12, <1>13, <2>1
  <2> QED BY <2>2
<1>15. ASSUME NEW i \in Nat, i \in T PROVE i + 1 \in T
  <2> SUFFICES ASSUME i + 1 <= n PROVE AsksEach(names, g[1..i+1], h[1..i+1])
    OBVIOUS
  <2>1. PICK j : j = i + 1
    OBVIOUS
  <2>2. j \in 1..n /\ j - 1 = i /\ i \in 0..n /\ AsksEach(names, g[1..i], h[1..i])
    BY <1>15, <2>1
  <2>3. g[1..j] = g[1..i] \o params[j] /\ h[1..j] = h[1..i] \o routes[j]
    BY <1>12, <1>13, <2>2
  <2>4. g[1..i] \in Seq(P) /\ h[1..i] \in Seq(R) /\ params[j] \in Seq(P) /\ routes[j] \in Seq(R)
    BY <1>4, <1>5, <1>12, <1>13, <2>2
  <2>5. AsksEach(names, params[j], routes[j])
    BY <1>3, <1>11, <2>2
  <2>6. AsksEach(names, g[1..j], h[1..j])
    BY <2>2, <2>3, <2>4, <2>5, ConcatAsksEach
  <2> QED BY <2>1, <2>6
<1>16. n \in T
  <2> HIDE DEF T
  <2> QED BY <1>14, <1>15, NatSetInduction
<1>17. AsksEach(names, g[1..n], h[1..n]) /\ g[1..n] \in Seq(P) /\ h[1..n] \in Seq(R)
  BY <1>12, <1>13, <1>16
<1> QED BY <1>9, <1>10, <1>17
-----------------------------------------------------------------------------
(***************************************************************************)
(* Parsing a URI, word by word.                                            *)
(***************************************************************************)
WordsOver(W) == [text : W, mark : {"none", "(", ")"}]

States == {"NotOpened", "Opened", "Closed", "Error"}

BlocksOver(W) == Seq([type : {"C", "O", "A"}, value : W \cup {""}])

ParsesOver(W) == [state : States, block : BlocksOver(W)]

ParseStart == [state |-> "NotOpened", block |-> <<>>]

(* What a word adds to the block. *)
Added(state, word) ==
  <<IF state = "Opened" THEN Optional(word.text) ELSE Component(word.text)>>
    \o IF EventOf(word) = "Close" THEN <<Asterisk>> ELSE <<>>

Rejects(state, word) ==
  \/ state = "Error" \/ EventOf(word) = "Error"
  \/ EventOf(word) = "Open" /\ state # "NotOpened"
  \/ EventOf(word) = "Close" /\ state # "Opened"

After(state, word) ==
  CASE EventOf(word) = "Open"  -> "Opened"
    [] EventOf(word) = "Close" -> "Closed"
    [] OTHER                   -> state

(* What a word can do to the parser.                                       *)
LEMMA EventIs == \A word : EventOf(word) \in {"Error", "Open", "Close", "Hold"}
  BY DEF EventOf

LEMMA AddedIs ==
  ASSUME NEW W, NEW word \in WordsOver(W), NEW state
  PROVE  /\ Added(state, word) \in BlocksOver(W)
         /\ Added(state, word)[1] = IF state = "Opened" THEN Optional(word.text) ELSE Component(word.text)
         /\ EventOf(word) # "Close" => Len(Added(state, word)) = 1
         /\ EventOf(word) = "Close" => Len(Added(state, word)) = 2 /\ Added(state, word)[2] = Asterisk
<1> DEFINE E == [type : {"C", "O", "A"}, value : W \cup {""}]
<1>1. PICK e : e = IF state = "Opened" THEN Optional(word.text) ELSE Component(word.text)
  OBVIOUS
<1>2. word.text \in W
  BY DEF WordsOver
<1>3. e \in E /\ Asterisk \in E
  BY <1>1, <1>2 DEF Optional, Component, Asterisk
<1> HIDE DEF E
<1>4. CASE EventOf(word) = "Close"
  <2>1. Added(state, word) = <<e>> \o <<Asterisk>>
    BY <1>1, <1>4 DEF Added
  <2>2. <<e>> \in Seq(E) /\ <<Asterisk>> \in Seq(E) /\ Len(<<e>>) = 1 /\ Len(<<Asterisk>>) = 1
    BY <1>3
  <2>3. PICK a, b : a = <<e>> /\ b = <<Asterisk>>
    OBVIOUS
  <2>4. a \o b \in Seq(E) /\ Len(a \o b) = 2 /\ (a \o b)[1] = e /\ (a \o b)[2] = Asterisk
    BY <1>3, <2>2, <2>3, ConcatProperties
  <2> QED BY <1>1, <1>4, <2>1, <2>3, <2>4 DEF BlocksOver, E
<1>5. CASE EventOf(word) # "Close"
  <2>1. Added(state, word) = <<e>> \o <<>>
    BY <1>1, <1>5 DEF Added
  <2>2. <<e>> \in Seq(E) /\ Len(<<e>>) = 1
    BY <1>3
  <2>3. Added(state, word) = <<e>>
    BY <2>1, <2>2, ConcatEmptySeq
  <2>4. PICK v : v = Added(state, word)
    OBVIOUS
  <2>5. v \in Seq(E) /\ Len(v) = 1 /\ v[1] = e
    BY <2>2, <2>3, <2>4
  <2> QED BY <1>1, <1>5, <2>4, <2>5 DEF BlocksOver, E
<1> QED BY <1>4, <1>5

(* A word is rejected, or it is added.                                     *)
LEMMA ConsumeIs ==
  ASSUME NEW W, NEW word \in WordsOver(W), NEW p \in ParsesOver(W)
  PROVE  /\ Consume(p, word) \in ParsesOver(W)
         /\ Rejects(p.state, word) => Consume(p, word).state = "Error"
         /\ ~Rejects(p.state, word) => /\ Consume(p, word).state = After(p.state, word)
                                       /\ Consume(p, word).block = p.block \o Added(p.state, word)
                                       /\ After(p.state, word) # "Error"
<1>1. PICK q : q = Consume(p, word)
  OBVIOUS
<1>2. p = [state |-> p.state, block |-> p.block] /\ p.state \in States /\ p.block \in BlocksOver(W)
  BY DEF ParsesOver
<1>3. CASE Rejects(p.state, word)
  <2>1. q = [p EXCEPT !.state = "Error"]
    BY <1>1, <1>3 DEF Rejects, Consume
  <2>2. q = [state |-> "Error", block |-> p.block]
    BY <2>1, <1>2 DEF ParsesOver
  <2>3. q \in ParsesOver(W) /\ q.state = "Error"
    BY <1>2, <2>2 DEF ParsesOver, States
  <2> QED BY <1>1, <1>3, <2>3
<1>4. CASE ~Rejects(p.state, word)
  <2> DEFINE e == <<IF p.state = "Opened" THEN Optional(word.text) ELSE Component(word.text)>>
             t == IF EventOf(word) = "Close" THEN <<Asterisk>> ELSE <<>>
             E == [type : {"C", "O", "A"}, value : W \cup {""}]
  <2>1. q = [state |-> After(p.state, word), block |-> p.block \o e \o t]
    BY <1>1, <1>4 DEF Rejects, Consume, After
  <2>2. Added(p.state, word) = e \o t
    BY DEF Added
  <2>3. e \in Seq(E) /\ t \in Seq(E)
    <3>1. word.text \in W
      BY DEF WordsOver
    <3>2. Optional(word.text) \in E /\ Component(word.text) \in E /\ Asterisk \in E
      BY <3>1 DEF Optional, Component, Asterisk
    <3> HIDE DEF E
    <3> QED BY <3>2
  <2>4. p.block \in Seq(E)
    BY <1>2 DEF BlocksOver
  <2>5. PICK a, b, c : a = p.block /\ b = e /\ c = t
    OBVIOUS
  <2>6. (a \o b) \o c = a \o (b \o c) /\ a \o (b \o c) \in Seq(E)
    <3> HIDE DEF E, e, t
    <3>1. a \in Seq(E) /\ b \in Seq(E) /\ c \in Seq(E)
      BY <2>3, <2>4, <2>5
    <3>2. b \o c \in Seq(E)
      BY <3>1, ConcatProperties
    <3>3. a \o (b \o c) \in Seq(E)
      BY <3>1, <3>2, ConcatProperties
    <3>4. (a \o b) \o c = a \o (b \o c)
      BY <3>1, ConcatAssociative
    <3> QED BY <3>3, <3>4
  <2>7. PICK s : s = After(p.state, word)
    OBVIOUS
  <2>8. s \in States /\ s # "Error"
    BY <1>2, <1>4, <2>7 DEF After, States, Rejects
  <2> HIDE DEF e, t
  <2>9. q.state = s /\ q.block = a \o (b \o c) /\ q = [state |-> s, block |-> a \o (b \o c)]
    BY <2>1, <2>5, <2>6, <2>7
  <2>10. q \in ParsesOver(W)
    BY <2>6, <2>8, <2>9 DEF ParsesOver, BlocksOver
  <2> QED BY <1>1, <1>4, <2>2, <2>5, <2>7, <2>8, <2>9, <2>10
<1> QED BY <1>3, <1>4

IsParseFold(f, n, given) ==
  f = [s \in SUBSET (1..n) |-> IF s = {} THEN ParseStart ELSE Consume(f[s \ {Max(s)}], given[Max(s)])]

IsParse(q, given, W) ==
  /\ q[0] = ParseStart /\ q[Len(given)] = ParseCdString(given)
  /\ \A i \in 1..Len(given) : q[i] = Consume(q[i-1], given[i])
  /\ \A i \in 0..Len(given) : q[i] \in ParsesOver(W)

(* The parses of the first words of a URI, from none to all of them.       *)
LEMMA ParseFold ==
  ASSUME NEW W, NEW given \in Seq(WordsOver(W))
  PROVE  \E q : IsParse(q, given, W)
<1>1. PICK n \in Nat : DOMAIN given = 1..n /\ n = Len(given)
  BY LenProperties
<1> DEFINE V    == ParsesOver(W)
           step == [i \in 1..n |-> [v \in V |-> Consume(v, given[i])]]
<1>2. \A i \in 1..n : given[i] \in WordsOver(W)
  BY <1>1, ElementOfSeq
<1>3. step \in [1..n -> [V -> V]]
  BY <1>2, ConsumeIs
<1>4. ParseStart \in V
  BY DEF ParseStart, ParsesOver, States, BlocksOver
<1>5. PICK f : Folded(f, n, V, ParseStart, step)
  <2> HIDE DEF V, step
  <2> QED BY <1>3, <1>4, FoldedExists
<1>6. IsParseFold(f, n, given)
  <2>1. ASSUME NEW s \in SUBSET (1..n), s # {}
        PROVE  f[s] = Consume(f[s \ {Max(s)}], given[Max(s)])
    <3>1. PICK m, v : m = Max(s) /\ v = f[s \ {m}]
      OBVIOUS
    <3>2. m \in 1..n /\ v \in V /\ f[s] = step[m][v]
      BY <1>5, <2>1, <3>1 DEF Folded
    <3>3. step[m][v] = Consume(v, given[m])
      <4> HIDE DEF V
      <4> QED BY <3>2
    <3> QED BY <3>1, <3>2, <3>3
  <2> HIDE DEF V, step
  <2> QED BY <1>5, <2>1, Zenon DEF IsParseFold, Folded
<1>7. PICK g : g = CHOOSE h : IsParseFold(h, n, given)
  OBVIOUS
<1>8. IsParseFold(g, n, given)
  BY <1>6, <1>7, Zenon
<1>9. ParseCdString(given) = g[1..n]
  BY <1>1, <1>7, Zenon DEF ParseCdString, ParseStart, FoldLeft, MapThenFoldSet, IsParseFold
<1> HIDE DEF V, step
<1>10. \A s \in SUBSET (1..n) : g[s] = IF s = {} THEN ParseStart ELSE Consume(g[s \ {Max(s)}], given[Max(s)])
  BY <1>8, Zenon DEF IsParseFold
<1> DEFINE q == [i \in 0..n |-> g[1..i]]
<1>11. q[0] = ParseStart
  <2>1. 1..0 = {} /\ {} \in SUBSET (1..n) /\ 0 \in 0..n
    OBVIOUS
  <2>2. g[{}] = ParseStart
    BY <1>10, <2>1
  <2> QED BY <2>1, <2>2
<1>12. ASSUME NEW i \in 1..n PROVE q[i] = Consume(q[i-1], given[i])
  <2>1. 1..i \in SUBSET (1..n) /\ 1..i # {} /\ Max(1..i) = i /\ (1..i) \ {i} = 1..i-1
    BY FirstIndices
  <2>2. g[1..i] = Consume(g[1..i-1], given[i])
    BY <1>10, <2>1
  <2>3. i \in 0..n /\ i - 1 \in 0..n
    OBVIOUS
  <2> QED BY <2>2, <2>3
<1>13. q[n] = ParseCdString(given)
  BY <1>9
<1> HIDE DEF q
<1> DEFINE T == {i \in Nat : i <= n => q[i] \in V}
<1>14. 0 \in T
  BY <1>4, <1>11
<1>15. ASSUME NEW i \in Nat, i \in T PROVE i + 1 \in T
  <2> SUFFICES ASSUME i + 1 <= n PROVE q[i + 1] \in V
    OBVIOUS
  <2>1. PICK j : j = i + 1
    OBVIOUS
  <2>2. j \in 1..n /\ j - 1 = i /\ q[i] \in V
    BY <1>15, <2>1
  <2>3. q[j] = Consume(q[i], given[j]) /\ given[j] \in WordsOver(W)
    BY <1>2, <1>12, <2>2
  <2>4. q[j] \in V
    BY <2>2, <2>3, ConsumeIs DEF V
  <2> QED BY <2>1, <2>4
<1>16. \A i \in 0..n : q[i] \in ParsesOver(W)
  <2>1. \A i \in Nat : i \in T
    <3> HIDE DEF T
    <3> QED BY <1>14, <1>15, NatSetInduction
  <2> QED BY <2>1 DEF V
<1>17. IsParse(q, given, W)
  BY <1>1, <1>11, <1>12, <1>13, <1>16 DEF IsParse
<1> QED BY <1>17
-----------------------------------------------------------------------------
(* A URI that is parsed without an error: every word is taken.             *)
Takes(q, given) ==
  \A i \in 1..Len(given) :
    /\ ~Rejects(q[i-1].state, given[i])
    /\ q[i].state = After(q[i-1].state, given[i])
    /\ q[i].block = q[i-1].block \o Added(q[i-1].state, given[i])

LEMMA LegalTakes ==
  ASSUME NEW W, NEW given \in Seq(WordsOver(W)), NEW q, IsParse(q, given, W), q[Len(given)].state # "Error"
  PROVE  Takes(q, given)
<1>1. PICK n \in Nat : DOMAIN given = 1..n /\ n = Len(given)
  BY LenProperties
<1>2. ASSUME NEW i \in 1..n
      PROVE  /\ Rejects(q[i-1].state, given[i]) => q[i].state = "Error"
             /\ ~Rejects(q[i-1].state, given[i]) => /\ q[i].state = After(q[i-1].state, given[i])
                                                  /\ q[i].block = q[i-1].block \o Added(q[i-1].state, given[i])
  <2>1. PICK p : p = q[i-1]
    OBVIOUS
  <2>2. i - 1 \in 0..n
    BY <1>1
  <2>3. p \in ParsesOver(W) /\ q[i] = Consume(p, given[i])
    BY <1>1, <2>1, <2>2 DEF IsParse
  <2>4. given[i] \in WordsOver(W)
    BY <1>1, ElementOfSeq
  <2> QED BY <2>1, <2>3, <2>4, ConsumeIs
<1> DEFINE T == {k \in Nat : k <= n => q[n-k].state # "Error"}
<1>3. 0 \in T
  BY <1>1
<1>4. ASSUME NEW k \in Nat, k \in T PROVE k + 1 \in T
  <2> SUFFICES ASSUME k + 1 <= n PROVE q[n-(k+1)].state # "Error"
    OBVIOUS
  <2>1. PICK i : i = n - k
    OBVIOUS
  <2>2. i \in 1..n /\ n - (k + 1) = i - 1 /\ q[i].state # "Error"
    BY <1>4, <2>1
  <2>3. q[i-1].state # "Error"
    BY <1>2, <2>2 DEF Rejects
  <2> QED BY <2>2, <2>3
<1>5. \A k \in Nat : k \in T
  <2> HIDE DEF T
  <2> QED BY <1>3, <1>4, NatSetInduction
<1>6. ASSUME NEW i \in 1..n PROVE q[i].state # "Error"
  <2>1. n - i \in Nat /\ n - i <= n /\ n - (n - i) = i
    BY <1>6
  <2>2. n - i \in T
    BY <1>5, <2>1
  <2> QED BY <2>1, <2>2
<1> QED BY <1>1, <1>2, <1>6 DEF Takes

(* Where the elements of the words are in the block that is parsed.        *)
IsLayout(b, cd, q, given) ==
  /\ b[0] = 0 /\ b[Len(given)] = Len(cd)
  /\ \A i \in 0..Len(given) : b[i] \in Nat /\ b[i] <= Len(cd)
  /\ \A i \in 1..Len(given) :
       /\ b[i] = IF EventOf(given[i]) = "Close" THEN b[i-1] + 2 ELSE b[i-1] + 1
       /\ cd[b[i-1] + 1] = IF q[i-1].state = "Opened" THEN Optional(given[i].text) ELSE Component(given[i].text)
       /\ EventOf(given[i]) = "Close" => cd[b[i-1] + 2] = Asterisk

LEMMA LayoutExists ==
  ASSUME NEW W, NEW given \in Seq(WordsOver(W)), NEW q, IsParse(q, given, W), Takes(q, given)
  PROVE  \E b : IsLayout(b, BlockOf(given), q, given)
<1>1. PICK n \in Nat : DOMAIN given = 1..n /\ n = Len(given)
  BY LenProperties
<1>2. PICK E : BlocksOver(W) = Seq(E)
  BY DEF BlocksOver
<1>3. PICK cd : cd = BlockOf(given)
  OBVIOUS
<1> DEFINE block(i) == q[i].block
           b == [i \in 0..n |-> Len(block(i))]
<1>4. \A i \in 0..n : block(i) \in Seq(E)
  BY <1>1, <1>2 DEF IsParse, ParsesOver
<1>5. cd = block(n)
  BY <1>1, <1>3 DEF IsParse, BlockOf
<1>6. ASSUME NEW i \in 1..n
      PROVE  /\ block(i) = block(i-1) \o Added(q[i-1].state, given[i])
             /\ Len(block(i)) = Len(block(i-1)) + Len(Added(q[i-1].state, given[i]))
             /\ \A k \in 1..Len(block(i-1)) : block(i)[k] = block(i-1)[k]
             /\ \A k \in 1..Len(Added(q[i-1].state, given[i])) :
                  block(i)[Len(block(i-1)) + k] = Added(q[i-1].state, given[i])[k]
             /\ Len(Added(q[i-1].state, given[i])) \in Nat
  <2>1. PICK s, t : s = block(i-1) /\ t = Added(q[i-1].state, given[i])
    OBVIOUS
  <2>2. i - 1 \in 0..n /\ given[i] \in WordsOver(W)
    BY <1>1, ElementOfSeq
  <2>3. s \in Seq(E) /\ t \in Seq(E)
    BY <1>2, <1>4, <2>1, <2>2, AddedIs
  <2>4. block(i) = s \o t
    BY <1>1, <2>1 DEF Takes
  <2>5. /\ Len(s \o t) = Len(s) + Len(t)
        /\ \A k \in 1..Len(s) + Len(t) : (s \o t)[k] = IF k <= Len(s) THEN s[k] ELSE t[k - Len(s)]
        /\ Len(s) \in Nat /\ Len(t) \in Nat
    BY <2>3, ConcatProperties, LenProperties
  <2>6. \A k \in 1..Len(s) : (s \o t)[k] = s[k]
    BY <2>5
  <2>7. ASSUME NEW k \in 1..Len(t) PROVE (s \o t)[Len(s) + k] = t[k]
    <3>1. PICK j : j = Len(s) + k
      OBVIOUS
    <3>2. j \in 1..Len(s) + Len(t) /\ ~(j <= Len(s)) /\ j - Len(s) = k
      BY <2>5, <3>1
    <3>3. (s \o t)[j] = t[k]
      BY <2>5, <3>2
    <3> QED BY <3>1, <3>3
  <2> HIDE DEF block
  <2> QED BY <2>1, <2>4, <2>5, <2>6, <2>7
<1> HIDE DEF block
<1> DEFINE Begins(m) == \A i \in 0..m : /\ Len(block(i)) <= Len(block(m))
                                        /\ \A k \in 1..Len(block(i)) : block(m)[k] = block(i)[k]
           T == {m \in Nat : m <= n => Begins(m)}
<1>7. 0 \in T
  <2>1. Len(block(0)) \in Nat
    BY <1>4, LenProperties
  <2>2. ASSUME NEW i \in 0..0 PROVE i = 0
    OBVIOUS
  <2> QED BY <2>1, <2>2
<1>8. ASSUME NEW m \in Nat, m \in T PROVE m + 1 \in T
  <2> SUFFICES ASSUME m + 1 <= n PROVE Begins(m + 1)
    OBVIOUS
  <2>1. PICK j : j = m + 1
    OBVIOUS
  <2>2. j \in 1..n /\ j - 1 = m /\ Begins(m) /\ m \in 0..n
    BY <1>8, <2>1
  <2>3. /\ Len(block(j)) = Len(block(m)) + Len(Added(q[m].state, given[j]))
        /\ \A k \in 1..Len(block(m)) : block(j)[k] = block(m)[k]
        /\ Len(Added(q[m].state, given[j])) \in Nat
    BY <1>6, <2>2
  <2>4. \A i \in 0..n : Len(block(i)) \in Nat
    BY <1>4, LenProperties
  <2>5. ASSUME NEW i \in 0..j
        PROVE  /\ Len(block(i)) <= Len(block(j))
               /\ \A k \in 1..Len(block(i)) : block(j)[k] = block(i)[k]
    <3>1. CASE i = j
      BY <2>2, <2>4, <3>1
    <3>2. CASE i # j
      <4>1. i \in 0..m /\ i \in 0..n
        BY <2>2, <3>2
      <4>2. Len(block(i)) <= Len(block(m)) /\ \A k \in 1..Len(block(i)) : block(m)[k] = block(i)[k]
        BY <2>2, <4>1
      <4>3. Len(block(i)) \in Nat /\ Len(block(m)) \in Nat
        BY <2>2, <2>4, <4>1
      <4>4. ASSUME NEW k \in 1..Len(block(i)) PROVE block(j)[k] = block(i)[k]
        <5>1. k \in 1..Len(block(m))
          BY <4>2, <4>3
        <5> QED BY <2>3, <4>2, <5>1
      <4>5. Len(block(i)) <= Len(block(j))
        BY <2>3, <4>2, <4>3
      <4> QED BY <4>4, <4>5
    <3> QED BY <3>1, <3>2
  <2>6. Begins(j)
    BY <2>5
  <2> QED BY <2>1, <2>6
<1>9. Begins(n)
  <2>1. n \in T
    <3> HIDE DEF T
    <3> QED BY <1>7, <1>8, NatSetInduction
  <2> QED BY <2>1
<1>10. \A i \in 0..n : b[i] \in Nat /\ b[i] <= Len(cd) /\ b[i] = Len(block(i))
  BY <1>4, <1>5, <1>9, LenProperties
<1>11. b[0] = 0
  <2>1. block(0) = <<>>
    BY DEF block, IsParse, ParseStart
  <2> QED BY <2>1
<1>12. ASSUME NEW i \in 1..n
       PROVE  /\ b[i] = IF EventOf(given[i]) = "Close" THEN b[i-1] + 2 ELSE b[i-1] + 1
              /\ cd[b[i-1] + 1] = IF q[i-1].state = "Opened" THEN Optional(given[i].text) ELSE Component(given[i].text)
              /\ EventOf(given[i]) = "Close" => cd[b[i-1] + 2] = Asterisk
  <2>1. PICK t, m : t = Added(q[i-1].state, given[i]) /\ m = Len(block(i-1))
    OBVIOUS
  <2>2. i - 1 \in 0..n /\ i \in 0..n /\ given[i] \in WordsOver(W)
    BY <1>1, ElementOfSeq
  <2>3. m \in Nat /\ m = b[i-1] /\ b[i] = Len(block(i))
    BY <1>10, <2>1, <2>2
  <2>4. /\ t[1] = IF q[i-1].state = "Opened" THEN Optional(given[i].text) ELSE Component(given[i].text)
        /\ EventOf(given[i]) # "Close" => Len(t) = 1
        /\ EventOf(given[i]) = "Close" => Len(t) = 2 /\ t[2] = Asterisk
    BY <2>1, <2>2, AddedIs
  <2>5. Len(block(i)) = m + Len(t) /\ \A k \in 1..Len(t) : block(i)[m + k] = t[k]
    BY <1>6, <2>1
  <2>6. \A k \in 1..Len(block(i)) : cd[k] = block(i)[k]
    BY <1>5, <1>9, <2>2
  <2>7. Len(t) \in {1, 2}
    BY <2>4
  <2>8. cd[m + 1] = t[1]
    <3>1. PICK l, e : l = Len(t) /\ e = Len(block(i))
      OBVIOUS
    <3>2. l \in {1, 2} /\ e = m + l
      BY <2>5, <2>7, <3>1
    <3>3. 1 \in 1..l /\ m + 1 \in 1..e
      BY <2>3, <3>2
    <3> QED BY <2>5, <2>6, <3>1, <3>3
  <2>9. Len(t) = 2 => cd[m + 2] = t[2]
    <3>1. Len(t) = 2 => 2 \in 1..Len(t) /\ m + 2 \in 1..Len(block(i))
      BY <2>3, <2>5
    <3> QED BY <2>5, <2>6, <3>1
  <2> HIDE DEF b
  <2> QED BY <2>3, <2>4, <2>5, <2>8, <2>9
<1>13. b[n] = Len(cd)
  BY <1>5, <1>10
<1> HIDE DEF b
<1>14. IsLayout(b, cd, q, given)
  BY <1>1, <1>10, <1>11, <1>12, <1>13 DEF IsLayout
<1> QED BY <1>3, <1>14
-----------------------------------------------------------------------------
(* Printing a CD, element by element.                                      *)
IsPrintFold(f, index, cd) ==
  f = [s \in SUBSET (DOMAIN index) |->
         IF s = {} THEN <<>>
         ELSE IF cd[index[Max(s)]].type = "A" THEN f[s \ {Max(s)}]
         ELSE Append(f[s \ {Max(s)}], Marked(cd, index[Max(s)]))]

(* What is printed of the first elements of a CD.                          *)
LEMMA PrintFold ==
  ASSUME NEW cd, NEW n \in Nat, DOMAIN cd = 1..n
  PROVE  \E p : /\ p[0] = <<>> /\ p[n] = ToUri(cd)
                /\ \A i \in 1..n : p[i] = IF cd[i].type = "A" THEN p[i-1] ELSE Append(p[i-1], Marked(cd, i))
<1> DEFINE X    == {Marked(cd, i) : i \in 1..n}
           V    == Seq(X)
           step == [i \in 1..n |-> [v \in V |-> IF cd[i].type = "A" THEN v ELSE Append(v, Marked(cd, i))]]
<1>1. step \in [1..n -> [V -> V]]
  <2>1. ASSUME NEW i \in 1..n, NEW v \in V PROVE Append(v, Marked(cd, i)) \in V
    <3>1. Marked(cd, i) \in X
      OBVIOUS
    <3> HIDE DEF X
    <3> QED BY <3>1, AppendProperties
  <2> HIDE DEF V
  <2> QED BY <2>1
<1>2. <<>> \in V
  OBVIOUS
<1>3. PICK f : Folded(f, n, V, <<>>, step)
  <2> HIDE DEF V, step
  <2> QED BY <1>1, <1>2, FoldedExists
<1>4. PICK index : index = [i \in DOMAIN cd |-> i]
  OBVIOUS
<1>5. DOMAIN index = 1..n /\ \A i \in 1..n : index[i] = i
  BY <1>4
<1>6. IsPrintFold(f, index, cd)
  <2>1. ASSUME NEW s \in SUBSET (1..n), s # {}
        PROVE  f[s] = IF cd[index[Max(s)]].type = "A" THEN f[s \ {Max(s)}]
                      ELSE Append(f[s \ {Max(s)}], Marked(cd, index[Max(s)]))
    <3>1. PICK m, v : m = Max(s) /\ v = f[s \ {m}]
      OBVIOUS
    <3>2. m \in 1..n /\ v \in V /\ f[s] = step[m][v]
      BY <1>3, <2>1, <3>1 DEF Folded
    <3>3. step[m][v] = IF cd[m].type = "A" THEN v ELSE Append(v, Marked(cd, m))
      <4> HIDE DEF V
      <4> QED BY <3>2
    <3>4. index[m] = m
      BY <1>5, <3>2
    <3> HIDE DEF step
    <3> QED BY <3>1, <3>2, <3>3, <3>4
  <2>2. f = [s \in SUBSET (1..n) |-> f[s]] /\ f[{}] = <<>>
    BY <1>3 DEF Folded
  <2> HIDE DEF V, step
  <2>3. f = [s \in SUBSET (1..n) |->
               IF s = {} THEN <<>>
               ELSE IF cd[index[Max(s)]].type = "A" THEN f[s \ {Max(s)}]
               ELSE Append(f[s \ {Max(s)}], Marked(cd, index[Max(s)]))]
    BY <2>1, <2>2
  <2> QED BY <1>5, <2>3 DEF IsPrintFold
<1>7. PICK g : g = CHOOSE h : IsPrintFold(h, [i \in DOMAIN cd |-> i], cd)
  OBVIOUS
<1>8. IsPrintFold(g, index, cd)
  BY <1>4, <1>6, <1>7, Zenon
<1>9. ToUri(cd) = g[DOMAIN index]
  <2>1. ToUri(cd) = g[DOMAIN [i \in DOMAIN cd |-> i]]
    BY <1>7, Zenon DEF ToUri, FoldLeftDomain, FoldLeft, MapThenFoldSet, IsPrintFold
  <2> QED BY <1>4, <2>1
<1> HIDE DEF X, V, step
<1>10. \A s \in SUBSET (1..n) :
         g[s] = IF s = {} THEN <<>>
                ELSE IF cd[index[Max(s)]].type = "A" THEN g[s \ {Max(s)}]
                ELSE Append(g[s \ {Max(s)}], Marked(cd, index[Max(s)]))
  BY <1>5, <1>8, Zenon DEF IsPrintFold
<1> DEFINE p == [i \in 0..n |-> g[1..i]]
<1>11. p[0] = <<>>
  <2>1. 1..0 = {} /\ {} \in SUBSET (1..n) /\ 0 \in 0..n
    OBVIOUS
  <2>2. g[{}] = <<>>
    BY <1>10, <2>1
  <2> QED BY <2>1, <2>2
<1>12. ASSUME NEW i \in 1..n PROVE p[i] = IF cd[i].type = "A" THEN p[i-1] ELSE Append(p[i-1], Marked(cd, i))
  <2>1. 1..i \in SUBSET (1..n) /\ 1..i # {} /\ Max(1..i) = i /\ (1..i) \ {i} = 1..i-1
    BY FirstIndices
  <2>2. g[1..i] = IF cd[i].type = "A" THEN g[1..i-1] ELSE Append(g[1..i-1], Marked(cd, i))
    <3>1. index[Max(1..i)] = i
      BY <1>5, <2>1
    <3> QED BY <1>10, <2>1, <3>1
  <2>3. i \in 0..n /\ i - 1 \in 0..n
    OBVIOUS
  <2> QED BY <2>2, <2>3
<1>13. p[n] = ToUri(cd)
  BY <1>5, <1>9
<1> HIDE DEF p
<1> QED BY <1>11, <1>12, <1>13

(* What is printed of a URI that was parsed: its words, their texts        *)
(* escaped, and no parenthesis at the end.                                 *)
Printed(given) ==
  [i \in 1..Len(given) |-> [text |-> Escaped(given[i].text), mark |-> IF i = Len(given) THEN "none" ELSE given[i].mark]]

(* No text of these words is changed by printing.                          *)
ArePlainWords(words) == \A i \in 1..Len(words) : IsPlain(words[i].text)

(* An event is that of the mark, whenever there is no error.               *)
LEMMA EventMark ==
  ASSUME NEW W, NEW word \in WordsOver(W)
  PROVE  /\ EventOf(word) = "Open"  => word.mark = "("
         /\ EventOf(word) = "Close" => word.mark = ")"
         /\ EventOf(word) = "Hold"  => word.mark = "none"
  BY DEF EventOf, WordsOver

(* The element that a word became is printed as the word was.              *)
LEMMA MarkedIs ==
  ASSUME NEW W, NEW given \in Seq(WordsOver(W)), Parses(given), NEW q, IsParse(q, given, W), Takes(q, given),
         NEW b, NEW cd, cd = BlockOf(given), IsLayout(b, cd, q, given), NEW i \in 1..Len(given)
  PROVE  /\ cd[b[i-1] + 1].type # "A" /\ b[i-1] + 1 \in 1..Len(cd)
         /\ Marked(cd, b[i-1] + 1) = Printed(given)[i]
<1>1. PICK n \in Nat : n = Len(given)
  BY LenProperties
<1>2. PICK m, len, word, s : m = b[i-1] + 1 /\ len = Len(cd) /\ word = given[i] /\ s = q[i-1].state
  OBVIOUS
<1>3. word \in WordsOver(W)
  BY <1>2, ElementOfSeq
<1>4. /\ b[i-1] \in Nat /\ b[i] \in Nat /\ b[i] <= len /\ len \in Nat
      /\ m \in Nat /\ m >= 1
  <2>1. i - 1 \in 0..Len(given) /\ i \in 0..Len(given) /\ Len(given) \in 0..Len(given)
    BY <1>1
  <2> QED BY <1>2, <2>1 DEF IsLayout
<1>5. /\ b[i] = IF EventOf(word) = "Close" THEN m + 1 ELSE m
      /\ cd[m] = IF s = "Opened" THEN Optional(word.text) ELSE Component(word.text)
      /\ EventOf(word) = "Close" => cd[m + 1] = Asterisk
  <2>1. b[i-1] + 2 = m + 1
    BY <1>2, <1>4
  <2> QED BY <1>2, <2>1 DEF IsLayout
<1>6. /\ EventOf(word) # "Error"
      /\ EventOf(word) = "Open" => s = "NotOpened"
      /\ EventOf(word) = "Close" => s = "Opened"
      /\ q[i].state = After(s, word)
  BY <1>2 DEF Takes, Rejects
<1>7. /\ EventOf(word) = "Open"  => word.mark = "("
      /\ EventOf(word) = "Close" => word.mark = ")"
      /\ EventOf(word) = "Hold"  => word.mark = "none"
  BY <1>3, EventMark
<1>8. m \in 1..len
  BY <1>4, <1>5
<1>9. cd[m].value = word.text /\ cd[m].type = IF s = "Opened" THEN "O" ELSE "C"
  BY <1>5 DEF Optional, Component
<1>10. \A k : Asterisk.type = "A" /\ Optional(k).type = "O" /\ Component(k).type = "C"
  BY DEF Asterisk, Optional, Component
<1>11. PICK mark : mark = CASE m < len /\ cd[m+1].type = "A" -> ")"
                            [] m < len /\ cd[m].type = "C" /\ cd[m+1].type = "O" -> "("
                            [] OTHER -> "none"
  OBVIOUS
<1>12. mark = IF i = n THEN "none" ELSE word.mark
  <2>1. CASE i = n
    <3>1. b[i] = len
      BY <1>1, <1>2, <2>1 DEF IsLayout
    <3>2. cd[len].type = "C"
      <4>1. cd # <<>>
        BY <1>2, <1>4, <1>8
      <4> QED BY <1>2, <4>1 DEF Parses, BlockOf, Last
    <3>3. EventOf(word) # "Close"
      BY <1>5, <1>10, <3>1, <3>2
    <3>4. m = len
      BY <1>5, <3>1, <3>3
    <3>5. ~(m < len)
      BY <1>4, <3>4
    <3> QED BY <1>11, <2>1, <3>5
  <2>2. CASE i # n
    <3>1. PICK j : j = i + 1
      OBVIOUS
    <3>2. j \in 1..Len(given) /\ j - 1 = i /\ j \in 0..Len(given)
      BY <1>1, <2>2, <3>1
    <3>3. PICK t : t = q[i].state
      OBVIOUS
    <3>4. /\ cd[b[i] + 1] = IF t = "Opened" THEN Optional(given[j].text) ELSE Component(given[j].text)
          /\ b[j] \in {b[i] + 1, b[i] + 2} /\ b[j] \in Nat /\ b[j] <= len
      BY <1>2, <3>2, <3>3 DEF IsLayout
    <3>5. b[i] < len
      BY <1>4, <3>4
    <3>6. CASE EventOf(word) = "Close"
      <4>1. m < len
        BY <1>4, <1>5, <3>6
      <4>2. cd[m + 1].type = "A"
        BY <1>5, <1>10, <3>6
      <4> QED BY <1>7, <1>11, <2>2, <3>6, <4>1, <4>2
    <3>7. CASE EventOf(word) # "Close"
      <4>1. b[i] = m /\ m < len
        BY <1>5, <3>5, <3>7
      <4>2. cd[m + 1].type = IF t = "Opened" THEN "O" ELSE "C"
        BY <1>10, <3>4, <4>1
      <4>3. mark = IF cd[m].type = "C" /\ cd[m + 1].type = "O" THEN "(" ELSE "none"
        BY <1>11, <4>1, <4>2
      <4>4. CASE EventOf(word) = "Open"
        <5>1. s = "NotOpened" /\ t = "Opened"
          BY <1>6, <3>3, <4>4 DEF After
        <5> QED BY <1>7, <1>9, <2>2, <4>2, <4>3, <4>4, <5>1
      <4>5. CASE EventOf(word) = "Hold"
        <5>1. t = s
          BY <1>6, <3>3, <4>5 DEF After
        <5> QED BY <1>7, <1>9, <2>2, <4>2, <4>3, <4>5, <5>1
      <4> QED BY <1>6, <3>7, <4>4, <4>5, EventIs
    <3> QED BY <3>6, <3>7
  <2> QED BY <2>1, <2>2
<1>13. Marked(cd, m) = [text |-> Escaped(word.text), mark |-> mark]
  BY <1>2, <1>9, <1>11 DEF Marked
<1>14. Printed(given)[i] = [text |-> Escaped(word.text), mark |-> IF i = n THEN "none" ELSE word.mark]
  BY <1>1, <1>2 DEF Printed
<1> QED BY <1>2, <1>8, <1>9, <1>12, <1>13, <1>14
-----------------------------------------------------------------------------
(* What a URI that is legal is printed as.                                 *)
LEMMA ToUriIs ==
  ASSUME NEW W, NEW given \in Seq(WordsOver(W)), Parses(given)
  PROVE  ToUri(BlockOf(given)) = Printed(given)
<1>1. PICK n \in Nat : DOMAIN given = 1..n /\ n = Len(given)
  BY LenProperties
<1>2. PICK q : IsParse(q, given, W)
  BY ParseFold
<1>3. Takes(q, given)
  BY <1>2, LegalTakes DEF IsParse, Parses
<1>4. PICK cd : cd = BlockOf(given)
  OBVIOUS
<1>5. PICK b : IsLayout(b, cd, q, given)
  BY <1>2, <1>3, <1>4, LayoutExists
<1>6. PICK len \in Nat : DOMAIN cd = 1..len /\ len = Len(cd)
  <2>1. n \in 0..Len(given)
    BY <1>1
  <2>2. cd \in BlocksOver(W)
    BY <1>1, <1>2, <1>4, <2>1 DEF IsParse, ParsesOver, BlockOf
  <2> QED BY <2>2, LenProperties DEF BlocksOver
<1>7. PICK p : /\ p[0] = <<>> /\ p[len] = ToUri(cd)
               /\ \A k \in 1..len : p[k] = IF cd[k].type = "A" THEN p[k-1] ELSE Append(p[k-1], Marked(cd, k))
  BY <1>6, PrintFold
<1>8. PICK words : words = Printed(given)
  OBVIOUS
<1> DEFINE X == {words[i] : i \in 1..n}
<1>9. words \in [1..n -> X]
  BY <1>1, <1>8 DEF Printed
<1> HIDE DEF X
<1>10. words \in Seq(X) /\ Len(words) = n
  BY <1>9, SeqDef, LenProperties
<1>11. ASSUME NEW i \in 1..n, p[b[i-1]] \in Seq(X) PROVE p[b[i]] = Append(p[b[i-1]], words[i])
  <2>1. PICK k : k = b[i-1] + 1
    OBVIOUS
  <2>2. cd[k].type # "A" /\ k \in 1..len /\ Marked(cd, k) = words[i]
    BY <1>1, <1>2, <1>3, <1>4, <1>5, <1>6, <1>8, <2>1, MarkedIs
  <2>3. b[i-1] \in Nat /\ b[i] \in Nat /\ b[i] <= len
    <3>1. i - 1 \in 0..Len(given) /\ i \in 0..Len(given)
      BY <1>1
    <3> QED BY <1>5, <1>6, <3>1 DEF IsLayout
  <2>4. k - 1 = b[i-1]
    BY <2>1, <2>3
  <2>5. p[k] = Append(p[b[i-1]], words[i])
    BY <1>7, <2>2, <2>4
  <2>6. CASE EventOf(given[i]) = "Close"
    <3>1. b[i] = k + 1 /\ cd[k + 1] = Asterisk
      <4>1. b[i] = b[i-1] + 2 /\ cd[b[i-1] + 2] = Asterisk
        BY <1>1, <1>5, <2>6 DEF IsLayout
      <4>2. b[i-1] + 2 = k + 1
        BY <2>1, <2>3
      <4> QED BY <4>1, <4>2
    <3>2. k + 1 \in 1..len /\ (k + 1) - 1 = k
      BY <2>2, <2>3, <3>1
    <3>3. p[k + 1] = p[k]
      <4>1. cd[k + 1].type = "A"
        <5>1. Asterisk.type = "A"
          BY DEF Asterisk
        <5> QED BY <3>1, <5>1
      <4> QED BY <1>7, <3>2, <4>1
    <3> QED BY <2>5, <3>1, <3>3
  <2>7. CASE EventOf(given[i]) # "Close"
    <3>1. b[i] = k
      BY <1>1, <1>5, <2>1, <2>7 DEF IsLayout
    <3> QED BY <2>5, <3>1
  <2> QED BY <2>6, <2>7
<1> DEFINE PrintsOf(i) == /\ p[b[i]] \in Seq(X) /\ Len(p[b[i]]) = i
                          /\ \A j \in 1..i : p[b[i]][j] = words[j]
           T == {i \in Nat : i <= n => PrintsOf(i)}
<1>12. 0 \in T
  <2>1. p[b[0]] = <<>>
    BY <1>5, <1>7 DEF IsLayout
  <2>2. <<>> \in Seq(X) /\ Len(<<>>) = 0
    OBVIOUS
  <2>3. PrintsOf(0)
    BY <2>1, <2>2
  <2> QED BY <2>3
<1>13. ASSUME NEW i \in Nat, i \in T PROVE i + 1 \in T
  <2> SUFFICES ASSUME i + 1 <= n PROVE PrintsOf(i + 1)
    OBVIOUS
  <2>1. PICK j : j = i + 1
    OBVIOUS
  <2>2. j \in 1..n /\ j - 1 = i /\ PrintsOf(i)
    BY <1>13, <2>1
  <2>3. PICK v : v = p[b[i]]
    OBVIOUS
  <2>4. v \in Seq(X) /\ Len(v) = i /\ (\A k \in 1..i : v[k] = words[k]) /\ p[b[j]] = Append(v, words[j])
    BY <1>11, <2>2, <2>3
  <2>5. words[j] \in X
    BY <1>9, <2>2
  <2>6. PICK w : w = Append(v, words[j])
    OBVIOUS
  <2>7. /\ w \in Seq(X) /\ Len(w) = Len(v) + 1
        /\ \A k \in 1..Len(v) : w[k] = v[k]
        /\ w[Len(v) + 1] = words[j]
    BY <2>4, <2>5, <2>6, AppendProperties
  <2>8. \A k \in 1..j : w[k] = words[k]
    <3>1. \A k \in 1..j : k \in 1..i \/ k = i + 1
      BY <2>1
    <3> QED BY <2>1, <2>4, <2>7, <3>1
  <2>9. Len(w) = j
    BY <2>1, <2>4, <2>7
  <2>10. p[b[j]] = w
    BY <2>4, <2>6
  <2>11. PrintsOf(j)
    BY <2>7, <2>8, <2>9, <2>10
  <2> QED BY <2>1, <2>11
<1>14. PrintsOf(n)
  <2>1. n \in T
    <3> HIDE DEF T
    <3> QED BY <1>12, <1>13, NatSetInduction
  <2> QED BY <2>1
<1>15. PICK v : v = p[b[n]]
  OBVIOUS
<1>16. v = words
  <2>1. v \in Seq(X) /\ Len(v) = n /\ \A j \in 1..n : v[j] = words[j]
    BY <1>14, <1>15
  <2> QED BY <1>10, <2>1, SeqEqual
<1>17. v = ToUri(cd)
  BY <1>1, <1>5, <1>6, <1>7, <1>15 DEF IsLayout
<1> QED BY <1>4, <1>8, <1>16, <1>17

(* What escaping makes of a text is never a plain one.                     *)
LEMMA UnusualIs ==
  ASSUME NEW u \in Unusual
  PROVE  /\ Len(u) = 3
         /\ u[2] \notin {"", "a(b", "a)b", "a()b"} /\ u[3] \notin {"", "a(b", "a)b", "a()b"}
<1>1. \/ u = <<"", "...", "......">> \/ u = <<".", "....", ".......">>
      \/ u = <<"a b", "a%20b", "a%2520b">> \/ u = <<"a(b", "a%28b", "a%2528b">>
      \/ u = <<"a)b", "a%29b", "a%2529b">> \/ u = <<"a()b", "a%28%29b", "a%2528%2529b">>
  BY DEF Unusual
<1>2. CASE u = <<"", "...", "......">>
  BY <1>2
<1>3. CASE u = <<".", "....", ".......">>
  BY <1>3
<1>4. CASE u = <<"a b", "a%20b", "a%2520b">>
  BY <1>4
<1>5. CASE u = <<"a(b", "a%28b", "a%2528b">>
  BY <1>5
<1>6. CASE u = <<"a)b", "a%29b", "a%2529b">>
  BY <1>6
<1>7. CASE u = <<"a()b", "a%28%29b", "a%2528%2529b">>
  BY <1>7
<1> QED BY <1>1, <1>2, <1>3, <1>4, <1>5, <1>6, <1>7

(* Nothing escaped has a parenthesis or is empty; plain texts stay.        *)
LEMMA EscapedIs ==
  ASSUME NEW text
  PROVE  /\ ParensIn(Escaped(text)) = {} /\ Escaped(text) # ""
         /\ IsPlain(text) => Escaped(text) = text
<1>1. CASE \A u \in Unusual : text \notin {u[1], u[2]}
  <2>1. Escaped(text) = text
    BY <1>1 DEF Escaped
  <2>2. text \notin {"", "a(b", "a)b", "a()b"}
    BY <1>1 DEF Unusual
  <2> QED BY <2>1, <2>2 DEF ParensIn
<1>2. CASE \E u \in Unusual : text \in {u[1], u[2]}
  <2>1. PICK v : v = CHOOSE u \in Unusual : text \in {u[1], u[2]}
    OBVIOUS
  <2>2. v \in Unusual /\ text \in {v[1], v[2]}
    BY <1>2, <2>1
  <2>3. Escaped(text) = IF text = v[1] THEN v[2] ELSE v[3]
    BY <1>2, <2>1, Zenon DEF Escaped
  <2>4. Escaped(text) \in {v[2], v[3]}
    BY <2>3
  <2>5. {v[2], v[3]} \cap {"", "a(b", "a)b", "a()b"} = {}
    BY <2>2, UnusualIs
  <2>6. ~IsPlain(text)
    <3>1. Len(v) = 3
      BY <2>2, UnusualIs
    <3>2. 1 \in 1..Len(v) /\ 2 \in 1..Len(v)
      BY <3>1
    <3> QED BY <2>2, <3>2 DEF IsPlain
  <2> QED BY <2>4, <2>5, <2>6 DEF ParensIn
<1> QED BY <1>1, <1>2
-----------------------------------------------------------------------------
(* A CD may not end in a group: what that means for its last word.         *)
EndsWell(q, given) ==
  Len(given) >= 1 => EventOf(given[Len(given)]) # "Close" /\ q[Len(given) - 1].state # "Opened"

(* A URI is legal if all its words are taken and no group ends it.         *)
LEMMA LegalIs ==
  ASSUME NEW W, NEW given \in Seq(WordsOver(W)), NEW q, IsParse(q, given, W)
  PROVE  Parses(given) <=> q[Len(given)].state # "Error" /\ EndsWell(q, given)
<1>1. PICK n \in Nat : DOMAIN given = 1..n /\ n = Len(given)
  BY LenProperties
<1>2. PICK cd : cd = BlockOf(given)
  OBVIOUS
<1>3. Parses(given) <=> q[n].state # "Error" /\ (cd # <<>> => cd[Len(cd)].type = "C")
  BY <1>1, <1>2 DEF Parses, BlockOf, IsParse, Last
<1>4. ASSUME q[n].state # "Error" PROVE (cd # <<>> => cd[Len(cd)].type = "C") <=> EndsWell(q, given)
  <2>1. Takes(q, given)
    BY <1>1, <1>4, LegalTakes
  <2>2. PICK b : IsLayout(b, cd, q, given)
    BY <1>2, <2>1, LayoutExists
  <2>3. PICK E : cd \in Seq(E)
    <3>1. n \in 0..Len(given)
      BY <1>1
    <3> QED BY <1>1, <1>2, <3>1 DEF IsParse, ParsesOver, BlockOf, BlocksOver
  <2>4. PICK len \in Nat : len = Len(cd) /\ (cd = <<>> <=> len = 0)
    BY <2>3, EmptySeq, LenProperties
  <2>5. CASE n = 0
    <3>1. len = 0
      BY <1>1, <2>2, <2>4, <2>5 DEF IsLayout
    <3>2. cd = <<>>
      BY <2>4, <3>1
    <3>3. ~(n >= 1)
      BY <2>5
    <3> QED BY <1>1, <3>2, <3>3 DEF EndsWell
  <2>6. CASE n # 0
    <3>1. n \in 1..Len(given) /\ n - 1 \in 0..Len(given) /\ n >= 1
      BY <1>1, <2>6
    <3>2. PICK m, word, s : m = b[n-1] + 1 /\ word = given[n] /\ s = q[n-1].state
      OBVIOUS
    <3>3. /\ b[n-1] \in Nat
          /\ len = IF EventOf(word) = "Close" THEN b[n-1] + 2 ELSE m
          /\ cd[m] = IF s = "Opened" THEN Optional(word.text) ELSE Component(word.text)
          /\ EventOf(word) = "Close" => cd[b[n-1] + 2] = Asterisk
      BY <1>1, <2>2, <2>4, <3>1, <3>2 DEF IsLayout
    <3>4. cd # <<>>
      BY <2>4, <3>2, <3>3
    <3>5. \A k : Asterisk.type = "A" /\ Optional(k).type = "O" /\ Component(k).type = "C"
      BY DEF Asterisk, Optional, Component
    <3>6. cd[len].type = "C" <=> EventOf(word) # "Close" /\ s # "Opened"
      <4>1. CASE EventOf(word) = "Close"
        <5>1. cd[len] = Asterisk
          BY <3>3, <4>1
        <5> QED BY <3>5, <4>1, <5>1
      <4>2. CASE EventOf(word) # "Close"
        <5>1. cd[len] = IF s = "Opened" THEN Optional(word.text) ELSE Component(word.text)
          BY <3>3, <4>2
        <5> QED BY <3>5, <4>2, <5>1
      <4> QED BY <4>1, <4>2
    <3> QED BY <1>1, <2>4, <3>1, <3>2, <3>4, <3>6 DEF EndsWell
  <2> QED BY <2>5, <2>6
<1> QED BY <1>1, <1>3, <1>4

(* What is printed is parsed by the same events, but for the last word.    *)
LEMMA PrintedWord ==
  ASSUME NEW W, NEW given \in Seq(WordsOver(W)), NEW i \in 1..Len(given), EventOf(given[i]) # "Error"
  PROVE  /\ i < Len(given) => EventOf(Printed(given)[i]) = EventOf(given[i])
         /\ i = Len(given) => EventOf(Printed(given)[i]) = "Hold"
         /\ ArePlainWords(given) => Printed(given)[i].text = given[i].text
<1>1. PICK n \in Nat : n = Len(given)
  BY LenProperties
<1>2. PICK word, new : word = given[i] /\ new = Printed(given)[i]
  OBVIOUS
<1>3. word \in WordsOver(W)
  BY <1>2, ElementOfSeq
<1>4. new.text = Escaped(word.text) /\ new.mark = IF i = n THEN "none" ELSE word.mark
  BY <1>1, <1>2 DEF Printed
<1>5. ParensIn(new.text) = {} /\ new.text # "" /\ (IsPlain(word.text) => new.text = word.text)
  BY <1>4, EscapedIs
<1>6. EventOf(new) = CASE new.mark = "(" -> "Open" [] new.mark = ")" -> "Close" [] OTHER -> "Hold"
  BY <1>5 DEF EventOf
<1>7. EventOf(word) = CASE word.mark = "(" -> "Open" [] word.mark = ")" -> "Close" [] OTHER -> "Hold"
  BY <1>2 DEF EventOf
<1>8. ArePlainWords(given) => IsPlain(word.text)
  BY <1>2 DEF ArePlainWords
<1>9. i < n => EventOf(new) = EventOf(word)
  BY <1>4, <1>6, <1>7
<1>10. i = n => EventOf(new) = "Hold"
  BY <1>4, <1>6
<1>11. ArePlainWords(given) => new.text = word.text
  BY <1>5, <1>8
<1> QED BY <1>1, <1>2, <1>9, <1>10, <1>11

(* What is printed can be parsed again; and it is the same CD if nothing   *)
(* in it had to be escaped.                                                *)
LEMMA PrintedParses ==
  ASSUME NEW W, NEW given \in Seq(WordsOver(W)), Parses(given)
  PROVE  /\ Parses(Printed(given))
         /\ ArePlainWords(given) => BlockOf(Printed(given)) = BlockOf(given)
<1>1. PICK n \in Nat : DOMAIN given = 1..n /\ n = Len(given)
  BY LenProperties
<1>2. PICK U : U = W \cup {Escaped(w) : w \in W}
  OBVIOUS
<1>3. PICK words : words = Printed(given)
  OBVIOUS
<1>4. given \in Seq(WordsOver(U))
  <2>1. WordsOver(W) \subseteq WordsOver(U)
    BY <1>2 DEF WordsOver
  <2> QED BY <2>1, SeqMonotonic
<1>5. words \in Seq(WordsOver(U)) /\ Len(words) = n
  <2>1. ASSUME NEW i \in 1..n PROVE words[i] \in WordsOver(U)
    <3>1. PICK word : word = given[i]
      OBVIOUS
    <3>2. word \in WordsOver(W)
      BY <1>1, <3>1, ElementOfSeq
    <3>3. words[i] = [text |-> Escaped(word.text), mark |-> IF i = n THEN "none" ELSE word.mark]
      BY <1>1, <1>3, <3>1 DEF Printed
    <3>4. Escaped(word.text) \in U /\ word.mark \in {"none", "(", ")"}
      BY <1>2, <3>2 DEF WordsOver
    <3> QED BY <3>3, <3>4 DEF WordsOver
  <2>2. words = [i \in 1..n |-> words[i]]
    BY <1>1, <1>3 DEF Printed
  <2>3. words \in [1..n -> WordsOver(U)]
    BY <2>1, <2>2
  <2> QED BY <2>3, SeqDef, LenProperties
<1>6. PICK q : IsParse(q, given, U)
  BY <1>4, ParseFold
<1>7. PICK r : IsParse(r, words, U)
  BY <1>5, ParseFold
<1>8. q[n].state # "Error" /\ EndsWell(q, given) /\ Takes(q, given)
  BY <1>1, <1>4, <1>6, LegalIs, LegalTakes
<1> DEFINE Agrees(i) == /\ r[i].state # "Error"
                        /\ i < n => r[i].state = q[i].state
                        /\ ArePlainWords(given) => r[i].block = q[i].block
           T == {i \in Nat : i <= n => Agrees(i)}
<1>9. 0 \in T
  <2>1. q[0] = ParseStart /\ r[0] = ParseStart /\ ParseStart.state = "NotOpened"
    BY <1>6, <1>7 DEF IsParse, ParseStart
  <2>2. Agrees(0)
    BY <2>1
  <2> QED BY <2>2
<1>10. ASSUME NEW i \in 1..n, Agrees(i-1) PROVE Agrees(i)
  <2>1. PICK word, new, s, p : word = given[i] /\ new = words[i] /\ s = q[i-1].state /\ p = r[i-1]
    OBVIOUS
  <2>2. i - 1 \in 0..n /\ i - 1 < n /\ new \in WordsOver(U) /\ i \in 1..Len(words)
    BY <1>1, <1>5, <2>1, ElementOfSeq
  <2>3. p \in ParsesOver(U) /\ r[i] = Consume(p, new) /\ p.state = s
    BY <1>5, <1>7, <1>10, <2>1, <2>2 DEF IsParse
  <2>4. /\ ~Rejects(s, word) /\ q[i].state = After(s, word)
        /\ q[i].block = q[i-1].block \o Added(s, word)
    BY <1>1, <1>8, <2>1 DEF Takes
  <2>5. /\ i < n => EventOf(new) = EventOf(word)
        /\ i = n => EventOf(new) = "Hold"
        /\ ArePlainWords(given) => new.text = word.text
    BY <1>1, <1>3, <1>4, <2>1, <2>4, PrintedWord DEF Rejects
  <2>6. ~Rejects(s, new)
    BY <2>4, <2>5 DEF Rejects
  <2>7. /\ r[i].state = After(s, new) /\ r[i].state # "Error"
        /\ r[i].block = p.block \o Added(s, new)
    BY <2>2, <2>3, <2>6, ConsumeIs
  <2>8. i < n => r[i].state = q[i].state
    BY <2>4, <2>5, <2>7 DEF After
  <2>9. ASSUME ArePlainWords(given) PROVE r[i].block = q[i].block
    <3>1. EventOf(new) = "Close" <=> EventOf(word) = "Close"
      <4>1. i = n => EventOf(word) # "Close"
        BY <1>1, <1>8, <2>1 DEF EndsWell
      <4> QED BY <2>5, <4>1
    <3>2. new.text = word.text
      BY <2>5, <2>9
    <3>3. Added(s, new) = Added(s, word)
      BY <3>1, <3>2 DEF Added
    <3>4. p.block = q[i-1].block
      BY <1>10, <2>1, <2>9
    <3> QED BY <2>4, <2>7, <3>3, <3>4
  <2> QED BY <2>7, <2>8, <2>9
<1>11. \A i \in 0..n : Agrees(i)
  <2>1. ASSUME NEW i \in Nat, i \in T PROVE i + 1 \in T
    <3> SUFFICES ASSUME i + 1 <= n PROVE Agrees(i + 1)
      OBVIOUS
    <3>1. PICK j : j = i + 1
      OBVIOUS
    <3>2. j \in 1..n /\ j - 1 = i /\ Agrees(i)
      BY <2>1, <3>1
    <3> HIDE DEF Agrees
    <3>3. Agrees(j - 1)
      BY <3>2
    <3>4. Agrees(j)
      BY <1>10, <3>2, <3>3
    <3> QED BY <3>1, <3>4
  <2>2. \A i \in Nat : i \in T
    <3> HIDE DEF T
    <3> QED BY <1>9, <2>1, NatSetInduction
  <2> HIDE DEF Agrees
  <2> QED BY <2>2
<1>12. EndsWell(r, words)
  <2> SUFFICES ASSUME n >= 1 PROVE EventOf(words[n]) # "Close" /\ r[n-1].state # "Opened"
    BY <1>5 DEF EndsWell
  <2>1. n \in 1..n /\ n - 1 \in 0..n /\ n - 1 < n
    OBVIOUS
  <2>2. EventOf(given[n]) # "Error"
    BY <1>1, <1>8, <2>1 DEF Takes, Rejects
  <2>3. EventOf(words[n]) = "Hold"
    BY <1>1, <1>3, <1>4, <2>1, <2>2, PrintedWord
  <2>4. r[n-1].state = q[n-1].state
    BY <1>11, <2>1
  <2>5. q[n-1].state # "Opened"
    BY <1>1, <1>8 DEF EndsWell
  <2> QED BY <2>3, <2>4, <2>5
<1>13. r[n].state # "Error" /\ (ArePlainWords(given) => r[n].block = q[n].block)
  BY <1>11
<1>14. Parses(words)
  BY <1>5, <1>7, <1>12, <1>13, LegalIs
<1>15. BlockOf(words) = r[n].block /\ BlockOf(given) = q[n].block
  BY <1>1, <1>5, <1>6, <1>7 DEF IsParse, BlockOf
<1> QED BY <1>3, <1>13, <1>14, <1>15
-----------------------------------------------------------------------------
(* What a word of the grammar is to the parser.                            *)
LEMMA WordEvent ==
  ASSUME NEW W, NEW word \in WordsOver(W)
  PROVE  /\ EventOf(word) # "Error" <=> /\ word.mark \notin ParensIn(word.text)
                                        /\ word.mark = "none" => ParensIn(word.text) = {} /\ word.text # ""
         /\ EventOf(word) # "Error" => EventOf(word) = CASE word.mark = "(" -> "Open"
                                                         [] word.mark = ")" -> "Close"
                                                         [] OTHER -> "Hold"
<1>1. word.mark \in {"none", "(", ")"}
  BY DEF WordsOver
<1>2. "none" \notin ParensIn(word.text)
  BY DEF ParensIn
<1> QED BY <1>1, <1>2 DEF EventOf

(* What the state of the parser says of the words before.                  *)
MarksSoFar(state, given, i) ==
  \/ state = "NotOpened" /\ \A k \in 1..i : given[k].mark = "none"
  \/ /\ state = "Opened"
     /\ \E a \in 1..i : given[a].mark = "(" /\ \A k \in 1..i : k # a => given[k].mark = "none"
  \/ /\ state = "Closed"
     /\ \E a, c \in 1..i : /\ a < c /\ given[a].mark = "(" /\ given[c].mark = ")"
                           /\ \A k \in 1..i : k \notin {a, c} => given[k].mark = "none"

(* The grammar, for words with no slashes around them.                     *)
WordsInGrammar(words) ==
  /\ \A i \in 1..Len(words) :
       /\ words[i].mark \notin ParensIn(words[i].text)
       /\ words[i].mark = "none" => ParensIn(words[i].text) = {} /\ words[i].text # ""
  /\ \/ Opens(words) = {} /\ Closes(words) = {}
     \/ \E i, j \in 1..Len(words) : Opens(words) = {i} /\ Closes(words) = {j} /\ i < j /\ j < Len(words)
     \/ Opens(words) = {Len(words)} /\ Closes(words) = {}

(* What is parsed is in the grammar: one group at most, closed inside.     *)
LEMMA LegalInGrammar ==
  ASSUME NEW W, NEW given \in Seq(WordsOver(W)), Parses(given)
  PROVE  WordsInGrammar(given)
<1>1. PICK n \in Nat : DOMAIN given = 1..n /\ n = Len(given)
  BY LenProperties
<1>2. PICK q : IsParse(q, given, W)
  BY ParseFold
<1>3. q[n].state # "Error" /\ EndsWell(q, given) /\ Takes(q, given)
  BY <1>1, <1>2, LegalIs, LegalTakes
<1>4. ASSUME NEW i \in 1..n
      PROVE  /\ EventOf(given[i]) # "Error"
             /\ given[i].mark \notin ParensIn(given[i].text)
             /\ given[i].mark = "none" => ParensIn(given[i].text) = {} /\ given[i].text # ""
             /\ EventOf(given[i]) = CASE given[i].mark = "(" -> "Open" [] given[i].mark = ")" -> "Close" [] OTHER -> "Hold"
             /\ given[i].mark \in {"none", "(", ")"}
  <2>1. PICK word : word = given[i]
    OBVIOUS
  <2>2. word \in WordsOver(W)
    BY <1>1, <2>1, ElementOfSeq
  <2>3. EventOf(word) # "Error"
    BY <1>1, <1>3, <2>1 DEF Takes, Rejects
  <2>4. word.mark \in {"none", "(", ")"}
    BY <2>2 DEF WordsOver
  <2> QED BY <2>1, <2>2, <2>3, <2>4, WordEvent
<1> DEFINE T == {i \in Nat : i <= n => MarksSoFar(q[i].state, given, i)}
<1>5. 0 \in T
  <2>1. q[0].state = "NotOpened"
    BY <1>2 DEF IsParse, ParseStart
  <2>2. MarksSoFar("NotOpened", given, 0)
    BY DEF MarksSoFar
  <2> QED BY <2>1, <2>2
<1>6. ASSUME NEW i \in Nat, i \in T PROVE i + 1 \in T
  <2> SUFFICES ASSUME i + 1 <= n PROVE MarksSoFar(q[i+1].state, given, i + 1)
    OBVIOUS
  <2>1. PICK j, s, t : j = i + 1 /\ s = q[i].state /\ t = q[i+1].state
    OBVIOUS
  <2>2. j \in 1..n /\ j - 1 = i /\ MarksSoFar(s, given, i)
    BY <1>6, <2>1
  <2>3. t = After(s, given[j]) /\ ~Rejects(s, given[j])
    BY <1>1, <1>3, <2>1, <2>2 DEF Takes
  <2>4. \A k \in 1..j : k \in 1..i \/ k = j
    BY <2>1
  <2>5. \A k \in 1..i : k \in 1..j /\ k < j
    BY <2>1
  <2>6. j \in 1..j
    BY <2>2
  <2>7. CASE given[j].mark = "none"
    <3>1. t = s
      BY <1>4, <2>2, <2>3, <2>7 DEF After
    <3>2. ASSUME s = "NotOpened" /\ \A k \in 1..i : given[k].mark = "none" PROVE MarksSoFar(s, given, j)
      BY <2>4, <2>7, <3>2 DEF MarksSoFar
    <3>3. ASSUME s = "Opened", NEW a \in 1..i, given[a].mark = "(", \A k \in 1..i : k # a => given[k].mark = "none"
          PROVE MarksSoFar(s, given, j)
      <4>1. a \in 1..j /\ \A k \in 1..j : k # a => given[k].mark = "none"
        BY <2>4, <2>5, <2>7, <3>3
      <4> QED BY <3>3, <4>1 DEF MarksSoFar
    <3>4. ASSUME s = "Closed", NEW a \in 1..i, NEW c \in 1..i, a < c, given[a].mark = "(", given[c].mark = ")",
                 \A k \in 1..i : k \notin {a, c} => given[k].mark = "none"
          PROVE MarksSoFar(s, given, j)
      <4>1. a \in 1..j /\ c \in 1..j /\ \A k \in 1..j : k \notin {a, c} => given[k].mark = "none"
        BY <2>4, <2>5, <2>7, <3>4
      <4> QED BY <3>4, <4>1 DEF MarksSoFar
    <3>5. MarksSoFar(s, given, j)
      BY <2>2, <3>2, <3>3, <3>4 DEF MarksSoFar
    <3> QED BY <2>1, <3>1, <3>5
  <2>8. CASE given[j].mark = "("
    <3>1. EventOf(given[j]) = "Open"
      BY <1>4, <2>2, <2>8
    <3>2. s = "NotOpened" /\ t = "Opened"
      BY <2>3, <3>1 DEF After, Rejects
    <3>3. \A k \in 1..i : given[k].mark = "none"
      BY <2>2, <3>2 DEF MarksSoFar
    <3>4. MarksSoFar(t, given, j)
      BY <2>4, <2>6, <2>8, <3>2, <3>3 DEF MarksSoFar
    <3> QED BY <2>1, <3>4
  <2>9. CASE given[j].mark = ")"
    <3>1. EventOf(given[j]) = "Close"
      BY <1>4, <2>2, <2>9
    <3>2. s = "Opened" /\ t = "Closed"
      BY <2>3, <3>1 DEF After, Rejects
    <3>3. PICK a \in 1..i : given[a].mark = "(" /\ \A k \in 1..i : k # a => given[k].mark = "none"
      BY <2>2, <3>2 DEF MarksSoFar
    <3>4. a \in 1..j /\ a < j /\ \A k \in 1..j : k \notin {a, j} => given[k].mark = "none"
      BY <2>4, <2>5, <3>3
    <3>5. MarksSoFar(t, given, j)
      BY <2>6, <2>9, <3>2, <3>3, <3>4 DEF MarksSoFar
    <3> QED BY <2>1, <3>5
  <2> QED BY <1>4, <2>2, <2>7, <2>8, <2>9
<1>7. MarksSoFar(q[n].state, given, n)
  <2>1. n \in T
    <3> HIDE DEF T
    <3> QED BY <1>5, <1>6, NatSetInduction
  <2> QED BY <2>1
<1>8. PICK s : s = q[n].state
  OBVIOUS
<1>9. \/ Opens(given) = {} /\ Closes(given) = {}
      \/ \E i, j \in 1..n : Opens(given) = {i} /\ Closes(given) = {j} /\ i < j /\ j < n
      \/ Opens(given) = {n} /\ Closes(given) = {}
  <2>1. CASE s = "NotOpened"
    <3>1. \A k \in 1..n : given[k].mark = "none"
      BY <1>7, <1>8, <2>1 DEF MarksSoFar
    <3> QED BY <1>1, <3>1 DEF Opens, Closes
  <2>2. CASE s = "Opened"
    <3>1. PICK a \in 1..n : given[a].mark = "(" /\ \A k \in 1..n : k # a => given[k].mark = "none"
      BY <1>7, <1>8, <2>2 DEF MarksSoFar
    <3>2. n \in 1..n /\ n >= 1
      OBVIOUS
    <3>3. PICK t : t = q[n-1].state
      OBVIOUS
    <3>4. t # "Opened" /\ s = After(t, given[n])
      BY <1>1, <1>3, <1>8, <3>2, <3>3 DEF EndsWell, Takes
    <3>5. EventOf(given[n]) = "Open"
      BY <2>2, <3>4 DEF After
    <3>6. given[n].mark = "("
      BY <1>4, <3>2, <3>5
    <3>7. a = n
      BY <3>1, <3>2, <3>6
    <3>8. Opens(given) = {n} /\ Closes(given) = {}
      BY <1>1, <3>1, <3>2, <3>7 DEF Opens, Closes
    <3> QED BY <3>8
  <2>3. CASE s = "Closed"
    <3>1. PICK a, c \in 1..n : /\ a < c /\ given[a].mark = "(" /\ given[c].mark = ")"
                               /\ \A k \in 1..n : k \notin {a, c} => given[k].mark = "none"
      BY <1>7, <1>8, <2>3 DEF MarksSoFar
    <3>2. n \in 1..n /\ n >= 1
      OBVIOUS
    <3>3. given[n].mark # ")"
      <4>1. EventOf(given[n]) # "Close"
        BY <1>1, <1>3, <3>2 DEF EndsWell
      <4> QED BY <1>4, <3>2, <4>1
    <3>4. c < n
      BY <3>1, <3>3
    <3>5. Opens(given) = {a} /\ Closes(given) = {c}
      BY <1>1, <3>1 DEF Opens, Closes
    <3> QED BY <3>1, <3>4, <3>5
  <2> QED BY <1>7, <1>8, <2>1, <2>2, <2>3 DEF MarksSoFar
<1> QED BY <1>1, <1>4, <1>9 DEF WordsInGrammar
-----------------------------------------------------------------------------
(* The state of the parser after i words of a URI of the grammar.          *)
StateAfter(given, i) ==
  IF \E c \in 1..i : given[c].mark = ")" THEN "Closed"
  ELSE IF \E a \in 1..i : given[a].mark = "(" THEN "Opened"
  ELSE "NotOpened"

(* At most one group, which is opened before it is closed.                 *)
OneGroup(given, n) ==
  /\ \A a, b \in 1..n : given[a].mark = "(" /\ given[b].mark = "(" => a = b
  /\ \A c, d \in 1..n : given[c].mark = ")" /\ given[d].mark = ")" => c = d
  /\ \A c \in 1..n : given[c].mark = ")" => c # n /\ \E a \in 1..n : a < c /\ given[a].mark = "("
  /\ \A a \in 1..n : given[a].mark = "(" => a = n \/ \E c \in 1..n : given[c].mark = ")"

LEMMA GrammarHasOneGroup ==
  ASSUME NEW given, NEW n \in Nat, n = Len(given), WordsInGrammar(given)
  PROVE  OneGroup(given, n)
<1>1. CASE Opens(given) = {} /\ Closes(given) = {}
  <2>1. \A k \in 1..n : given[k].mark # "(" /\ given[k].mark # ")"
    BY <1>1 DEF Opens, Closes
  <2> QED BY <2>1 DEF OneGroup
<1>2. ASSUME NEW i \in 1..n, NEW j \in 1..n, Opens(given) = {i}, Closes(given) = {j}, i < j, j < n
      PROVE  OneGroup(given, n)
  <2>1. \A k \in 1..n : (given[k].mark = "(" <=> k = i) /\ (given[k].mark = ")" <=> k = j)
    BY <1>2 DEF Opens, Closes
  <2>2. j # n
    BY <1>2
  <2> QED BY <1>2, <2>1, <2>2 DEF OneGroup
<1>3. CASE Opens(given) = {n} /\ Closes(given) = {}
  <2>1. \A k \in 1..n : (given[k].mark = "(" <=> k = n) /\ given[k].mark # ")"
    BY <1>3 DEF Opens, Closes
  <2> QED BY <2>1 DEF OneGroup
<1> QED BY <1>1, <1>2, <1>3 DEF WordsInGrammar

(* What is in the grammar is parsed: the state follows from the marks.     *)
LEMMA InGrammarLegal ==
  ASSUME NEW W, NEW given \in Seq(WordsOver(W)), WordsInGrammar(given)
  PROVE  Parses(given)
<1>1. PICK n \in Nat : DOMAIN given = 1..n /\ n = Len(given)
  BY LenProperties
<1>2. PICK q : IsParse(q, given, W)
  BY ParseFold
<1>3. OneGroup(given, n)
  BY <1>1, GrammarHasOneGroup
<1>4. ASSUME NEW i \in 1..n
      PROVE  /\ EventOf(given[i]) # "Error"
             /\ EventOf(given[i]) = CASE given[i].mark = "(" -> "Open" [] given[i].mark = ")" -> "Close" [] OTHER -> "Hold"
             /\ given[i].mark \in {"none", "(", ")"}
  <2>1. PICK word : word = given[i]
    OBVIOUS
  <2>2. word \in WordsOver(W)
    BY <1>1, <2>1, ElementOfSeq
  <2>3. /\ word.mark \notin ParensIn(word.text)
        /\ word.mark = "none" => ParensIn(word.text) = {} /\ word.text # ""
    BY <1>1, <2>1 DEF WordsInGrammar
  <2>4. word.mark \in {"none", "(", ")"}
    BY <2>2 DEF WordsOver
  <2> QED BY <2>1, <2>2, <2>3, <2>4, WordEvent
<1> DEFINE T == {i \in Nat : i <= n => q[i].state = StateAfter(given, i)}
<1>5. 0 \in T
  <2>1. q[0].state = "NotOpened"
    BY <1>2 DEF IsParse, ParseStart
  <2>2. StateAfter(given, 0) = "NotOpened"
    BY DEF StateAfter
  <2> QED BY <2>1, <2>2
<1>6. ASSUME NEW i \in Nat, i \in T PROVE i + 1 \in T
  <2> SUFFICES ASSUME i + 1 <= n PROVE q[i+1].state = StateAfter(given, i + 1)
    OBVIOUS
  <2>1. PICK j, s, p : j = i + 1 /\ s = StateAfter(given, i) /\ p = q[i]
    OBVIOUS
  <2>2. j \in 1..n /\ j - 1 = i /\ p.state = s /\ i \in 0..n
    BY <1>6, <2>1
  <2>3. q[j] = Consume(p, given[j]) /\ p \in ParsesOver(W) /\ given[j] \in WordsOver(W)
    BY <1>1, <1>2, <2>1, <2>2, ElementOfSeq DEF IsParse
  <2>4. ~Rejects(s, given[j]) => q[j].state = After(s, given[j])
    BY <2>2, <2>3, ConsumeIs
  <2>5. s # "Error"
    BY <2>1 DEF StateAfter
  <2>6. \A k \in 1..j : k \in 1..i \/ k = j
    BY <2>1
  <2>7. \A k \in 1..i : k \in 1..j /\ k < j /\ k \in 1..n
    BY <2>1, <2>2
  <2>8. j \in 1..j
    BY <2>2
  <2>9. CASE given[j].mark = "none"
    <3>1. EventOf(given[j]) = "Hold"
      BY <1>4, <2>2, <2>9
    <3>2. q[j].state = s
      BY <2>4, <2>5, <3>1 DEF Rejects, After
    <3>3. StateAfter(given, j) = s
      BY <2>1, <2>6, <2>7, <2>9 DEF StateAfter
    <3> QED BY <2>1, <3>2, <3>3
  <2>10. CASE given[j].mark = "("
    <3>1. EventOf(given[j]) = "Open"
      BY <1>4, <2>2, <2>10
    <3>2. \A a \in 1..i : given[a].mark # "("
      BY <1>3, <2>2, <2>7, <2>10 DEF OneGroup
    <3>3. ASSUME NEW c \in 1..i, given[c].mark = ")" PROVE FALSE
      <4>1. PICK a \in 1..n : a < c /\ given[a].mark = "("
        BY <1>3, <2>7, <3>3 DEF OneGroup
      <4>2. a = j
        BY <1>3, <2>2, <2>10, <4>1 DEF OneGroup
      <4> QED BY <2>7, <4>1, <4>2
    <3>4. s = "NotOpened"
      BY <2>1, <3>2, <3>3 DEF StateAfter
    <3>5. q[j].state = "Opened"
      BY <2>4, <3>1, <3>4 DEF Rejects, After
    <3>6. StateAfter(given, j) = "Opened"
      <4>1. \A c \in 1..j : given[c].mark # ")"
        BY <2>6, <2>10, <3>3
      <4> QED BY <2>8, <2>10, <4>1 DEF StateAfter
    <3> QED BY <2>1, <3>5, <3>6
  <2>11. CASE given[j].mark = ")"
    <3>1. EventOf(given[j]) = "Close"
      BY <1>4, <2>2, <2>11
    <3>2. PICK a \in 1..n : a < j /\ given[a].mark = "("
      BY <1>3, <2>2, <2>11 DEF OneGroup
    <3>3. a \in 1..i
      BY <2>1, <3>2
    <3>4. \A c \in 1..i : given[c].mark # ")"
      <4>1. ASSUME NEW c \in 1..i, given[c].mark = ")" PROVE FALSE
        <5>1. c = j
          BY <1>3, <2>2, <2>7, <2>11, <4>1 DEF OneGroup
        <5> QED BY <2>7, <5>1
      <4> QED BY <4>1
    <3>5. s = "Opened"
      BY <2>1, <3>2, <3>3, <3>4 DEF StateAfter
    <3>6. q[j].state = "Closed"
      BY <2>4, <3>1, <3>5 DEF Rejects, After
    <3>7. StateAfter(given, j) = "Closed"
      BY <2>8, <2>11 DEF StateAfter
    <3> QED BY <2>1, <3>6, <3>7
  <2> QED BY <1>4, <2>2, <2>9, <2>10, <2>11
<1>7. \A i \in 0..n : q[i].state = StateAfter(given, i)
  <2>1. \A i \in Nat : i \in T
    <3> HIDE DEF T
    <3> QED BY <1>5, <1>6, NatSetInduction
  <2> QED BY <2>1
<1>8. q[n].state # "Error"
  <2>1. q[n].state = StateAfter(given, n)
    BY <1>7
  <2> QED BY <2>1 DEF StateAfter
<1>9. EndsWell(q, given)
  <2> SUFFICES ASSUME n >= 1 PROVE EventOf(given[n]) # "Close" /\ q[n-1].state # "Opened"
    BY <1>1 DEF EndsWell
  <2>1. n \in 1..n /\ n - 1 \in 0..n
    OBVIOUS
  <2>2. given[n].mark # ")"
    BY <1>3, <2>1 DEF OneGroup
  <2>3. EventOf(given[n]) # "Close"
    BY <1>4, <2>1, <2>2
  <2>4. ASSUME NEW a \in 1..n-1, given[a].mark = "(" PROVE \E c \in 1..n-1 : given[c].mark = ")"
    <3>1. a \in 1..n /\ a # n
      OBVIOUS
    <3>2. PICK c \in 1..n : given[c].mark = ")"
      BY <1>3, <2>4, <3>1 DEF OneGroup
    <3>3. c # n
      BY <2>2, <3>2
    <3>4. c \in 1..n-1
      BY <3>3
    <3> QED BY <3>2, <3>4
  <2>5. StateAfter(given, n - 1) # "Opened"
    BY <2>4 DEF StateAfter
  <2>6. q[n-1].state # "Opened"
    BY <1>7, <2>1, <2>5
  <2> QED BY <2>3, <2>6
<1> QED BY <1>1, <1>2, <1>8, <1>9, LegalIs
-----------------------------------------------------------------------------
(* A URI without its slashes at the ends: its a-th to its b-th word.       *)
Trims(given, a, b) ==
  /\ a \in Filled(given) /\ b \in Filled(given)
  /\ a \in 1..Len(given) /\ b \in a..Len(given)
  /\ \A k \in Filled(given) : k \in a..b
  /\ Len(Trimmed(given)) = b - a + 1
  /\ \A i \in 1..b-a+1 : Trimmed(given)[i] = given[a + i - 1]

LEMMA FilledIs ==
  ASSUME NEW given
  PROVE  /\ Filled(given) \in SUBSET (1..Len(given))
         /\ \A i \in 1..Len(given) : i \notin Filled(given) => given[i].mark = "none"
<1>1. PICK w : w = ""
  BY Zenon
<1>2. Filled(given) = {i \in 1..Len(given) : given[i] # Word(w)}
  BY <1>1, Zenon DEF Filled
<1> QED BY <1>2 DEF Word

LEMMA TrimmedIs ==
  ASSUME NEW S, NEW given \in Seq(S)
  PROVE  /\ Trimmed(given) \in Seq(S)
         /\ \/ Filled(given) = {} /\ Trimmed(given) = <<>>
            \/ \E a, b : Trims(given, a, b)
<1>1. PICK n \in Nat : DOMAIN given = 1..n /\ n = Len(given)
  BY LenProperties
<1>2. PICK s : s = Filled(given)
  OBVIOUS
<1>3. s \in SUBSET (1..n) /\ s \in SUBSET Nat
  BY <1>1, <1>2, FilledIs
<1>4. CASE s = {}
  <2>1. Trimmed(given) = <<>>
    BY <1>2, <1>4 DEF Trimmed
  <2> QED BY <1>2, <1>4, <2>1
<1>5. CASE s # {}
  <2>1. PICK a, b : a = Min(s) /\ b = Max(s)
    OBVIOUS
  <2>2. \E x \in s : \A y \in s : x <= y
    BY <1>3, <1>5, LeastExists
  <2>3. a \in s /\ \A k \in s : a <= k
    BY <2>1, <2>2, Zenon DEF Min
  <2>4. b \in s /\ \A k \in s : k <= b
    BY <1>3, <1>5, <2>1, GreatestExists
  <2>5. a \in 1..n /\ b \in a..n /\ \A k \in s : k \in a..b
    BY <1>3, <2>3, <2>4
  <2>6. PICK words : words = SubSeq(given, a, b)
    OBVIOUS
  <2>7. \A i \in a..b : given[i] \in S
    BY <1>1, <2>5, ElementOfSeq
  <2>8. words \in Seq(S) /\ Len(words) = b - a + 1 /\ \A i \in 1..b-a+1 : words[i] = given[a + i - 1]
    BY <2>5, <2>6, <2>7, SubSeqProperties
  <2>9. Trimmed(given) = words
    BY <1>2, <1>5, <2>1, <2>6 DEF Trimmed
  <2> QED BY <1>1, <1>2, <2>3, <2>4, <2>5, <2>8, <2>9 DEF Trims
<1> QED BY <1>4, <1>5

(* A set s of positions from a to b, and t, the same counted from a.       *)
Shifted(s, t, a, b, m) ==
  /\ a \in Nat /\ b \in Nat /\ m \in Nat /\ m = b - a + 1
  /\ s \in SUBSET (a..b) /\ t \in SUBSET (1..m) /\ \A i \in 1..m : i \in t <=> a + i - 1 \in s

LEMMA ShiftedSet ==
  ASSUME NEW s, NEW t, NEW a, NEW b, NEW m, Shifted(s, t, a, b, m)
  PROVE  (s = {} <=> t = {}) /\ \A i \in a..b : s = {i} <=> t = {i - a + 1}
<1> USE DEF Shifted
<1>1. ASSUME NEW i \in a..b PROVE i - a + 1 \in 1..m /\ (i - a + 1 \in t <=> i \in s)
  <2>1. PICK j : j = i - a + 1
    OBVIOUS
  <2>2. j \in 1..m /\ a + j - 1 = i
    BY <2>1
  <2> QED BY <2>1, <2>2
<1>2. ASSUME NEW i \in 1..m PROVE a + i - 1 \in a..b /\ a + i - 1 - a + 1 = i
  OBVIOUS
<1>3. s = {} <=> t = {}
  BY <1>1, <1>2
<1>4. ASSUME NEW i \in a..b, s = {i} PROVE t = {i - a + 1}
  <2>1. i - a + 1 \in t
    BY <1>1, <1>4
  <2>2. ASSUME NEW j \in t PROVE j = i - a + 1
    <3>1. a + j - 1 = i
      BY <1>4
    <3> QED BY <3>1
  <2> QED BY <2>1, <2>2
<1>5. ASSUME NEW i \in a..b, t = {i - a + 1} PROVE s = {i}
  <2>1. i \in s
    BY <1>1, <1>5
  <2>2. ASSUME NEW j \in s PROVE j = i
    <3>1. j - a + 1 = i - a + 1
      BY <1>1, <1>5
    <3> QED BY <3>1
  <2> QED BY <2>1, <2>2
<1> QED BY <1>3, <1>4, <1>5

(* The grammar of URIs is that of the words, with slashes around them.     *)
LEMMA GrammarOfTrimmed ==
  ASSUME NEW W, NEW given \in Seq(WordsOver(W))
  PROVE  InGrammar(given) <=> WordsInGrammar(Trimmed(given))
<1>1. PICK n \in Nat : DOMAIN given = 1..n /\ n = Len(given)
  BY LenProperties
<1>2. PICK words : words = Trimmed(given)
  OBVIOUS
<1> DEFINE Fine(word) == /\ word.mark \notin ParensIn(word.text)
                         /\ word.mark = "none" => ParensIn(word.text) = {} /\ word.text # ""
<1>3. \A i \in 1..n : i \notin Filled(given) => given[i].mark = "none"
  BY <1>1, FilledIs
<1>4. CASE Filled(given) = {} /\ words = <<>>
  <2>1. Inner(given) = {} /\ Opens(given) = {} /\ Closes(given) = {}
    BY <1>1, <1>3, <1>4 DEF Inner, Opens, Closes
  <2>2. Len(words) = 0 /\ 1..0 = {}
    BY <1>4
  <2>3. Opens(words) = {} /\ Closes(words) = {}
    BY <2>2 DEF Opens, Closes
  <2> QED BY <1>2, <2>1, <2>2, <2>3 DEF InGrammar, WordsInGrammar
<1>5. ASSUME NEW a, NEW b, Trims(given, a, b)
      PROVE  InGrammar(given) <=> WordsInGrammar(words)
  <2>1. PICK m : m = b - a + 1
    OBVIOUS
  <2>2. /\ a \in 1..n /\ b \in a..n /\ a \in Nat /\ b \in Nat /\ m \in Nat
        /\ a \in Filled(given) /\ b \in Filled(given) /\ \A k \in Filled(given) : k \in a..b
    <3>1. /\ a \in 1..n /\ b \in a..n
          /\ a \in Filled(given) /\ b \in Filled(given) /\ \A k \in Filled(given) : k \in a..b
      BY <1>1, <1>5, Zenon DEF Trims
    <3>2. a \in Nat /\ b \in Nat /\ m \in Nat
      BY <2>1, <3>1
    <3> QED BY <3>1, <3>2
  <2>3. Len(words) = m /\ \A i \in 1..m : words[i] = given[a + i - 1]
    BY <1>2, <1>5, <2>1, Zenon DEF Trims
  <2>4. Inner(given) = a..b
    <3>1. ASSUME NEW i \in Inner(given) PROVE i \in a..b
      <4>1. PICK c, d \in Filled(given) : i \in 1..n /\ c <= i /\ i <= d
        BY <1>1 DEF Inner
      <4>2. c \in a..b /\ d \in a..b
        BY <2>2
      <4> QED BY <2>2, <4>1, <4>2
    <3>2. ASSUME NEW i \in a..b PROVE i \in Inner(given)
      <4>1. i \in 1..n /\ a <= i /\ i <= b
        BY <2>2
      <4> QED BY <1>1, <2>2, <4>1 DEF Inner
    <3> QED BY <3>1, <3>2
  <2>5. (\A i \in a..b : Fine(given[i])) <=> (\A i \in 1..m : Fine(words[i]))
    <3>1. ASSUME \A i \in a..b : Fine(given[i]), NEW i \in 1..m PROVE Fine(words[i])
      <4>1. PICK k : k = a + i - 1
        OBVIOUS
      <4>2. k \in a..b /\ words[i] = given[k]
        BY <2>1, <2>2, <2>3, <4>1
      <4> QED BY <3>1, <4>2
    <3>2. ASSUME \A i \in 1..m : Fine(words[i]), NEW k \in a..b PROVE Fine(given[k])
      <4>1. PICK i : i = k - a + 1
        OBVIOUS
      <4>2. i \in 1..m /\ a + i - 1 = k
        BY <2>1, <2>2, <4>1
      <4>3. words[i] = given[k]
        BY <2>3, <4>2
      <4> QED BY <3>2, <4>2, <4>3
    <3> HIDE DEF Fine
    <3> QED BY <3>1, <3>2
  <2>6. Opens(given) \in SUBSET (a..b) /\ Closes(given) \in SUBSET (a..b)
    <3>1. ASSUME NEW i \in 1..n, given[i].mark # "none" PROVE i \in a..b
      BY <1>3, <2>2, <3>1
    <3> QED BY <1>1, <3>1 DEF Opens, Closes
  <2>7. Opens(words) \in SUBSET (1..m) /\ Closes(words) \in SUBSET (1..m)
    BY <2>3 DEF Opens, Closes
  <2>8. ASSUME NEW i \in 1..m
        PROVE  /\ i \in Opens(words) <=> a + i - 1 \in Opens(given)
               /\ i \in Closes(words) <=> a + i - 1 \in Closes(given)
    <3>1. PICK k : k = a + i - 1
      OBVIOUS
    <3>2. k \in 1..n /\ words[i] = given[k]
      BY <2>1, <2>2, <2>3, <3>1
    <3> QED BY <1>1, <2>3, <3>1, <3>2 DEF Opens, Closes
  <2>9. /\ Opens(given) = {} <=> Opens(words) = {}
        /\ \A i \in a..b : Opens(given) = {i} <=> Opens(words) = {i - a + 1}
    <3>1. PICK s, t : s = Opens(given) /\ t = Opens(words)
      OBVIOUS
    <3>2. Shifted(s, t, a, b, m)
      BY <2>1, <2>2, <2>6, <2>7, <2>8, <3>1 DEF Shifted
    <3> QED BY <3>1, <3>2, ShiftedSet
  <2>10. /\ Closes(given) = {} <=> Closes(words) = {}
         /\ \A i \in a..b : Closes(given) = {i} <=> Closes(words) = {i - a + 1}
    <3>1. PICK s, t : s = Closes(given) /\ t = Closes(words)
      OBVIOUS
    <3>2. Shifted(s, t, a, b, m)
      BY <2>1, <2>2, <2>6, <2>7, <2>8, <3>1 DEF Shifted
    <3> QED BY <3>1, <3>2, ShiftedSet
  <2> DEFINE ClosedOut(i, j) == Opens(given) = {i} /\ Closes(given) = {j} /\ i < j /\ \E k \in Filled(given) : j < k
             ClosedIn(i, j) == Opens(words) = {i} /\ Closes(words) = {j} /\ i < j /\ j < m
             AtEnd(i)     == Opens(given) = {i} /\ Closes(given) = {} /\ \A k \in Filled(given) : k <= i
  <2>11. (\E i, j \in 1..n : ClosedOut(i, j)) <=> (\E i, j \in 1..m : ClosedIn(i, j))
    <3>1. ASSUME NEW i \in 1..n, NEW j \in 1..n, ClosedOut(i, j) PROVE \E x, y \in 1..m : ClosedIn(x, y)
      <4>1. PICK x, y : x = i - a + 1 /\ y = j - a + 1
        OBVIOUS
      <4>2. i \in a..b /\ j \in a..b
        BY <2>6, <3>1
      <4>3. Opens(words) = {x} /\ Closes(words) = {y}
        BY <2>9, <2>10, <3>1, <4>1, <4>2
      <4>4. PICK k \in a..b : j < k
        BY <2>2, <3>1
      <4>5. x \in 1..m /\ y \in 1..m /\ x < y /\ y < m
        BY <2>1, <2>2, <3>1, <4>1, <4>2, <4>4
      <4> QED BY <4>3, <4>5
    <3>2. ASSUME NEW x \in 1..m, NEW y \in 1..m, ClosedIn(x, y) PROVE \E i, j \in 1..n : ClosedOut(i, j)
      <4>1. PICK i, j : i = a + x - 1 /\ j = a + y - 1
        OBVIOUS
      <4>2. i \in a..b /\ j \in a..b /\ i \in 1..n /\ j \in 1..n /\ i < j /\ j < b
        BY <2>1, <2>2, <3>2, <4>1
      <4>3. i - a + 1 = x /\ j - a + 1 = y
        BY <2>2, <4>1
      <4>4. Opens(given) = {i} /\ Closes(given) = {j}
        BY <2>9, <2>10, <3>2, <4>2, <4>3
      <4> QED BY <2>2, <4>2, <4>4
    <3> HIDE DEF ClosedOut, ClosedIn
    <3> QED BY <3>1, <3>2
  <2>12. (\E i \in 1..n : AtEnd(i)) <=> Opens(words) = {m} /\ Closes(words) = {}
    <3>1. b \in a..b /\ b \in 1..n /\ b - a + 1 = m
      BY <2>1, <2>2
    <3>2. ASSUME NEW i \in 1..n, AtEnd(i) PROVE Opens(words) = {m} /\ Closes(words) = {}
      <4>1. i \in a..b /\ b <= i
        BY <2>2, <2>6, <3>2
      <4>2. i = b
        BY <2>2, <4>1
      <4> QED BY <2>9, <2>10, <3>1, <3>2, <4>2
    <3>3. ASSUME Opens(words) = {m}, Closes(words) = {} PROVE AtEnd(b)
      <4>1. Opens(given) = {b} /\ Closes(given) = {}
        BY <2>9, <2>10, <3>1, <3>3
      <4>2. \A k \in Filled(given) : k <= b
        BY <2>2
      <4> QED BY <4>1, <4>2
    <3> HIDE DEF AtEnd
    <3> QED BY <3>1, <3>2, <3>3
  <2>13. InGrammar(given) <=> /\ \A i \in a..b : Fine(given[i])
                              /\ \/ Opens(given) = {} /\ Closes(given) = {}
                                 \/ \E i, j \in 1..n : ClosedOut(i, j)
                                 \/ \E i \in 1..n : AtEnd(i)
    BY <1>1, <2>4, Zenon DEF InGrammar
  <2>14. WordsInGrammar(words) <=> /\ \A i \in 1..m : Fine(words[i])
                                   /\ \/ Opens(words) = {} /\ Closes(words) = {}
                                      \/ \E i, j \in 1..m : ClosedIn(i, j)
                                      \/ Opens(words) = {m} /\ Closes(words) = {}
    BY <2>3, Zenon DEF WordsInGrammar
  <2> HIDE DEF Fine, ClosedOut, ClosedIn, AtEnd
  <2> QED BY <2>5, <2>9, <2>10, <2>11, <2>12, <2>13, <2>14
<1>6. (Filled(given) = {} /\ words = <<>>) \/ \E a, b : Trims(given, a, b)
  BY <1>2, TrimmedIs
<1> QED BY <1>2, <1>4, <1>5, <1>6

(* Nothing is trimmed from what is printed.                                *)
LEMMA PrintedIsTrimmed ==
  ASSUME NEW W, NEW given \in Seq(WordsOver(W))
  PROVE  Trimmed(Printed(given)) = Printed(given)
<1>1. PICK n \in Nat : DOMAIN given = 1..n /\ n = Len(given)
  BY LenProperties
<1>2. PICK words : words = Printed(given)
  OBVIOUS
<1>3. words = [i \in 1..n |-> words[i]] /\ DOMAIN words = 1..n
  BY <1>1, <1>2 DEF Printed
<1>4. PICK S : words \in Seq(S)
  <2>1. words \in [1..n -> {words[i] : i \in 1..n}]
    BY <1>3
  <2>2. words \in Seq({words[i] : i \in 1..n})
    BY <2>1, SeqDef
  <2> QED BY <2>2
<1>5. Len(words) = n
  BY <1>3, <1>4, LenProperties
<1>6. PICK w : w = ""
  BY Zenon
<1>7. Filled(words) = 1..n
  <2>1. ASSUME NEW i \in 1..n PROVE words[i] # Word(w)
    <3>1. words[i].text = Escaped(given[i].text)
      BY <1>1, <1>2 DEF Printed
    <3>2. words[i].text # w
      BY <1>6, <3>1, EscapedIs, Zenon
    <3> QED BY <3>2 DEF Word
  <2>2. Filled(words) = {i \in 1..n : words[i] # Word(w)}
    BY <1>5, <1>6, Zenon DEF Filled
  <2> QED BY <2>1, <2>2
<1>8. CASE Filled(words) = {} /\ Trimmed(words) = <<>>
  <2>1. n = 0
    <3>1. 1..n = {}
      BY <1>7, <1>8, Zenon
    <3>2. ~(1 \in 1..n)
      BY <3>1
    <3> QED BY <3>2
  <2>2. \A seq \in Seq(S) : seq # <<>> => Len(seq) \in Nat \ {0}
    BY EmptySeq
  <2>3. 0 \notin Nat \ {0} /\ Len(words) = 0
    BY <1>5, <2>1
  <2>4. words = <<>>
    BY <1>4, <2>2, <2>3, Zenon
  <2> QED BY <1>2, <1>8, <2>4
<1>9. ASSUME NEW a, NEW b, Trims(words, a, b) PROVE Trimmed(words) = words
  <2>1. /\ a \in 1..Len(words)
        /\ b \in a..Len(words)
        /\ \A k \in Filled(words) : k \in a..b
    BY <1>9, Zenon DEF Trims
  <2>2. a \in 1..n /\ b \in a..n
    BY <1>5, <2>1, Zenon
  <2>3. 1 \in 1..n /\ n \in 1..n
    BY <2>2
  <2>4. 1 \in a..b /\ n \in a..b
    BY <1>7, <2>1, <2>3, Zenon
  <2>5. a = 1 /\ b = n
    BY <2>2, <2>4
  <2>6. Trimmed(words) \in Seq(S)
    BY <1>4, TrimmedIs
  <2>7. /\ Len(Trimmed(words)) = b - a + 1
        /\ \A i \in 1..b-a+1 : Trimmed(words)[i] = words[a + i - 1]
    BY <1>9, Zenon DEF Trims
  <2>8. b - a + 1 = n /\ \A i \in 1..n : a + i - 1 = i
    BY <1>1, <2>5
  <2>9. Len(Trimmed(words)) = n /\ \A i \in 1..n : Trimmed(words)[i] = words[i]
    BY <2>7, <2>8
  <2> QED BY <1>4, <1>5, <2>6, <2>9, SeqEqual
<1> QED BY <1>2, <1>4, <1>8, <1>9, TrimmedIs

(* A plain URI is one of plain words.                                      *)
LEMMA PlainWords ==
  ASSUME NEW W, NEW given \in Seq(WordsOver(W)), IsPlainUri(given)
  PROVE  ArePlainWords(Trimmed(given))
<1>1. PICK words : words = Trimmed(given)
  OBVIOUS
<1>2. CASE words = <<>>
  BY <1>1, <1>2 DEF ArePlainWords
<1>3. ASSUME NEW a, NEW b, Trims(given, a, b) PROVE ArePlainWords(words)
  <2> SUFFICES ASSUME NEW i \in 1..Len(words) PROVE IsPlain(words[i].text)
    BY DEF ArePlainWords
  <2>1. Len(given) \in Nat
    BY LenProperties
  <2>2. PICK k : k = a + i - 1
    OBVIOUS
  <2>3. /\ a \in Filled(given) /\ b \in Filled(given)
        /\ a \in 1..Len(given) /\ b \in a..Len(given)
    BY <1>3, Zenon DEF Trims
  <2>4. /\ Len(words) = b - a + 1
        /\ \A j \in 1..b-a+1 : words[j] = given[a + j - 1]
    BY <1>1, <1>3, Zenon DEF Trims
  <2>5. i \in 1..b-a+1
    BY <2>4, Zenon
  <2>6. k \in 1..Len(given) /\ a <= k /\ k <= b
    BY <2>1, <2>2, <2>3, <2>5
  <2>7. words[i] = given[k]
    BY <2>2, <2>4, <2>5, Zenon
  <2>8. k \in Inner(given)
    BY <2>3, <2>6 DEF Inner
  <2> QED BY <2>7, <2>8 DEF IsPlainUri
<1> QED BY <1>1, <1>2, <1>3, TrimmedIs
-----------------------------------------------------------------------------
(***************************************************************************)
(* The constructor of Cd takes exactly the URIs of the grammar, of any     *)
(* length, over any texts, and with any slashes around them.               *)
(***************************************************************************)
THEOREM ParserAcceptsGrammar ==
  ASSUME NEW given \in Uris
  PROVE  IsLegal(given) <=> InGrammar(given)
<1>1. given \in Seq(WordsOver(STRING))
  BY DEF Uris, WordsOver
<1>2. Trimmed(given) \in Seq(WordsOver(STRING))
  BY <1>1, TrimmedIs
<1>3. Parses(Trimmed(given)) <=> WordsInGrammar(Trimmed(given))
  BY <1>2, LegalInGrammar, InGrammarLegal
<1> QED BY <1>1, <1>3, GrammarOfTrimmed DEF IsLegal

(***************************************************************************)
(* toUri prints a URI that the constructor takes, of the same CD when none *)
(* of its texts had to be escaped.                                         *)
(***************************************************************************)
THEOREM PrintedUriParses ==
  ASSUME NEW given \in Uris, IsLegal(given)
  PROVE  /\ IsLegal(ToUri(CdOf(given)))
         /\ IsPlainUri(given) => CdOf(ToUri(CdOf(given))) = CdOf(given)
<1>1. given \in Seq(WordsOver(STRING))
  BY DEF Uris, WordsOver
<1>2. PICK words : words = Trimmed(given)
  OBVIOUS
<1>3. words \in Seq(WordsOver(STRING)) /\ Parses(words) /\ CdOf(given) = BlockOf(words)
  BY <1>1, <1>2, TrimmedIs DEF IsLegal, CdOf
<1>4. ToUri(CdOf(given)) = Printed(words)
  BY <1>3, ToUriIs
<1>5. Trimmed(Printed(words)) = Printed(words)
  BY <1>3, PrintedIsTrimmed
<1>6. Parses(Printed(words)) /\ (ArePlainWords(words) => BlockOf(Printed(words)) = BlockOf(words))
  BY <1>3, PrintedParses
<1>7. IsPlainUri(given) => ArePlainWords(words)
  BY <1>1, <1>2, PlainWords
<1> QED BY <1>3, <1>4, <1>5, <1>6, <1>7 DEF IsLegal, CdOf

-----------------------------------------------------------------------------
(***************************************************************************)
(* The tables of the router.                                               *)
(***************************************************************************)
Ids == FirstSerial+1 .. serial

FaceIds == serial \in Nat /\ serial >= FirstSerial /\ DOMAIN faces \subseteq Ids

HopsHaveFaces == \A hop \in Hops(fib) \cup Hops(st) : hop[2] \in DOMAIN faces

(* A route goes to the first of the faces to its remote: new faces have    *)
(* higher ids, and a route goes with its face.                             *)
RoutesToFirst ==
  \A hop \in Hops(fib) : \A g \in DOMAIN faces : faces[g] = faces[hop[2]] => hop[2] <= g

TablesInv == FaceIds /\ HopsHaveFaces /\ RoutesToFirst

(***************************************************************************)
(* How far a command has come.                                             *)
(***************************************************************************)
Replying ==
  /\ \E R : responses \in Seq(R)
  /\ outcome # "none" => requests = RequestsOf(Command)
  /\ outcome = "shown" => Len(responses) = Len(requests)
  /\ connecting => Waiting /\ Asked.cmd = "FIB-ADD"

InCourse(cmds) == outcome \in {"asking", "shown"} /\ Command.cmd \in cmds

(* fibdel -n NAME -t TYPE -r REMOTE.                                       *)
Deleting == InCourse({"fibdel"}) /\ Len(requests) = 1 /\ HasArgs(requests[1].param, {"NAME", "TYPE"})

RouteIsGone(param) ==
  \A hop \in Hops(fib) : hop[1] = CdOf(param.NAME) => faces[hop[2]] # Remote(param)

DeletedInv ==
  Deleting => /\ requests[1].cmd = "FIB-DEL"
              /\ Len(responses) \in {0, 1}
              /\ Len(responses) = 1 /\ responses[1].result = "OK" => RouteIsGone(requests[1].param)

(* The ids printed in a table, and what the dump of the faces after it has *)
(* of them.                                                                *)
Dumping == InCourse({"fibdump", "stdump"})

NumbersIn(body) == {item.n : item \in {i \in UNION {text.items : text \in body} : i.number}}

NamesFaces(body) == NumbersIn(body) \subseteq Ids

ShowsFaces(ids, body) ==
  /\ \A id \in ids \cap DOMAIN faces : \E text \in body : text.id = id
  /\ \A text \in body : text.id \in Ids /\ (text.id \in DOMAIN faces => text.remote = faces[text.id])

DumpInv ==
  Dumping => /\ Len(requests) = 2
             /\ requests[1].cmd \in {"FIB-DUMP", "ST-DUMP"} /\ requests[2].cmd = "FACE-DUMP"
             /\ Len(responses) \in {0, 1, 2}
             /\ Len(responses) > 0 => NamesFaces(responses[1].body)
             /\ Len(responses) = 2 => ShowsFaces(NumbersIn(responses[1].body), responses[2].body)

RtctrlInv == TablesInv /\ Replying /\ DeletedInv /\ DumpInv

-----------------------------------------------------------------------------
(***************************************************************************)
(* Faces come with new ids, and go.                                        *)
(***************************************************************************)
Grows ==
  /\ serial' \in Nat /\ serial' >= serial
  /\ \A g \in DOMAIN faces' : (g \in DOMAIN faces /\ faces'[g] = faces[g]) \/ g > serial

LEMMA FacesSame ==
  ASSUME FaceIds, UNCHANGED <<faces, serial>>
  PROVE  FaceIds' /\ Grows
  BY DEF FaceIds, Ids, Grows

LEMMA FaceCreated ==
  ASSUME FaceIds, NEW r, CreateFace(r)
  PROVE  /\ FaceIds' /\ Grows
         /\ DOMAIN faces' = DOMAIN faces \cup {serial + 1} /\ faces'[serial + 1] = r
         /\ \A g \in DOMAIN faces : g <= serial /\ g \in Nat /\ faces'[g] = faces[g]
<1>1. serial \in Nat /\ serial >= FirstSerial /\ FirstSerial \in Nat
  BY DEF FaceIds, FirstSerial
<1>2. \A g \in DOMAIN faces : g <= serial /\ g \in Nat /\ g >= FirstSerial + 1
  BY <1>1 DEF FaceIds, Ids
<1>3. serial' = serial + 1 /\ DOMAIN faces' = DOMAIN faces \cup {serial + 1}
  BY DEF CreateFace
<1>4. faces'[serial + 1] = r
  BY DEF CreateFace
<1>5. \A g \in DOMAIN faces : faces'[g] = faces[g]
  <2>1. \A g \in DOMAIN faces : g # serial + 1
    BY <1>1, <1>2
  <2> QED BY <2>1 DEF CreateFace
<1>6. FaceIds'
  BY <1>1, <1>2, <1>3 DEF FaceIds, Ids
<1>7. Grows
  BY <1>1, <1>3, <1>5 DEF Grows
<1> QED BY <1>2, <1>3, <1>4, <1>5, <1>6, <1>7

LEMMA FaceGone ==
  ASSUME FaceIds, NEW f, FaceGoes(f)
  PROVE  FaceIds' /\ Grows /\ DOMAIN faces' = DOMAIN faces \ {f}
  BY DEF FaceIds, Ids, Grows, FaceGoes

(* The face that a remote has: the first of those there are.               *)
LEMMA FindOK ==
  ASSUME FaceIds, NEW r, FacesTo(r) # {}
  PROVE  /\ Find(r) \in DOMAIN faces /\ faces[Find(r)] = r
         /\ \A g \in DOMAIN faces : faces[g] = r => Find(r) <= g
<1>1. FacesTo(r) \in SUBSET Nat
  BY DEF FacesTo, FaceIds, Ids, FirstSerial
<1>2. \E f \in FacesTo(r) : \A g \in FacesTo(r) : f <= g
  BY <1>1, LeastExists
<1>3. Find(r) \in FacesTo(r) /\ \A g \in FacesTo(r) : Find(r) <= g
  BY <1>2 DEF Find
<1> QED BY <1>3 DEF FacesTo

-----------------------------------------------------------------------------
(***************************************************************************)
(* The tables.                                                             *)
(***************************************************************************)
IsFirst(f) == f \in DOMAIN faces /\ \A g \in DOMAIN faces : faces[g] = faces[f] => f <= g

(* The next hops that the forwarding table has after a step. *)
RoutesStep ==
  \A hop \in Hops(fib') :
    \/ hop \in Hops(fib) /\ hop[2] \in DOMAIN faces'
    \/ IsFirst(hop[2])'

LEMMA TablesKeep ==
  ASSUME TablesInv, FaceIds', Grows, RoutesStep,
         \A hop \in Hops(st') : hop[2] \in DOMAIN faces'
  PROVE  TablesInv'
<1>1. \A hop \in Hops(fib') : hop[2] \in DOMAIN faces'
  BY DEF RoutesStep, IsFirst
<1>2. HopsHaveFaces'
  BY <1>1 DEF HopsHaveFaces
<1>3. \A g \in DOMAIN faces : g \in Nat /\ g <= serial /\ serial \in Nat
  BY DEF TablesInv, FaceIds, Ids, FirstSerial
<1>4. ASSUME NEW hop \in Hops(fib'), NEW g \in DOMAIN faces', faces'[g] = faces'[hop[2]]
      PROVE  hop[2] <= g
  <2>1. CASE IsFirst(hop[2])'
    BY <1>4, <2>1 DEF IsFirst
  <2>2. CASE hop \in Hops(fib) /\ hop[2] \in DOMAIN faces'
    <3>1. hop[2] \in DOMAIN faces /\ hop[2] <= serial /\ hop[2] \in Nat
      BY <1>3, <2>2 DEF TablesInv, HopsHaveFaces
    <3>2. faces'[hop[2]] = faces[hop[2]]
      BY <1>3, <2>2, <3>1 DEF Grows
    <3>3. CASE g \in DOMAIN faces /\ faces'[g] = faces[g]
      BY <1>4, <2>2, <3>2, <3>3 DEF TablesInv, RoutesToFirst
    <3>4. CASE g > serial
      <4>1. g \in Nat
        BY DEF FaceIds, Ids, FirstSerial
      <4> QED BY <1>3, <3>1, <3>4, <4>1
    <3> QED BY <3>3, <3>4 DEF Grows
  <2> QED BY <2>1, <2>2 DEF RoutesStep
<1> QED BY <1>2, <1>4 DEF TablesInv, RoutesToFirst

(* A route is added to the first face to its remote. *)
LEMMA RouteAdded ==
  ASSUME TablesInv, NEW cd, NEW f, NEW x, fib' = FibAdd(fib, cd, f, x), FaceIds', Grows,
         DOMAIN faces \subseteq DOMAIN faces', IsFirst(f)', UNCHANGED st
  PROVE  TablesInv'
<1>1. Hops(fib') = Hops(fib) \cup {<<cd, f>>}
  BY AddHopHops DEF FibAdd
<1>2. \A hop \in Hops(fib) \cup Hops(st) : hop[2] \in DOMAIN faces'
  BY DEF TablesInv, HopsHaveFaces
<1>3. \A hop \in Hops(fib') : hop \in Hops(fib) \/ hop[2] = f
  BY <1>1
<1>4. RoutesStep
  BY <1>2, <1>3 DEF RoutesStep
<1>5. \A hop \in Hops(st') : hop[2] \in DOMAIN faces'
  BY <1>2
<1> QED BY <1>4, <1>5, TablesKeep

LEMMA RoutedOK ==
  ASSUME TablesInv, FacesTo(Target) # {}, fib' = Routed(Find(Target)),
         UNCHANGED <<faces, serial, st>>
  PROVE  TablesInv'
<1>1. FaceIds
  BY DEF TablesInv
<1>2. FaceIds' /\ Grows
  BY <1>1, FacesSame
<1>3. PICK f : f = Find(Target)
  OBVIOUS
<1>4. IsFirst(f)'
  BY <1>1, <1>3, FindOK DEF IsFirst
<1>5. PICK cd, x : fib' = FibAdd(fib, cd, f, x)
  BY <1>3 DEF Routed
<1> QED BY <1>2, <1>4, <1>5, RouteAdded

LEMMA RoutedToNew ==
  ASSUME TablesInv, CreateFace(Target), UNCHANGED st,
         fib' = Routed(IF FacesTo(Target) = {} THEN serial + 1 ELSE Find(Target))
  PROVE  TablesInv'
<1>1. FaceIds
  BY DEF TablesInv
<1>2. /\ FaceIds' /\ Grows
      /\ DOMAIN faces' = DOMAIN faces \cup {serial + 1} /\ faces'[serial + 1] = Target
      /\ \A g \in DOMAIN faces : g <= serial /\ g \in Nat /\ faces'[g] = faces[g]
  BY <1>1, FaceCreated
<1>3. PICK f : f = IF FacesTo(Target) = {} THEN serial + 1 ELSE Find(Target)
  OBVIOUS
<1>4. serial \in Nat
  BY <1>1 DEF FaceIds
<1>5. f \in DOMAIN faces' /\ faces'[f] = Target /\ \A g \in DOMAIN faces' : faces'[g] = Target => f <= g
  <2>1. CASE FacesTo(Target) = {}
    <3>1. \A g \in DOMAIN faces : faces'[g] # Target
      BY <1>2, <2>1 DEF FacesTo
    <3>2. f = serial + 1
      BY <1>3, <2>1
    <3> QED BY <1>2, <1>4, <3>1, <3>2
  <2>2. CASE FacesTo(Target) # {}
    <3>1. f = Find(Target)
      BY <1>3, <2>2
    <3>2. f \in DOMAIN faces /\ faces[f] = Target /\ \A g \in DOMAIN faces : faces[g] = Target => f <= g
      BY <1>1, <2>2, <3>1, FindOK
    <3>3. f <= serial + 1
      BY <1>2, <1>4, <3>2
    <3> QED BY <1>2, <3>2, <3>3
  <2> QED BY <2>1, <2>2
<1>6. IsFirst(f)'
  BY <1>5 DEF IsFirst
<1>7. PICK cd, x : fib' = FibAdd(fib, cd, f, x)
  BY <1>3 DEF Routed
<1>8. DOMAIN faces \subseteq DOMAIN faces'
  BY <1>2
<1> QED BY <1>2, <1>6, <1>7, <1>8, RouteAdded

(* Next hops go, or a subscription comes from a face that there is.        *)
LEMMA HopsGo ==
  ASSUME TablesInv, UNCHANGED <<faces, serial>>, Hops(fib') \subseteq Hops(fib),
         \A hop \in Hops(st') : hop[2] \in DOMAIN faces
  PROVE  TablesInv'
<1>1. FaceIds' /\ Grows
  BY FacesSame DEF TablesInv
<1>2. \A hop \in Hops(fib') : hop \in Hops(fib) /\ hop[2] \in DOMAIN faces'
  BY DEF TablesInv, HopsHaveFaces
<1>3. RoutesStep
  BY <1>2 DEF RoutesStep
<1>4. \A hop \in Hops(st') : hop[2] \in DOMAIN faces'
  OBVIOUS
<1> QED BY <1>1, <1>3, <1>4, TablesKeep

LEMMA TablesSame ==
  ASSUME TablesInv, UNCHANGED <<faces, serial, st, fib>>
  PROVE  TablesInv'
<1>1. Hops(fib') \subseteq Hops(fib)
  OBVIOUS
<1>2. \A hop \in Hops(st') : hop[2] \in DOMAIN faces
  BY DEF TablesInv, HopsHaveFaces
<1> QED BY <1>1, <1>2, HopsGo

LEMMA TablesServer ==
  ASSUME TablesInv, Server
  PROVE  TablesInv'
<1>1. CASE BadCast \/ Refuse \/ FibAddTcpFace \/ HandleConnectFails \/ FaceDel
             \/ StDump \/ FibDump \/ FaceDump
  <2>1. UNCHANGED <<faces, serial, st, fib>>
    BY <1>1 DEF BadCast, Refuse, FibAddTcpFace, HandleConnectFails, FaceDel, StDump, FibDump, FaceDump, router
  <2> QED BY <2>1, TablesSame
<1>2. CASE FibAddToFace
  BY <1>2, RoutedOK DEF FibAddToFace
<1>3. CASE FibAddUdpFace
  <2>1. /\ CreateFace(Target) /\ UNCHANGED st
        /\ fib' = Routed(IF FacesTo(Target) = {} THEN serial + 1 ELSE Find(Target))
    BY <1>3 DEF FibAddUdpFace
  <2> QED BY <2>1, RoutedToNew
<1>4. CASE HandleConnect
  <2>1. /\ CreateFace(Target) /\ UNCHANGED st
        /\ fib' = Routed(IF FacesTo(Target) = {} THEN serial + 1 ELSE Find(Target))
    BY <1>4 DEF HandleConnect
  <2> QED BY <2>1, RoutedToNew
<1>5. CASE FibDel
  <2>1. UNCHANGED <<faces, serial, st>> /\ fib' = EmptyTable
    BY <1>5 DEF FibDel, FibClear
  <2>2. Hops(fib') \subseteq Hops(fib)
    BY <2>1, EmptyTableHops
  <2> QED BY <2>1, <2>2, HopsGo DEF TablesInv, HopsHaveFaces
<1>6. CASE FibDelName
  <2>1. UNCHANGED <<faces, serial, st>> /\ \E cd : fib' = RemoveEntry(fib, cd)
    BY <1>6 DEF FibDelName, FibRemoveName
  <2>2. Hops(fib') \subseteq Hops(fib)
    BY <2>1, RemoveEntryHops
  <2> QED BY <2>1, <2>2, HopsGo DEF TablesInv, HopsHaveFaces
<1>7. CASE FibDelHop
  <2>1. UNCHANGED <<faces, serial, st>> /\ \E cd, f : fib' = RemoveHop(fib, cd, f)
    BY <1>7 DEF FibDelHop, FibRemoveHop
  <2>2. Hops(fib') \subseteq Hops(fib)
    BY <2>1, RemoveHopHops
  <2> QED BY <2>1, <2>2, HopsGo DEF TablesInv, HopsHaveFaces
<1>8. CASE StDel
  <2>1. UNCHANGED <<faces, serial, fib>> /\ st' = EmptyTable
    BY <1>8 DEF StDel, StClear
  <2>2. Hops(st') = {} /\ Hops(fib') = Hops(fib)
    BY <2>1, EmptyTableHops
  <2> QED BY <2>1, <2>2, HopsGo
<1> QED BY <1>1, <1>2, <1>3, <1>4, <1>5, <1>6, <1>7, <1>8 DEF Server

LEMMA TablesEnvironment ==
  ASSUME TablesInv, Environment
  PROVE  TablesInv'
<1>1. FaceIds
  BY DEF TablesInv
<1>2. ASSUME NEW r, FaceComes(r) PROVE TablesInv'
  <2>1. CreateFace(r) /\ UNCHANGED <<st, fib>>
    BY <1>2 DEF FaceComes
  <2>2. FaceIds' /\ Grows /\ DOMAIN faces \subseteq DOMAIN faces'
    BY <1>1, <2>1, FaceCreated
  <2>3. \A hop \in Hops(fib') \cup Hops(st') : hop[2] \in DOMAIN faces'
    BY <2>1, <2>2 DEF TablesInv, HopsHaveFaces
  <2>4. RoutesStep
    BY <2>1, <2>3 DEF RoutesStep
  <2> QED BY <2>2, <2>3, <2>4, TablesKeep
<1>3. ASSUME NEW f, FaceGoes(f) PROVE TablesInv'
  <2>1. FaceIds' /\ Grows /\ DOMAIN faces' = DOMAIN faces \ {f}
    BY <1>1, <1>3, FaceGone
  <2>2. st' = RemoveFace(st, f) /\ fib' = RemoveFace(fib, f)
    BY <1>3 DEF FaceGoes, StRemoveFace, FibRemoveFace
  <2>3. Hops(fib') = {h \in Hops(fib) : h[2] # f} /\ Hops(st') = {h \in Hops(st) : h[2] # f}
    BY <2>2, RemoveFaceHops
  <2>4. \A hop \in Hops(fib') \cup Hops(st') : hop[2] \in DOMAIN faces'
    BY <2>1, <2>3 DEF TablesInv, HopsHaveFaces
  <2>5. RoutesStep
    BY <2>3, <2>4 DEF RoutesStep
  <2> QED BY <2>1, <2>4, <2>5, TablesKeep
<1>4. ASSUME NEW f \in DOMAIN faces, NEW cd, SubArrives(f, cd) PROVE TablesInv'
  <2>1. UNCHANGED <<faces, serial, fib>> /\ st' = AddHop(st, cd, f, "armed")
    BY <1>4 DEF SubArrives, StAdd
  <2>2. Hops(st') = Hops(st) \cup {<<cd, f>>}
    BY <2>1, AddHopHops
  <2>3. \A hop \in Hops(st') : hop[2] \in DOMAIN faces
    BY <2>2 DEF TablesInv, HopsHaveFaces
  <2> QED BY <2>1, <2>3, HopsGo
<1>5. ASSUME NEW f, NEW cd, SubExpires(f, cd) PROVE TablesInv'
  <2>1. UNCHANGED <<faces, serial, fib>> /\ st' = RemoveHop(st, cd, f)
    BY <1>5 DEF SubExpires, StRemoveHop
  <2>2. Hops(st') \subseteq Hops(st)
    BY <2>1, RemoveHopHops
  <2>3. \A hop \in Hops(st') : hop[2] \in DOMAIN faces
    BY <2>2 DEF TablesInv, HopsHaveFaces
  <2> QED BY <2>1, <2>3, HopsGo
<1> QED BY <1>2, <1>3, <1>4, <1>5 DEF Environment

(* Whatever happens, faces come with new ids. *)
LEMMA FacesGrow ==
  ASSUME FaceIds, [Next]_vars
  PROVE  Grows
<1>1. CASE UNCHANGED <<faces, serial>>
  BY <1>1, FacesSame
<1>2. ASSUME NEW r, CreateFace(r) PROVE Grows
  BY <1>2, FaceCreated
<1>3. ASSUME NEW f, FaceGoes(f) PROVE Grows
  BY <1>3, FaceGone
<1>4. CASE Server
  <2>1. \/ UNCHANGED <<faces, serial>>
        \/ CreateFace(Target)
    BY <1>4 DEF Server, BadCast, Refuse, FibAddToFace, FibAddUdpFace, FibAddTcpFace, HandleConnect,
       HandleConnectFails, FibDel, FibDelName, FibDelHop, StDel, FaceDel, StDump, FibDump, FaceDump, router
  <2> QED BY <1>1, <1>2, <2>1
<1>5. CASE Environment
  <2>1. \/ UNCHANGED <<faces, serial>>
        \/ \E r : CreateFace(r)
        \/ \E f : FaceGoes(f)
    BY <1>5 DEF Environment, FaceComes, SubArrives, SubExpires
  <2> QED BY <1>1, <1>2, <1>3, <2>1
<1>6. CASE Finish \/ (\E l \in DOMAIN CommandLines : Start(l)) \/ UNCHANGED vars
  <2>1. UNCHANGED <<faces, serial>>
    BY <1>6 DEF Finish, Start, vars, router
  <2> QED BY <1>1, <2>1
<1> QED BY <1>4, <1>5, <1>6 DEF Next

-----------------------------------------------------------------------------
(***************************************************************************)
(* Replies.                                                                *)
(***************************************************************************)
LEMMA ReplyAdded ==
  ASSUME NEW R, responses \in Seq(R), NEW a, responses' = Append(responses, a)
  PROVE  /\ \E S : responses' \in Seq(S)
         /\ Len(responses) \in Nat /\ Len(responses') = Len(responses) + 1
         /\ responses'[Len(responses) + 1] = a
         /\ \A i \in 1..Len(responses) : responses'[i] = responses[i]
<1> DEFINE S == R \cup {a}
<1>1. Len(responses) \in Nat /\ \A i \in 1..Len(responses) : responses[i] \in R
  BY LenProperties, ElementOfSeq
<1>2. responses \in [1..Len(responses) -> R]
  BY LenProperties
<1>3. responses \in [1..Len(responses) -> S]
  BY <1>2
<1>4. responses \in Seq(S)
  BY <1>1, <1>3, SeqDef
<1>5. a \in S
  OBVIOUS
<1> HIDE DEF S
<1> QED BY <1>1, <1>4, <1>5, AppendProperties

(* What a step of the control server replies, if it does. *)
Reply(a) == responses' = Append(responses, a)

LEMMA ServerReplies ==
  ASSUME Server, Replying
  PROVE  /\ Waiting /\ UNCHANGED program
         /\ \/ UNCHANGED responses /\ (connecting' => alive' /\ Asked.cmd = "FIB-ADD")
            \/ ~connecting' /\ \E a : Reply(a)
<1>1. connecting => Asked.cmd = "FIB-ADD"
  BY DEF Replying
<1>2. CASE BadCast
  BY <1>2 DEF BadCast
<1>3. CASE Refuse
  BY <1>3 DEF Refuse, router, SendErr, Answer, Reply
<1>4. CASE FibAddToFace
  BY <1>4 DEF FibAddToFace, Adding, SendOk, Answer, Reply
<1>5. CASE FibAddUdpFace
  BY <1>5 DEF FibAddUdpFace, Adding, SendOk, Answer, Reply
<1>6. CASE FibAddTcpFace
  BY <1>6 DEF FibAddTcpFace, Adding, Waiting
<1>7. CASE HandleConnect
  BY <1>7 DEF HandleConnect, SendOk, Answer, Reply
<1>8. CASE HandleConnectFails
  BY <1>8 DEF HandleConnectFails, SendErr, Answer, Reply
<1>9. CASE FibDel \/ FibDelName \/ FibDelHop \/ StDel \/ FaceDel \/ StDump \/ FibDump \/ FaceDump
  <2>1. Waiting /\ UNCHANGED program /\ connecting' = connecting
    BY <1>9 DEF FibDel, FibDelName, FibDelHop, StDel, FaceDel, StDump, FibDump, FaceDump, router
  <2>2. Asked.cmd # "FIB-ADD"
    BY <1>9 DEF FibDel, FibDelName, FibDelHop, DelHop, StDel, FaceDel, StDump, FibDump, FaceDump
  <2>3. \E a : Reply(a)
    <3>1. CASE FibDel \/ FibDelName \/ FibDelHop
      BY <3>1, Zenon DEF FibDel, FibDelName, FibDelHop, SendOk, Answer, Reply
    <3>2. CASE StDel \/ FaceDel \/ StDump \/ FibDump \/ FaceDump
      BY <3>2, Zenon DEF StDel, FaceDel, StDump, FibDump, FaceDump, SendOk, Answer, Reply
    <3> QED BY <1>9, <3>1, <3>2
  <2>4. ~connecting'
    BY <1>1, <2>1, <2>2, Zenon
  <2> QED BY <2>1, <2>3, <2>4
<1> QED BY <1>2, <1>3, <1>4, <1>5, <1>6, <1>7, <1>8, <1>9 DEF Server

LEMMA ReplyingServer ==
  ASSUME Server, Replying
  PROVE  Replying'
<1>1. /\ Waiting /\ UNCHANGED program
      /\ \/ UNCHANGED responses /\ (connecting' => alive' /\ Asked.cmd = "FIB-ADD")
         \/ ~connecting' /\ \E a : Reply(a)
  BY ServerReplies
<1>2. /\ UNCHANGED <<line, typed, requests, outcome>> /\ outcome = "asking" /\ Command' = Command
  BY <1>1 DEF program, Waiting, Command
<1>3. CASE UNCHANGED responses /\ (connecting' => alive' /\ Asked.cmd = "FIB-ADD")
  BY <1>1, <1>2, <1>3 DEF Replying, Waiting, Asked
<1>4. CASE ~connecting' /\ \E a : Reply(a)
  <2>1. PICK R : responses \in Seq(R)
    BY DEF Replying
  <2>2. PICK a : responses' = Append(responses, a)
    BY <1>4 DEF Reply
  <2>3. \E S : responses' \in Seq(S)
    BY <2>1, <2>2, ReplyAdded
  <2> QED BY <1>2, <1>4, <2>3 DEF Replying
<1> QED BY <1>1, <1>3, <1>4

LEMMA ReplyingElse ==
  ASSUME Replying, Environment \/ Finish \/ (\E l \in DOMAIN CommandLines : Start(l)) \/ UNCHANGED vars
  PROVE  Replying'
<1>1. CASE Environment
  <2>1. UNCHANGED <<program, responses, alive, connecting>>
    BY <1>1 DEF Environment, FaceComes, FaceGoes, SubArrives, SubExpires
  <2> QED BY <2>1 DEF Replying, program, Command, Waiting, Asked
<1>2. CASE Finish
  <2>1. UNCHANGED <<line, typed, requests, responses, router>> /\ outcome = "asking"
    BY <1>2 DEF Finish
  <2>2. ~connecting
    <3>1. Len(responses) \in Nat
      BY LenProperties DEF Replying
    <3>2. Len(responses) = Len(requests) \/ ~alive
      BY <1>2 DEF Finish
    <3> QED BY <3>1, <3>2 DEF Replying, Waiting
  <2>3. outcome' = "shown" => Len(responses) = Len(requests)
    BY <1>2 DEF Finish
  <2>4. Command' = Command /\ ~connecting'
    BY <2>1, <2>2 DEF Command, router
  <2> QED BY <2>1, <2>3, <2>4 DEF Replying
<1>3. ASSUME NEW l \in DOMAIN CommandLines, Start(l) PROVE Replying'
  <2>1. outcome # "asking" /\ responses' = <<>> /\ UNCHANGED connecting
    BY <1>3 DEF Start, router
  <2>2. ~connecting'
    BY <2>1 DEF Replying, Waiting
  <2>3. requests' = RequestsOf(Command')
    BY <1>3 DEF Start, Command
  <2>4. outcome' # "shown"
    BY <1>3 DEF Start
  <2>5. responses' \in Seq({})
    BY <2>1
  <2> QED BY <2>2, <2>3, <2>4, <2>5 DEF Replying
<1>4. CASE UNCHANGED vars
  BY <1>4 DEF vars, program, router, Replying, Command, Waiting, Asked
<1> QED BY <1>1, <1>2, <1>3, <1>4

-----------------------------------------------------------------------------
(***************************************************************************)
(* What the commands ask for.                                              *)
(***************************************************************************)
LEMMA DeleteRequests ==
  ASSUME NEW command, command.cmd = "fibdel", Len(RequestsOf(command)) = 1
  PROVE  RequestsOf(command)[1].cmd = "FIB-DEL"
<1> DEFINE o == command.options
<1>1. RequestsOf(command) = FibDelRequests(o)
  BY DEF RequestsOf
<1>2. FibDelRequests(o) \in {<<>>, <<Request("FIB-DEL", NoParam)>>, <<Request("FIB-DEL", ParamsOf(o))>>}
  BY DEF FibDelRequests, DelNameRequests, DelHopRequests, RequestIf
<1>3. RequestsOf(command) # <<>>
  OBVIOUS
<1> HIDE DEF o
<1>4. \E param : RequestsOf(command) = <<Request("FIB-DEL", param)>>
  BY <1>1, <1>2, <1>3
<1> QED BY <1>4 DEF Request

LEMMA DumpRequests ==
  ASSUME NEW command, command.cmd \in {"fibdump", "stdump"}, RequestsOf(command) # <<>>
  PROVE  /\ Len(RequestsOf(command)) = 2
         /\ RequestsOf(command)[1].cmd \in {"FIB-DUMP", "ST-DUMP"}
         /\ RequestsOf(command)[2].cmd = "FACE-DUMP"
<1>1. PICK first \in {"FIB-DUMP", "ST-DUMP"} :
        RequestsOf(command) = Bare(command.options, <<first, "FACE-DUMP">>)
  BY DEF RequestsOf, FibDumpRequests, StDumpRequests
<1> DEFINE c == <<first, "FACE-DUMP">>
<1>2. RequestsOf(command) = [i \in DOMAIN c |-> Request(c[i], NoParam)]
  BY <1>1 DEF Bare
<1>3. DOMAIN c = 1..2 /\ c[1] = first /\ c[2] = "FACE-DUMP"
  OBVIOUS
<1> HIDE DEF c
<1>4. RequestsOf(command) = [i \in 1..2 |-> Request(c[i], NoParam)]
  BY <1>2, <1>3
<1> QED BY <1>3, <1>4 DEF Request

-----------------------------------------------------------------------------
(***************************************************************************)
(* What was true of routes and dumps stays true while faces come and go.   *)
(***************************************************************************)
LEMMA RouteStaysGone ==
  ASSUME TablesInv, TablesInv', Grows, Hops(fib') \subseteq Hops(fib), NEW param, RouteIsGone(param)
  PROVE  RouteIsGone(param)'
<1> SUFFICES ASSUME NEW hop \in Hops(fib'), hop[1] = CdOf(param.NAME)
             PROVE  faces'[hop[2]] # Remote(param)
  BY DEF RouteIsGone
<1>1. hop \in Hops(fib) /\ faces[hop[2]] # Remote(param)
  BY DEF RouteIsGone
<1>2. hop[2] \in DOMAIN faces /\ hop[2] \in DOMAIN faces'
  BY <1>1 DEF TablesInv, HopsHaveFaces
<1>3. ~(hop[2] > serial)
  BY <1>2 DEF TablesInv, FaceIds, Ids, FirstSerial
<1> QED BY <1>1, <1>2, <1>3 DEF Grows

LEMMA IdsGrow ==
  ASSUME FaceIds, Grows
  PROVE  Ids \subseteq Ids'
  BY DEF FaceIds, Grows, Ids, FirstSerial

LEMMA FacesStayShown ==
  ASSUME FaceIds, Grows, NEW ids, NEW body, ids \subseteq Ids, ShowsFaces(ids, body)
  PROVE  ShowsFaces(ids, body)'
<1>1. \A id \in Ids : ~(id > serial)
  BY DEF FaceIds, Ids, FirstSerial
<1>2. \A id \in Ids : id \in DOMAIN faces' => id \in DOMAIN faces /\ faces'[id] = faces[id]
  BY <1>1 DEF Grows
<1>3. Ids \subseteq Ids'
  BY IdsGrow
<1>4. \A id \in ids \cap DOMAIN faces' : \E text \in body : text.id = id
  BY <1>2 DEF ShowsFaces
<1>5. \A text \in body : text.id \in Ids' /\ (text.id \in DOMAIN faces' => text.remote = faces'[text.id])
  BY <1>2, <1>3 DEF ShowsFaces
<1> QED BY <1>4, <1>5 DEF ShowsFaces

(* The bodies of the dumps. *)
LEMMA NumbersOfLines ==
  ASSUME NEW body,
         \A text \in body : \A item \in text.items : item.number => item.n \in Ids
  PROVE  NamesFaces(body)
  BY DEF NamesFaces, NumbersIn

LEMMA TablesName ==
  ASSUME TablesInv
  PROVE  NamesFaces(FibLines) /\ NamesFaces(StLines)
<1>1. \A hop \in Hops(fib) \cup Hops(st) : hop[2] \in Ids
  BY DEF TablesInv, HopsHaveFaces, FaceIds
<1>2. /\ \A cd \in DOMAIN fib : \A id \in DOMAIN fib[cd] : id \in Ids
      /\ \A cd \in DOMAIN st : \A id \in DOMAIN st[cd] : id \in Ids
  <2>1. \A cd \in DOMAIN fib : \A id \in DOMAIN fib[cd] : <<cd, id>> \in Hops(fib) /\ <<cd, id>>[2] = id
    BY HopsMembership
  <2>2. \A cd \in DOMAIN st : \A id \in DOMAIN st[cd] : <<cd, id>> \in Hops(st) /\ <<cd, id>>[2] = id
    BY HopsMembership
  <2> QED BY <1>1, <2>1, <2>2
<1>3. ASSUME NEW text \in FibLines, NEW item \in text.items, item.number PROVE item.n \in Ids
  <2>1. PICK cd \in DOMAIN fib : text = FibEntryToString(cd)
    BY <1>3 DEF FibLines
  <2>2. text.items = UNION {FibHopToString(id, fib[cd][id]) : id \in DOMAIN fib[cd]}
    BY <2>1 DEF FibEntryToString
  <2>3. PICK id \in DOMAIN fib[cd] : item \in {Number(id), Closed(fib[cd][id])}
    BY <1>3, <2>2 DEF FibHopToString
  <2>4. item = Number(id)
    BY <1>3, <2>3 DEF Closed
  <2> QED BY <1>2, <2>4 DEF Number
<1>4. ASSUME NEW text \in StLines, NEW item \in text.items, item.number PROVE item.n \in Ids
  <2>1. PICK cd \in DOMAIN st : text = StEntryToString(cd)
    BY <1>4 DEF StLines
  <2>2. text.items = UNION {StHopToString(id) : id \in DOMAIN st[cd]}
    BY <2>1 DEF StEntryToString
  <2>3. PICK id \in DOMAIN st[cd] : item \in {Number(id), Closed(Date)}
    BY <1>4, <2>2 DEF StHopToString
  <2>4. item = Number(id)
    BY <1>4, <2>3 DEF Closed
  <2> QED BY <1>2, <2>4 DEF Number
<1> QED BY <1>3, <1>4, NumbersOfLines

LEMMA FaceLinesShow ==
  ASSUME FaceIds, NEW ids
  PROVE  ShowsFaces(ids, FaceLines)
<1>1. \A text \in FaceLines : text.id \in DOMAIN faces /\ text.remote = faces[text.id]
  BY DEF FaceLines, FaceToString
<1>2. \A id \in DOMAIN faces : FaceToString(id) \in FaceLines /\ FaceToString(id).id = id
  BY DEF FaceLines, FaceToString
<1> QED BY <1>1, <1>2 DEF ShowsFaces, FaceIds

-----------------------------------------------------------------------------
(***************************************************************************)
(* A command in its course.                                                *)
(***************************************************************************)
(* Nothing is replied, and no route comes. *)
Quiet ==
  /\ UNCHANGED <<line, requests, responses>>
  /\ outcome' \in {"asking", "shown"} => outcome \in {"asking", "shown"}
  /\ Hops(fib') \subseteq Hops(fib)

LEMMA DeletedQuiet ==
  ASSUME TablesInv, TablesInv', Grows, DeletedInv, Quiet
  PROVE  DeletedInv'
<1> SUFFICES ASSUME Deleting' PROVE DeletedInv'
  BY DEF DeletedInv
<1>1. UNCHANGED <<line, requests, responses>> /\ Command' = Command
  BY DEF Quiet, Command
<1>2. Deleting
  BY <1>1 DEF Deleting, InCourse, Quiet
<1>3. PICK param : param = requests[1].param
  OBVIOUS
<1>4. RouteIsGone(param) => RouteIsGone(param)'
  BY RouteStaysGone DEF Quiet
<1>5. /\ requests[1].cmd = "FIB-DEL" /\ Len(responses) \in {0, 1}
      /\ Len(responses) = 1 /\ responses[1].result = "OK" => RouteIsGone(param)
  BY <1>2, <1>3 DEF DeletedInv
<1>6. requests'[1].cmd = "FIB-DEL" /\ Len(responses') \in {0, 1} /\ requests'[1].param = param
  BY <1>1, <1>3, <1>5
<1>7. Len(responses') = 1 /\ responses'[1].result = "OK" => RouteIsGone(param)'
  BY <1>1, <1>4, <1>5
<1>8. RouteIsGone(param)' => RouteIsGone(requests[1].param)'
  BY <1>6 DEF RouteIsGone
<1> QED BY <1>6, <1>7, <1>8 DEF DeletedInv

LEMMA DumpQuiet ==
  ASSUME TablesInv, TablesInv', Grows, DumpInv, Quiet
  PROVE  DumpInv'
<1> SUFFICES ASSUME Dumping' PROVE DumpInv'
  BY DEF DumpInv
<1>1. UNCHANGED <<line, requests, responses>> /\ Command' = Command
  BY DEF Quiet, Command
<1>2. Dumping
  BY <1>1 DEF Dumping, InCourse, Quiet
<1>3. PICK table, body : table = responses[1].body /\ body = responses[2].body
  OBVIOUS
<1>4. FaceIds
  BY DEF TablesInv
<1>5. NamesFaces(table) => NamesFaces(table)'
  BY <1>4, IdsGrow DEF NamesFaces
<1>6. NamesFaces(table) /\ ShowsFaces(NumbersIn(table), body) => ShowsFaces(NumbersIn(table), body)'
  BY <1>4, FacesStayShown DEF NamesFaces
<1>7. /\ Len(requests) = 2
      /\ requests[1].cmd \in {"FIB-DUMP", "ST-DUMP"} /\ requests[2].cmd = "FACE-DUMP"
      /\ Len(responses) \in {0, 1, 2}
      /\ Len(responses) > 0 => NamesFaces(table)
      /\ Len(responses) = 2 => ShowsFaces(NumbersIn(table), body)
  BY <1>2, <1>3 DEF DumpInv
<1>8. responses'[1].body = table /\ responses'[2].body = body
  BY <1>1, <1>3
<1>9. Len(responses') > 0 => NamesFaces(responses[1].body)'
  BY <1>1, <1>5, <1>7, <1>8 DEF NamesFaces
<1>10. Len(responses') = 2 => ShowsFaces(NumbersIn(responses[1].body), responses[2].body)'
  BY <1>1, <1>6, <1>7, <1>8 DEF ShowsFaces
<1> QED BY <1>1, <1>7, <1>9, <1>10 DEF DumpInv

(* A FIB-DEL with a remote: the route is taken from the first face to it,  *)
(* which is the only one that has it.                                      *)
LEMMA RouteDeleted ==
  ASSUME TablesInv, FibDelHop, NEW param, param = Asked.param
  PROVE  RouteIsGone(param)'
<1>1. UNCHANGED <<line, typed, requests, outcome, faces, serial>> /\ FacesTo(Target) # {}
  BY DEF FibDelHop, program
<1>2. PICK f : f = Find(Target)
  OBVIOUS
<1>3. Hops(fib') = Hops(fib) \ {<<CdOf(param.NAME), f>>}
  BY <1>2, RemoveHopHops DEF FibDelHop, FibRemoveHop
<1>4. FaceIds /\ Target = Remote(param)
  BY DEF TablesInv, Target
<1>5. f \in DOMAIN faces /\ faces[f] = Remote(param) /\ \A g \in DOMAIN faces : faces[g] = Remote(param) => f <= g
  BY <1>1, <1>2, <1>4, FindOK
<1>6. ASSUME NEW hop \in Hops(fib'), hop[1] = CdOf(param.NAME), faces[hop[2]] = Remote(param)
      PROVE  FALSE
  <2>1. hop \in Hops(fib) /\ hop = <<hop[1], hop[2]>>
    BY <1>3, HopsMembership
  <2>2. hop[2] \in DOMAIN faces /\ hop[2] <= f /\ f <= hop[2]
    BY <1>5, <1>6, <2>1 DEF TablesInv, HopsHaveFaces, RoutesToFirst
  <2>3. hop[2] = f
    BY <1>4, <1>5, <2>2 DEF FaceIds, Ids, FirstSerial
  <2> QED BY <1>3, <1>6, <2>1, <2>3
<1> QED BY <1>1, <1>6 DEF RouteIsGone

(* Nothing but the answer to a deletion, or to a dump. *)
LEMMA DeleteAnswer ==
  ASSUME Server, ~connecting, Asked.cmd = "FIB-DEL", HasArgs(Asked.param, {"NAME", "TYPE"})
  PROVE  \/ BadCast
         \/ Refuse
         \/ FibDelHop
<1>1. CASE FibAddToFace \/ FibAddUdpFace \/ FibAddTcpFace
  BY <1>1 DEF FibAddToFace, FibAddUdpFace, FibAddTcpFace, Adding
<1>2. CASE HandleConnect \/ HandleConnectFails
  BY <1>2 DEF HandleConnect, HandleConnectFails
<1>3. CASE FibDel \/ FibDelName
  <2>1. DOMAIN NoParam = {}
    BY DEF NoParam
  <2>2. DOMAIN Asked.param \in {{}, {"NAME"}}
    BY <1>3, <2>1 DEF FibDel, FibDelName
  <2> QED BY <2>2 DEF HasArgs
<1>4. CASE StDel \/ FaceDel \/ StDump \/ FibDump \/ FaceDump
  BY <1>4 DEF StDel, FaceDel, StDump, FibDump, FaceDump
<1> QED BY <1>1, <1>2, <1>3, <1>4 DEF Server

LEMMA DumpAnswer ==
  ASSUME Server, ~connecting, Asked.cmd \in {"FIB-DUMP", "ST-DUMP", "FACE-DUMP"}
  PROVE  \/ BadCast
         \/ Asked.cmd = "FIB-DUMP" /\ FibDump
         \/ Asked.cmd = "ST-DUMP" /\ StDump
         \/ Asked.cmd = "FACE-DUMP" /\ FaceDump
<1>1. ~Adding /\ ~DelHop
  BY DEF Adding, DelHop
<1>2. CASE Refuse
  <2>1. Reasons = {}
    BY <1>1 DEF Reasons, Understood
  <2> QED BY <1>2, <2>1 DEF Refuse
<1>3. CASE FibAddToFace \/ FibAddUdpFace \/ FibAddTcpFace
  BY <1>1, <1>3 DEF FibAddToFace, FibAddUdpFace, FibAddTcpFace
<1>4. CASE HandleConnect \/ HandleConnectFails
  BY <1>4 DEF HandleConnect, HandleConnectFails
<1>5. CASE FibDel \/ FibDelName \/ FibDelHop
  BY <1>1, <1>5 DEF FibDel, FibDelName, FibDelHop
<1>6. CASE StDel \/ FaceDel
  BY <1>6 DEF StDel, FaceDel
<1>7. CASE StDump \/ FibDump \/ FaceDump
  BY <1>7 DEF StDump, FibDump, FaceDump
<1> QED BY <1>2, <1>3, <1>4, <1>5, <1>6, <1>7 DEF Server

LEMMA BadCastQuiet ==
  ASSUME BadCast
  PROVE  Quiet
  BY DEF BadCast, Quiet, program

LEMMA DeletedServer ==
  ASSUME TablesInv, TablesInv', Grows, Replying, DeletedInv, Server
  PROVE  DeletedInv'
<1> SUFFICES ASSUME Deleting' PROVE DeletedInv'
  BY DEF DeletedInv
<1>1. Waiting /\ UNCHANGED <<line, typed, requests, outcome>> /\ Command' = Command
  BY ServerReplies DEF program, Command
<1>2. Deleting
  BY <1>1 DEF Deleting, InCourse
<1>3. /\ requests[1].cmd = "FIB-DEL" /\ HasArgs(requests[1].param, {"NAME", "TYPE"})
      /\ Len(responses) = 0
  BY <1>1, <1>2 DEF DeletedInv, Deleting, Waiting
<1>4. Asked = requests[1]
  BY <1>3 DEF Asked
<1>5. ~connecting
  BY <1>3, <1>4 DEF Replying
<1>6. BadCast \/ Refuse \/ FibDelHop
  BY <1>3, <1>4, <1>5, DeleteAnswer
<1>7. CASE BadCast
  BY <1>7, BadCastQuiet, DeletedQuiet
<1>8. PICK R : responses \in Seq(R)
  BY DEF Replying
<1>9. CASE Refuse
  <2>1. PICK reason : responses' = Append(responses, [result |-> "ERR", reason |-> reason, body |-> {}])
    BY <1>9 DEF Refuse, SendErr, Answer
  <2>2. Len(responses') = 1 /\ responses'[1] = [result |-> "ERR", reason |-> reason, body |-> {}]
    BY <1>3, <1>8, <2>1, ReplyAdded
  <2>3. responses'[1].result # "OK"
    BY <2>2
  <2> QED BY <1>1, <1>3, <2>2, <2>3 DEF DeletedInv
<1>10. CASE FibDelHop
  <2>1. PICK a : responses' = Append(responses, a)
    BY <1>10 DEF FibDelHop, SendOk, Answer
  <2>2. Len(responses') = 1
    BY <1>3, <1>8, <2>1, ReplyAdded
  <2>3. PICK param : param = requests[1].param
    OBVIOUS
  <2>4. RouteIsGone(param)'
    BY <1>4, <1>10, <2>3, RouteDeleted
  <2>5. requests'[1].param = param /\ requests'[1].cmd = "FIB-DEL"
    BY <1>1, <1>3, <2>3
  <2>6. RouteIsGone(requests[1].param)'
    BY <2>4, <2>5 DEF RouteIsGone
  <2> QED BY <2>2, <2>5, <2>6 DEF DeletedInv
<1> QED BY <1>6, <1>7, <1>9, <1>10

LEMMA DumpServer ==
  ASSUME TablesInv, TablesInv', Grows, Replying, DumpInv, Server
  PROVE  DumpInv'
<1> SUFFICES ASSUME Dumping' PROVE DumpInv'
  BY DEF DumpInv
<1>1. Waiting /\ UNCHANGED <<line, typed, requests, outcome>> /\ Command' = Command
  BY ServerReplies DEF program, Command
<1>2. Dumping
  BY <1>1 DEF Dumping, InCourse
<1>3. /\ Len(requests) = 2
      /\ requests[1].cmd \in {"FIB-DUMP", "ST-DUMP"} /\ requests[2].cmd = "FACE-DUMP"
      /\ Len(responses) \in {0, 1}
      /\ Len(responses) = 1 => NamesFaces(responses[1].body)
  BY <1>1, <1>2 DEF DumpInv, Waiting
<1>4. \/ Len(responses) = 0 /\ Asked.cmd \in {"FIB-DUMP", "ST-DUMP"}
      \/ Len(responses) = 1 /\ Asked.cmd = "FACE-DUMP"
  <2>1. CASE Len(responses) = 0
    <3>1. Asked = requests[1]
      BY <2>1 DEF Asked
    <3> QED BY <1>3, <2>1, <3>1
  <2>2. CASE Len(responses) = 1
    <3>1. Asked = requests[2]
      BY <2>2 DEF Asked
    <3> QED BY <1>3, <2>2, <3>1
  <2> QED BY <1>3, <2>1, <2>2
<1>5. ~connecting
  BY <1>3, <1>4 DEF Replying
<1>6. \/ BadCast
      \/ Asked.cmd = "FIB-DUMP" /\ FibDump
      \/ Asked.cmd = "ST-DUMP" /\ StDump
      \/ Asked.cmd = "FACE-DUMP" /\ FaceDump
  BY <1>3, <1>4, <1>5, DumpAnswer
<1>7. CASE BadCast
  BY <1>7, BadCastQuiet, DumpQuiet
<1>8. PICK R : responses \in Seq(R)
  BY DEF Replying
<1>9. CASE Len(responses) = 0 /\ (FibDump \/ StDump)
  <2>1. PICK body, a : /\ body \in {FibLines, StLines} /\ a = [result |-> "OK", reason |-> "", body |-> body]
                       /\ responses' = Append(responses, a)
    BY <1>9 DEF FibDump, StDump, Answer
  <2>2. Len(responses') = 1 /\ responses'[1].body = body
    <3>1. Len(responses') = Len(responses) + 1 /\ responses'[Len(responses) + 1] = a
      BY <1>8, <2>1, ReplyAdded
    <3>2. a.body = body
      BY <2>1
    <3> QED BY <1>9, <3>1, <3>2
  <2>3. UNCHANGED serial
    BY <1>9 DEF FibDump, StDump, router
  <2>4. NamesFaces(body)
    BY <2>1, TablesName
  <2>5. NumbersIn(responses'[1].body) \subseteq Ids'
    BY <2>2, <2>3, <2>4 DEF NamesFaces, Ids
  <2> QED BY <1>1, <1>3, <2>2, <2>5 DEF DumpInv, NamesFaces
<1>10. CASE Len(responses) = 1 /\ FaceDump
  <2>1. PICK body, a : /\ body = FaceLines /\ a = [result |-> "OK", reason |-> "", body |-> body]
                       /\ responses' = Append(responses, a)
    BY <1>10 DEF FaceDump, Answer
  <2>2. /\ Len(responses') = 2 /\ responses'[2].body = body
        /\ responses'[1] = responses[1]
    <3>1. /\ Len(responses') = Len(responses) + 1
          /\ responses'[Len(responses) + 1] = a
          /\ \A i \in 1..Len(responses) : responses'[i] = responses[i]
      BY <1>8, <2>1, ReplyAdded
    <3>2. a.body = body
      BY <2>1
    <3> QED BY <1>10, <3>1, <3>2
  <2>3. UNCHANGED <<faces, serial>>
    BY <1>10 DEF FaceDump, router
  <2>4. PICK ids : ids = NumbersIn(responses[1].body)
    OBVIOUS
  <2>5. ids \subseteq Ids /\ ShowsFaces(ids, body)
    BY <1>3, <1>10, <2>1, <2>4, FaceLinesShow DEF NamesFaces, TablesInv
  <2>6. ids \subseteq Ids' /\ ShowsFaces(ids, body)'
    BY <2>3, <2>5 DEF Ids, ShowsFaces
  <2>7. NumbersIn(responses'[1].body) = ids
    BY <2>2, <2>4
  <2>8. NamesFaces(responses[1].body)' /\ ShowsFaces(NumbersIn(responses[1].body), responses[2].body)'
    BY <2>2, <2>6, <2>7 DEF NamesFaces, ShowsFaces
  <2> QED BY <1>1, <1>3, <2>2, <2>8 DEF DumpInv
<1>11. CASE (Asked.cmd = "FIB-DUMP" /\ FibDump) \/ (Asked.cmd = "ST-DUMP" /\ StDump)
  BY <1>3, <1>4, <1>9, <1>11
<1>12. CASE Asked.cmd = "FACE-DUMP" /\ FaceDump
  BY <1>3, <1>4, <1>10, <1>12
<1> QED BY <1>6, <1>7, <1>11, <1>12, Zenon

LEMMA CourseStarts ==
  ASSUME Replying', NEW l \in DOMAIN CommandLines, Start(l)
  PROVE  DeletedInv' /\ DumpInv'
<1>1. responses' = <<>> /\ requests' = RequestsOf(Command')
  BY DEF Start, Command
<1>2. Len(responses') = 0
  BY <1>1
<1>3. outcome' \in {"asking", "shown"} => requests' # <<>>
  BY <1>1 DEF Start, Command
<1>4. ASSUME Deleting' PROVE requests'[1].cmd = "FIB-DEL"
  <2>1. PICK command : command = Command'
    OBVIOUS
  <2>2. command.cmd = "fibdel" /\ Len(RequestsOf(command)) = 1 /\ requests' = RequestsOf(command)
    BY <1>1, <1>4, <2>1 DEF Deleting, InCourse
  <2> QED BY <2>2, DeleteRequests
<1>5. ASSUME Dumping'
      PROVE  /\ Len(requests') = 2
             /\ requests'[1].cmd \in {"FIB-DUMP", "ST-DUMP"} /\ requests'[2].cmd = "FACE-DUMP"
  <2>1. PICK command : command = Command'
    OBVIOUS
  <2>2. command.cmd \in {"fibdump", "stdump"} /\ RequestsOf(command) # <<>> /\ requests' = RequestsOf(command)
    BY <1>1, <1>3, <1>5, <2>1 DEF Dumping, InCourse
  <2> QED BY <2>2, DumpRequests
<1>6. DeletedInv'
  BY <1>2, <1>4 DEF DeletedInv
<1>7. DumpInv'
  BY <1>2, <1>5 DEF DumpInv
<1> QED BY <1>6, <1>7

-----------------------------------------------------------------------------
(***************************************************************************)
(* The theorems.                                                           *)
(***************************************************************************)
LEMMA RtctrlInit == Init => RtctrlInv
<1> SUFFICES ASSUME Init PROVE RtctrlInv
  OBVIOUS
<1>1. DOMAIN faces = {} /\ serial = FirstSerial /\ Hops(fib) = {} /\ Hops(st) = {}
  BY EmptyTableHops DEF Init
<1>2. TablesInv
  BY <1>1 DEF TablesInv, FaceIds, HopsHaveFaces, RoutesToFirst, FirstSerial
<1>3. responses \in Seq({}) /\ outcome = "none" /\ ~connecting
  BY DEF Init
<1>4. Replying
  BY <1>3 DEF Replying
<1>5. DeletedInv /\ DumpInv
  BY <1>3 DEF DeletedInv, DumpInv, Deleting, Dumping, InCourse
<1> QED BY <1>2, <1>4, <1>5 DEF RtctrlInv

LEMMA RtctrlStep ==
  ASSUME RtctrlInv, [Next]_vars
  PROVE  RtctrlInv'
<1>1. TablesInv /\ Replying /\ DeletedInv /\ DumpInv
  BY DEF RtctrlInv
<1>2. Grows
  BY <1>1, FacesGrow DEF TablesInv
<1>3. ASSUME Quiet, TablesInv', Replying' PROVE RtctrlInv'
  BY <1>1, <1>2, <1>3, DeletedQuiet, DumpQuiet DEF RtctrlInv
<1>4. CASE Server
  <2>1. TablesInv' /\ Replying'
    BY <1>1, <1>4, TablesServer, ReplyingServer
  <2> QED BY <1>1, <1>2, <1>4, <2>1, DeletedServer, DumpServer DEF RtctrlInv
<1>5. CASE Environment
  <2>1. TablesInv' /\ Replying'
    BY <1>1, <1>5, TablesEnvironment, ReplyingElse
  <2>2. Hops(fib') \subseteq Hops(fib)
    <3>1. ASSUME NEW f, FaceGoes(f) PROVE Hops(fib') \subseteq Hops(fib)
      BY <3>1, RemoveFaceHops DEF FaceGoes, FibRemoveFace
    <3>2. (\E f : FaceGoes(f)) \/ fib' = fib
      BY <1>5 DEF Environment, FaceComes, SubArrives, SubExpires
    <3> QED BY <3>1, <3>2
  <2>3. UNCHANGED <<line, requests, outcome, responses>>
    BY <1>5 DEF Environment, FaceComes, FaceGoes, SubArrives, SubExpires, program
  <2> QED BY <1>3, <2>1, <2>2, <2>3 DEF Quiet
<1>6. CASE Finish
  <2>1. UNCHANGED <<line, requests, responses, router>> /\ outcome = "asking"
    BY <1>6 DEF Finish
  <2>2. UNCHANGED <<faces, serial, st, fib>>
    BY <2>1 DEF router
  <2>3. TablesInv' /\ Replying'
    BY <1>1, <1>6, <2>2, TablesSame, ReplyingElse
  <2>4. Quiet
    BY <2>1, <2>2 DEF Quiet
  <2> QED BY <1>3, <2>3, <2>4
<1>7. ASSUME NEW l \in DOMAIN CommandLines, Start(l) PROVE RtctrlInv'
  <2>1. UNCHANGED <<faces, serial, st, fib>>
    BY <1>7 DEF Start, router
  <2>2. TablesInv' /\ Replying'
    BY <1>1, <1>7, <2>1, TablesSame, ReplyingElse
  <2> QED BY <1>7, <2>2, CourseStarts DEF RtctrlInv
<1>8. CASE UNCHANGED vars
  <2>1. UNCHANGED <<line, requests, responses, outcome, faces, serial, st, fib>>
    BY <1>8 DEF vars, program, router
  <2>2. TablesInv' /\ Replying'
    BY <1>1, <1>8, <2>1, TablesSame, ReplyingElse
  <2>3. Quiet
    BY <2>1 DEF Quiet
  <2> QED BY <1>3, <2>2, <2>3
<1> QED BY <1>4, <1>5, <1>6, <1>7, <1>8 DEF Next

(* In every state: next hops are of faces that there are, a route goes to  *)
(* the first face to its remote, and a command has come as far as its      *)
(* replies say.                                                            *)
THEOREM RtctrlInvariant == Spec => []RtctrlInv
<1>1. Init => RtctrlInv
  BY RtctrlInit
<1>2. RtctrlInv /\ [Next]_vars => RtctrlInv'
  BY RtctrlStep
<1> QED BY <1>1, <1>2, PTL DEF Spec

LEMMA InvDeleted == RtctrlInv => DeletedRouteIsGone
<1> SUFFICES ASSUME RtctrlInv, outcome = "shown", Command.cmd = "fibdel", Len(requests) = 1,
                    HasArgs(requests[1].param, {"NAME", "TYPE"}), responses[1].result = "OK"
             PROVE  \A hop \in Hops(fib) :
                      hop[1] = CdOf(requests[1].param.NAME) => faces[hop[2]] # Remote(requests[1].param)
  BY DEF DeletedRouteIsGone
<1>1. Deleting /\ Len(responses) = 1
  BY DEF RtctrlInv, Replying, Deleting, InCourse
<1> QED BY <1>1 DEF RtctrlInv, DeletedInv, RouteIsGone

(* After an accepted fibdel no face to that remote has the route, whatever *)
(* faces to it came and went before and since.                             *)
THEOREM RtctrlDeletedRouteIsGone == Spec => []DeletedRouteIsGone
<1> QED BY InvDeleted, RtctrlInvariant, PTL

LEMMA InvDump == RtctrlInv => DumpNamesEveryHop
<1> DEFINE hops  == {item.n : item \in {i \in UNION {text.items : text \in TableBody} : i.number}}
           shown == {text.id : text \in DumpShow}
<1> SUFFICES ASSUME RtctrlInv, outcome = "shown", Command.cmd \in {"fibdump", "stdump"}
             PROVE  /\ hops \cap DOMAIN faces \subseteq shown
                    /\ shown \subseteq hops
                    /\ \A text \in DumpShow : text.id \in DOMAIN faces => text.remote = faces[text.id]
  BY DEF DumpNamesEveryHop
<1>1. Dumping /\ Len(responses) = 2 /\ DumpInv
  BY DEF RtctrlInv, Replying, DumpInv, Dumping, InCourse
<1>2. hops = NumbersIn(TableBody) /\ FaceBody = responses[2].body
  BY <1>1 DEF NumbersIn, FaceBody
<1>3. ShowsFaces(hops, FaceBody)
  BY <1>1, <1>2 DEF DumpInv, TableBody
<1>4. NamedIds = hops
  <2>1. ASSUME NEW n \in NamedIds PROVE n \in hops
    <3>1. PICK text \in TableBody : n \in GetFaceId(text)
      BY <2>1 DEF NamedIds
    <3>2. PICK item \in text.items : item.number /\ n = item.n
      BY <3>1 DEF GetFaceId
    <3> QED BY <3>1, <3>2
  <2>2. ASSUME NEW n \in hops PROVE n \in NamedIds
    <3>1. PICK text \in TableBody : \E item \in text.items : item.number /\ n = item.n
      BY <2>2
    <3>2. n \in GetFaceId(text)
      BY <3>1 DEF GetFaceId
    <3> QED BY <3>1, <3>2 DEF NamedIds
  <2> QED BY <2>1, <2>2
<1> HIDE DEF hops
<1>5. DumpShow = {text \in FaceBody : text.id \in hops}
  BY <1>4 DEF DumpShow, MatchFaceId
<1>6. \A id \in hops \cap DOMAIN faces : \E text \in DumpShow : text.id = id
  BY <1>3, <1>5 DEF ShowsFaces
<1>7. \A text \in DumpShow : text.id \in hops /\ (text.id \in DOMAIN faces => text.remote = faces[text.id])
  BY <1>3, <1>5 DEF ShowsFaces
<1> QED BY <1>6, <1>7

(* A dump prints the face of every next hop it prints, with its endpoint,  *)
(* unless the face is gone, and no other face, although the two tables are *)
(* asked for one after the other.                                          *)
THEOREM RtctrlDumpNamesEveryHop == Spec => []DumpNamesEveryHop
<1> QED BY InvDump, RtctrlInvariant, PTL

-----------------------------------------------------------------------------
(***************************************************************************)
(* The requests that rtctrl sends.                                         *)
(***************************************************************************)
RequestIsGood(request) ==
  /\ ParamIsGood(request.param)
  /\ request.cmd = "FIB-ADD"  => HasArgs(request.param, AddKeys)
  /\ request.cmd = "FIB-DEL"  => \/ DOMAIN request.param \in {{}, {"NAME"}}
                                 \/ HasArgs(request.param, {"NAME", "TYPE", "IP", "PORT"})
  /\ request.cmd = "FACE-DEL" => HasArgs(request.param, {"FACE"})

AreGood(reqs) ==
  /\ \E R : reqs \in Seq(R)
  /\ \A i \in 1..Len(reqs) : RequestIsGood(reqs[i])

(* Nothing, one good request.                                              *)
LEMMA NoneIsGood == AreGood(<<>>)
<1>1. <<>> \in Seq({}) /\ Len(<<>>) = 0
  OBVIOUS
<1> QED BY <1>1 DEF AreGood

LEMMA OneIsGood ==
  ASSUME NEW request, RequestIsGood(request)
  PROVE  AreGood(<<request>>)
<1>1. PICK reqs : reqs = <<request>>
  OBVIOUS
<1>2. reqs \in Seq({request}) /\ Len(reqs) = 1 /\ reqs[1] = request
  BY <1>1
<1>3. \A i \in 1..Len(reqs) : RequestIsGood(reqs[i])
  BY <1>2
<1> QED BY <1>1, <1>2, <1>3 DEF AreGood

(* The keys that each command asks for. *)
LEMMA RequestIfIsGood ==
  ASSUME NEW options, IsList(options), NEW cmd, NEW keys,
         \/ cmd = "FIB-ADD" /\ keys = AddKeys
         \/ cmd = "FIB-DEL" /\ keys \in {{"NAME"}, {"NAME", "TYPE", "IP", "PORT"}}
         \/ cmd = "FACE-DEL" /\ keys = {"FACE"}
  PROVE  AreGood(RequestIf(cmd, options, keys))
<1>1. PICK n \in Nat : DOMAIN options = 1..n
  BY LenProperties DEF IsList
<1>2. PICK param : param = ParamsOf(options)
  OBVIOUS
<1>3. ParamIsGood(param)
  BY <1>1, <1>2, ParamsAreGood
<1>4. CASE DOMAIN param = keys
  <2>1. PICK request : request = Request(cmd, param)
    OBVIOUS
  <2>2. request.cmd = cmd /\ request.param = param
    BY <2>1 DEF Request
  <2>3. RequestIsGood(request)
    BY <1>3, <1>4, <2>2 DEF RequestIsGood, HasArgs
  <2>4. RequestIf(cmd, options, keys) = <<request>>
    BY <1>2, <1>4, <2>1 DEF RequestIf
  <2> QED BY <2>3, <2>4, OneIsGood
<1>5. CASE DOMAIN param # keys
  <2>1. RequestIf(cmd, options, keys) = <<>>
    BY <1>2, <1>5 DEF RequestIf
  <2> QED BY <2>1, NoneIsGood
<1> QED BY <1>4, <1>5

(* No parameters are good parameters.                                      *)
LEMMA EmptyIsGood ==
  /\ ParamIsGood(NoParam)
  /\ DOMAIN NoParam = {}
  BY DEF ParamIsGood, NoParam

(* The commands without parameters.                                        *)
LEMMA BareIsGood ==
  ASSUME NEW options, NEW cmds \in Seq({"ST-DEL", "ST-DUMP", "FIB-DUMP", "FACE-DUMP"})
  PROVE  AreGood(Bare(options, cmds))
<1>1. CASE options # <<>>
  <2>1. Bare(options, cmds) = <<>>
    BY <1>1 DEF Bare
  <2> QED BY <2>1, NoneIsGood
<1>2. CASE options = <<>>
  <2>1. PICK n \in Nat : DOMAIN cmds = 1..n
    BY LenProperties
  <2>2. PICK reqs : reqs = Bare(options, cmds)
    OBVIOUS
  <2>3. reqs = [i \in 1..n |-> Request(cmds[i], NoParam)]
    BY <1>2, <2>1, <2>2 DEF Bare
  <2> DEFINE R == {reqs[i] : i \in 1..n}
  <2>4. reqs \in [1..n -> R]
    BY <2>3
  <2>5. reqs \in Seq(R) /\ Len(reqs) = n
    <3> HIDE DEF R
    <3> QED BY <2>4, SeqDef, LenProperties
  <2>6. ASSUME NEW i \in 1..n PROVE RequestIsGood(reqs[i])
    <3>1. reqs[i] = Request(cmds[i], NoParam)
      BY <2>3
    <3>2. cmds[i] \in {"ST-DEL", "ST-DUMP", "FIB-DUMP", "FACE-DUMP"}
      BY <2>1, ElementOfSeq, LenProperties
    <3>3. PICK request : request = reqs[i]
      OBVIOUS
    <3>4. request.cmd \in {"ST-DEL", "ST-DUMP", "FIB-DUMP", "FACE-DUMP"} /\ request.param = NoParam
      BY <3>1, <3>2, <3>3 DEF Request
    <3>5. RequestIsGood(request)
      BY <3>4, EmptyIsGood DEF RequestIsGood
    <3> QED BY <3>3, <3>5
  <2> HIDE DEF R
  <2>7. AreGood(reqs)
    BY <2>5, <2>6 DEF AreGood
  <2> QED BY <2>2, <2>7
<1> QED BY <1>1, <1>2

(* A file: everything is deleted first, then each route is added.          *)
LoadsFile(names, reqs, routes) ==
  /\ Len(reqs) = Len(routes) + 1
  /\ reqs[1] = Request("FIB-DEL", NoParam)
  /\ \A i \in 1..Len(routes) : reqs[i + 1].cmd = "FIB-ADD" /\ Asks(names, reqs[i + 1].param, routes[i])

(* A file that is accepted is loaded route by route.                       *)
LEMMA FileRequestsLoad ==
  ASSUME NEW file, IsFile(file), NEW names, AreNames(names, file), FileRequests(file) # <<>>
  PROVE  /\ \E R : FileRequests(file) \in Seq(R)
         /\ Len(FileRoutes(file)) \in Nat
         /\ LoadsFile(names, FileRequests(file), FileRoutes(file))
<1>1. PICK params, routes, reqs : /\ params = FileParams(file) /\ routes = FileRoutes(file)
                                  /\ reqs = FileRequests(file)
  OBVIOUS
<1>2. PICK Q : params \in Seq(Q)
  BY <1>1, FileAsksEach
<1>3. PICK n \in Nat : DOMAIN params = 1..n /\ n = Len(params)
  BY <1>2, LenProperties
<1>4. /\ AreLegal(params)
      /\ reqs = <<Request("FIB-DEL", NoParam)>> \o [i \in DOMAIN params |-> Request("FIB-ADD", params[i])]
  BY <1>1 DEF FileRequests, AreLegal
<1>5. Len(routes) = n /\ \A i \in 1..n : Asks(names, params[i], routes[i])
  BY <1>1, <1>3, <1>4, FileAsksEach DEF AsksEach
<1>6. PICK first, adds : /\ first = <<Request("FIB-DEL", NoParam)>>
                         /\ adds = [i \in 1..n |-> Request("FIB-ADD", params[i])]
  OBVIOUS
<1> DEFINE R == {Request("FIB-DEL", NoParam)} \cup {adds[i] : i \in 1..n}
<1>7. first \in Seq(R) /\ Len(first) = 1 /\ first[1] = Request("FIB-DEL", NoParam)
  BY <1>6
<1>8. adds \in [1..n -> R]
  BY <1>6
<1> HIDE DEF R
<1>9. adds \in Seq(R) /\ Len(adds) = n
  BY <1>8, SeqDef, LenProperties
<1>10. reqs = first \o adds
  BY <1>3, <1>4, <1>6
<1>11. /\ reqs \in Seq(R) /\ Len(reqs) = n + 1
       /\ \A i \in 1..n+1 : reqs[i] = IF i <= 1 THEN first[i] ELSE adds[i - 1]
  <2>1. /\ reqs \in Seq(R) /\ Len(reqs) = Len(first) + Len(adds)
        /\ \A i \in 1..Len(first)+Len(adds) : reqs[i] = IF i <= Len(first) THEN first[i] ELSE adds[i - Len(first)]
    BY <1>7, <1>9, <1>10, ConcatProperties
  <2>2. Len(first) = 1 /\ Len(adds) = n /\ 1 + n = n + 1
    BY <1>7, <1>9
  <2> QED BY <2>1, <2>2
<1>12. reqs[1] = Request("FIB-DEL", NoParam)
  <2>1. 1 \in 1..n+1 /\ 1 <= 1
    OBVIOUS
  <2>2. reqs[1] = first[1]
    BY <1>11, <2>1
  <2> QED BY <1>7, <2>2
<1>13. ASSUME NEW i \in 1..n PROVE reqs[i + 1].cmd = "FIB-ADD" /\ Asks(names, reqs[i + 1].param, routes[i])
  <2>1. PICK j : j = i + 1
    OBVIOUS
  <2>2. j \in 1..n+1 /\ ~(j <= 1) /\ j - 1 = i
    BY <2>1
  <2>3. reqs[j] = adds[i]
    BY <1>11, <2>2
  <2>4. PICK request : request = reqs[j]
    OBVIOUS
  <2>5. request = Request("FIB-ADD", params[i])
    BY <1>6, <2>3, <2>4
  <2>6. request.cmd = "FIB-ADD" /\ request.param = params[i]
    BY <2>5 DEF Request
  <2>7. request.cmd = "FIB-ADD" /\ Asks(names, request.param, routes[i])
    BY <1>5, <2>6
  <2> QED BY <2>1, <2>4, <2>7
<1>14. LoadsFile(names, reqs, routes)
  BY <1>5, <1>11, <1>12, <1>13 DEF LoadsFile
<1> QED BY <1>1, <1>5, <1>11, <1>14

(* The request for a route has all that the server looks for.              *)
LEMMA AsksIsGood ==
  ASSUME NEW param, NEW route, NEW names, Asks(names, param, route)
  PROVE  ParamIsGood(param) /\ DOMAIN param = AddKeys
<1>1. PICK name, type, remote, cost : IsRoute(param, name, type, remote, cost)
  BY Zenon DEF Asks
<1>2. ParamType(type).TYPE \in {"tcp", "udp"}
  <2>1. IsParam(ParamType(type))
    BY <1>1 DEF IsRoute
  <2>2. ParamType(type) = [TYPE |-> "tcp"] \/ ParamType(type) = [TYPE |-> "udp"]
    BY <2>1, IllegalIsNoParam DEF ParamType
  <2> QED BY <2>2
<1>3. DOMAIN param = AddKeys /\ param.TYPE = ParamType(type).TYPE /\ param.COST = cost /\ IsNumber(cost)
  BY <1>1 DEF IsRoute
<1> QED BY <1>2, <1>3 DEF ParamIsGood

(* A file makes good requests.                                             *)
LEMMA FileRequestsAreGood ==
  ASSUME NEW file, IsFile(file)
  PROVE  AreGood(FileRequests(file))
<1>1. CASE FileRequests(file) = <<>>
  BY <1>1, NoneIsGood
<1>2. CASE FileRequests(file) # <<>>
  <2>1. PICK reqs, routes : reqs = FileRequests(file) /\ routes = FileRoutes(file)
    OBVIOUS
  <2>2. (\E R : reqs \in Seq(R)) /\ Len(routes) \in Nat /\ LoadsFile(Uris, reqs, routes)
    <3>1. AreNames(Uris, file)
      BY DEF IsFile, AreNames
    <3> QED BY <1>2, <2>1, <3>1, FileRequestsLoad
  <2>3. ASSUME NEW i \in 1..Len(reqs) PROVE RequestIsGood(reqs[i])
    <3>1. CASE i = 1
      <4>1. PICK request : request = reqs[1]
        OBVIOUS
      <4>2. request.cmd = "FIB-DEL" /\ request.param = NoParam
        BY <2>2, <4>1 DEF LoadsFile, Request
      <4>3. RequestIsGood(request)
        BY <4>2, EmptyIsGood DEF RequestIsGood
      <4> QED BY <3>1, <4>1, <4>3
    <3>2. CASE i # 1
      <4>1. PICK k : k = i - 1
        OBVIOUS
      <4>2. k \in 1..Len(routes) /\ k + 1 = i
        BY <2>2, <3>2, <4>1 DEF LoadsFile
      <4>3. PICK request : request = reqs[i]
        OBVIOUS
      <4>4. request.cmd = "FIB-ADD" /\ Asks(Uris, request.param, routes[k])
        BY <2>2, <4>2, <4>3 DEF LoadsFile
      <4>5. RequestIsGood(request)
        BY <4>4, AsksIsGood DEF RequestIsGood, HasArgs
      <4> QED BY <4>3, <4>5
    <3> QED BY <3>1, <3>2
  <2> QED BY <2>1, <2>2, <2>3 DEF AreGood
<1> QED BY <1>1, <1>2

(* Whatever is typed: the requests are good.                               *)
LEMMA RequestsAreGood ==
  ASSUME NEW command, IsCommandLine(command)
  PROVE  AreGood(RequestsOf(command))
<1>1. PICK options : options = command.options /\ IsList(options)
  BY DEF IsCommandLine
<1>2. AreGood(FibAddRequests(options))
  <2>1. CASE Len(options) = 1 /\ options[1][1] = "-f"
    <3>1. 1 \in DOMAIN options
      BY <1>1, <2>1, LenProperties DEF IsList
    <3>2. options[1] \in Range(options)
      BY <3>1 DEF Range
    <3>3. IsFile(options[1][2])
      BY <1>1, <2>1, <3>2 DEF IsCommandLine
    <3> QED BY <2>1, <3>3, FileRequestsAreGood DEF FibAddRequests
  <2>2. AreGood(AddRequests(options))
    BY <1>1, RequestIfIsGood DEF AddRequests, AddKeys
  <2> QED BY <2>1, <2>2, NoneIsGood DEF FibAddRequests
<1>3. AreGood(FibDelRequests(options))
  <2>1. AreGood(<<Request("FIB-DEL", NoParam)>>)
    <3>1. RequestIsGood(Request("FIB-DEL", NoParam))
      BY EmptyIsGood DEF RequestIsGood, Request
    <3> QED BY <3>1, OneIsGood
  <2>2. AreGood(DelNameRequests(options)) /\ AreGood(DelHopRequests(options))
    BY <1>1, RequestIfIsGood DEF DelNameRequests, DelHopRequests
  <2> QED BY <2>1, <2>2, NoneIsGood DEF FibDelRequests
<1>4. AreGood(FaceDelRequests(options))
  BY <1>1, RequestIfIsGood, NoneIsGood DEF FaceDelRequests
<1> DEFINE Bares == {"ST-DEL", "ST-DUMP", "FIB-DUMP", "FACE-DUMP"}
<1>5. <<"ST-DEL">> \in Seq(Bares) /\ <<"FACE-DUMP">> \in Seq(Bares)
  OBVIOUS
<1>6. <<"ST-DUMP", "FACE-DUMP">> \in Seq(Bares) /\ <<"FIB-DUMP", "FACE-DUMP">> \in Seq(Bares)
  OBVIOUS
<1>7. AreGood(StDelRequests(options)) /\ AreGood(FaceDumpRequests(options))
  BY <1>5, BareIsGood DEF StDelRequests, FaceDumpRequests
<1>8. AreGood(StDumpRequests(options)) /\ AreGood(FibDumpRequests(options))
  BY <1>6, BareIsGood DEF StDumpRequests, FibDumpRequests
<1> QED BY <1>1, <1>2, <1>3, <1>4, <1>7, <1>8, NoneIsGood DEF RequestsOf
-----------------------------------------------------------------------------
(***************************************************************************)
(* What is typed is known, and its replies are none that it is illegal.    *)
(***************************************************************************)
UnderstoodInv ==
  /\ outcome # "none" => line \in DOMAIN CommandLines
  /\ RequestsAreUnderstood

(* The server understands what is good, but for an empty port.             *)
LEMMA GoodIsUnderstood ==
  ASSUME RequestIsGood(Asked)
  PROVE  Understood \/ LacksPort(Asked)
<1>1. PICK request : request = Asked
  OBVIOUS
<1>2. RequestIsGood(request)
  BY <1>1
<1>3. request.cmd = "FIB-ADD" => AddArgs(request.param)
  BY <1>2 DEF RequestIsGood, ParamIsGood, AddArgs, AddKeys, HasArgs, LegalType
<1>4. request.cmd = "FIB-DEL" => DelArgs(request.param) \/ LacksPort(request)
  BY <1>2 DEF RequestIsGood, ParamIsGood, DelArgs, HasArgs, LegalType, LacksPort
<1>5. request.cmd = "FACE-DEL" => FaceArgs(request.param)
  BY <1>2 DEF RequestIsGood, FaceArgs
<1> QED BY <1>1, <1>3, <1>4, <1>5 DEF Understood

(* What the server is asked is good.                                       *)
LEMMA AskedIsGood ==
  ASSUME Waiting, Replying, UnderstoodInv
  PROVE  RequestIsGood(Asked)
<1>1. IsCommandLine(Command) /\ requests = RequestsOf(Command)
  BY RtctrlAssumption DEF Waiting, Replying, UnderstoodInv, Command
<1>2. AreGood(requests)
  <2>1. PICK command : command = Command
    OBVIOUS
  <2> QED BY <1>1, <2>1, RequestsAreGood
<1>3. Len(responses) \in Nat /\ Len(requests) \in Nat
  BY <1>2, LenProperties DEF Replying, AreGood
<1>4. Len(responses) + 1 \in 1..Len(requests)
  BY <1>3 DEF Waiting
<1> QED BY <1>2, <1>4 DEF AreGood, Asked

(* What is answered is not that the command is illegal, but for that port. *)
LEMMA ServerUnderstands ==
  ASSUME Server, Understood \/ LacksPort(Asked)
  PROVE  \/ UNCHANGED responses
         \/ \E a : Reply(a) /\ (a.reason = "illegal control command arg" => LacksPort(Asked))
<1> DEFINE R(verdict, reason, body) == [result |-> verdict, reason |-> reason, body |-> body]
           Fits(reason) == reason = "illegal control command arg" => LacksPort(Asked)
<1>1. \A verdict, reason, body : R(verdict, reason, body).reason = reason
  OBVIOUS
<1>2. ASSUME NEW verdict, NEW reason, NEW body, Answer(verdict, reason, body), Fits(reason)
      PROVE  \E a : Reply(a) /\ Fits(a.reason)
  <2>1. PICK a : a = R(verdict, reason, body)
    OBVIOUS
  <2>2. Fits(a.reason)
    BY <1>2, <2>1
  <2>3. Reply(a)
    BY <1>2, <2>1 DEF Answer, Reply
  <2> QED BY <2>2, <2>3
<1> HIDE DEF R
<1>3. CASE BadCast \/ FibAddTcpFace
  BY <1>3 DEF BadCast, FibAddTcpFace
<1>4. CASE Refuse
  <2>1. PICK reason \in Reasons : SendErr(reason)
    BY <1>4 DEF Refuse
  <2>2. Fits(reason)
    <3>1. CASE Understood
      BY <2>1, <3>1 DEF Reasons
    <3>2. CASE LacksPort(Asked)
      BY <3>2
    <3> QED BY <3>1, <3>2
  <2> QED BY <1>2, <2>1, <2>2 DEF SendErr
<1>5. CASE FibAddToFace \/ FibAddUdpFace \/ HandleConnect \/ FibDel \/ FibDelName \/ FibDelHop \/ StDel \/ FaceDel
  <2>1. SendOk
    BY <1>5, Zenon DEF FibAddToFace, FibAddUdpFace, HandleConnect, FibDel, FibDelName, FibDelHop, StDel, FaceDel
  <2> QED BY <1>2, <2>1 DEF SendOk
<1>6. CASE HandleConnectFails
  <2>1. SendErr("not connected")
    BY <1>6 DEF HandleConnectFails
  <2> QED BY <1>2, <2>1 DEF SendErr
<1>7. CASE StDump \/ FibDump \/ FaceDump
  <2>1. \E body : Answer("OK", "", body)
    BY <1>7, Zenon DEF StDump, FibDump, FaceDump
  <2> QED BY <1>2, <2>1
<1> QED BY <1>3, <1>4, <1>5, <1>6, <1>7 DEF Server

(* A step of the server keeps it.                                          *)
LEMMA UnderstoodServer ==
  ASSUME Server, Replying, UnderstoodInv
  PROVE  UnderstoodInv'
<1>1. /\ Waiting /\ UNCHANGED <<line, requests, outcome>> /\ outcome = "asking" /\ alive
  BY ServerReplies DEF program, Waiting
<1>2. RequestIsGood(Asked) /\ (Understood \/ LacksPort(Asked))
  BY <1>1, AskedIsGood, GoodIsUnderstood
<1>3. PICK S : responses \in Seq(S)
  BY DEF Replying
<1> DEFINE Fits(reason, request) == reason = "illegal control command arg" => LacksPort(request)
<1>4. \A i \in DOMAIN responses' : Fits(responses'[i].reason, requests'[i])
  <2>1. CASE UNCHANGED responses
    BY <1>1, <2>1 DEF UnderstoodInv, RequestsAreUnderstood
  <2>2. CASE \E a : Reply(a) /\ Fits(a.reason, Asked)
    <3>1. PICK a : Reply(a) /\ Fits(a.reason, Asked)
      BY <2>2
    <3>2. /\ Len(responses) \in Nat /\ Len(responses') = Len(responses) + 1
          /\ responses'[Len(responses) + 1] = a
          /\ \A i \in 1..Len(responses) : responses'[i] = responses[i]
      BY <1>3, <3>1, ReplyAdded DEF Reply
    <3>3. DOMAIN responses' = 1..Len(responses') /\ DOMAIN responses = 1..Len(responses)
      BY <1>3, <3>1, ReplyAdded, LenProperties DEF Reply
    <3>4. ASSUME NEW i \in DOMAIN responses' PROVE Fits(responses'[i].reason, requests'[i])
      <4>1. CASE i = Len(responses) + 1
        <5>1. responses'[i] = a /\ requests'[i] = Asked
          BY <1>1, <3>2, <4>1 DEF Asked
        <5> QED BY <3>1, <5>1
      <4>2. CASE i # Len(responses) + 1
        <5>1. i \in 1..Len(responses)
          BY <3>2, <3>3, <4>2
        <5> QED BY <1>1, <3>2, <3>3, <5>1 DEF UnderstoodInv, RequestsAreUnderstood
      <4> QED BY <4>1, <4>2
    <3> QED BY <3>4
  <2> QED BY <1>2, <2>1, <2>2, ServerUnderstands
<1>5. ~alive' => HasArgs(Asked.param, {"PORT"})' /\ ~IsPort(Asked.param.PORT)' /\ ~LacksPort(Asked)'
  <2>1. CASE BadCast
    <3>1. Asked' = Asked
      BY <2>1, <1>1 DEF BadCast, Asked
    <3>2. PICK request : request = Asked
      OBVIOUS
    <3>3. HasArgs(request.param, {"PORT"})
          /\ \/ ~IsPort(request.param.PORT)
             \/ HasArgs(request.param, {"COST"}) /\ ~IsNumber(request.param.COST)
      <4>1. /\ HasArgs(Asked.param, {"PORT"})
            /\ \/ ~IsPort(Asked.param.PORT)
               \/ HasArgs(Asked.param, {"COST"}) /\ ~IsNumber(Asked.param.COST)
        BY <2>1, Zenon DEF BadCast
      <4> QED BY <4>1, <3>2
    <3>4. HasArgs(request.param, {"COST"}) => IsNumber(request.param.COST)
      BY <1>2, <3>2 DEF RequestIsGood, ParamIsGood, HasArgs
    <3>5. HasArgs(request.param, {"PORT"}) /\ ~IsPort(request.param.PORT)
      BY <3>3, <3>4
    <3>6. ~LacksPort(request)
      <4>1. request.cmd = "FIB-DEL" => DelArgs(request.param)
        BY <2>1, <3>2 DEF BadCast, Understood
      <4>2. HasArgs(request.param, {"PORT"}) => "PORT" \in DOMAIN request.param
        BY DEF HasArgs
      <4> QED BY <4>1, <4>2 DEF LacksPort, DelArgs
    <3>7. request = Asked'
      BY <3>1, <3>2
    <3> QED BY <3>5, <3>6, <3>7
  <2>2. CASE ~BadCast
    <3>1. alive' = alive
      BY <2>2 DEF Server, Refuse, FibAddToFace, FibAddUdpFace, FibAddTcpFace, HandleConnect,
         HandleConnectFails, FibDel, FibDelName, FibDelHop, StDel, FaceDel, StDump, FibDump, FaceDump, router
    <3> QED BY <1>1, <3>1
  <2> QED BY <2>1, <2>2
<1>6. RequestsAreUnderstood'
  BY <1>4, <1>5 DEF RequestsAreUnderstood
<1> QED BY <1>1, <1>6 DEF UnderstoodInv

(* So does every other step.                                               *)
LEMMA UnderstoodElse ==
  ASSUME Replying, UnderstoodInv,
         Environment \/ Finish \/ (\E l \in DOMAIN CommandLines : Start(l)) \/ UNCHANGED vars
  PROVE  UnderstoodInv'
<1>1. CASE Environment
  <2>1. UNCHANGED <<program, responses, alive>>
    BY <1>1 DEF Environment, FaceComes, FaceGoes, SubArrives, SubExpires
  <2> QED BY <2>1 DEF UnderstoodInv, RequestsAreUnderstood, program, Asked
<1>2. CASE Finish
  <2>1. UNCHANGED <<line, requests, responses>> /\ outcome = "asking" /\ outcome' # "asking"
    BY <1>2 DEF Finish
  <2> QED BY <2>1 DEF UnderstoodInv, RequestsAreUnderstood
<1>3. ASSUME NEW l \in DOMAIN CommandLines, Start(l) PROVE UnderstoodInv'
  <2>1. line' = l /\ responses' = <<>> /\ alive' = alive /\ (outcome' = "asking" => alive)
    BY <1>3 DEF Start, router
  <2>2. DOMAIN responses' = {}
    BY <2>1
  <2> QED BY <2>1, <2>2 DEF UnderstoodInv, RequestsAreUnderstood
<1>4. CASE UNCHANGED vars
  BY <1>4 DEF vars, program, router, UnderstoodInv, RequestsAreUnderstood, Asked
<1> QED BY <1>1, <1>2, <1>3, <1>4

LEMMA UnderstoodInvariant == Spec => []UnderstoodInv
<1>1. Init => UnderstoodInv
  <2> SUFFICES ASSUME Init PROVE UnderstoodInv
    OBVIOUS
  <2>1. DOMAIN responses = {} /\ outcome = "none"
    BY DEF Init
  <2> QED BY <2>1 DEF UnderstoodInv, RequestsAreUnderstood
<1>2. RtctrlInv /\ UnderstoodInv /\ [Next]_vars => UnderstoodInv'
  <2> SUFFICES ASSUME Replying, UnderstoodInv, [Next]_vars PROVE UnderstoodInv'
    BY DEF RtctrlInv
  <2> QED BY UnderstoodServer, UnderstoodElse DEF Next
<1> QED BY <1>1, <1>2, RtctrlInvariant, PTL DEF Spec

(* For all command lines and files: of what rtctrl lets pass the router    *)
(* calls nothing illegal but a FIB-DEL with an empty port, and no request  *)
(* ends it but by a port that is no number of 16 bits.                     *)
THEOREM RtctrlRequestsAreUnderstood == Spec => []RequestsAreUnderstood
<1>1. UnderstoodInv => RequestsAreUnderstood
  BY DEF UnderstoodInv
<1> QED BY <1>1, UnderstoodInvariant, PTL

-----------------------------------------------------------------------------
(***************************************************************************)
(* A table as it is printed: names, remotes and costs.                     *)
(***************************************************************************)
Lines(t, remotes) == {<<hop[1], remotes[hop[2]], t[hop[1]][hop[2]]>> : hop \in Hops(t)}

(* The lines that the accepted ones of the first m routes make, each the   *)
(* last of those that are for its name and remote.                         *)
LastOf(routes, accepted, m) ==
  {i \in accepted \cap (1..m) :
     \A j \in accepted \cap (i+1..m) :
       <<routes[j].name, routes[j].to>> # <<routes[i].name, routes[i].to>>}

LineOf(route) == <<route.name, route.to, route.cost>>

LinesTo(routes, accepted, m) == {LineOf(routes[i]) : i \in LastOf(routes, accepted, m)}

(* What a route does to a table as it is printed.                          *)
Replaced(lines, name, to, cost) ==
  {x \in lines : <<x[1], x[2]>> # <<name, to>>} \cup {<<name, to, cost>>}

(* A route that is added takes the place of the line of its name and remote*)
LEMMA LinesAdded ==
  ASSUME NEW t, NEW remotes, NEW name, NEW f, NEW cost, NEW to, remotes[f] = to,
         NEW u, u = FibAdd(t, name, f, cost),
         \A hop \in Hops(u) : remotes[hop[2]] = to => hop[2] = f
  PROVE  Lines(u, remotes) = Replaced(Lines(t, remotes), name, to, cost)
<1>1. \A c, i : <<c, i>> \in Hops(u) <=> <<c, i>> \in Hops(t) \/ (c = name /\ i = f)
  BY AddHopHops DEF FibAdd
<1>2. u[name][f] = cost
  BY AddHopValues DEF FibAdd
<1>3. ASSUME NEW c, NEW i, <<c, i>> \in Hops(t), ~(c = name /\ i = f) PROVE u[c][i] = t[c][i]
  BY <1>3, AddHopValues DEF FibAdd
<1>4. ASSUME NEW x \in Lines(u, remotes) PROVE x \in Replaced(Lines(t, remotes), name, to, cost)
  <2>1. PICK hop \in Hops(u) : x = <<hop[1], remotes[hop[2]], u[hop[1]][hop[2]]>>
    BY <1>4 DEF Lines
  <2>2. PICK c, i : c = hop[1] /\ i = hop[2]
    OBVIOUS
  <2>3. hop = <<c, i>>
    BY <2>1, <2>2, HopsMembership
  <2>4. CASE c = name /\ i = f
    BY <1>2, <2>1, <2>2, <2>4 DEF Replaced
  <2>5. CASE ~(c = name /\ i = f)
    <3>1. <<c, i>> \in Hops(t) /\ u[c][i] = t[c][i]
      BY <1>1, <1>3, <2>1, <2>3, <2>5
    <3>2. x \in Lines(t, remotes)
      BY <2>1, <2>2, <3>1 DEF Lines
    <3>3. ~(c = name /\ remotes[i] = to)
      BY <2>1, <2>2, <2>5
    <3>4. x[1] = c /\ x[2] = remotes[i]
      BY <2>1, <2>2
    <3> QED BY <3>2, <3>3, <3>4 DEF Replaced
  <2> QED BY <2>4, <2>5
<1>5. ASSUME NEW x \in Replaced(Lines(t, remotes), name, to, cost) PROVE x \in Lines(u, remotes)
  <2>1. CASE x = <<name, to, cost>>
    <3>1. <<name, f>> \in Hops(u) /\ <<name, f>>[1] = name /\ <<name, f>>[2] = f
      BY <1>1
    <3> QED BY <1>2, <2>1, <3>1 DEF Lines
  <2>2. CASE x # <<name, to, cost>>
    <3>1. x \in Lines(t, remotes) /\ <<x[1], x[2]>> # <<name, to>>
      BY <1>5, <2>2 DEF Replaced
    <3>2. PICK hop \in Hops(t) : x = <<hop[1], remotes[hop[2]], t[hop[1]][hop[2]]>>
      BY <3>1 DEF Lines
    <3>3. PICK c, i : c = hop[1] /\ i = hop[2]
      OBVIOUS
    <3>4. hop = <<c, i>> /\ x[1] = c /\ x[2] = remotes[i]
      BY <3>2, <3>3, HopsMembership
    <3>5. ~(c = name /\ i = f)
      BY <3>1, <3>4
    <3>6. hop \in Hops(u) /\ u[c][i] = t[c][i]
      BY <1>1, <1>3, <3>2, <3>4, <3>5
    <3> QED BY <3>2, <3>3, <3>6 DEF Lines
  <2> QED BY <2>1, <2>2
<1> QED BY <1>4, <1>5

LEMMA LinesToNone ==
  ASSUME NEW routes, NEW accepted
  PROVE  LinesTo(routes, accepted, 0) = {}
  BY DEF LinesTo, LastOf

(* A route that is refused makes no line.                                  *)
LEMMA LinesToSame ==
  ASSUME NEW routes, NEW m \in Nat, NEW a, NEW b, \A i \in 1..m : i \in a <=> i \in b, m + 1 \notin b
  PROVE  LinesTo(routes, b, m + 1) = LinesTo(routes, a, m)
<1>1. b \cap (1..m+1) = a \cap (1..m)
  OBVIOUS
<1>2. \A i \in 1..m : b \cap (i+1..m+1) = a \cap (i+1..m)
  OBVIOUS
<1>3. LastOf(routes, b, m + 1) = LastOf(routes, a, m)
  BY <1>1, <1>2 DEF LastOf
<1> QED BY <1>3 DEF LinesTo

(* One that is accepted replaces that of its name and remote.              *)
LEMMA LinesToMore ==
  ASSUME NEW routes, NEW m \in Nat, NEW a, NEW b, \A i \in 1..m : i \in a <=> i \in b, m + 1 \in b,
         NEW route, route = routes[m + 1]
  PROVE  LinesTo(routes, b, m + 1) = Replaced(LinesTo(routes, a, m), route.name, route.to, route.cost)
<1> DEFINE For(i) == <<routes[i].name, routes[i].to>>
           pair   == <<route.name, route.to>>
<1>1. pair = For(m + 1)
  OBVIOUS
<1>2. \A i : i \in LastOf(routes, a, m) <=>
              i \in a /\ i \in 1..m /\ \A j \in 1..m : j \in a /\ j > i => For(j) # For(i)
  BY DEF LastOf
<1>3. \A i : i \in LastOf(routes, b, m + 1) <=>
              i \in b /\ i \in 1..m+1 /\ \A j \in 1..m+1 : j \in b /\ j > i => For(j) # For(i)
  BY DEF LastOf
<1> HIDE DEF For
<1>4. \A i : i \in LastOf(routes, b, m + 1) <=> i = m + 1 \/ (i \in LastOf(routes, a, m) /\ For(i) # pair)
  <2>1. m + 1 \in 1..m+1 /\ ~(\E j \in 1..m+1 : j > m + 1)
    OBVIOUS
  <2>2. ASSUME NEW i \in 1..m PROVE i \in LastOf(routes, b, m + 1) <=> i \in LastOf(routes, a, m) /\ For(i) # pair
    <3>1. (\A j \in 1..m+1 : j \in b /\ j > i => For(j) # For(i))
            <=> (\A j \in 1..m : j \in a /\ j > i => For(j) # For(i)) /\ For(m + 1) # For(i)
      OBVIOUS
    <3> QED BY <1>1, <1>2, <1>3, <3>1
  <2>3. \A i : i \in 1..m+1 <=> i = m + 1 \/ i \in 1..m
    OBVIOUS
  <2> QED BY <1>2, <1>3, <2>1, <2>2, <2>3
<1>5. \A i : LineOf(routes[i])[1] = routes[i].name /\ LineOf(routes[i])[2] = routes[i].to
  BY DEF LineOf
<1>6. \A i : <<LineOf(routes[i])[1], LineOf(routes[i])[2]>> # pair <=> For(i) # pair
  BY <1>5 DEF For
<1>7. LineOf(routes[m + 1]) = <<route.name, route.to, route.cost>>
  BY DEF LineOf
<1> HIDE DEF pair
<1>8. ASSUME NEW x PROVE x \in LinesTo(routes, b, m + 1) <=> x \in Replaced(LinesTo(routes, a, m), route.name, route.to, route.cost)
  <2>1. x \in LinesTo(routes, b, m + 1) <=> \E i \in LastOf(routes, b, m + 1) : x = LineOf(routes[i])
    BY DEF LinesTo
  <2>2. x \in Replaced(LinesTo(routes, a, m), route.name, route.to, route.cost)
          <=> \/ x = <<route.name, route.to, route.cost>>
              \/ x \in LinesTo(routes, a, m) /\ <<x[1], x[2]>> # pair
    BY DEF Replaced, pair
  <2>3. x \in LinesTo(routes, a, m) <=> \E i \in LastOf(routes, a, m) : x = LineOf(routes[i])
    BY DEF LinesTo
  <2> QED BY <1>4, <1>6, <1>7, <2>1, <2>2, <2>3
<1> QED BY <1>8
-----------------------------------------------------------------------------
(***************************************************************************)
(* Loading a file.                                                         *)
(***************************************************************************)
AllFaces == DOMAIN faces = Ids

(* As many faces as identifiers given out: all of them are there.          *)
LEMMA NoneWent ==
  ASSUME FaceIds, NoFaceWent
  PROVE  AllFaces
<1>1. serial \in Nat /\ serial >= FirstSerial /\ DOMAIN faces \subseteq Ids
  BY DEF FaceIds
<1>2. IsFiniteSet(Ids) /\ Cardinality(Ids) = serial - FirstSerial
  <2>1. FirstSerial + 1 \in Int /\ serial \in Int
    BY <1>1 DEF FirstSerial
  <2>2. /\ IsFiniteSet(FirstSerial+1 .. serial)
        /\ Cardinality(FirstSerial+1 .. serial)
             = IF FirstSerial + 1 > serial THEN 0 ELSE serial - (FirstSerial + 1) + 1
    BY <2>1, FS_Interval
  <2> QED BY <1>1, <2>2 DEF Ids, FirstSerial
<1>3. Cardinality(DOMAIN faces) = Cardinality(Ids)
  BY <1>2 DEF NoFaceWent
<1> QED BY <1>1, <1>2, <1>3, FS_Subset DEF AllFaces

(* All of them were there before.                                          *)
LEMMA AllStay ==
  ASSUME FaceIds, Grows, AllFaces'
  PROVE  /\ AllFaces
         /\ \A g \in DOMAIN faces : g \in DOMAIN faces' /\ faces'[g] = faces[g]
<1>1. /\ serial \in Nat /\ DOMAIN faces \subseteq FirstSerial+1 .. serial
      /\ serial' \in Nat /\ serial' >= serial /\ DOMAIN faces' = FirstSerial+1 .. serial'
  BY DEF FaceIds, Grows, AllFaces, Ids
<1>2. ASSUME NEW g \in FirstSerial+1 .. serial
      PROVE  g \in DOMAIN faces' /\ g \in DOMAIN faces /\ faces'[g] = faces[g]
  <2>1. g \in DOMAIN faces' /\ ~(g > serial)
    BY <1>1 DEF FirstSerial
  <2> QED BY <2>1 DEF Grows
<1>3. DOMAIN faces = FirstSerial+1 .. serial
  BY <1>1, <1>2
<1> QED BY <1>1, <1>2, <1>3 DEF AllFaces, Ids

(* What the request for a route of plain names means to the server. *)
LEMMA AsksMeans ==
  ASSUME NEW names, \A name \in names : name \in Uris /\ IsPlainUri(name),
         NEW param, NEW route, Asks(names, param, route)
  PROVE  CdOf(param.NAME) = route.name /\ Remote(param) = route.to /\ ValueOf(param.COST) = route.cost
<1>1. PICK name \in names : \E type, remote, cost :
        /\ IsRoute(param, name, type, remote, cost)
        /\ route = [name |-> CdOf(name),
                    to   |-> Remote(With(ParamType(type), ParamRemote(remote))),
                    cost |-> ValueOf(cost)]
  BY Zenon DEF Asks
<1>2. PICK type, remote, cost :
        /\ IsRoute(param, name, type, remote, cost)
        /\ route = [name |-> CdOf(name),
                    to   |-> Remote(With(ParamType(type), ParamRemote(remote))),
                    cost |-> ValueOf(cost)]
  BY <1>1, Zenon
<1>3. PICK p, q, both : p = ParamType(type) /\ q = ParamRemote(remote) /\ both = With(p, q)
  OBVIOUS
<1>4. route.name = CdOf(name) /\ route.to = Remote(both) /\ route.cost = ValueOf(cost)
  BY <1>2, <1>3
<1>5. /\ IsLegal(name) /\ param.NAME = ToUri(CdOf(name))
      /\ IsParam(p) /\ param.TYPE = p.TYPE
      /\ IsParam(q) /\ param.IP = q.IP /\ param.PORT = q.PORT
      /\ param.COST = cost
  BY <1>2, <1>3 DEF IsRoute
<1>6. CdOf(param.NAME) = CdOf(name)
  BY <1>5, PrintedUriParses
<1>7. DOMAIN p = {"TYPE"} /\ DOMAIN q = {"IP", "PORT"}
  <2>1. p = [TYPE |-> "tcp"] \/ p = [TYPE |-> "udp"]
    BY <1>3, <1>5, IllegalIsNoParam DEF ParamType
  <2>2. \/ q = [IP |-> remote.host, PORT |-> PortOf(remote)]
        \/ q = [IP |-> AddressOf[remote.host], PORT |-> PortOf(remote)]
    BY <1>3, <1>5, IllegalIsNoParam DEF ParamRemote
  <2> QED BY <2>1, <2>2
<1>8. both = [k \in {"TYPE", "IP", "PORT"} |-> IF k \in {"IP", "PORT"} THEN q[k] ELSE p[k]]
  BY <1>3, <1>5, <1>7 DEF With
<1>9. both.TYPE = p.TYPE /\ both.IP = q.IP /\ both.PORT = q.PORT
  BY <1>8
<1>10. Remote(param) = Remote(both)
  BY <1>5, <1>9 DEF Remote
<1> QED BY <1>4, <1>5, <1>6, <1>10

(* The requests of a file. *)
PlainNames(names) == \A name \in names : name \in Uris /\ IsPlainUri(name)

(* A file of plain names is loaded route by route, after the table is cleared.*)
LEMMA LoadRequests ==
  ASSUME Replying, UnderstoodInv, outcome # "none", requests # <<>>, IsLoad, IsPlainFile(File),
         NEW routes, routes = FileRoutes(File)
  PROVE  /\ \E names : PlainNames(names) /\ LoadsFile(names, requests, routes)
         /\ \E R : requests \in Seq(R)
         /\ \E R : routes \in Seq(R)
<1>1. PICK command : command = Command
  OBVIOUS
<1>2. IsCommandLine(command) /\ requests = RequestsOf(command)
  BY <1>1, RtctrlAssumption DEF UnderstoodInv, Replying, Command
<1>3. PICK options, file : options = command.options /\ file = options[1][2]
  OBVIOUS
<1>4. /\ command.cmd = "fibadd" /\ Len(options) = 1 /\ file = File /\ IsPlainFile(file)
  BY <1>1, <1>3 DEF IsLoad, File, IsPlainFile
<1>5. options[1] \in Range(options)
  <2>1. options \in Seq(Range(options))
    BY <1>2, <1>3 DEF IsCommandLine, IsList
  <2>2. 1 \in DOMAIN options
    BY <1>4, <2>1
  <2> QED BY <2>2 DEF Range
<1>6. PICK reqs : reqs = requests
  OBVIOUS
<1>7. reqs = FibAddRequests(options)
  BY <1>2, <1>3, <1>4, <1>6 DEF RequestsOf
<1>9. options[1][1] = "-f" /\ reqs = FileRequests(file)
  <2>1. CASE options[1][1] = "-f"
    <3>1. Len(options) # 4
      BY <1>4
    <3>2. FibAddRequests(options) = FileRequests(options[1][2])
      BY <1>4, <2>1, <3>1, Zenon DEF FibAddRequests
    <3> QED BY <1>3, <1>7, <2>1, <3>2
  <2>2. CASE options[1][1] # "-f"
    <3>1. reqs = <<>>
      BY <1>4, <1>7, <2>2 DEF FibAddRequests
    <3> QED BY <1>6, <3>1
  <2> QED BY <2>1, <2>2
<1>10. IsFile(file)
  BY <1>2, <1>3, <1>5, <1>9 DEF IsCommandLine
<1> DEFINE names == {record.name : record \in Range(file.entries)}
<1>12. AreNames(names, file)
  BY DEF AreNames
<1>13. PlainNames(names)
  <2>1. ASSUME NEW record \in Range(file.entries) PROVE record.name \in Uris /\ IsPlainUri(record.name)
    <3>1. PICK i \in DOMAIN file.entries : record = file.entries[i]
      BY <2>1 DEF Range
    <3>2. IsPlainUri(file.entries[i].name)
      BY <1>4 DEF IsPlainFile
    <3>3. record.name \in Uris
      BY <1>10 DEF IsFile
    <3> QED BY <3>1, <3>2, <3>3
  <2> QED BY <2>1 DEF PlainNames
<1> HIDE DEF names
<1>14. LoadsFile(names, reqs, routes) /\ \E R : reqs \in Seq(R)
  BY <1>4, <1>6, <1>9, <1>10, <1>12, FileRequestsLoad
<1>15. \E R : routes \in Seq(R)
  BY <1>4, <1>10, <1>12, FileAsksEach
<1> QED BY <1>6, <1>13, <1>14, <1>15

(* The request that waits while a file is loaded, r replies having come. *)
LEMMA LoadAsks ==
  ASSUME Waiting, Replying, UnderstoodInv, IsLoad, IsPlainFile(File),
         NEW r, r = Len(responses), NEW routes, routes = FileRoutes(File)
  PROVE  /\ r = 0 => Asked.cmd = "FIB-DEL" /\ Asked.param = NoParam
         /\ r # 0 => /\ r \in Nat \ {0} /\ Asked.cmd = "FIB-ADD"
                     /\ CdOf(Asked.param.NAME) = routes[r].name /\ Target = routes[r].to
                     /\ ValueOf(Asked.param.COST) = routes[r].cost
<1>1. PICK reqs : reqs = requests
  OBVIOUS
<1>2. r \in Nat /\ r < Len(reqs)
  BY <1>1, LenProperties DEF Waiting, Replying
<1>3. reqs # <<>>
  BY <1>2
<1>4. PICK names : PlainNames(names) /\ LoadsFile(names, reqs, routes)
  BY <1>1, <1>3, LoadRequests DEF Waiting
<1>5. Len(routes) \in Nat /\ Len(reqs) = Len(routes) + 1
  BY <1>1, <1>3, <1>4, LoadRequests, LenProperties DEF Waiting, LoadsFile
<1>6. r <= Len(routes)
  BY <1>2, <1>5
<1>7. PICK asked : asked = Asked
  OBVIOUS
<1>8. asked = reqs[r + 1]
  BY <1>1, <1>7 DEF Asked
<1>9. CASE r = 0
  <2>1. asked = Request("FIB-DEL", NoParam)
    BY <1>4, <1>8, <1>9 DEF LoadsFile
  <2>2. asked.cmd = "FIB-DEL" /\ asked.param = NoParam
    BY <2>1 DEF Request
  <2> QED BY <1>7, <1>9, <2>2
<1>10. CASE r # 0
  <2>1. r \in 1..Len(routes)
    BY <1>2, <1>6, <1>10
  <2>2. asked.cmd = "FIB-ADD" /\ Asks(names, asked.param, routes[r])
    BY <1>4, <1>8, <2>1 DEF LoadsFile
  <2>3. PICK param, route : param = asked.param /\ route = routes[r]
    OBVIOUS
  <2>4. CdOf(param.NAME) = route.name /\ Remote(param) = route.to /\ ValueOf(param.COST) = route.cost
    BY <1>4, <2>2, <2>3, AsksMeans DEF PlainNames
  <2>5. Target = route.to
    BY <1>7, <2>3, <2>4 DEF Target
  <2> QED BY <1>2, <1>7, <1>10, <2>2, <2>3, <2>4, <2>5
<1> QED BY <1>9, <1>10
-----------------------------------------------------------------------------
Loading == InCourse({"fibadd"}) /\ IsLoad /\ IsPlainFile(File) /\ AllFaces

AcceptedRoutes == {i \in Nat : Accepted(i)}

(* After the first reply the table was cleared, and from then on it is     *)
(* what the routes that were accepted make of it.                          *)
LoadInv ==
  Loading /\ Len(responses) # 0 =>
    Lines(fib, faces) = LinesTo(FileRoutes(File), AcceptedRoutes, Len(responses) - 1)

(* The table is printed as before when no face went. *)
LEMMA LinesStay ==
  ASSUME TablesInv, NEW remotes, \A g \in DOMAIN faces : remotes[g] = faces[g]
  PROVE  Lines(fib, remotes) = Lines(fib, faces)
<1>1. \A hop \in Hops(fib) : remotes[hop[2]] = faces[hop[2]]
  BY DEF TablesInv, HopsHaveFaces
<1> QED BY <1>1 DEF Lines

(* Faces that come do not disturb what is loaded.                          *)
LEMMA LoadQuiet ==
  ASSUME TablesInv, Grows, LoadInv, UNCHANGED <<line, responses, fib>>,
         outcome' \in {"asking", "shown"} => outcome \in {"asking", "shown"}
  PROVE  LoadInv'
<1> SUFFICES ASSUME Loading', Len(responses') # 0
             PROVE  Lines(fib', faces') = LinesTo(FileRoutes(File'), AcceptedRoutes', Len(responses') - 1)
  BY DEF LoadInv
<1>1. Command' = Command /\ File' = File /\ AcceptedRoutes' = AcceptedRoutes /\ IsLoad' = IsLoad
  BY DEF Command, File, AcceptedRoutes, Accepted, IsLoad
<1>2. AllFaces /\ \A g \in DOMAIN faces : faces'[g] = faces[g]
  BY AllStay DEF TablesInv, Loading
<1>3. Loading
  BY <1>1, <1>2 DEF Loading, InCourse
<1>4. PICK remotes : remotes = faces'
  OBVIOUS
<1>5. Lines(fib, remotes) = Lines(fib, faces)
  BY <1>2, <1>4, LinesStay
<1>6. Lines(fib, faces) = LinesTo(FileRoutes(File), AcceptedRoutes, Len(responses) - 1)
  BY <1>3 DEF LoadInv
<1> QED BY <1>1, <1>4, <1>5, <1>6

-----------------------------------------------------------------------------
(* What the server answers to a FIB-ADD: a route to the first face to the  *)
(* endpoint, or an error, or nothing yet.                                  *)
Routes(f) == fib' = Routed(f) /\ IsFirst(f)' /\ faces'[f] = Target

(* Its route is to the first face with its remote.                         *)
LEMMA RoutesFirst ==
  ASSUME FaceIds, NEW f,
         \/ FacesTo(Target) # {} /\ f = Find(Target) /\ UNCHANGED faces
         \/ CreateFace(Target) /\ f = IF FacesTo(Target) = {} THEN serial + 1 ELSE Find(Target)
  PROVE  IsFirst(f)' /\ faces'[f] = Target
<1>1. PICK r : r = Target
  OBVIOUS
<1>2. FacesTo(r) # {} => /\ Find(r) \in DOMAIN faces /\ faces[Find(r)] = r
                         /\ \A g \in DOMAIN faces : faces[g] = r => Find(r) <= g
  BY FindOK
<1>3. PICK first : first = Find(r)
  OBVIOUS
<1>4. f \in DOMAIN faces' /\ faces'[f] = r /\ \A g \in DOMAIN faces' : faces'[g] = r => f <= g
  <2>1. CASE FacesTo(r) # {} /\ f = first /\ UNCHANGED faces
    BY <1>2, <1>3, <2>1
  <2>2. CASE CreateFace(r) /\ f = IF FacesTo(r) = {} THEN serial + 1 ELSE first
    <3>1. /\ DOMAIN faces' = DOMAIN faces \cup {serial + 1} /\ faces'[serial + 1] = r
          /\ \A g \in DOMAIN faces : g <= serial /\ g \in Nat /\ faces'[g] = faces[g]
      BY <2>2, FaceCreated
    <3>2. serial \in Nat
      BY DEF FaceIds
    <3>3. CASE FacesTo(r) = {}
      <4>1. \A g \in DOMAIN faces : faces'[g] # r
        BY <3>1, <3>3 DEF FacesTo
      <4>2. f = serial + 1
        BY <2>2, <3>3
      <4> QED BY <3>1, <3>2, <4>1, <4>2
    <3>4. CASE FacesTo(r) # {}
      <4>1. f = first
        BY <2>2, <3>4
      <4>2. f <= serial + 1
        BY <1>2, <1>3, <3>1, <3>2, <3>4, <4>1
      <4> QED BY <1>2, <1>3, <3>1, <3>4, <4>1, <4>2
    <3> QED BY <3>3, <3>4
  <2> QED BY <1>1, <1>3, <2>1, <2>2
<1>5. \A g \in DOMAIN faces' : faces'[g] = faces'[f] => f <= g
  BY <1>4
<1> QED BY <1>1, <1>4, <1>5 DEF IsFirst

LEMMA AddAnswer ==
  ASSUME TablesInv, Server, Asked.cmd = "FIB-ADD"
  PROVE  \/ UNCHANGED <<fib, responses>>
         \/ UNCHANGED fib /\ \E reason : SendErr(reason)
         \/ SendOk /\ \E f : Routes(f)
<1>1. FaceIds
  BY DEF TablesInv
<1>2. CASE BadCast
  BY <1>2 DEF BadCast
<1>3. CASE Refuse
  <2>1. \E reason : SendErr(reason)
    BY <1>3, Zenon DEF Refuse
  <2>2. UNCHANGED fib
    BY <1>3 DEF Refuse, router
  <2> QED BY <2>1, <2>2
<1>4. CASE FibAddToFace
  <2>1. PICK f : f = Find(Target)
    OBVIOUS
  <2>2. SendOk /\ fib' = Routed(f)
    BY <1>4, <2>1 DEF FibAddToFace
  <2>3. FacesTo(Target) # {} /\ f = Find(Target) /\ UNCHANGED faces
    BY <1>4, <2>1 DEF FibAddToFace
  <2>4. IsFirst(f)' /\ faces'[f] = Target
    BY <1>1, <2>3, RoutesFirst
  <2> QED BY <2>2, <2>4, Zenon DEF Routes
<1>5. CASE FibAddUdpFace
  <2>1. PICK f : f = serial + 1
    OBVIOUS
  <2>2. SendOk /\ fib' = Routed(f)
    BY <1>5, <2>1 DEF FibAddUdpFace
  <2>3. CreateFace(Target) /\ f = IF FacesTo(Target) = {} THEN serial + 1 ELSE Find(Target)
    BY <1>5, <2>1 DEF FibAddUdpFace
  <2>4. IsFirst(f)' /\ faces'[f] = Target
    BY <1>1, <2>3, RoutesFirst
  <2> QED BY <2>2, <2>4, Zenon DEF Routes
<1>6. CASE FibAddTcpFace
  BY <1>6 DEF FibAddTcpFace
<1>7. CASE HandleConnect
  <2>1. PICK f : f = IF FacesTo(Target) = {} THEN serial + 1 ELSE Find(Target)
    OBVIOUS
  <2>2. SendOk /\ fib' = Routed(f)
    BY <1>7, <2>1 DEF HandleConnect
  <2>3. CreateFace(Target) /\ f = IF FacesTo(Target) = {} THEN serial + 1 ELSE Find(Target)
    BY <1>7, <2>1 DEF HandleConnect
  <2>4. IsFirst(f)' /\ faces'[f] = Target
    BY <1>1, <2>3, RoutesFirst
  <2> QED BY <2>2, <2>4, Zenon DEF Routes
<1>8. CASE HandleConnectFails
  <2>1. \E reason : SendErr(reason)
    BY <1>8, Zenon DEF HandleConnectFails
  <2>2. UNCHANGED fib
    BY <1>8 DEF HandleConnectFails
  <2> QED BY <2>1, <2>2
<1>9. CASE FibDel \/ FibDelName \/ FibDelHop \/ StDel \/ FaceDel \/ StDump \/ FibDump \/ FaceDump
  BY <1>9 DEF FibDel, FibDelName, FibDelHop, DelHop, StDel, FaceDel, StDump, FibDump, FaceDump
<1> QED BY <1>2, <1>3, <1>4, <1>5, <1>6, <1>7, <1>8, <1>9 DEF Server

(* A FIB-DEL without parameters clears the table. *)
LEMMA ClearAnswer ==
  ASSUME Server, ~connecting, Asked.cmd = "FIB-DEL", Asked.param = NoParam
  PROVE  FibDel
<1>1. PICK asked : asked = Asked
  OBVIOUS
<1>2. asked.cmd = "FIB-DEL" /\ asked.param = NoParam /\ DOMAIN asked.param = {}
  BY <1>1, EmptyIsGood
<1>3. ~BadCast
  BY <1>1, <1>2 DEF BadCast, HasArgs
<1>4. ~Refuse
  <2>1. Understood /\ ~Adding /\ ~DelHop
    BY <1>1, <1>2 DEF Understood, DelArgs, Adding, DelHop
  <2>2. Reasons = {}
    BY <2>1 DEF Reasons
  <2> QED BY <2>2 DEF Refuse
<1>5. ~FibAddToFace /\ ~FibAddUdpFace /\ ~FibAddTcpFace
  BY <1>1, <1>2 DEF FibAddToFace, FibAddUdpFace, FibAddTcpFace, Adding
<1>6. ~HandleConnect /\ ~HandleConnectFails
  BY DEF HandleConnect, HandleConnectFails
<1>7. ~FibDelName /\ ~FibDelHop
  BY <1>1, <1>2 DEF FibDelName, FibDelHop, DelHop
<1>8. ~StDel /\ ~FaceDel /\ ~StDump /\ ~FibDump /\ ~FaceDump
  BY <1>1, <1>2 DEF StDel, FaceDel, StDump, FibDump, FaceDump
<1> QED BY <1>3, <1>4, <1>5, <1>6, <1>7, <1>8 DEF Server
-----------------------------------------------------------------------------
(* What a reply says of the routes. *)
LEMMA AcceptedMore ==
  ASSUME Replying, NEW a, Reply(a), NEW m \in Nat, m + 1 = Len(responses)
  PROVE  /\ Len(responses') = m + 2
         /\ \A i \in 1..m : i \in AcceptedRoutes <=> i \in AcceptedRoutes'
         /\ m + 1 \in AcceptedRoutes' <=> a.result = "OK"
<1>1. PICK R : responses \in Seq(R)
  BY DEF Replying
<1>2. PICK before, after : before = responses /\ after = responses'
  OBVIOUS
<1>3. /\ before \in Seq(R) /\ Len(before) = m + 1 /\ DOMAIN before = 1..m+1
  BY <1>1, <1>2, LenProperties
<1>4. /\ Len(after) = m + 2 /\ after[m + 2] = a
      /\ \A i \in 1..m+1 : after[i] = before[i]
      /\ \E S : after \in Seq(S)
  <2>1. /\ \E S : responses' \in Seq(S)
        /\ Len(responses') = Len(responses) + 1
        /\ responses'[Len(responses) + 1] = a
        /\ \A i \in 1..Len(responses) : responses'[i] = responses[i]
    BY <1>1, ReplyAdded DEF Reply
  <2>2. (m + 1) + 1 = m + 2
    OBVIOUS
  <2> QED BY <1>2, <1>3, <2>1, <2>2
<1>5. DOMAIN after = 1..m+2
  BY <1>4, LenProperties
<1>6. ASSUME NEW i \in 1..m PROVE i \in AcceptedRoutes <=> i \in AcceptedRoutes'
  <2>1. PICK j : j = i + 1
    OBVIOUS
  <2>2. j \in 1..m+1 /\ j \in 1..m+2 /\ i \in Nat
    BY <2>1
  <2>3. before[j] = after[j]
    BY <1>4, <2>2
  <2>4. i \in AcceptedRoutes <=> before[j].result = "OK"
    BY <1>2, <1>3, <2>1, <2>2 DEF AcceptedRoutes, Accepted
  <2>5. i \in AcceptedRoutes' <=> after[j].result = "OK"
    BY <1>2, <1>5, <2>1, <2>2 DEF AcceptedRoutes, Accepted
  <2> QED BY <2>3, <2>4, <2>5
<1>7. m + 1 \in AcceptedRoutes' <=> a.result = "OK"
  <2>1. m + 1 \in Nat /\ (m + 1) + 1 = m + 2 /\ m + 2 \in 1..m+2
    OBVIOUS
  <2> QED BY <1>2, <1>4, <1>5, <2>1 DEF AcceptedRoutes, Accepted
<1> QED BY <1>2, <1>4, <1>6, <1>7

(* The route of an accepted FIB-ADD takes the place of the one there was.  *)
LEMMA LoadsRoute ==
  ASSUME TablesInv, TablesInv', \A g \in DOMAIN faces : faces'[g] = faces[g], NEW f, Routes(f),
         NEW name, NEW to, NEW cost,
         name = CdOf(Asked.param.NAME), to = Target, cost = ValueOf(Asked.param.COST)
  PROVE  Lines(fib', faces') = Replaced(Lines(fib, faces), name, to, cost)
<1>1. PICK remotes, u : remotes = faces' /\ u = fib'
  OBVIOUS
<1>2. u = FibAdd(fib, name, f, cost)
  BY <1>1 DEF Routes, Routed
<1>3. /\ f \in DOMAIN remotes /\ remotes[f] = to
      /\ \A g \in DOMAIN remotes : remotes[g] = remotes[f] => f <= g
  BY <1>1 DEF Routes, IsFirst
<1>4. /\ \A hop \in Hops(u) : \A g \in DOMAIN remotes : remotes[g] = remotes[hop[2]] => hop[2] <= g
      /\ \A hop \in Hops(u) : hop[2] \in DOMAIN remotes
      /\ DOMAIN remotes \subseteq Nat
  BY <1>1 DEF TablesInv, RoutesToFirst, HopsHaveFaces, FaceIds, Ids, FirstSerial
<1>5. ASSUME NEW hop \in Hops(u), remotes[hop[2]] = to PROVE hop[2] = f
  <2>1. PICK g : g = hop[2]
    OBVIOUS
  <2>2. g \in Nat /\ f \in Nat /\ g <= f /\ f <= g
    BY <1>3, <1>4, <1>5, <2>1
  <2> QED BY <2>1, <2>2
<1>6. Lines(u, remotes) = Replaced(Lines(fib, remotes), name, to, cost)
  BY <1>2, <1>3, <1>5, LinesAdded
<1>7. Lines(fib, remotes) = Lines(fib, faces)
  BY <1>1, LinesStay
<1> QED BY <1>1, <1>6, <1>7

(* A step of the server keeps the table what the routes made it.           *)
LEMMA LoadServer ==
  ASSUME TablesInv, TablesInv', Grows, Replying, UnderstoodInv, LoadInv, Server
  PROVE  LoadInv'
<1> SUFFICES ASSUME Loading', Len(responses') # 0 PROVE LoadInv'
  BY DEF LoadInv
<1>1. Waiting /\ UNCHANGED <<line, outcome>>
  BY ServerReplies DEF program
<1>2. Command' = Command /\ File' = File /\ IsLoad' = IsLoad
  BY <1>1 DEF Command, File, IsLoad
<1>3. AllFaces /\ \A g \in DOMAIN faces : faces'[g] = faces[g]
  BY AllStay DEF TablesInv, Loading
<1>4. Loading
  BY <1>1, <1>2, <1>3 DEF Loading, InCourse
<1>5. PICK r, routes : r = Len(responses) /\ routes = FileRoutes(File) /\ routes = FileRoutes(File')
  BY <1>2
<1>6. /\ r = 0 => Asked.cmd = "FIB-DEL" /\ Asked.param = NoParam
      /\ r # 0 => /\ r \in Nat \ {0} /\ Asked.cmd = "FIB-ADD"
                  /\ CdOf(Asked.param.NAME) = routes[r].name /\ Target = routes[r].to
                  /\ ValueOf(Asked.param.COST) = routes[r].cost
  BY <1>1, <1>4, <1>5, LoadAsks DEF Loading
<1>7. CASE r = 0
  <2>1. ~connecting
    BY <1>6, <1>7 DEF Replying
  <2>2. FibDel
    BY <1>6, <1>7, <2>1, ClearAnswer
  <2>3. PICK a : Reply(a)
    BY <2>2 DEF FibDel, SendOk, Answer, Reply
  <2>4. Len(responses') = 1
    BY <1>5, <1>7, <2>3, ReplyAdded DEF Replying, Reply
  <2>5. Lines(fib', faces') = {}
    BY <2>2, EmptyTableHops DEF FibDel, FibClear, Lines
  <2>6. PICK accepted : accepted = AcceptedRoutes'
    OBVIOUS
  <2>7. LinesTo(routes, accepted, 0) = {} /\ Len(responses') - 1 = 0
    BY <2>4, LinesToNone
  <2> QED BY <1>5, <2>5, <2>6, <2>7 DEF LoadInv
<1>8. CASE r # 0
  <2>1. PICK m \in Nat : r = m + 1
    <3>1. r - 1 \in Nat /\ r = (r - 1) + 1
      BY <1>6, <1>8
    <3> QED BY <3>1
  <2>2. PICK route, before, after : route = routes[r] /\ before = AcceptedRoutes /\ after = AcceptedRoutes'
    OBVIOUS
  <2>3. Lines(fib, faces) = LinesTo(routes, before, m)
    <3>1. Len(responses) # 0 /\ Len(responses) - 1 = m
      BY <1>5, <1>8, <2>1
    <3> QED BY <1>4, <1>5, <2>2, <3>1 DEF LoadInv
  <2>4. ASSUME NEW a, Reply(a)
        PROVE  /\ Len(responses') - 1 = m + 1
               /\ \A i \in 1..m : i \in before <=> i \in after
               /\ m + 1 \in after <=> a.result = "OK"
    <3>1. /\ Len(responses') = m + 2
          /\ \A i \in 1..m : i \in before <=> i \in after
          /\ m + 1 \in after <=> a.result = "OK"
      BY <1>5, <2>1, <2>2, <2>4, AcceptedMore
    <3> QED BY <3>1
  <2>5. \/ UNCHANGED <<fib, responses>>
        \/ UNCHANGED fib /\ \E reason : SendErr(reason)
        \/ SendOk /\ \E f : Routes(f)
    BY <1>6, <1>8, AddAnswer
  <2>6. CASE UNCHANGED <<fib, responses>>
    BY <1>1, <2>6, LoadQuiet
  <2>7. CASE UNCHANGED fib /\ \E reason : SendErr(reason)
    <3>1. PICK a : Reply(a) /\ a.result = "ERR"
      <4>1. PICK reason : SendErr(reason)
        BY <2>7
      <4>2. PICK a : a = [result |-> "ERR", reason |-> reason, body |-> {}]
        OBVIOUS
      <4>3. a.result = "ERR" /\ Reply(a)
        BY <4>1, <4>2 DEF SendErr, Answer, Reply
      <4> QED BY <4>3
    <3>2. LinesTo(routes, after, m + 1) = LinesTo(routes, before, m)
      BY <2>4, <3>1, LinesToSame
    <3>3. PICK remotes : remotes = faces'
      OBVIOUS
    <3>4. Lines(fib, remotes) = Lines(fib, faces)
      BY <1>3, <3>3, LinesStay
    <3>5. Lines(fib', faces') = LinesTo(routes, after, Len(responses') - 1)
      BY <2>3, <2>4, <2>7, <3>1, <3>2, <3>3, <3>4
    <3> QED BY <1>5, <2>2, <3>5 DEF LoadInv
  <2>8. CASE SendOk /\ \E f : Routes(f)
    <3>1. PICK a : Reply(a) /\ a.result = "OK"
      <4>1. PICK a : a = [result |-> "OK", reason |-> "", body |-> {}]
        OBVIOUS
      <4>2. a.result = "OK" /\ Reply(a)
        BY <2>8, <4>1 DEF SendOk, Answer, Reply
      <4> QED BY <4>2
    <3>2. PICK f : Routes(f)
      BY <2>8
    <3>3. PICK name, to, cost : name = route.name /\ to = route.to /\ cost = route.cost
      OBVIOUS
    <3>4. name = CdOf(Asked.param.NAME) /\ to = Target /\ cost = ValueOf(Asked.param.COST)
      BY <1>6, <1>8, <2>2, <3>3
    <3>5. Lines(fib', faces') = Replaced(Lines(fib, faces), name, to, cost)
      BY <1>3, <3>2, <3>4, LoadsRoute
    <3>6. LinesTo(routes, after, m + 1) = Replaced(LinesTo(routes, before, m), name, to, cost)
      BY <2>1, <2>2, <2>4, <3>1, <3>3, LinesToMore
    <3>7. Lines(fib', faces') = LinesTo(routes, after, Len(responses') - 1)
      BY <2>3, <2>4, <3>1, <3>5, <3>6
    <3> QED BY <1>5, <2>2, <3>7 DEF LoadInv
  <2> QED BY <2>5, <2>6, <2>7, <2>8
<1> QED BY <1>7, <1>8

(* So does every other step.                                               *)
LEMMA LoadElse ==
  ASSUME TablesInv, TablesInv', Grows, LoadInv,
         Environment \/ Finish \/ (\E l \in DOMAIN CommandLines : Start(l)) \/ UNCHANGED vars
  PROVE  LoadInv'
<1>1. CASE \E l \in DOMAIN CommandLines : Start(l)
  <2>1. responses' = <<>>
    BY <1>1 DEF Start
  <2>2. Len(responses') = 0
    BY <2>1
  <2> QED BY <2>2 DEF LoadInv
<1>2. CASE Finish
  <2>1. UNCHANGED <<line, responses, fib>> /\ outcome = "asking"
    BY <1>2 DEF Finish, router
  <2> QED BY <2>1, LoadQuiet
<1>3. CASE UNCHANGED vars
  <2>1. UNCHANGED <<line, responses, fib, outcome>>
    BY <1>3 DEF vars, program, router
  <2> QED BY <2>1, LoadQuiet
<1>4. CASE Environment
  <2>1. UNCHANGED <<line, outcome, responses>>
    BY <1>4 DEF Environment, FaceComes, FaceGoes, SubArrives, SubExpires, program
  <2>2. CASE UNCHANGED fib
    BY <2>1, <2>2, LoadQuiet
  <2>3. ASSUME NEW f \in DOMAIN faces, FaceGoes(f) PROVE ~AllFaces'
    <3>1. f \notin DOMAIN faces' /\ serial' = serial /\ f \in Ids
      BY <2>3 DEF FaceGoes, TablesInv, FaceIds
    <3> QED BY <3>1 DEF AllFaces, Ids
  <2>4. UNCHANGED fib \/ \E f \in DOMAIN faces : FaceGoes(f)
    BY <1>4 DEF Environment, FaceComes, SubArrives, SubExpires
  <2> QED BY <2>2, <2>3, <2>4 DEF LoadInv, Loading
<1> QED BY <1>1, <1>2, <1>3, <1>4
-----------------------------------------------------------------------------
(* A command line that is refused asks for nothing.                        *)
HasRequests == outcome \in {"asking", "shown"} => requests # <<>>

LEMMA HasRequestsStep ==
  ASSUME HasRequests, Replying, [Next]_vars
  PROVE  HasRequests'
<1>1. ASSUME NEW l \in DOMAIN CommandLines, Start(l) PROVE HasRequests'
  <2>1. PICK reqs : reqs = RequestsOf(CommandLines[l])
    OBVIOUS
  <2>2. requests' = reqs /\ (reqs = <<>> => outcome' = "usage")
    BY <1>1, <2>1 DEF Start
  <2> QED BY <2>2 DEF HasRequests
<1>2. CASE Finish \/ Server \/ Environment \/ UNCHANGED vars
  <2>1. requests' = requests /\ (outcome' = outcome \/ outcome = "asking")
    <3>1. CASE Finish
      BY <3>1 DEF Finish
    <3>2. CASE Server
      BY <3>2, ServerReplies DEF program
    <3>3. CASE Environment
      BY <3>3 DEF Environment, FaceComes, FaceGoes, SubArrives, SubExpires, program
    <3>4. CASE UNCHANGED vars
      BY <3>4 DEF vars, program
    <3> QED BY <1>2, <3>1, <3>2, <3>3, <3>4
  <2> QED BY <2>1 DEF HasRequests
<1> QED BY <1>1, <1>2 DEF Next

(* The table is the file, as the property says it.                         *)
IsLoaded(routes) ==
  LET last == {i \in DOMAIN routes :
                 Accepted(i) /\ \A j \in i+1..Len(routes) :
                   Accepted(j) => <<routes[j].name, routes[j].to>> # <<routes[i].name, routes[i].to>>}
  IN  {<<hop[1], faces[hop[2]], fib[hop[1]][hop[2]]>> : hop \in Hops(fib)}
        = {<<routes[i].name, routes[i].to, routes[i].cost>> : i \in last}

(* At the end all routes have their replies.                               *)
LEMMA InvLoad ==
  ASSUME TablesInv, Replying, UnderstoodInv, HasRequests, LoadInv
  PROVE  LoadIsTheFile
<1> SUFFICES ASSUME outcome = "shown", IsLoad, IsPlainFile(File), NoFaceWent
             PROVE  LoadIsTheFile
  BY DEF LoadIsTheFile
<1>1. PICK routes, reqs : routes = FileRoutes(File) /\ reqs = requests
  OBVIOUS
<1>2. reqs # <<>> /\ Len(responses) = Len(reqs)
  BY <1>1 DEF HasRequests, Replying
<1>3. /\ \E names : PlainNames(names) /\ LoadsFile(names, reqs, routes)
      /\ \E R : routes \in Seq(R)
  BY <1>1, <1>2, LoadRequests
<1>4. PICK m \in Nat : m = Len(routes) /\ DOMAIN routes = 1..m /\ Len(responses) = m + 1
  BY <1>2, <1>3, LenProperties DEF LoadsFile
<1>5. AllFaces
  BY NoneWent DEF TablesInv
<1>6. Loading /\ Len(responses) # 0 /\ Len(responses) - 1 = m
  BY <1>4, <1>5 DEF Loading, InCourse, IsLoad
<1>7. Lines(fib, faces) = LinesTo(routes, AcceptedRoutes, m)
  BY <1>1, <1>6 DEF LoadInv
<1> DEFINE last == {i \in DOMAIN routes :
                      Accepted(i) /\ \A j \in i+1..Len(routes) :
                        Accepted(j) => <<routes[j].name, routes[j].to>> # <<routes[i].name, routes[i].to>>}
<1>8. LastOf(routes, AcceptedRoutes, m) = last
  <2>1. \A i \in 1..m : \A j : j \in AcceptedRoutes \cap (i+1..m) <=> j \in i+1..m /\ Accepted(j)
    BY DEF AcceptedRoutes
  <2>2. \A i : i \in AcceptedRoutes \cap (1..m) <=> i \in DOMAIN routes /\ Accepted(i)
    BY <1>4 DEF AcceptedRoutes
  <2> QED BY <1>4, <2>1, <2>2 DEF LastOf
<1> HIDE DEF last
<1>9. LinesTo(routes, AcceptedRoutes, m) = {<<routes[i].name, routes[i].to, routes[i].cost>> : i \in last}
  BY <1>8 DEF LinesTo, LineOf
<1>10. {<<hop[1], faces[hop[2]], fib[hop[1]][hop[2]]>> : hop \in Hops(fib)}
         = {<<routes[i].name, routes[i].to, routes[i].cost>> : i \in last}
  BY <1>7, <1>9, Zenon DEF Lines
<1>11. IsLoaded(routes)
  BY <1>10, Zenon DEF IsLoaded, last
<1>12. IsLoaded(FileRoutes(File))
  BY <1>1, <1>11
<1> QED BY <1>12, Zenon DEF LoadIsTheFile, IsLoaded

(***************************************************************************)
(* For all command lines, files and faces: a table that was loaded from a  *)
(* file of plain names is the file, one line for the last accepted route   *)
(* of every name and remote, whatever it was before and whatever faces     *)
(* came in between.                                                        *)
(***************************************************************************)
THEOREM RtctrlLoadIsTheFile == Spec => []LoadIsTheFile
<1>1. Init => HasRequests /\ LoadInv
  <2> SUFFICES ASSUME Init PROVE HasRequests /\ LoadInv
    OBVIOUS
  <2>1. outcome = "none"
    BY DEF Init
  <2> QED BY <2>1 DEF HasRequests, LoadInv, Loading, InCourse
<1>2. /\ RtctrlInv /\ RtctrlInv' /\ UnderstoodInv /\ HasRequests /\ LoadInv /\ [Next]_vars
      => HasRequests' /\ LoadInv'
  <2> SUFFICES ASSUME TablesInv, TablesInv', Replying, UnderstoodInv, HasRequests, LoadInv, [Next]_vars
               PROVE  HasRequests' /\ LoadInv'
    BY DEF RtctrlInv
  <2>1. Grows
    BY FacesGrow DEF TablesInv
  <2> QED BY <2>1, HasRequestsStep, LoadServer, LoadElse DEF Next
<1>3. RtctrlInv /\ UnderstoodInv /\ HasRequests /\ LoadInv => LoadIsTheFile
  BY InvLoad DEF RtctrlInv
<1> QED BY <1>1, <1>2, <1>3, RtctrlInvariant, UnderstoodInvariant, PTL DEF Spec

-----------------------------------------------------------------------------
(* The entry is what its URI was parsed to.                                *)
EntryIsParsed ==
  /\ uri \in Uris
  /\ IF IsLegal(uri) THEN entry = CdOf(uri) /\ result # "illegal" ELSE result = "illegal"

LEMMA EntryIsParsedInvariant == MatchSpec => []EntryIsParsed
<1>1. MatchInit => EntryIsParsed
  BY CdMatchAssumption DEF MatchInit, EntryIsParsed
<1>2. EntryIsParsed /\ [MatchNext]_matchVars => EntryIsParsed'
  <2> SUFFICES ASSUME EntryIsParsed, [MatchNext]_matchVars PROVE EntryIsParsed'
    OBVIOUS
  <2>1. /\ uri' = uri /\ entry' = entry
        /\ \/ result' = result
           \/ result = "running" /\ result' \in {"match", "no match"}
    BY Zenon DEF MatchNext, matchVars, EntryEnd, InputEnd, SkipAsterisk, ProceedBoth,
           SkipOptionals, ComponentDiffers, InLoop
  <2> QED BY <2>1 DEF EntryIsParsed
<1> QED BY <1>1, <1>2, PTL DEF MatchSpec

(***************************************************************************)
(* A subscription is refused exactly when its URI is not of the grammar.   *)
(***************************************************************************)
THEOREM CdMatchUriGrammar == MatchSpec => []UriGrammar
<1>1. EntryIsParsed => UriGrammar
  <2>1. InGrammar(uri) \in BOOLEAN
    BY DEF InGrammar
  <2> QED BY <2>1, ParserAcceptsGrammar DEF EntryIsParsed, UriGrammar
<1> QED BY <1>1, EntryIsParsedInvariant, PTL

(***************************************************************************)
(* The entry of every subscription prints as a URI that is parsed again.   *)
(***************************************************************************)
THEOREM CdMatchPrintedUriIsParsed == MatchSpec => []PrintedUriIsParsed
<1>1. EntryIsParsed => PrintedUriIsParsed
  BY PrintedUriParses DEF EntryIsParsed, PrintedUriIsParsed
<1> QED BY <1>1, EntryIsParsedInvariant, PTL

-----------------------------------------------------------------------------
(***************************************************************************)
(* The shape of what was parsed: components; or components, the options of *)
(* a group, its asterisk, and components again.                            *)
(***************************************************************************)
NoGroup(cd) == \A i \in 1..Len(cd) : cd[i].type = "C"

OpenGroup(cd, a) ==
  /\ a \in Nat /\ a <= Len(cd)
  /\ \A i \in 1..Len(cd) : cd[i].type = IF i <= a THEN "C" ELSE "O"

Group(cd, a, b) ==
  /\ a \in Nat /\ b \in Nat /\ b >= 1 /\ a + b + 1 <= Len(cd)
  /\ \A i \in 1..Len(cd) : cd[i].type = IF i <= a THEN "C"
                                        ELSE IF i <= a + b THEN "O"
                                        ELSE IF i = a + b + 1 THEN "A" ELSE "C"

Shape(state, cd) ==
  /\ state = "NotOpened" => NoGroup(cd)
  /\ state = "Opened"    => \E a : OpenGroup(cd, a)
  /\ state = "Closed"    => \E a, b : Group(cd, a, b)

(* A word that is taken keeps it.                                          *)
LEMMA ShapeStep ==
  ASSUME NEW W, NEW word \in WordsOver(W), NEW s, NEW B \in BlocksOver(W),
         ~Rejects(s, word), Shape(s, B)
  PROVE  Shape(After(s, word), B \o Added(s, word))
<1>1. PICK d, m, x, E : d = B \o Added(s, word) /\ m = Len(B) /\ x = Added(s, word) /\ BlocksOver(W) = Seq(E)
  BY DEF BlocksOver
<1>2. /\ x \in Seq(E)
      /\ x[1] = IF s = "Opened" THEN Optional(word.text) ELSE Component(word.text)
      /\ EventOf(word) # "Close" => Len(x) = 1
      /\ EventOf(word) = "Close" => Len(x) = 2 /\ x[2] = Asterisk
  BY <1>1, AddedIs
<1>3. /\ m \in Nat /\ Len(d) = m + Len(x)
      /\ \A i \in 1..m : d[i] = B[i]
      /\ \A i \in 1..Len(x) : d[m + i] = x[i]
  <2>1. B \in Seq(E) /\ m \in Nat
    BY <1>1, LenProperties
  <2>2. Len(d) = m + Len(x) /\ \A i \in 1..Len(d) : d[i] = IF i <= m THEN B[i] ELSE x[i - m]
    BY <1>1, <1>2, <2>1, ConcatProperties
  <2>3. Len(x) \in Nat
    BY <1>2, LenProperties
  <2>4. \A i \in 1..m : d[i] = B[i]
    BY <2>1, <2>2, <2>3
  <2>5. ASSUME NEW i \in 1..Len(x) PROVE d[m + i] = x[i]
    <3>1. PICK j : j = m + i
      OBVIOUS
    <3>2. j \in 1..Len(d) /\ ~(j <= m) /\ j - m = i
      BY <2>1, <2>2, <2>3, <3>1
    <3>3. d[j] = x[j - m]
      BY <2>2, <3>2
    <3> QED BY <3>1, <3>2, <3>3
  <2> QED BY <2>1, <2>2, <2>4, <2>5
<1>4. \A v : Asterisk.type = "A" /\ Optional(v).type = "O" /\ Component(v).type = "C"
  BY DEF Asterisk, Optional, Component
<1>5. d[m + 1].type = IF s = "Opened" THEN "O" ELSE "C"
  <2>1. 1 \in 1..Len(x)
    BY <1>2
  <2> QED BY <1>2, <1>3, <1>4, <2>1
<1>6. CASE EventOf(word) = "Close"
  <2>1. s = "Opened" /\ After(s, word) = "Closed"
    BY <1>6 DEF Rejects, After
  <2>2. Len(d) = m + 2 /\ d[m + 2].type = "A"
    <3>1. Len(x) = 2 /\ x[2] = Asterisk
      BY <1>2, <1>6, Zenon
    <3>2. Len(d) = m + 2 /\ d[m + 2] = x[2]
      BY <1>3, <3>1
    <3> QED BY <1>4, <3>1, <3>2
  <2>3. PICK a : OpenGroup(B, a)
    BY <2>1 DEF Shape
  <2>4. Group(d, a, m - a + 1)
    <3>1. PICK b : b = m - a + 1
      OBVIOUS
    <3>2. a \in Nat /\ a <= m /\ \A i \in 1..m : d[i].type = IF i <= a THEN "C" ELSE "O"
      BY <1>1, <1>3, <2>3 DEF OpenGroup
    <3>3. b \in Nat /\ b >= 1 /\ a + b = m + 1
      BY <1>3, <3>1, <3>2
    <3>4. \A i \in 1..Len(d) : d[i].type = IF i <= a THEN "C" ELSE IF i <= a + b THEN "O"
                                           ELSE IF i = a + b + 1 THEN "A" ELSE "C"
      <4> SUFFICES ASSUME NEW i \in 1..Len(d)
                   PROVE  d[i].type = IF i <= a THEN "C" ELSE IF i <= a + b THEN "O"
                                      ELSE IF i = a + b + 1 THEN "A" ELSE "C"
        OBVIOUS
      <4>1. i \in 1..m \/ i = m + 1 \/ i = m + 2
        BY <1>3, <2>2
      <4>2. d[m + 1].type = "O"
        BY <1>5, <2>1
      <4> QED BY <1>3, <2>2, <3>2, <3>3, <4>1, <4>2
    <3>5. a + b + 1 <= Len(d)
      BY <1>3, <2>2, <3>3
    <3>6. Group(d, a, b)
      BY <3>2, <3>3, <3>4, <3>5 DEF Group
    <3> QED BY <3>1, <3>6
  <2> QED BY <1>1, <2>1, <2>4 DEF Shape
<1>7. CASE EventOf(word) # "Close"
  <2>1. Len(d) = m + 1
    BY <1>2, <1>3, <1>7
  <2>2. /\ s \in {"NotOpened", "Opened", "Closed"} => After(s, word) = IF EventOf(word) = "Open" THEN "Opened" ELSE s
        /\ EventOf(word) = "Open" => s = "NotOpened"
    BY <1>7 DEF Rejects, After
  <2>3. After(s, word) = IF EventOf(word) = "Open" THEN "Opened" ELSE s
    BY <1>7 DEF After
  <2>4. CASE s = "NotOpened"
    <3>1. \A i \in 1..m + 1 : d[i].type = "C"
      <4>1. \A i \in 1..m : B[i].type = "C"
        BY <1>1, <2>4, Zenon DEF Shape, NoGroup
      <4>2. d[m + 1].type = "C"
        BY <1>5, <2>4
      <4>3. \A i \in 1..m + 1 : i \in 1..m \/ i = m + 1
        BY <1>3
      <4> QED BY <1>3, <4>1, <4>2, <4>3
    <3>2. NoGroup(d) /\ OpenGroup(d, m + 1)
      BY <1>3, <2>1, <3>1 DEF NoGroup, OpenGroup
    <3> QED BY <1>1, <2>3, <2>4, <3>2 DEF Shape
  <2>5. CASE s = "Opened"
    <3>1. PICK a : OpenGroup(B, a)
      BY <2>5 DEF Shape
    <3>2. a \in Nat /\ a <= m /\ \A i \in 1..m : d[i].type = IF i <= a THEN "C" ELSE "O"
      BY <1>1, <1>3, <3>1 DEF OpenGroup
    <3>3. \A i \in 1..m + 1 : d[i].type = IF i <= a THEN "C" ELSE "O"
      BY <1>3, <1>5, <2>5, <3>2
    <3>4. OpenGroup(d, a)
      BY <1>3, <2>1, <3>2, <3>3 DEF OpenGroup
    <3>5. After(s, word) = "Opened"
      BY <2>2, <2>3, <2>5
    <3> QED BY <1>1, <3>4, <3>5 DEF Shape
  <2>6. CASE s = "Closed"
    <3>1. PICK a, b : Group(B, a, b)
      BY <2>6 DEF Shape
    <3>2. a \in Nat /\ b \in Nat /\ b >= 1 /\ a + b + 1 <= m
      BY <1>1, <3>1 DEF Group
    <3>3. \A i \in 1..m : d[i].type = IF i <= a THEN "C" ELSE IF i <= a + b THEN "O"
                                      ELSE IF i = a + b + 1 THEN "A" ELSE "C"
      BY <1>1, <1>3, <3>1 DEF Group
    <3>4. \A i \in 1..m + 1 : d[i].type = IF i <= a THEN "C" ELSE IF i <= a + b THEN "O"
                                          ELSE IF i = a + b + 1 THEN "A" ELSE "C"
      BY <1>3, <1>5, <2>6, <3>2, <3>3
    <3>5. Group(d, a, b)
      BY <1>3, <2>1, <3>2, <3>4 DEF Group
    <3>6. After(s, word) = "Closed"
      BY <2>2, <2>3, <2>6
    <3> QED BY <1>1, <3>5, <3>6 DEF Shape
  <2>7. CASE s \notin {"NotOpened", "Opened", "Closed"}
    <3>1. After(s, word) = s
      BY <2>2, <2>3, <2>7
    <3> QED BY <2>7, <3>1 DEF Shape
  <2> QED BY <2>4, <2>5, <2>6, <2>7
<1> QED BY <1>6, <1>7

(* A URI that is parsed has a CD of such a shape: a group is closed, and a *)
(* component follows it.                                                   *)
LEMMA LegalShape ==
  ASSUME NEW W, NEW given \in Seq(WordsOver(W)), Parses(given)
  PROVE  /\ BlockOf(given) \in BlocksOver(W)
         /\ \/ NoGroup(BlockOf(given))
            \/ \E a, b : Group(BlockOf(given), a, b) /\ a + b + 2 <= Len(BlockOf(given))
<1>1. PICK n \in Nat : DOMAIN given = 1..n /\ n = Len(given)
  BY LenProperties
<1>2. PICK q : IsParse(q, given, W)
  BY ParseFold
<1>3. q[n].state # "Error" /\ q[n].block = BlockOf(given)
  BY <1>1, <1>2 DEF IsParse, Parses, BlockOf
<1>4. Takes(q, given)
  BY <1>1, <1>2, <1>3, LegalTakes
<1> DEFINE T == {i \in Nat : i <= n => Shape(q[i].state, q[i].block)}
<1>5. 0 \in T
  <2>1. q[0].state = "NotOpened" /\ q[0].block = <<>>
    BY <1>2 DEF IsParse, ParseStart
  <2>2. NoGroup(<<>>)
    BY DEF NoGroup
  <2> QED BY <2>1, <2>2 DEF Shape
<1>6. ASSUME NEW i \in Nat, i \in T PROVE i + 1 \in T
  <2> SUFFICES ASSUME i + 1 <= n PROVE Shape(q[i + 1].state, q[i + 1].block)
    OBVIOUS
  <2>1. PICK j : j = i + 1
    OBVIOUS
  <2>2. j \in 1..Len(given) /\ j - 1 = i /\ i \in 0..Len(given) /\ Shape(q[i].state, q[i].block)
    BY <1>1, <1>6, <2>1
  <2>3. PICK word, s, B : word = given[j] /\ s = q[i].state /\ B = q[i].block
    OBVIOUS
  <2>4. word \in WordsOver(W) /\ B \in BlocksOver(W) /\ Shape(s, B)
    <3>1. q[i] \in ParsesOver(W)
      BY <1>2, <2>2 DEF IsParse
    <3>2. B \in BlocksOver(W)
      BY <2>3, <3>1 DEF ParsesOver
    <3> QED BY <2>2, <2>3, <3>2, ElementOfSeq
  <2>5. ~Rejects(s, word) /\ q[j].state = After(s, word) /\ q[j].block = B \o Added(s, word)
    BY <1>4, <2>2, <2>3 DEF Takes
  <2>6. Shape(After(s, word), B \o Added(s, word))
    BY <2>4, <2>5, ShapeStep
  <2> QED BY <2>1, <2>5, <2>6
<1>7. n \in T
  <2> HIDE DEF T
  <2> QED BY <1>1, <1>5, <1>6, NatSetInduction
<1>8. PICK cd, s : cd = BlockOf(given) /\ s = q[n].state
  OBVIOUS
<1>9. Shape(s, cd) /\ s \in {"NotOpened", "Opened", "Closed"} /\ cd \in BlocksOver(W)
  <2>1. q[n] \in ParsesOver(W)
    BY <1>1, <1>2 DEF IsParse
  <2>2. q[n].state \in States /\ q[n].block \in BlocksOver(W)
    BY <2>1 DEF ParsesOver
  <2> QED BY <1>3, <1>7, <1>8, <2>2 DEF States
<1>10. PICK m : m = Len(cd)
  OBVIOUS
<1>11. m \in Nat /\ (m # 0 => cd[m].type = "C")
  <2>1. m \in Nat /\ (cd = <<>> <=> m = 0)
    BY <1>9, <1>10, LenProperties, EmptySeq DEF BlocksOver
  <2>2. m # 0 => cd[m].type = "C"
    BY <1>8, <1>10, <2>1 DEF Parses, BlockOf, Last
  <2> QED BY <2>1, <2>2
<1>12. NoGroup(cd) \/ \E a, b : Group(cd, a, b) /\ a + b + 2 <= Len(cd)
  <2>1. CASE s = "NotOpened"
    BY <1>9, <2>1 DEF Shape
  <2>2. CASE s = "Opened"
    <3>1. PICK a : OpenGroup(cd, a)
      BY <1>9, <2>2 DEF Shape
    <3>2. a \in Nat /\ a <= m /\ \A i \in 1..m : cd[i].type = IF i <= a THEN "C" ELSE "O"
      BY <1>10, <3>1 DEF OpenGroup
    <3>3. m = 0 \/ m = a
      BY <1>11, <3>2
    <3>4. \A i \in 1..m : cd[i].type = "C"
      BY <1>11, <3>2, <3>3
    <3> QED BY <1>10, <3>4 DEF NoGroup
  <2>3. CASE s = "Closed"
    <3>1. PICK a, b : Group(cd, a, b)
      BY <1>9, <2>3 DEF Shape
    <3>2. /\ a \in Nat /\ b \in Nat /\ b >= 1 /\ a + b + 1 <= m
          /\ \A i \in 1..m : cd[i].type = IF i <= a THEN "C" ELSE IF i <= a + b THEN "O"
                                          ELSE IF i = a + b + 1 THEN "A" ELSE "C"
      BY <1>10, <3>1 DEF Group
    <3>3. m # a + b + 1
      BY <1>11, <3>2
    <3>4. a + b + 2 <= m
      BY <1>11, <3>2, <3>3
    <3> QED BY <1>10, <3>1, <3>4
  <2> QED BY <1>9, <2>1, <2>2, <2>3
<1> QED BY <1>8, <1>9, <1>12

(* So has a URI with slashes around it.                                    *)
LEMMA LegalUriShape ==
  ASSUME NEW W, NEW given \in Seq(WordsOver(W)), IsLegal(given)
  PROVE  /\ CdOf(given) \in BlocksOver(W)
         /\ \/ NoGroup(CdOf(given))
            \/ \E a, b : Group(CdOf(given), a, b) /\ a + b + 2 <= Len(CdOf(given))
<1>1. Trimmed(given) \in Seq(WordsOver(W)) /\ Parses(Trimmed(given))
  BY TrimmedIs DEF IsLegal
<1> QED BY <1>1, LegalShape DEF CdOf
-----------------------------------------------------------------------------
(***************************************************************************)
(* The values of the elements that are taken of a CD.                      *)
(***************************************************************************)
IsValuesFold(f, index, cd, P) ==
  f = [s \in SUBSET (DOMAIN index) |->
         IF s = {} THEN <<>>
         ELSE IF index[Max(s)] \in P THEN Append(f[s \ {Max(s)}], cd[index[Max(s)]].value)
         ELSE f[s \ {Max(s)}]]

IsValues(v, cd, P, n) ==
  /\ v[0] = <<>> /\ v[n] = ValuesAt(cd, P)
  /\ \A i \in 0..n : v[i] \in Seq({cd[j].value : j \in 1..n})
  /\ \A i \in 1..n : v[i] = IF i \in P THEN Append(v[i-1], cd[i].value) ELSE v[i-1]

(* What is taken of the first elements, from none to all of them.          *)
LEMMA ValuesFold ==
  ASSUME NEW cd, NEW P, NEW n \in Nat, DOMAIN cd = 1..n
  PROVE  \E v : IsValues(v, cd, P, n)
<1> DEFINE X    == {cd[i].value : i \in 1..n}
           V    == Seq(X)
           step == [i \in 1..n |-> [v \in V |-> IF i \in P THEN Append(v, cd[i].value) ELSE v]]
<1>1. step \in [1..n -> [V -> V]]
  <2>1. ASSUME NEW i \in 1..n, NEW v \in V PROVE Append(v, cd[i].value) \in V
    <3>1. cd[i].value \in X
      OBVIOUS
    <3> HIDE DEF X
    <3> QED BY <3>1, AppendProperties
  <2> HIDE DEF V
  <2> QED BY <2>1
<1>2. <<>> \in V
  OBVIOUS
<1>3. PICK f : Folded(f, n, V, <<>>, step)
  <2> HIDE DEF V, step
  <2> QED BY <1>1, <1>2, FoldedExists
<1>4. PICK index : index = [i \in DOMAIN cd |-> i]
  OBVIOUS
<1>5. DOMAIN index = 1..n /\ \A i \in 1..n : index[i] = i
  BY <1>4
<1>6. IsValuesFold(f, index, cd, P)
  <2>1. ASSUME NEW s \in SUBSET (1..n), s # {}
        PROVE  f[s] = IF index[Max(s)] \in P THEN Append(f[s \ {Max(s)}], cd[index[Max(s)]].value)
                      ELSE f[s \ {Max(s)}]
    <3>1. PICK m, v : m = Max(s) /\ v = f[s \ {m}]
      OBVIOUS
    <3>2. m \in 1..n /\ v \in V /\ f[s] = step[m][v]
      BY <1>3, <2>1, <3>1 DEF Folded
    <3>3. step[m][v] = IF m \in P THEN Append(v, cd[m].value) ELSE v
      <4> HIDE DEF V
      <4> QED BY <3>2
    <3>4. index[m] = m
      BY <1>5, <3>2
    <3> HIDE DEF step
    <3> QED BY <3>1, <3>2, <3>3, <3>4
  <2>2. f = [s \in SUBSET (1..n) |-> f[s]] /\ f[{}] = <<>>
    BY <1>3 DEF Folded
  <2> HIDE DEF V, step
  <2>3. f = [s \in SUBSET (1..n) |->
               IF s = {} THEN <<>>
               ELSE IF index[Max(s)] \in P THEN Append(f[s \ {Max(s)}], cd[index[Max(s)]].value)
               ELSE f[s \ {Max(s)}]]
    BY <2>1, <2>2
  <2> QED BY <1>5, <2>3 DEF IsValuesFold
<1>7. PICK g : g = CHOOSE h : IsValuesFold(h, [i \in DOMAIN cd |-> i], cd, P)
  OBVIOUS
<1>8. IsValuesFold(g, index, cd, P)
  BY <1>4, <1>6, <1>7, Zenon
<1>9. ValuesAt(cd, P) = g[DOMAIN index]
  <2>1. ValuesAt(cd, P) = g[DOMAIN [i \in DOMAIN cd |-> i]]
    BY <1>7, Zenon DEF ValuesAt, FoldLeftDomain, FoldLeft, MapThenFoldSet, IsValuesFold
  <2> QED BY <1>4, <2>1
<1> HIDE DEF X, V, step
<1>10. \A s \in SUBSET (1..n) :
         g[s] = IF s = {} THEN <<>>
                ELSE IF index[Max(s)] \in P THEN Append(g[s \ {Max(s)}], cd[index[Max(s)]].value)
                ELSE g[s \ {Max(s)}]
  BY <1>5, <1>8, Zenon DEF IsValuesFold
<1> DEFINE p == [i \in 0..n |-> g[1..i]]
<1>11. p[0] = <<>>
  <2>1. 1..0 = {} /\ {} \in SUBSET (1..n) /\ 0 \in 0..n
    OBVIOUS
  <2>2. g[{}] = <<>>
    BY <1>10, <2>1
  <2> QED BY <2>1, <2>2
<1>12. ASSUME NEW i \in 1..n PROVE p[i] = IF i \in P THEN Append(p[i-1], cd[i].value) ELSE p[i-1]
  <2>1. 1..i \in SUBSET (1..n) /\ 1..i # {} /\ Max(1..i) = i /\ (1..i) \ {i} = 1..i-1
    BY FirstIndices
  <2>2. g[1..i] = IF i \in P THEN Append(g[1..i-1], cd[i].value) ELSE g[1..i-1]
    <3>1. index[Max(1..i)] = i
      BY <1>5, <2>1
    <3> QED BY <1>10, <2>1, <3>1
  <2>3. i \in 0..n /\ i - 1 \in 0..n
    OBVIOUS
  <2> QED BY <2>2, <2>3
<1>13. p[n] = ValuesAt(cd, P)
  BY <1>5, <1>9
<1> HIDE DEF p
<1> DEFINE T == {i \in Nat : i <= n => p[i] \in V}
<1>14. 0 \in T
  BY <1>2, <1>11
<1>15. ASSUME NEW i \in Nat, i \in T PROVE i + 1 \in T
  <2> SUFFICES ASSUME i + 1 <= n PROVE p[i + 1] \in V
    OBVIOUS
  <2>1. PICK j, e : j = i + 1 /\ e = cd[j].value
    OBVIOUS
  <2>2. j \in 1..n /\ j - 1 = i /\ p[i] \in V
    BY <1>15, <2>1
  <2>3. e \in X
    BY <2>1, <2>2 DEF X
  <2>4. Append(p[i], e) \in V
    BY <2>2, <2>3, AppendProperties DEF V
  <2> QED BY <1>12, <2>1, <2>2, <2>4
<1>16. \A i \in 0..n : p[i] \in V
  <2>1. \A i \in Nat : i \in T
    <3> HIDE DEF T
    <3> QED BY <1>14, <1>15, NatSetInduction
  <2> QED BY <2>1
<1>17. IsValues(p, cd, P, n)
  BY <1>11, <1>12, <1>13, <1>16 DEF V, X, IsValues
<1> QED BY <1>17

(* The first m values of a CD of which the elements x+1..y are left out.   *)
IsGap(values, cd, x, y, m) ==
  /\ Len(values) = m
  /\ \A j \in 1..m : values[j] = IF j <= x THEN cd[j].value ELSE cd[j + (y - x)].value

LEMMA ValuesAtGap ==
  ASSUME NEW cd, NEW n \in Nat, DOMAIN cd = 1..n, NEW x \in Nat, NEW y \in Nat, x <= y, y <= n,
         NEW P, \A i \in 1..n : i \in P <=> i <= x \/ y < i
  PROVE  IsGap(ValuesAt(cd, P), cd, x, y, x + n - y)
<1>1. PICK v : IsValues(v, cd, P, n)
  BY ValuesFold
<1>2. PICK X : X = {cd[j].value : j \in 1..n}
  OBVIOUS
<1> DEFINE M(i) == IF i <= x THEN i ELSE IF i <= y THEN x ELSE x + i - y
           T    == {i \in Nat : i <= n => IsGap(v[i], cd, x, y, M(i))}
<1>3. 0 \in T
  <2>1. IsGap(<<>>, cd, x, y, 0)
    BY DEF IsGap
  <2> QED BY <1>1, <2>1 DEF IsValues
<1>4. ASSUME NEW i \in Nat, i \in T PROVE i + 1 \in T
  <2> SUFFICES ASSUME i + 1 <= n PROVE IsGap(v[i + 1], cd, x, y, M(i + 1))
    OBVIOUS
  <2>1. PICK k, s, t, m, e : k = i + 1 /\ s = v[i] /\ t = v[k] /\ m = M(i) /\ e = cd[k].value
    OBVIOUS
  <2>2. k \in 1..n /\ k - 1 = i /\ i \in 0..n /\ m \in Nat
    BY <2>1
  <2>3. s \in Seq(X) /\ t = IF k \in P THEN Append(s, e) ELSE s
    BY <1>1, <1>2, <2>1, <2>2 DEF IsValues
  <2>4. Len(s) = m /\ \A j \in 1..m : s[j] = IF j <= x THEN cd[j].value ELSE cd[j + (y - x)].value
    BY <1>4, <2>1, <2>2 DEF IsGap
  <2>5. CASE k \in P
    <3>1. k <= x \/ y < k
      BY <2>2, <2>5
    <3>2. M(k) = m + 1 /\ k = IF m + 1 <= x THEN m + 1 ELSE m + 1 + (y - x)
      BY <2>1, <2>2, <3>1
    <3>3. PICK l : l = m + 1
      OBVIOUS
    <3>4. t = Append(s, e) /\ e \in X
      BY <1>2, <2>1, <2>2, <2>3, <2>5
    <3>5. Len(t) = l /\ t[l] = e /\ \A j \in 1..m : t[j] = s[j]
      BY <2>3, <2>4, <3>3, <3>4, AppendProperties
    <3>6. \A j \in 1..l : t[j] = IF j <= x THEN cd[j].value ELSE cd[j + (y - x)].value
      <4>1. t[l] = IF l <= x THEN cd[l].value ELSE cd[l + (y - x)].value
        BY <2>1, <3>2, <3>3, <3>5
      <4>2. \A j \in 1..l : j \in 1..m \/ j = l
        BY <2>2, <3>3
      <4> QED BY <2>4, <3>5, <4>1, <4>2
    <3>7. IsGap(t, cd, x, y, l)
      BY <3>5, <3>6 DEF IsGap
    <3> QED BY <2>1, <3>2, <3>3, <3>7
  <2>6. CASE k \notin P
    <3>1. x < k /\ k <= y
      BY <2>2, <2>6
    <3>2. M(k) = m
      BY <2>1, <2>2, <3>1
    <3>3. IsGap(t, cd, x, y, m)
      BY <2>3, <2>4, <2>6 DEF IsGap
    <3> QED BY <2>1, <3>2, <3>3
  <2> QED BY <2>5, <2>6
<1>5. n \in T
  <2> HIDE DEF T
  <2> QED BY <1>3, <1>4, NatSetInduction
<1>6. M(n) = x + n - y
  OBVIOUS
<1> QED BY <1>1, <1>5, <1>6 DEF IsValues
-----------------------------------------------------------------------------
(***************************************************************************)
(* A subscription of n elements, of which x+1..y are left out, and the     *)
(* start of a publication of m elements.                                   *)
(***************************************************************************)
Fits(e, n, i, m, x, y) ==
  /\ x + n - y <= m
  /\ \A j \in 1..x : e[j].value = i[j].value
  /\ \A j \in y+1..n : e[j].value = i[j - (y - x)].value

LEMMA PrefixFits ==
  ASSUME NEW e, NEW n \in Nat, DOMAIN e = 1..n, NEW i, NEW m \in Nat, DOMAIN i = 1..m,
         NEW x \in Nat, NEW y \in Nat, x <= y, y <= n,
         NEW P, \A j \in 1..n : j \in P <=> j <= x \/ y < j
  PROVE  IsPrefixOf(ValuesAt(e, P), ValuesAt(i, DOMAIN i)) <=> Fits(e, n, i, m, x, y)
<1>1. PICK v, w, len, d : v = ValuesAt(e, P) /\ w = ValuesAt(i, DOMAIN i) /\ len = x + n - y /\ d = y - x
  OBVIOUS
<1>2. len \in Nat /\ d \in Nat /\ len + d = n /\ x + d = y
  BY <1>1
<1>3. Len(v) = len /\ \A j \in 1..len : v[j] = IF j <= x THEN e[j].value ELSE e[j + d].value
  <2>1. IsGap(v, e, x, y, len)
    BY <1>1, ValuesAtGap
  <2> QED BY <1>1, <2>1 DEF IsGap
<1>4. Len(w) = m /\ \A j \in 1..m : w[j] = i[j].value
  <2>1. PICK Q : Q = DOMAIN i
    OBVIOUS
  <2>2. \A j \in 1..m : j \in Q <=> j <= m \/ m < j
    BY <2>1
  <2>3. IsGap(w, i, m, m, m + m - m)
    BY <1>1, <2>1, <2>2, ValuesAtGap
  <2>4. m + m - m = m
    OBVIOUS
  <2>5. IsGap(w, i, m, m, m)
    BY <2>3, <2>4
  <2> QED BY <2>5 DEF IsGap
<1>5. ASSUME IsPrefixOf(v, w) PROVE Fits(e, n, i, m, x, y)
  <2>1. len <= m /\ \A j \in 1..len : v[j] = w[j]
    BY <1>3, <1>4, <1>5 DEF IsPrefixOf
  <2>2. \A j \in 1..x : e[j].value = i[j].value
    BY <1>2, <1>3, <1>4, <2>1
  <2>3. ASSUME NEW j \in y+1..n PROVE e[j].value = i[j - d].value
    <3>1. PICK k : k = j - d
      OBVIOUS
    <3>2. k \in 1..len /\ ~(k <= x) /\ k + d = j /\ k \in 1..m
      BY <1>2, <2>1, <3>1
    <3> QED BY <1>3, <1>4, <2>1, <3>1, <3>2
  <2> QED BY <1>1, <2>1, <2>2, <2>3 DEF Fits
<1>6. ASSUME Fits(e, n, i, m, x, y) PROVE IsPrefixOf(v, w)
  <2>1. /\ len <= m /\ \A j \in 1..x : e[j].value = i[j].value
        /\ \A j \in y+1..n : e[j].value = i[j - d].value
    BY <1>1, <1>6 DEF Fits
  <2>2. ASSUME NEW j \in 1..len PROVE v[j] = w[j]
    <3>1. j \in 1..m /\ w[j] = i[j].value
      BY <1>2, <1>4, <2>1
    <3>2. CASE j <= x
      BY <1>3, <2>1, <2>2, <3>1, <3>2
    <3>3. CASE ~(j <= x)
      <4>1. PICK k : k = j + d
        OBVIOUS
      <4>2. k \in y+1..n /\ k - d = j
        BY <1>2, <3>3, <4>1
      <4> QED BY <1>3, <2>1, <2>2, <3>1, <3>3, <4>1, <4>2
    <3> QED BY <3>2, <3>3
  <2> QED BY <1>3, <1>4, <2>1, <2>2 DEF IsPrefixOf
<1> QED BY <1>1, <1>5, <1>6

(* Without a group, the whole of the subscription; with one, all of it but *)
(* what follows its first k options.                                       *)
LEMMA NoGroupStandsFor ==
  ASSUME NEW e, NEW n \in Nat, DOMAIN e = 1..n, n = Len(e), NEW i, NEW m \in Nat, DOMAIN i = 1..m,
         NoGroup(e)
  PROVE  StandsFor(e, i) <=> Fits(e, n, i, m, n, n)
<1>1. Positions(e, "O") = {} /\ \A j \in 1..n : j \in Positions(e, "C")
  BY DEF Positions, NoGroup
<1>2. Cardinality(Positions(e, "O")) = 0
  BY <1>1, FS_EmptySet
<1>3. Names(e) = {ValuesAt(e, Kept(e, k)) : k \in {0}}
  <2>1. 0..0 = {0}
    OBVIOUS
  <2> QED BY <1>2, <2>1 DEF Names
<1>4. PICK P : P = Kept(e, 0)
  OBVIOUS
<1>5. \A j \in 1..n : j \in P <=> j <= n \/ n < j
  BY <1>1, <1>4 DEF Kept
<1>6. StandsFor(e, i) <=> IsPrefixOf(ValuesAt(e, P), ValuesAt(i, DOMAIN i))
  BY <1>3, <1>4, Zenon DEF StandsFor
<1> QED BY <1>5, <1>6, PrefixFits

LEMMA GroupStandsFor ==
  ASSUME NEW e, NEW n \in Nat, DOMAIN e = 1..n, n = Len(e), NEW i, NEW m \in Nat, DOMAIN i = 1..m,
         NEW a, NEW b, Group(e, a, b)
  PROVE  StandsFor(e, i) <=> \E k \in 0..b : Fits(e, n, i, m, a + k, a + b + 1)
<1>1. /\ a \in Nat /\ b \in Nat /\ b >= 1 /\ a + b + 1 <= n
      /\ \A j \in 1..n : e[j].type = IF j <= a THEN "C" ELSE IF j <= a + b THEN "O"
                                     ELSE IF j = a + b + 1 THEN "A" ELSE "C"
  BY DEF Group
<1>2. PICK options : options = Positions(e, "O")
  OBVIOUS
<1>3. \A j : j \in options <=> j \in a+1..a+b
  <2>1. \A j \in 1..n : e[j].type = "O" <=> a < j /\ j <= a + b
    BY <1>1
  <2>2. \A j : j \in options <=> j \in 1..n /\ e[j].type = "O"
    BY <1>2 DEF Positions
  <2>3. \A j \in a+1..a+b : j \in 1..n /\ a < j /\ j <= a + b
    BY <1>1
  <2>4. \A j \in 1..n : a < j /\ j <= a + b => j \in a+1..a+b
    BY <1>1
  <2> QED BY <2>1, <2>2, <2>3, <2>4
<1>4. options = a+1..a+b
  BY <1>3
<1>5. Cardinality(options) = b
  <2>1. PICK first, last : first = a + 1 /\ last = a + b
    OBVIOUS
  <2>2. first \in Int /\ last \in Int /\ ~(first > last) /\ last - first + 1 = b
    BY <1>1, <2>1
  <2>3. Cardinality(first..last) = last - first + 1
    BY <2>2, FS_Interval
  <2> QED BY <1>4, <2>1, <2>2, <2>3
<1>6. Min(options) = a + 1
  <2>1. a + 1 \in options /\ \A j \in options : a + 1 <= j
    BY <1>1, <1>4
  <2>2. \A j, k \in options : j <= k /\ k <= j => j = k
    BY <1>1, <1>4
  <2> QED BY <2>1, <2>2 DEF Min
<1>7. ASSUME NEW k \in 0..b
      PROVE  IsPrefixOf(ValuesAt(e, Kept(e, k)), ValuesAt(i, DOMAIN i)) <=> Fits(e, n, i, m, a + k, a + b + 1)
  <2>1. PICK P, x, y, first : P = Kept(e, k) /\ x = a + k /\ y = a + b + 1 /\ first = Min(options)
    OBVIOUS
  <2>2. x \in Nat /\ y \in Nat /\ x <= y /\ y <= n
    BY <1>1, <2>1
  <2>3. \A j : j \in P <=> j \in Positions(e, "C") \/ (j \in options /\ j < first + k)
    BY <1>2, <2>1 DEF Kept
  <2>4. \A j \in 1..n : j \in Positions(e, "C") <=> j <= a \/ a + b + 1 < j
    BY <1>1 DEF Positions
  <2>5. first = a + 1
    BY <1>6, <2>1
  <2>6. ASSUME NEW j \in 1..n PROVE j \in P <=> j <= x \/ y < j
    <3>1. j \in P <=> (j <= a \/ a + b + 1 < j) \/ (j \in a+1..a+b /\ j < a + 1 + k)
      BY <1>3, <2>3, <2>4, <2>5
    <3> QED BY <1>1, <2>1, <3>1
  <2>7. IsPrefixOf(ValuesAt(e, P), ValuesAt(i, DOMAIN i)) <=> Fits(e, n, i, m, x, y)
    BY <2>2, <2>6, PrefixFits
  <2> QED BY <2>1, <2>7
<1>8. StandsFor(e, i) <=> \E k \in 0..b : IsPrefixOf(ValuesAt(e, Kept(e, k)), ValuesAt(i, DOMAIN i))
  <2>1. Names(e) = {ValuesAt(e, Kept(e, k)) : k \in 0..b}
    BY <1>2, <1>5 DEF Names
  <2> QED BY <2>1, Zenon DEF StandsFor
<1> QED BY <1>7, <1>8
-----------------------------------------------------------------------------
(***************************************************************************)
(* How far the two CDs were read.  Up to the end of the group, every       *)
(* element has met its component; past it, k options have, and the next    *)
(* one has not, unless there was none.                                     *)
(***************************************************************************)
ReadStart(e, i, p, q, limit) ==
  /\ p = q /\ p \in 1..limit
  /\ \A l \in 1..p-1 : e[l].value = i[l].value

ReadPast(e, n, i, m, p, q, a, b, k) ==
  /\ k \in 0..b /\ p \in a+b+2..n+1 /\ q = p - (b - k) - 1
  /\ \A l \in 1..a+k : e[l].value = i[l].value
  /\ \A l \in a+b+2..p-1 : e[l].value = i[l - (b - k) - 1].value
  /\ k < b => a + k + 1 <= m /\ e[a+k+1].value # i[a+k+1].value

Groups(e, n, a, b) == Group(e, a, b) /\ a + b + 2 <= n

ReadTo(e, n, i, m, p, q) ==
  /\ q \in 1..m+1
  /\ \/ NoGroup(e) /\ ReadStart(e, i, p, q, n + 1)
     \/ \E a, b : Groups(e, n, a, b) /\ \/ ReadStart(e, i, p, q, a + b + 1)
                                        \/ \E k : ReadPast(e, n, i, m, p, q, a, b, k)

LEMMA GroupTypes ==
  ASSUME NEW e, NEW n \in Nat, n = Len(e), NEW a, NEW b, Groups(e, n, a, b)
  PROVE  /\ a \in Nat /\ b \in Nat /\ b >= 1 /\ a + b + 2 <= n
         /\ \A j \in 1..a : e[j].type = "C"
         /\ \A j \in a+1..a+b : e[j].type = "O"
         /\ e[a+b+1].type = "A"
         /\ \A j \in a+b+2..n : e[j].type = "C"
<1>1. /\ a \in Nat /\ b \in Nat /\ b >= 1 /\ a + b + 2 <= n
      /\ \A j \in 1..n : e[j].type = IF j <= a THEN "C" ELSE IF j <= a + b THEN "O"
                                     ELSE IF j = a + b + 1 THEN "A" ELSE "C"
  BY DEF Groups, Group
<1>2. PICK c : c = a + b + 1
  OBVIOUS
<1>3. e[c].type = "A"
  BY <1>1, <1>2
<1>4. \A j \in 1..a : e[j].type = "C"
  BY <1>1
<1>5. \A j \in a+1..a+b : e[j].type = "O"
  BY <1>1
<1>6. \A j \in a+b+2..n : e[j].type = "C"
  BY <1>1
<1> QED BY <1>1, <1>2, <1>3, <1>4, <1>5, <1>6

(* From an option, the next component is the one after the group.          *)
LEMMA GroupNext ==
  ASSUME NEW e, NEW n \in Nat, n = Len(e), NEW a, NEW b, Groups(e, n, a, b), NEW p \in a+1..a+b
  PROVE  NextComponent(e, p) = a + b + 2
<1>1. /\ a \in Nat /\ b \in Nat /\ b >= 1 /\ a + b + 2 <= n
      /\ \A j \in a+1..a+b : e[j].type = "O"
      /\ e[a+b+1].type = "A"
      /\ \A j \in a+b+2..n : e[j].type = "C"
  BY GroupTypes
<1>2. PICK c : c = a + b + 2
  OBVIOUS
<1>3. c \in p+1..n /\ e[c].type = "C"
  BY <1>1, <1>2
<1>4. \A j \in p+1..c-1 : e[j].type # "C"
  <2> SUFFICES ASSUME NEW j \in p+1..c-1 PROVE e[j].type # "C"
    OBVIOUS
  <2>1. j \in a+1..a+b \/ j = a + b + 1
    BY <1>1, <1>2
  <2> QED BY <1>1, <2>1
<1>5. ASSUME NEW k \in p+1..n, e[k].type = "C", \A j \in p+1..k-1 : e[j].type # "C" PROVE k = c
  <2>1. ~(k < c)
    <3>1. k < c => k \in p+1..c-1
      BY <1>1, <1>2
    <3> QED BY <1>4, <1>5, <3>1
  <2>2. ~(c < k)
    <3>1. c < k => c \in p+1..k-1
      BY <1>1, <1>2
    <3> QED BY <1>3, <1>5, <3>1
  <2> QED BY <1>1, <1>2, <2>1, <2>2
<1> QED BY <1>2, <1>3, <1>4, <1>5 DEF NextComponent

(* Each branch of the loop that goes on has read as far as it says.        *)
LEMMA ReadAsterisk ==
  ASSUME NEW e, NEW n \in Nat, n = Len(e), NEW i, NEW m \in Nat, NEW p, NEW q,
         ReadTo(e, n, i, m, p, q), p <= n, e[p].type = "A"
  PROVE  ReadTo(e, n, i, m, p + 1, q)
<1>1. CASE NoGroup(e) /\ ReadStart(e, i, p, q, n + 1)
  <2>1. p \in 1..n
    BY <1>1 DEF ReadStart
  <2> QED BY <1>1, <2>1 DEF NoGroup
<1>2. ASSUME NEW a, NEW b, Groups(e, n, a, b), ReadStart(e, i, p, q, a + b + 1)
      PROVE  ReadTo(e, n, i, m, p + 1, q)
  <2>1. /\ a \in Nat /\ b \in Nat /\ b >= 1 /\ a + b + 2 <= n
        /\ \A j \in 1..a : e[j].type = "C"
        /\ \A j \in a+1..a+b : e[j].type = "O"
    BY <1>2, GroupTypes
  <2>2. p = q /\ p \in 1..a+b+1 /\ \A l \in 1..p-1 : e[l].value = i[l].value
    BY <1>2 DEF ReadStart
  <2>3. p = a + b + 1
    <3>1. p \in 1..a \/ p \in a+1..a+b \/ p = a + b + 1
      BY <2>1, <2>2
    <3> QED BY <2>1, <3>1
  <2>4. PICK r : r = p + 1
    OBVIOUS
  <2>5. /\ b \in 0..b /\ r \in a+b+2..n+1 /\ q = r - (b - b) - 1 /\ ~(b < b)
        /\ \A l \in 1..a+b : l \in 1..p-1
        /\ \A l \in a+b+2..r-1 : FALSE
    BY <2>1, <2>2, <2>3, <2>4
  <2>6. ReadPast(e, n, i, m, r, q, a, b, b)
    BY <2>2, <2>5 DEF ReadPast
  <2> QED BY <1>2, <2>4, <2>6 DEF ReadTo
<1>3. ASSUME NEW a, NEW b, NEW k, Groups(e, n, a, b), ReadPast(e, n, i, m, p, q, a, b, k)
      PROVE  FALSE
  <2>1. a \in Nat /\ b \in Nat /\ \A j \in a+b+2..n : e[j].type = "C"
    BY <1>3, GroupTypes
  <2>2. p \in a+b+2..n
    BY <1>3, <2>1 DEF ReadPast
  <2> QED BY <2>1, <2>2
<1> QED BY <1>1, <1>2, <1>3 DEF ReadTo

LEMMA ReadBoth ==
  ASSUME NEW e, NEW n \in Nat, n = Len(e), NEW i, NEW m \in Nat, NEW p, NEW q,
         ReadTo(e, n, i, m, p, q), p <= n, q <= m, e[p].type # "A", e[p].value = i[q].value
  PROVE  ReadTo(e, n, i, m, p + 1, q + 1)
<1>1. PICK r, s : r = p + 1 /\ s = q + 1
  OBVIOUS
<1>2. q \in 1..m /\ s \in 1..m+1
  BY <1>1 DEF ReadTo
<1>3. ASSUME NEW limit \in Nat, ReadStart(e, i, p, q, limit), p + 1 <= limit
      PROVE  ReadStart(e, i, r, s, limit)
  <2>1. p = q /\ p \in 1..limit /\ \A l \in 1..p-1 : e[l].value = i[l].value
    BY <1>3 DEF ReadStart
  <2>2. r = s /\ r \in 1..limit /\ \A l \in 1..r-1 : l \in 1..p-1 \/ l = p
    BY <1>1, <1>3, <2>1
  <2> QED BY <2>1, <2>2 DEF ReadStart
<1>4. CASE NoGroup(e) /\ ReadStart(e, i, p, q, n + 1)
  <2>1. p + 1 <= n + 1 /\ n + 1 \in Nat
    BY <1>4 DEF ReadStart
  <2>2. ReadStart(e, i, r, s, n + 1)
    BY <1>3, <1>4, <2>1
  <2> QED BY <1>1, <1>2, <1>4, <2>2 DEF ReadTo
<1>5. ASSUME NEW a, NEW b, Groups(e, n, a, b), ReadStart(e, i, p, q, a + b + 1)
      PROVE  ReadTo(e, n, i, m, r, s)
  <2>1. PICK c : c = a + b + 1
    OBVIOUS
  <2>2. a \in Nat /\ b \in Nat /\ e[c].type = "A"
    BY <1>5, <2>1, GroupTypes
  <2>3. c \in Nat /\ p + 1 <= c
    <3>1. p \in 1..c /\ p # c
      BY <1>5, <2>1, <2>2 DEF ReadStart
    <3> QED BY <2>1, <2>2, <3>1
  <2>4. ReadStart(e, i, r, s, c)
    BY <1>3, <1>5, <2>1, <2>3
  <2> QED BY <1>2, <1>5, <2>1, <2>4 DEF ReadTo
<1>6. ASSUME NEW a, NEW b, NEW k, Groups(e, n, a, b), ReadPast(e, n, i, m, p, q, a, b, k)
      PROVE  ReadTo(e, n, i, m, r, s)
  <2>1. a \in Nat /\ b \in Nat
    BY <1>6, GroupTypes
  <2>2. /\ k \in 0..b /\ p \in a+b+2..n+1 /\ q = p - (b - k) - 1
        /\ \A l \in 1..a+k : e[l].value = i[l].value
        /\ \A l \in a+b+2..p-1 : e[l].value = i[l - (b - k) - 1].value
        /\ k < b => a + k + 1 <= m /\ e[a+k+1].value # i[a+k+1].value
    BY <1>6 DEF ReadPast
  <2>3. /\ r \in a+b+2..n+1 /\ s = r - (b - k) - 1
        /\ \A l \in a+b+2..r-1 : l \in a+b+2..p-1 \/ l = p
    <3>1. k \in 0..b /\ p \in a+b+2..n+1 /\ q = p - (b - k) - 1
      BY <2>2
    <3> QED BY <1>1, <2>1, <3>1
  <2>4. \A l \in a+b+2..r-1 : e[l].value = i[l - (b - k) - 1].value
    BY <2>2, <2>3
  <2>5. ReadPast(e, n, i, m, r, s, a, b, k)
    BY <2>2, <2>3, <2>4 DEF ReadPast
  <2> QED BY <1>2, <1>6, <2>5 DEF ReadTo
<1> QED BY <1>1, <1>4, <1>5, <1>6 DEF ReadTo

LEMMA ReadSkip ==
  ASSUME NEW e, NEW n \in Nat, n = Len(e), NEW i, NEW m \in Nat, NEW p, NEW q,
         ReadTo(e, n, i, m, p, q), p <= n, q <= m, e[p].type = "O", e[p].value # i[q].value
  PROVE  ReadTo(e, n, i, m, NextComponent(e, p), q)
<1>1. q \in 1..m+1
  BY DEF ReadTo
<1>2. CASE NoGroup(e) /\ ReadStart(e, i, p, q, n + 1)
  <2>1. p \in 1..n
    BY <1>2 DEF ReadStart
  <2> QED BY <1>2, <2>1 DEF NoGroup
<1>3. ASSUME NEW a, NEW b, Groups(e, n, a, b), ReadStart(e, i, p, q, a + b + 1)
      PROVE  ReadTo(e, n, i, m, NextComponent(e, p), q)
  <2>1. /\ a \in Nat /\ b \in Nat /\ b >= 1 /\ a + b + 2 <= n
        /\ \A j \in 1..a : e[j].type = "C"
        /\ e[a+b+1].type = "A"
    BY <1>3, GroupTypes
  <2>2. p = q /\ p \in 1..a+b+1 /\ \A l \in 1..p-1 : e[l].value = i[l].value
    BY <1>3 DEF ReadStart
  <2>3. p \in a+1..a+b
    <3>1. p \in 1..a \/ p \in a+1..a+b \/ p = a + b + 1
      BY <2>1, <2>2
    <3> QED BY <2>1, <3>1
  <2>4. PICK k, r : k = p - a - 1 /\ r = a + b + 2
    OBVIOUS
  <2>5. /\ k \in 0..b /\ k < b /\ r \in a+b+2..n+1 /\ q = r - (b - k) - 1 /\ a + k + 1 = p
        /\ \A l \in 1..a+k : l \in 1..p-1
        /\ \A l \in a+b+2..r-1 : FALSE
    BY <2>1, <2>2, <2>3, <2>4
  <2>6. a + k + 1 <= m /\ e[a+k+1].value # i[a+k+1].value
    BY <2>2, <2>5
  <2>7. ReadPast(e, n, i, m, r, q, a, b, k)
    BY <2>2, <2>5, <2>6 DEF ReadPast
  <2>8. NextComponent(e, p) = r
    BY <1>3, <2>3, <2>4, GroupNext
  <2> QED BY <1>1, <1>3, <2>7, <2>8 DEF ReadTo
<1>4. ASSUME NEW a, NEW b, NEW k, Groups(e, n, a, b), ReadPast(e, n, i, m, p, q, a, b, k)
      PROVE  FALSE
  <2>1. a \in Nat /\ b \in Nat /\ \A j \in a+b+2..n : e[j].type = "C"
    BY <1>4, GroupTypes
  <2>2. p \in a+b+2..n
    BY <1>4, <2>1 DEF ReadPast
  <2> QED BY <2>1, <2>2
<1> QED BY <1>2, <1>3, <1>4 DEF ReadTo
-----------------------------------------------------------------------------
(* A subscription that was read to its end has found one of its names.     *)
LEMMA ReadAll ==
  ASSUME NEW e, NEW n \in Nat, n = Len(e), DOMAIN e = 1..n, NEW i, NEW m \in Nat, DOMAIN i = 1..m,
         NEW p, NEW q, p = n + 1, ReadTo(e, n, i, m, p, q)
  PROVE  StandsFor(e, i)
<1>1. q \in 1..m+1
  BY DEF ReadTo
<1>2. CASE NoGroup(e) /\ ReadStart(e, i, p, q, n + 1)
  <2>1. q = n + 1 /\ \A l \in 1..n : e[l].value = i[l].value
    BY <1>2 DEF ReadStart
  <2>2. n + n - n <= m /\ \A l \in n+1..n : FALSE
    BY <1>1, <2>1
  <2>3. Fits(e, n, i, m, n, n)
    BY <2>1, <2>2 DEF Fits
  <2> QED BY <1>2, <2>3, NoGroupStandsFor
<1>3. ASSUME NEW a, NEW b, Groups(e, n, a, b), ReadStart(e, i, p, q, a + b + 1)
      PROVE  FALSE
  <2>1. a \in Nat /\ b \in Nat /\ a + b + 2 <= n
    BY <1>3, GroupTypes
  <2>2. p \in 1..a+b+1
    BY <1>3 DEF ReadStart
  <2> QED BY <2>1, <2>2
<1>4. ASSUME NEW a, NEW b, NEW k, Groups(e, n, a, b), ReadPast(e, n, i, m, p, q, a, b, k)
      PROVE  StandsFor(e, i)
  <2>1. a \in Nat /\ b \in Nat /\ a + b + 2 <= n
    BY <1>4, GroupTypes
  <2>2. /\ k \in 0..b /\ q = p - (b - k) - 1
        /\ \A l \in 1..a+k : e[l].value = i[l].value
        /\ \A l \in a+b+2..p-1 : e[l].value = i[l - (b - k) - 1].value
    BY <1>4 DEF ReadPast
  <2>3. PICK x, y : x = a + k /\ y = a + b + 1
    OBVIOUS
  <2>4. x + n - y <= m
    BY <1>1, <2>1, <2>2, <2>3
  <2>5. \A l \in y+1..n : e[l].value = i[l - (y - x)].value
    <3> SUFFICES ASSUME NEW l \in y+1..n PROVE e[l].value = i[l - (y - x)].value
      OBVIOUS
    <3>1. l \in a+b+2..p-1 /\ l - (y - x) = l - (b - k) - 1
      BY <2>1, <2>2, <2>3
    <3> QED BY <2>2, <3>1
  <2>6. Fits(e, n, i, m, x, y)
    BY <2>2, <2>3, <2>4, <2>5 DEF Fits
  <2> QED BY <1>4, <2>2, <2>3, <2>6, GroupStandsFor DEF Groups
<1> QED BY <1>2, <1>3, <1>4 DEF ReadTo

(* One that was not, and is stuck, stands for nothing that the publication *)
(* starts with: another number of options would not do.  It would put the  *)
(* component after the group where an option was met or missed.            *)
Stuck(e, i, m, p, q) == q = m + 1 \/ (e[p].type = "C" /\ e[p].value # i[q].value)

LEMMA StuckAtStart ==
  ASSUME NEW e, NEW n \in Nat, n = Len(e), NEW i, NEW m \in Nat, NEW p, NEW q, q \in 1..m+1,
         NEW a, NEW b, Groups(e, n, a, b), ReadStart(e, i, p, q, a + b + 1), Stuck(e, i, m, p, q),
         \A l \in a+1..a+b : e[l].value # e[a+b+2].value,
         NEW k \in 0..b, Fits(e, n, i, m, a + k, a + b + 1)
  PROVE  FALSE
<1>1. /\ a \in Nat /\ b \in Nat /\ b >= 1 /\ a + b + 2 <= n
      /\ \A j \in a+1..a+b : e[j].type = "O"
      /\ e[a+b+1].type = "A"
  BY GroupTypes
<1>2. p = q /\ p \in 1..a+b+1 /\ \A l \in 1..p-1 : e[l].value = i[l].value
  BY DEF ReadStart
<1>3. PICK x, y : x = a + k /\ y = a + b + 1
  OBVIOUS
<1>4. /\ x + n - y <= m
      /\ \A j \in 1..x : e[j].value = i[j].value
      /\ \A j \in y+1..n : e[j].value = i[j - (y - x)].value
  BY <1>3 DEF Fits
<1>5. CASE q = m + 1
  <2>1. PICK o, c : o = a + k + 1 /\ c = a + b + 2
    OBVIOUS
  <2>2. o \in 1..p-1 /\ o \in a+1..a+b /\ c \in y+1..n /\ c - (y - x) = o
    BY <1>1, <1>2, <1>3, <1>4, <1>5, <2>1
  <2>3. e[o].value = i[o].value /\ e[c].value = i[o].value
    BY <1>2, <1>4, <2>2
  <2> QED BY <2>1, <2>2, <2>3
<1>6. CASE e[p].type = "C" /\ e[p].value # i[q].value
  <2>1. p \in 1..a \/ p \in a+1..a+b \/ p = a + b + 1
    BY <1>1, <1>2
  <2>2. p \in 1..a
    BY <1>1, <1>6, <2>1
  <2>3. p \in 1..x
    BY <1>1, <1>3, <2>2
  <2> QED BY <1>2, <1>4, <1>6, <2>3
<1> QED BY <1>5, <1>6 DEF Stuck

LEMMA StuckPast ==
  ASSUME NEW e, NEW n \in Nat, n = Len(e), NEW i, NEW m \in Nat, NEW p, NEW q, q \in 1..m+1, p <= n,
         NEW a, NEW b, NEW r, Groups(e, n, a, b), ReadPast(e, n, i, m, p, q, a, b, r), Stuck(e, i, m, p, q),
         \A l \in a+1..a+b : e[l].value # e[a+b+2].value,
         NEW k \in 0..b, Fits(e, n, i, m, a + k, a + b + 1)
  PROVE  FALSE
<1>1. a \in Nat /\ b \in Nat /\ b >= 1 /\ a + b + 2 <= n
  BY GroupTypes
<1>2. /\ r \in 0..b /\ p \in a+b+2..n+1 /\ q = p - (b - r) - 1
      /\ \A l \in 1..a+r : e[l].value = i[l].value
      /\ r < b => e[a+r+1].value # i[a+r+1].value
  BY DEF ReadPast
<1>3. r \in 0..b /\ p \in a+b+2..n+1 /\ q = p - (b - r) - 1
  BY <1>2
<1>4. PICK x, y : x = a + k /\ y = a + b + 1
  OBVIOUS
<1>5. /\ x + n - y <= m
      /\ \A j \in 1..x : e[j].value = i[j].value
      /\ \A j \in y+1..n : e[j].value = i[j - (y - x)].value
  BY <1>4 DEF Fits
<1>6. x + n - y <= m
  BY <1>5
<1>7. CASE k = r
  <2>1. q \in 1..m /\ p \in y+1..n /\ p - (y - x) = q
    BY <1>1, <1>3, <1>4, <1>6, <1>7
  <2>2. e[p].value = i[q].value
    BY <1>5, <2>1
  <2> QED BY <2>1, <2>2 DEF Stuck
<1>8. CASE r < k
  <2>1. PICK o : o = a + r + 1
    OBVIOUS
  <2>2. o \in 1..x /\ r < b
    BY <1>1, <1>3, <1>4, <1>8, <2>1
  <2> QED BY <1>2, <1>5, <2>1, <2>2
<1>9. CASE k < r
  <2>1. PICK o, c : o = a + k + 1 /\ c = a + b + 2
    OBVIOUS
  <2>2. o \in 1..a+r /\ o \in a+1..a+b /\ c \in y+1..n /\ c - (y - x) = o
    BY <1>1, <1>3, <1>4, <1>9, <2>1
  <2>3. e[o].value = i[o].value /\ e[c].value = i[o].value
    BY <1>2, <1>5, <2>2
  <2> QED BY <2>1, <2>2, <2>3
<1> QED BY <1>3, <1>7, <1>8, <1>9

LEMMA ReadStuck ==
  ASSUME NEW e, NEW n \in Nat, n = Len(e), DOMAIN e = 1..n, NEW i, NEW m \in Nat, DOMAIN i = 1..m,
         NEW p, NEW q, ReadTo(e, n, i, m, p, q), p <= n, Stuck(e, i, m, p, q), Unambiguous(e)
  PROVE  ~StandsFor(e, i)
<1>1. q \in 1..m+1
  BY DEF ReadTo
<1>2. CASE NoGroup(e) /\ ReadStart(e, i, p, q, n + 1)
  <2>1. p = q /\ p \in 1..n
    BY <1>2 DEF ReadStart
  <2>2. ASSUME Fits(e, n, i, m, n, n) PROVE FALSE
    <3>1. n + n - n <= m /\ \A l \in 1..n : e[l].value = i[l].value
      BY <2>2 DEF Fits
    <3>2. n <= m
      BY <3>1
    <3>3. q # m + 1
      BY <2>1, <3>2
    <3> QED BY <2>1, <3>1, <3>3 DEF Stuck
  <2> QED BY <1>2, <2>2, NoGroupStandsFor
<1>3. ASSUME NEW a, NEW b, Groups(e, n, a, b),
             \/ ReadStart(e, i, p, q, a + b + 1)
             \/ \E k : ReadPast(e, n, i, m, p, q, a, b, k)
      PROVE  ~StandsFor(e, i)
  <2>1. /\ a \in Nat /\ b \in Nat /\ b >= 1 /\ a + b + 2 <= n
        /\ \A j \in a+1..a+b : e[j].type = "O"
    BY <1>3, GroupTypes
  <2>2. \A l \in a+1..a+b : e[l].value # e[a+b+2].value
    <3> SUFFICES ASSUME NEW l \in a+1..a+b PROVE e[l].value # e[a+b+2].value
      OBVIOUS
    <3>1. l \in Positions(e, "O")
      BY <2>1 DEF Positions
    <3>2. NextComponent(e, l) = a + b + 2
      BY <1>3, GroupNext
    <3> QED BY <3>1, <3>2 DEF Unambiguous
  <2>3. ASSUME NEW k \in 0..b PROVE ~Fits(e, n, i, m, a + k, a + b + 1)
    BY <1>1, <1>3, <2>2, <2>3, StuckAtStart, StuckPast
  <2> QED BY <1>3, <2>3, GroupStandsFor DEF Groups
<1> QED BY <1>2, <1>3 DEF ReadTo
-----------------------------------------------------------------------------
(* Both CDs are what they can be, and the loop has read them as it may.    *)
AreBlocks == entry \in Seq([type : {"C", "O", "A"}, value : STRING \cup {""}]) /\ input \in CdBlocks

IsRead == result = "running" => ReadTo(entry, Len(entry), input, Len(input), entryIt, inputIt)

MatchInv == AreBlocks /\ IsRead /\ MatchIsWhatItStandsFor

LEMMA MatchInitInv ==
  ASSUME MatchInit
  PROVE  MatchInv
<1>1. CASE IsLegal(uri) /\ result = "running" /\ entry = CdOf(uri) /\ input \in InputCds
  <2>1. PICK words, e, n, i, m : words = uri /\ e = entry /\ n = Len(e) /\ i = input /\ m = Len(i)
    OBVIOUS
  <2>2. words \in Seq(WordsOver(STRING)) /\ IsLegal(words) /\ e = CdOf(words)
    BY <1>1, <2>1, CdMatchAssumption DEF MatchInit, Uris, WordsOver
  <2>3. e \in BlocksOver(STRING) /\ (NoGroup(e) \/ \E a, b : Group(e, a, b) /\ a + b + 2 <= Len(e))
    BY <2>2, LegalUriShape
  <2>4. i \in CdBlocks
    BY <1>1, <2>1, CdMatchAssumption
  <2>5. n \in Nat /\ m \in Nat
    BY <2>1, <2>3, <2>4, LenProperties DEF BlocksOver, CdBlocks
  <2>6. 1 \in 1..m+1
    BY <2>5
  <2>7. ASSUME NoGroup(e) PROVE ReadTo(e, n, i, m, 1, 1)
    <3>1. ReadStart(e, i, 1, 1, n + 1)
      BY <2>5 DEF ReadStart
    <3> QED BY <2>6, <2>7, <3>1 DEF ReadTo
  <2>8. ASSUME \E a, b : Group(e, a, b) /\ a + b + 2 <= Len(e) PROVE ReadTo(e, n, i, m, 1, 1)
    <3>1. PICK a, b : Group(e, a, b) /\ a + b + 2 <= n
      BY <2>1, <2>8
    <3>2. a \in Nat /\ b \in Nat
      BY <3>1 DEF Group
    <3>3. ReadStart(e, i, 1, 1, a + b + 1)
      BY <3>2 DEF ReadStart
    <3>4. Groups(e, n, a, b)
      BY <3>1 DEF Groups
    <3> QED BY <2>6, <3>3, <3>4 DEF ReadTo
  <2>9. ReadTo(e, n, i, m, 1, 1)
    BY <2>3, <2>7, <2>8
  <2>10. entryIt = 1 /\ inputIt = 1
    BY DEF MatchInit
  <2>11. IsRead
    BY <2>1, <2>9, <2>10 DEF IsRead
  <2>12. AreBlocks
    BY <2>1, <2>3, <2>4 DEF AreBlocks, BlocksOver
  <2> QED BY <1>1, <2>11, <2>12 DEF MatchInv, MatchIsWhatItStandsFor
<1>2. CASE ~IsLegal(uri) /\ result = "illegal" /\ entry = <<>> /\ input = <<>>
  <2>1. AreBlocks
    BY <1>2 DEF AreBlocks, CdBlocks
  <2> QED BY <1>2, <2>1 DEF MatchInv, IsRead, MatchIsWhatItStandsFor
<1> QED BY <1>1, <1>2, Zenon DEF MatchInit

LEMMA MatchNextInv ==
  ASSUME MatchInv, [MatchNext]_matchVars
  PROVE  MatchInv'
<1>1. PICK e, n, i, m, p, q : /\ e = entry /\ n = Len(e) /\ i = input /\ m = Len(i)
                              /\ p = entryIt /\ q = inputIt
  OBVIOUS
<1>2. n \in Nat /\ DOMAIN e = 1..n /\ m \in Nat /\ DOMAIN i = 1..m
  <2>1. PICK E : e \in Seq(E)
    BY <1>1 DEF MatchInv, AreBlocks
  <2>2. PICK F : i \in Seq(F)
    BY <1>1 DEF MatchInv, AreBlocks, CdBlocks
  <2> QED BY <1>1, <2>1, <2>2, LenProperties
<1>3. entry' = e /\ input' = i
  BY <1>1, Zenon DEF MatchNext, matchVars, EntryEnd, InputEnd, SkipAsterisk, ProceedBoth,
                     SkipOptionals, ComponentDiffers
<1>4. AreBlocks'
  BY <1>1, <1>3 DEF MatchInv, AreBlocks
<1>5. CASE UNCHANGED matchVars
  BY <1>4, <1>5 DEF matchVars, MatchInv, IsRead, MatchIsWhatItStandsFor
<1>6. ASSUME result = "running" PROVE ReadTo(e, n, i, m, p, q)
  BY <1>1, <1>6 DEF MatchInv, IsRead
<1>7. CASE EntryEnd
  <2>1. p = n + 1 /\ result = "running" /\ result' = "match"
    BY <1>1, <1>7 DEF EntryEnd
  <2>2. StandsFor(e, i)
    BY <1>1, <1>2, <1>6, <2>1, ReadAll
  <2> QED BY <1>3, <1>4, <2>1, <2>2 DEF MatchInv, IsRead, MatchIsWhatItStandsFor
<1>8. CASE InputEnd
  <2>1. p <= n /\ q = m + 1 /\ result = "running" /\ result' = "no match"
    BY <1>1, <1>8 DEF InputEnd
  <2>2. Stuck(e, i, m, p, q)
    BY <2>1 DEF Stuck
  <2>3. Unambiguous(e) => ~StandsFor(e, i)
    BY <1>1, <1>2, <1>6, <2>1, <2>2, ReadStuck
  <2> QED BY <1>3, <1>4, <2>1, <2>3 DEF MatchInv, IsRead, MatchIsWhatItStandsFor
<1>9. CASE ComponentDiffers
  <2>1. p <= n /\ e[p].type = "C" /\ e[p].value # i[q].value /\ result = "running" /\ result' = "no match"
    BY <1>1, <1>9 DEF ComponentDiffers, InLoop, IsEqualValue
  <2>2. Stuck(e, i, m, p, q)
    BY <2>1 DEF Stuck
  <2>3. Unambiguous(e) => ~StandsFor(e, i)
    BY <1>1, <1>2, <1>6, <2>1, <2>2, ReadStuck
  <2> QED BY <1>3, <1>4, <2>1, <2>3 DEF MatchInv, IsRead, MatchIsWhatItStandsFor
<1>10. ASSUME result = "running", result' = result, ReadTo(e, n, i, m, entryIt', inputIt')
       PROVE  MatchInv'
  <2>1. IsRead'
    BY <1>1, <1>3, <1>10 DEF IsRead
  <2>2. MatchIsWhatItStandsFor'
    BY <1>10 DEF MatchIsWhatItStandsFor
  <2> QED BY <1>4, <2>1, <2>2 DEF MatchInv
<1>11. CASE SkipAsterisk
  <2>1. p <= n /\ e[p].type = "A" /\ entryIt' = p + 1 /\ inputIt' = q /\ result = "running" /\ result' = result
    BY <1>1, <1>11 DEF SkipAsterisk, InLoop
  <2>2. ReadTo(e, n, i, m, p + 1, q)
    BY <1>1, <1>2, <1>6, <2>1, ReadAsterisk
  <2> QED BY <1>10, <2>1, <2>2
<1>12. CASE ProceedBoth
  <2>1. /\ p <= n /\ q <= m /\ e[p].type # "A" /\ e[p].value = i[q].value
        /\ entryIt' = p + 1 /\ inputIt' = q + 1 /\ result = "running" /\ result' = result
    BY <1>1, <1>12 DEF ProceedBoth, InLoop, IsEqualValue
  <2>2. ReadTo(e, n, i, m, p + 1, q + 1)
    BY <1>1, <1>2, <1>6, <2>1, ReadBoth
  <2> QED BY <1>10, <2>1, <2>2
<1>13. CASE SkipOptionals
  <2>1. /\ p <= n /\ q <= m /\ e[p].type = "O" /\ e[p].value # i[q].value
        /\ entryIt' = NextComponent(e, p) /\ inputIt' = q /\ result = "running" /\ result' = result
    BY <1>1, <1>13 DEF SkipOptionals, InLoop, IsEqualValue
  <2>2. ReadTo(e, n, i, m, NextComponent(e, p), q)
    BY <1>1, <1>2, <1>6, <2>1, ReadSkip
  <2> QED BY <1>10, <2>1, <2>2
<1> QED BY <1>5, <1>7, <1>8, <1>9, <1>11, <1>12, <1>13 DEF MatchNext

LEMMA MatchInvariant == MatchSpec => []MatchInv
<1>1. MatchInit => MatchInv
  BY MatchInitInv
<1>2. MatchInv /\ [MatchNext]_matchVars => MatchInv'
  BY MatchNextInv
<1> QED BY <1>1, <1>2, PTL DEF MatchSpec

(***************************************************************************)
(* For all subscriptions and publications: what the loop accepts is one of *)
(* the names that the subscription stands for; and of an unambiguous one   *)
(* it misses none, although it never goes back.                            *)
(***************************************************************************)
THEOREM CdMatchIsWhatItStandsFor == MatchSpec => []MatchIsWhatItStandsFor
<1>1. MatchInv => MatchIsWhatItStandsFor
  BY DEF MatchInv
<1> QED BY <1>1, MatchInvariant, PTL
-----------------------------------------------------------------------------
(***************************************************************************)
(* The function of the router's model.                                     *)
(***************************************************************************)
Goes(f, e, i, p, q) ==
  \/ p = Len(e) + 1
  \/ /\ p <= Len(e)
     /\ q <= Len(i)
     /\ \/ /\ e[p].type = "A"
           /\ f[<<p + 1, q>>]
        \/ /\ e[p].type # "A"
           /\ IsEqualValue(e[p], i[q])
           /\ f[<<p + 1, q + 1>>]
        \/ /\ e[p].type = "O"
           /\ ~IsEqualValue(e[p], i[q])
           /\ f[<<NextComponent(e, p), q>>]

IsMatches(f, e, i) == f = [at \in (1..Len(e)+1) \X (1..Len(i)+1) |-> Goes(f, e, i, at[1], at[2])]

(* Where it is applied next, if it is.                                     *)
GoesOn(e, i, p, q) ==
  /\ p <= Len(e) /\ q <= Len(i)
  /\ e[p].type \in {"A", "O"} \/ e[p].value = i[q].value

Following(e, i, p, q) ==
  IF e[p].type = "A" THEN <<p + 1, q>>
  ELSE IF e[p].value = i[q].value THEN <<p + 1, q + 1>>
  ELSE <<NextComponent(e, p), q>>

LEMMA GoesIs ==
  ASSUME NEW f, NEW e, NEW i, NEW p, NEW q
  PROVE  Goes(f, e, i, p, q) <=>
           p = Len(e) + 1 \/ (GoesOn(e, i, p, q) /\ f[Following(e, i, p, q)])
<1>1. CASE e[p].type = "A"
  BY <1>1, Zenon DEF Goes, GoesOn, Following
<1>2. CASE e[p].type # "A" /\ e[p].value = i[q].value
  BY <1>2, Zenon DEF Goes, GoesOn, Following, IsEqualValue
<1>3. CASE e[p].type # "A" /\ e[p].value # i[q].value
  BY <1>3, Zenon DEF Goes, GoesOn, Following, IsEqualValue
<1> QED BY <1>1, <1>2, <1>3

IsAhead(to, p, n, m) == \E r \in 1..n+1 : \E s \in 1..m+1 : to = <<r, s>> /\ p < r

(* It is applied further on in the subscription.                           *)
LEMMA FollowingIs ==
  ASSUME NEW e, NEW n \in Nat, n = Len(e), NEW i, NEW m \in Nat, m = Len(i),
         NoGroup(e) \/ \E a, b : Groups(e, n, a, b),
         NEW p \in 1..n+1, NEW q \in 1..m+1, GoesOn(e, i, p, q)
  PROVE  IsAhead(Following(e, i, p, q), p, n, m)
<1>1. p \in 1..n /\ q \in 1..m
  BY DEF GoesOn
<1>2. CASE e[p].type = "A"
  <2>1. p + 1 \in 1..n+1 /\ p < p + 1 /\ Following(e, i, p, q) = <<p + 1, q>>
    BY <1>1, <1>2 DEF Following
  <2> QED BY <2>1 DEF IsAhead
<1>3. CASE e[p].type # "A" /\ e[p].value = i[q].value
  <2>1. p + 1 \in 1..n+1 /\ p < p + 1 /\ q + 1 \in 1..m+1 /\ Following(e, i, p, q) = <<p + 1, q + 1>>
    BY <1>1, <1>3 DEF Following
  <2> QED BY <2>1 DEF IsAhead
<1>4. CASE e[p].type # "A" /\ e[p].value # i[q].value
  <2>1. e[p].type = "O"
    BY <1>4 DEF GoesOn
  <2>2. ~NoGroup(e)
    BY <1>1, <2>1 DEF NoGroup
  <2>3. PICK a, b : Groups(e, n, a, b)
    BY <2>2
  <2>4. /\ a \in Nat /\ b \in Nat /\ b >= 1 /\ a + b + 2 <= n
        /\ \A j \in 1..a : e[j].type = "C"
        /\ \A j \in a+1..a+b : e[j].type = "O"
        /\ e[a+b+1].type = "A"
        /\ \A j \in a+b+2..n : e[j].type = "C"
    BY <2>3, GroupTypes
  <2>5. p \in a+1..a+b
    <3>1. p \in 1..a \/ p \in a+1..a+b \/ p = a + b + 1 \/ p \in a+b+2..n
      BY <1>1, <2>4
    <3> QED BY <2>1, <2>4, <3>1
  <2>6. PICK r : r = a + b + 2
    OBVIOUS
  <2>7. NextComponent(e, p) = r
    BY <2>3, <2>5, <2>6, GroupNext
  <2>8. r \in 1..n+1 /\ p < r
    BY <2>4, <2>5, <2>6
  <2>9. Following(e, i, p, q) = <<r, q>>
    BY <1>4, <2>7 DEF Following
  <2> QED BY <2>8, <2>9 DEF IsAhead
<1> QED BY <1>2, <1>3, <1>4

(* So there is such a function.                                            *)
LEMMA MatchesExists ==
  ASSUME NEW e, NEW n \in Nat, n = Len(e), NEW i, NEW m \in Nat, m = Len(i),
         NoGroup(e) \/ \E a, b : Groups(e, n, a, b)
  PROVE  \E f : IsMatches(f, e, i)
<1> DEFINE D == (1..n+1) \X (1..m+1)
           measure == [at \in D |-> n + 1 - at[1]]
           more == {at \in D : GoesOn(e, i, at[1], at[2])}
           next == [at \in more |-> Following(e, i, at[1], at[2])]
           base == [at \in D |-> at[1] = n + 1]
           step == [at \in D |-> [v \in BOOLEAN |-> v]]
<1>1. \A at \in D : at[1] \in 1..n+1 /\ at[2] \in 1..m+1
  OBVIOUS
<1>2. \A at \in more : Following(e, i, at[1], at[2]) \in D /\ at[1] < Following(e, i, at[1], at[2])[1]
  <2> SUFFICES ASSUME NEW at \in more
               PROVE  Following(e, i, at[1], at[2]) \in D /\ at[1] < Following(e, i, at[1], at[2])[1]
    OBVIOUS
  <2>1. PICK p, q, to : p = at[1] /\ q = at[2] /\ to = Following(e, i, p, q)
    OBVIOUS
  <2>2. p \in 1..n+1 /\ q \in 1..m+1 /\ GoesOn(e, i, p, q)
    BY <1>1, <2>1
  <2>3. PICK r \in 1..n+1, s \in 1..m+1 : to = <<r, s>> /\ p < r
    <3>1. IsAhead(to, p, n, m)
      BY <2>1, <2>2, FollowingIs
    <3> QED BY <3>1 DEF IsAhead
  <2> QED BY <2>1, <2>3
<1>3. measure \in [D -> 0..n]
  <2>1. \A at \in D : n + 1 - at[1] \in 0..n
    BY <1>1
  <2> HIDE DEF D
  <2> QED BY <2>1
<1>4. more \in SUBSET D /\ next \in [more -> D]
  BY <1>2, Zenon
<1>5. \A at \in more : measure[next[at]] < measure[at]
  <2> SUFFICES ASSUME NEW at \in more PROVE measure[next[at]] < measure[at]
    OBVIOUS
  <2>1. PICK to, p, r : to = Following(e, i, at[1], at[2]) /\ p = at[1] /\ r = to[1]
    OBVIOUS
  <2>2. at \in D /\ to \in D /\ p < r /\ next[at] = to
    BY <1>2, <2>1, Zenon
  <2>3. p \in 1..n+1 /\ r \in 1..n+1
    BY <1>1, <2>1, <2>2
  <2>4. measure[at] = n + 1 - p /\ measure[to] = n + 1 - r
    BY <2>1, <2>2, Zenon
  <2>5. n + 1 - r < n + 1 - p
    BY <2>2, <2>3
  <2> QED BY <2>2, <2>4, <2>5
<1>6. base \in [D -> BOOLEAN] /\ step \in [D -> [BOOLEAN -> BOOLEAN]]
  BY Zenon
<1>7. PICK f \in [D -> BOOLEAN] : Recursion(f, D, more, next, base, step)
  <2> HIDE DEF D, measure, more, next, base, step
  <2> QED BY <1>3, <1>4, <1>5, <1>6, RecursionExists
<1>8. ASSUME NEW at \in D PROVE f[at] = Goes(f, e, i, at[1], at[2])
  <2>1. f[at] = IF at \in more THEN step[at][f[next[at]]] ELSE base[at]
    BY <1>7, Zenon DEF Recursion
  <2>2. Goes(f, e, i, at[1], at[2]) <=>
          at[1] = n + 1 \/ (GoesOn(e, i, at[1], at[2]) /\ f[Following(e, i, at[1], at[2])])
    BY GoesIs
  <2>3. CASE at \in more
    <3>1. next[at] \in D /\ next[at] = Following(e, i, at[1], at[2]) /\ GoesOn(e, i, at[1], at[2])
      BY <1>2, <2>3, Zenon
    <3>2. f[next[at]] \in BOOLEAN
      BY <1>7, <3>1, Zenon
    <3>3. step[at][f[next[at]]] = f[next[at]]
      BY <3>2, Zenon
    <3>4. at[1] # n + 1
      <4>1. at[1] <= n /\ at[1] \in 1..n+1
        BY <1>1, <3>1 DEF GoesOn
      <4> QED BY <4>1
    <3>5. Goes(f, e, i, at[1], at[2]) <=> f[next[at]]
      BY <2>2, <3>1, <3>4, Zenon
    <3>6. Goes(f, e, i, at[1], at[2]) \in BOOLEAN
      BY Zenon DEF Goes
    <3>7. f[at] = f[next[at]]
      BY <2>1, <2>3, <3>3, Zenon
    <3>8. f[next[at]] = Goes(f, e, i, at[1], at[2])
      BY <3>2, <3>5, <3>6, Zenon
    <3> QED BY <3>7, <3>8, Zenon
  <2>4. CASE at \notin more
    <3>1. Goes(f, e, i, at[1], at[2]) <=> at[1] = n + 1
      BY <2>2, <2>4, Zenon
    <3>2. Goes(f, e, i, at[1], at[2]) \in BOOLEAN
      BY Zenon DEF Goes
    <3>3. f[at] = (at[1] = n + 1)
      BY <2>1, <2>4, Zenon
    <3> QED BY <3>1, <3>2, <3>3, Zenon
  <2> QED BY <2>3, <2>4
<1>9. f = [at \in D |-> Goes(f, e, i, at[1], at[2])]
  <2> HIDE DEF D
  <2> QED BY <1>7, <1>8, Zenon
<1> QED BY <1>9, Zenon DEF IsMatches

(* It matches where the loop goes on to match.                             *)
IsMatch(f, e, n, i, m) ==
  \A p \in 1..n+1 : \A q \in 1..m+1 :
    f[<<p, q>>] = (p = n + 1 \/ (GoesOn(e, i, p, q) /\ f[Following(e, i, p, q)]))

LEMMA MatchRegexIs ==
  ASSUME NEW e, NEW n \in Nat, n = Len(e), NEW i, NEW m \in Nat, m = Len(i),
         NoGroup(e) \/ \E a, b : Groups(e, n, a, b)
  PROVE  \E f : MatchRegex(e, i) = f[<<1, 1>>] /\ IsMatch(f, e, n, i, m)
<1>1. PICK f : f = CHOOSE g : IsMatches(g, e, i)
  OBVIOUS
<1>2. MatchRegex(e, i) = f[<<1, 1>>]
  BY <1>1, Zenon DEF MatchRegex, IsMatches, Goes
<1>3. IsMatches(f, e, i)
  BY <1>1, MatchesExists, Zenon
<1>4. ASSUME NEW p \in 1..n+1, NEW q \in 1..m+1
      PROVE  f[<<p, q>>] = (p = n + 1 \/ (GoesOn(e, i, p, q) /\ f[Following(e, i, p, q)]))
  <2>1. PICK at : at = <<p, q>>
    OBVIOUS
  <2>2. at \in (1..n+1) \X (1..m+1) /\ at[1] = p /\ at[2] = q
    BY <2>1
  <2>3. f[at] = Goes(f, e, i, at[1], at[2])
    BY <1>3, <2>2, Zenon DEF IsMatches
  <2>4. Goes(f, e, i, p, q) \in BOOLEAN
    BY Zenon DEF Goes
  <2>5. f[at] = Goes(f, e, i, p, q)
    BY <2>2, <2>3, Zenon
  <2>6. Goes(f, e, i, p, q) <=> p = n + 1 \/ (GoesOn(e, i, p, q) /\ f[Following(e, i, p, q)])
    BY GoesIs
  <2> QED BY <2>1, <2>4, <2>5, <2>6, Zenon
<1> QED BY <1>2, <1>4 DEF IsMatch
-----------------------------------------------------------------------------
LEMMA MatchIsBoolean ==
  ASSUME NEW f, NEW e, NEW n, NEW i, NEW m, IsMatch(f, e, n, i, m), NEW p \in 1..n+1, NEW q \in 1..m+1
  PROVE  f[<<p, q>>] \in BOOLEAN
  BY Zenon DEF IsMatch

LEMMA MatchGoesOn ==
  ASSUME NEW f, NEW e, NEW n, NEW i, NEW m, IsMatch(f, e, n, i, m), NEW p \in 1..n+1, NEW q \in 1..m+1,
         p # n + 1, GoesOn(e, i, p, q),
         NEW r \in 1..n+1, NEW s \in 1..m+1, Following(e, i, p, q) = <<r, s>>
  PROVE  f[<<p, q>>] = f[<<r, s>>]
<1>1. f[<<p, q>>] = (p = n + 1 \/ (GoesOn(e, i, p, q) /\ f[<<r, s>>]))
  BY Zenon DEF IsMatch
<1>2. PICK v, w : v = f[<<p, q>>] /\ w = f[<<r, s>>]
  OBVIOUS
<1>3. v \in BOOLEAN /\ w \in BOOLEAN
  BY <1>2, MatchIsBoolean
<1>4. v <=> w
  BY <1>1, <1>2, Zenon
<1>5. v = w
  BY <1>3, <1>4, Zenon
<1> QED BY <1>2, <1>5

LEMMA ReadRange ==
  ASSUME NEW e, NEW n \in Nat, n = Len(e), NEW i, NEW m \in Nat, NEW p, NEW q, ReadTo(e, n, i, m, p, q)
  PROVE  p \in 1..n+1 /\ q \in 1..m+1
<1>1. CASE ReadStart(e, i, p, q, n + 1)
  BY <1>1 DEF ReadTo, ReadStart
<1>2. ASSUME NEW a, NEW b, Groups(e, n, a, b), ReadStart(e, i, p, q, a + b + 1) PROVE p \in 1..n+1
  <2>1. a \in Nat /\ b \in Nat /\ a + b + 2 <= n
    BY <1>2, GroupTypes
  <2>2. p \in 1..a+b+1
    BY <1>2 DEF ReadStart
  <2> QED BY <2>1, <2>2
<1>3. ASSUME NEW a, NEW b, NEW k, Groups(e, n, a, b), ReadPast(e, n, i, m, p, q, a, b, k) PROVE p \in 1..n+1
  <2>1. a \in Nat /\ b \in Nat
    BY <1>3, GroupTypes
  <2>2. p \in a+b+2..n+1
    BY <1>3 DEF ReadPast
  <2> QED BY <2>1, <2>2
<1> QED BY <1>1, <1>2, <1>3 DEF ReadTo

(* The loop is where the function was applied, and ends with its value.    *)
AsMatches ==
  \A f : IsMatch(f, entry, Len(entry), input, Len(input)) =>
    /\ result = "running" => f[<<entryIt, inputIt>>] = f[<<1, 1>>]
    /\ result = "match" => f[<<1, 1>>] = TRUE
    /\ result = "no match" => f[<<1, 1>>] = FALSE

LEMMA AsMatchesStep ==
  ASSUME MatchInv, MatchInv', AsMatches, [MatchNext]_matchVars
  PROVE  AsMatches'
<1>1. PICK e, n, i, m, p, q, r, s : /\ e = entry /\ n = Len(e) /\ i = input /\ m = Len(i)
                                    /\ p = entryIt /\ q = inputIt /\ r = entryIt' /\ s = inputIt'
  OBVIOUS
<1>2. n \in Nat /\ m \in Nat
  <2>1. PICK E : e \in Seq(E)
    BY <1>1 DEF MatchInv, AreBlocks
  <2>2. PICK F : i \in Seq(F)
    BY <1>1 DEF MatchInv, AreBlocks, CdBlocks
  <2> QED BY <1>1, <2>1, <2>2, LenProperties
<1>3. entry' = e /\ input' = i
  BY <1>1, Zenon DEF MatchNext, matchVars, EntryEnd, InputEnd, SkipAsterisk, ProceedBoth,
                     SkipOptionals, ComponentDiffers
<1>4. ASSUME result = "running" PROVE p \in 1..n+1 /\ q \in 1..m+1
  BY <1>1, <1>2, <1>4, ReadRange DEF MatchInv, IsRead
<1>5. ASSUME result' = "running" PROVE r \in 1..n+1 /\ s \in 1..m+1
  <2>1. ReadTo(entry', Len(entry'), input', Len(input'), entryIt', inputIt')
    BY <1>5 DEF MatchInv, IsRead
  <2>2. ReadTo(e, n, i, m, r, s)
    BY <1>1, <1>3, <2>1
  <2> QED BY <1>1, <1>2, <2>2, ReadRange
<1> SUFFICES ASSUME NEW f, IsMatch(f, e, n, i, m)
             PROVE  /\ result' = "running" => f[<<r, s>>] = f[<<1, 1>>]
                    /\ result' = "match" => f[<<1, 1>>] = TRUE
                    /\ result' = "no match" => f[<<1, 1>>] = FALSE
  BY <1>1, <1>3 DEF AsMatches
<1>6. /\ result = "running" => f[<<p, q>>] = f[<<1, 1>>]
      /\ result = "match" => f[<<1, 1>>] = TRUE
      /\ result = "no match" => f[<<1, 1>>] = FALSE
  BY <1>1 DEF AsMatches
<1>7. CASE UNCHANGED matchVars
  BY <1>1, <1>6, <1>7 DEF matchVars
<1>8. CASE EntryEnd
  <2>1. p = n + 1 /\ result = "running" /\ result' = "match"
    BY <1>1, <1>8 DEF EntryEnd
  <2>2. f[<<p, q>>] = TRUE
    BY <1>4, <2>1, Zenon DEF IsMatch
  <2> QED BY <1>6, <2>1, <2>2
<1>9. ASSUME result = "running", result' = "no match", p <= n, ~GoesOn(e, i, p, q)
      PROVE  f[<<1, 1>>] = FALSE
  <2>1. p # n + 1
    <3>1. p <= n
      BY <1>9
    <3> QED BY <1>2, <3>1
  <2>2. f[<<p, q>>] = FALSE
    BY <1>4, <1>9, <2>1, Zenon DEF IsMatch
  <2> QED BY <1>6, <1>9, <2>2
<1>10. CASE InputEnd
  <2>1. p <= n /\ q = m + 1 /\ result = "running" /\ result' = "no match"
    BY <1>1, <1>10 DEF InputEnd
  <2>2. ~GoesOn(e, i, p, q)
    <3>1. ~(q <= m)
      <4>1. q = m + 1
        BY <2>1
      <4> QED BY <1>2, <4>1
    <3> QED BY <1>1, <3>1, Zenon DEF GoesOn
  <2> QED BY <1>9, <2>1, <2>2
<1>11. CASE ComponentDiffers
  <2>1. p <= n /\ e[p].type = "C" /\ e[p].value # i[q].value /\ result = "running" /\ result' = "no match"
    BY <1>1, <1>11 DEF ComponentDiffers, InLoop, IsEqualValue
  <2>2. ~GoesOn(e, i, p, q)
    BY <2>1 DEF GoesOn
  <2> QED BY <1>9, <2>1, <2>2
<1>12. ASSUME result = "running", result' = "running", p <= n, GoesOn(e, i, p, q), Following(e, i, p, q) = <<r, s>>
       PROVE  f[<<r, s>>] = f[<<1, 1>>]
  <2>1. p # n + 1
    <3>1. p <= n
      BY <1>12
    <3> QED BY <1>2, <3>1
  <2>2. f[<<p, q>>] = f[<<r, s>>]
    BY <1>4, <1>5, <1>12, <2>1, MatchGoesOn
  <2> QED BY <1>6, <1>12, <2>2
<1>13. CASE SkipAsterisk
  <2>1. /\ p <= n /\ q <= m /\ e[p].type = "A" /\ r = p + 1 /\ s = q
        /\ result = "running" /\ result' = "running"
    BY <1>1, <1>13 DEF SkipAsterisk, InLoop
  <2>2. GoesOn(e, i, p, q) /\ Following(e, i, p, q) = <<r, s>>
    BY <1>1, <2>1, Zenon DEF GoesOn, Following
  <2> QED BY <1>12, <2>1, <2>2
<1>14. CASE ProceedBoth
  <2>1. /\ p <= n /\ q <= m /\ e[p].type # "A" /\ e[p].value = i[q].value /\ r = p + 1 /\ s = q + 1
        /\ result = "running" /\ result' = "running"
    BY <1>1, <1>14 DEF ProceedBoth, InLoop, IsEqualValue
  <2>2. GoesOn(e, i, p, q) /\ Following(e, i, p, q) = <<r, s>>
    BY <1>1, <2>1, Zenon DEF GoesOn, Following
  <2> QED BY <1>12, <2>1, <2>2
<1>15. CASE SkipOptionals
  <2>1. /\ p <= n /\ q <= m /\ e[p].type = "O" /\ e[p].value # i[q].value
        /\ r = NextComponent(e, p) /\ s = q /\ result = "running" /\ result' = "running"
    BY <1>1, <1>15 DEF SkipOptionals, InLoop, IsEqualValue
  <2>2. e[p].type # "A"
    BY <2>1
  <2>3. GoesOn(e, i, p, q) /\ Following(e, i, p, q) = <<r, s>>
    BY <1>1, <2>1, <2>2, Zenon DEF GoesOn, Following
  <2> QED BY <1>12, <2>1, <2>3
<1> QED BY <1>7, <1>8, <1>10, <1>11, <1>13, <1>14, <1>15 DEF MatchNext

(* The loop and the function that stands for it in the router's model      *)
(* decide alike.                                                           *)
LEMMA InvComputes ==
  ASSUME EntryIsParsed, MatchInv, AsMatches
  PROVE  LoopComputesMatchRegex
<1> SUFFICES ASSUME result \in {"match", "no match"} PROVE (result = "match") = MatchRegex(entry, input)
  BY DEF LoopComputesMatchRegex
<1>1. PICK words, e, n, i, m : words = uri /\ e = entry /\ n = Len(e) /\ i = input /\ m = Len(i)
  OBVIOUS
<1>2. words \in Seq(WordsOver(STRING)) /\ IsLegal(words) /\ e = CdOf(words)
  BY <1>1 DEF EntryIsParsed, Uris, WordsOver
<1>3. e \in BlocksOver(STRING) /\ (NoGroup(e) \/ \E a, b : Group(e, a, b) /\ a + b + 2 <= Len(e))
  BY <1>2, LegalUriShape
<1>4. n \in Nat /\ m \in Nat
  BY <1>1, <1>3, LenProperties DEF BlocksOver, MatchInv, AreBlocks, CdBlocks
<1>5. NoGroup(e) \/ \E a, b : Groups(e, n, a, b)
  BY <1>1, <1>3 DEF Groups
<1>6. PICK f : MatchRegex(e, i) = f[<<1, 1>>] /\ IsMatch(f, e, n, i, m)
  BY <1>1, <1>4, <1>5, MatchRegexIs
<1>7. /\ result = "match" => f[<<1, 1>>] = TRUE
      /\ result = "no match" => f[<<1, 1>>] = FALSE
  BY <1>1, <1>6 DEF AsMatches
<1>8. CASE result = "match"
  BY <1>1, <1>6, <1>7, <1>8
<1>9. CASE result = "no match"
  BY <1>1, <1>6, <1>7, <1>9
<1> QED BY <1>8, <1>9

(***************************************************************************)
(* For all subscriptions and publications: the loop, with its iterators,   *)
(* returns what the function of the router's model says.                   *)
(***************************************************************************)
THEOREM CdMatchLoopComputesMatchRegex == MatchSpec => []LoopComputesMatchRegex
<1>1. MatchInit => AsMatches
  BY DEF MatchInit, AsMatches
<1>2. MatchInv /\ MatchInv' /\ AsMatches /\ [MatchNext]_matchVars => AsMatches'
  BY AsMatchesStep
<1>3. EntryIsParsed /\ MatchInv /\ AsMatches => LoopComputesMatchRegex
  BY InvComputes
<1> QED BY <1>1, <1>2, <1>3, MatchInvariant, EntryIsParsedInvariant, PTL DEF MatchSpec

-----------------------------------------------------------------------------
(***************************************************************************)
(* The order of elements: by type, length and rank.                        *)
(***************************************************************************)
ElementsOfTexts == [type : {"C", "O", "A"}, value : Texts]

IsKey(t, s, r) == t \in {8, 81, 82} /\ s \in Nat /\ r \in Nat /\ (s = 0 => r = RankOf[""])

LEMMA TextIs ==
  ASSUME NEW v \in Texts
  PROVE  LengthOf[v] \in Nat /\ RankOf[v] \in Nat /\ (LengthOf[v] = 0 => v = "")
<1>1. PICK n, r : n = LengthOf[v] /\ r = RankOf[v]
  OBVIOUS
<1>2. n \in 0..MaxLength /\ r \in Nat /\ (n = 0 => v = "")
  BY <1>1, CdOrderAssumption
<1>3. n \in Nat
  <2>1. MaxLength \in Nat
    BY DEF MaxLength
  <2>2. PICK m : m = MaxLength
    OBVIOUS
  <2>3. n \in 0..m
    BY <1>2, <2>2
  <2> QED BY <2>1, <2>2, <2>3
<1> QED BY <1>1, <1>2, <1>3

(* Two texts of the same length and rank are one.                          *)
LEMMA SameText ==
  ASSUME NEW v \in Texts, NEW w \in Texts, LengthOf[v] = LengthOf[w], RankOf[v] = RankOf[w]
  PROVE  v = w
  BY CdOrderAssumption

LEMMA TypeIs ==
  ASSUME NEW e, e.type \in {"C", "O", "A"}
  PROVE  \/ e.type = "C" /\ TypeCode(e) = 8
         \/ e.type = "O" /\ TypeCode(e) = 81
         \/ e.type = "A" /\ TypeCode(e) = 82
<1>1. PICK y, t : y = e.type /\ t = TypeCode(e)
  OBVIOUS
<1>2. y = "C" \/ y = "O" \/ y = "A"
  BY <1>1
<1>3. y = "C" => t = 8
  BY <1>1 DEF TypeCode
<1>4. y = "O" => t = 81
  BY <1>1 DEF TypeCode
<1>5. y = "A" => t = 82
  BY <1>1 DEF TypeCode
<1> QED BY Zenon, <1>1, <1>2, <1>3, <1>4, <1>5

(* Every element has a key: its type, length and rank.                     *)
LEMMA ElementIs ==
  ASSUME NEW e \in ElementsOfTexts
  PROVE  IsKey(TypeCode(e), ValueSize(e), ValueRank(e))
<1>1. PICK v, y : v = e.value /\ y = e.type
  OBVIOUS
<1>2. e.type \in {"C", "O", "A"} /\ v \in Texts
  BY <1>1 DEF ElementsOfTexts
<1>3. TypeCode(e) \in {8, 81, 82}
  BY <1>2, TypeIs
<1>4. LengthOf[v] \in Nat /\ RankOf[v] \in Nat /\ (LengthOf[v] = 0 => v = "")
  BY <1>2, TextIs
<1>5. ValueSize(e) = LengthOf[v] /\ ValueRank(e) = RankOf[v]
  BY Zenon, <1>1 DEF ValueSize, ValueRank
<1>6. PICK t, s, r : t = TypeCode(e) /\ s = ValueSize(e) /\ r = ValueRank(e)
  OBVIOUS
<1>7. IsKey(t, s, r)
  BY <1>3, <1>4, <1>5, <1>6 DEF IsKey
<1> QED BY <1>6, <1>7

(* What is told apart by nothing is one element.                           *)
LEMMA SameElement ==
  ASSUME NEW a \in ElementsOfTexts, NEW b \in ElementsOfTexts,
         TypeCode(a) = TypeCode(b), ValueSize(a) = ValueSize(b), ValueRank(a) = ValueRank(b)
  PROVE  a = b
<1>1. PICK v, w, y, z : v = a.value /\ w = b.value /\ y = a.type /\ z = b.type
  OBVIOUS
<1>2. y \in {"C", "O", "A"} /\ z \in {"C", "O", "A"} /\ v \in Texts /\ w \in Texts
  BY <1>1 DEF ElementsOfTexts
<1>3. a = [type |-> y, value |-> v] /\ b = [type |-> z, value |-> w]
  BY <1>1 DEF ElementsOfTexts
<1>4. LengthOf[v] = LengthOf[w] /\ RankOf[v] = RankOf[w]
  BY Zenon, <1>1 DEF ValueSize, ValueRank
<1>5. v = w
  BY <1>2, <1>4, SameText
<1>6. PICK t, u : t = TypeCode(a) /\ u = TypeCode(b)
  OBVIOUS
<1>7. (y = "C" /\ t = 8) \/ (y = "O" /\ t = 81) \/ (y = "A" /\ t = 82)
  BY <1>1, <1>2, <1>6, TypeIs
<1>8. (z = "C" /\ u = 8) \/ (z = "O" /\ u = 81) \/ (z = "A" /\ u = 82)
  BY <1>1, <1>2, <1>6, TypeIs
<1>9. t = u
  BY <1>6
<1>10. y = z
  BY <1>7, <1>8, <1>9
<1> QED BY Zenon, <1>3, <1>5, <1>10

(* The octets of an element, by its key.                                   *)
WireOf(t, s, r) == VarNumber(t) \o VarNumber(s) \o (IF s > 0 THEN <<r>> ELSE <<>>)

WireIs(w, t, s, r) ==
  /\ w[1] = t
  /\ s = 0 => Len(w) = 2 /\ w[2] = 0
  /\ s \in 1..252 => Len(w) = 3 /\ w[2] = s /\ w[3] = r
  /\ s > 252 => Len(w) = 5 /\ w[2] = 253 /\ w[3] = s \div 256 /\ w[4] = s % 256 /\ w[5] = r

LEMMA OneIs ==
  ASSUME NEW X, NEW a, NEW w, a \in X, w = <<a>>
  PROVE  w \in Seq(X) /\ Len(w) = 1 /\ w[1] = a
  OBVIOUS

LEMMA ThreeAre ==
  ASSUME NEW X, NEW a, NEW b, NEW c, NEW w, a \in X, b \in X, c \in X, w = <<a, b, c>>
  PROVE  w \in Seq(X) /\ Len(w) = 3 /\ w[1] = a /\ w[2] = b /\ w[3] = c
  OBVIOUS

(* What stands where in the octets of an element.                          *)
LEMMA ThreeParts ==
  ASSUME NEW X, NEW a, NEW t, NEW u, NEW w, NEW n, NEW m,
         a \in X, t \in Seq(X), u \in Seq(X), w = (<<a>> \o t) \o u, n = Len(t), m = Len(u)
  PROVE  /\ Len(w) = 1 + n + m
         /\ w[1] = a
         /\ \A i \in 1..n : w[1 + i] = t[i]
         /\ \A i \in 1..m : w[1 + n + i] = u[i]
<1>1. PICK h, v : h = <<a>> /\ v = h \o t /\ w = v \o u
  OBVIOUS
<1>2. h \in Seq(X) /\ Len(h) = 1 /\ h[1] = a /\ n \in Nat /\ m \in Nat
  BY <1>1, LenProperties
<1>3. v \in Seq(X) /\ Len(v) = 1 + n /\ \A i \in 1..1+n : v[i] = IF i <= 1 THEN h[i] ELSE t[i - 1]
  BY <1>1, <1>2, ConcatProperties
<1>4. Len(w) = 1 + n + m /\ \A i \in 1..1+n+m : w[i] = IF i <= 1 + n THEN v[i] ELSE u[i - (1 + n)]
  BY <1>1, <1>2, <1>3, ConcatProperties
<1>5. w[1] = a
  <2>1. 1 \in 1..1+n /\ 1 \in 1..1+n+m /\ 1 <= 1 + n
    BY <1>2
  <2> QED BY <1>2, <1>3, <1>4, <2>1
<1>6. ASSUME NEW i \in 1..n PROVE w[1 + i] = t[i]
  <2>1. PICK j : j = 1 + i
    OBVIOUS
  <2>2. j \in 1..1+n /\ j \in 1..1+n+m /\ j <= 1 + n /\ ~(j <= 1) /\ j - 1 = i
    BY <1>2, <2>1
  <2>3. w[j] = v[j] /\ v[j] = t[j - 1]
    BY <1>3, <1>4, <2>2
  <2> QED BY <2>1, <2>2, <2>3
<1>7. ASSUME NEW i \in 1..m PROVE w[1 + n + i] = u[i]
  <2>1. PICK j : j = 1 + n + i
    OBVIOUS
  <2>2. j \in 1..1+n+m /\ ~(j <= 1 + n) /\ j - (1 + n) = i
    BY <1>2, <2>1
  <2>3. w[j] = u[j - (1 + n)]
    BY <1>4, <2>2
  <2> QED BY <2>1, <2>2, <2>3
<1> QED BY <1>4, <1>5, <1>6, <1>7

LEMMA WireOfKey ==
  ASSUME NEW t, NEW s, NEW r, IsKey(t, s, r)
  PROVE  WireIs(WireOf(t, s, r), t, s, r)
<1>1. t \in {8, 81, 82} /\ s \in Nat /\ r \in Nat
  BY DEF IsKey
<1>2. PICK size, rank, w, n, m :
        /\ size = VarNumber(s) /\ rank = (IF s > 0 THEN <<r>> ELSE <<>>)
        /\ w = (<<t>> \o size) \o rank /\ n = Len(size) /\ m = Len(rank)
  OBVIOUS
<1>3. VarNumber(t) = <<t>>
  BY <1>1 DEF VarNumber
<1>4. WireOf(t, s, r) = w
  BY Zenon, <1>2, <1>3 DEF WireOf
<1>5. PICK high, low : high = s \div 256 /\ low = s % 256
  OBVIOUS
<1>6. high \in Int /\ low \in Int /\ t \in Int /\ s \in Int /\ r \in Int /\ 253 \in Int
  BY <1>1, <1>5
<1>7. ASSUME s < 253 PROVE size \in Seq(Int) /\ n = 1 /\ size[1] = s
  <2>1. size = <<s>>
    BY Zenon, <1>2, <1>7 DEF VarNumber
  <2> QED BY <1>2, <1>6, <2>1, OneIs
<1>8. ASSUME ~(s < 253)
      PROVE  size \in Seq(Int) /\ n = 3 /\ size[1] = 253 /\ size[2] = high /\ size[3] = low
  <2>1. size = <<253, high, low>>
    BY Zenon, <1>2, <1>5, <1>8 DEF VarNumber
  <2> HIDE <1>5
  <2> QED BY <1>2, <1>6, <2>1, ThreeAre
<1>9. ASSUME s > 0 PROVE rank \in Seq(Int) /\ m = 1 /\ rank[1] = r
  <2>1. rank = <<r>>
    BY Zenon, <1>2, <1>9
  <2> QED BY <1>2, <1>6, <2>1, OneIs
<1>10. ASSUME ~(s > 0) PROVE rank \in Seq(Int) /\ m = 0
  <2>1. rank = <<>>
    BY Zenon, <1>2, <1>10
  <2> QED BY <1>2, <2>1
<1>11. size \in Seq(Int) /\ rank \in Seq(Int)
  BY <1>7, <1>8, <1>9, <1>10
<1>12. /\ Len(w) = 1 + n + m /\ w[1] = t
       /\ \A i \in 1..n : w[1 + i] = size[i]
       /\ \A i \in 1..m : w[1 + n + i] = rank[i]
  BY <1>2, <1>6, <1>11, ThreeParts
<1>13. CASE s = 0
  <2>1. s < 253 /\ ~(s > 0) /\ ~(s \in 1..252) /\ ~(s > 252)
    BY <1>13
  <2>2. n = 1 /\ m = 0 /\ size[1] = s
    BY <1>7, <1>10, <2>1
  <2>3. 1 \in 1..n /\ 1 + 1 = 2 /\ 1 + n + m = 2
    BY <2>2
  <2>4. w[1 + 1] = size[1]
    BY <1>12, <2>3
  <2>5. Len(w) = 2 /\ w[1] = t /\ w[2] = 0
    BY <1>12, <1>13, <2>2, <2>3, <2>4
  <2> QED BY <1>4, <2>1, <2>5 DEF WireIs
<1>14. CASE s \in 1..252
  <2>1. s < 253 /\ s > 0 /\ ~(s = 0) /\ ~(s > 252)
    BY <1>14
  <2>2. n = 1 /\ m = 1 /\ size[1] = s /\ rank[1] = r
    BY <1>7, <1>9, <2>1
  <2>3. 1 \in 1..n /\ 1 \in 1..m /\ 1 + 1 = 2 /\ 1 + n + 1 = 3 /\ 1 + n + m = 3
    BY <2>2
  <2>4. w[1 + 1] = size[1] /\ w[1 + n + 1] = rank[1]
    BY <1>12, <2>3
  <2>5. Len(w) = 3 /\ w[1] = t /\ w[2] = s /\ w[3] = r
    BY <1>12, <2>2, <2>3, <2>4
  <2> QED BY <1>4, <2>1, <2>5 DEF WireIs
<1>15. CASE s > 252
  <2>1. s > 0 /\ ~(s < 253) /\ ~(s = 0) /\ ~(s \in 1..252)
    BY <1>1, <1>15
  <2>2. n = 3 /\ m = 1
    BY <1>8, <1>9, <2>1
  <2>3. size[1] = 253 /\ size[2] = high /\ size[3] = low /\ rank[1] = r
    BY <1>8, <1>9, <2>1
  <2>4. /\ 1 \in 1..n /\ 2 \in 1..n /\ 3 \in 1..n /\ 1 \in 1..m
        /\ 1 + 1 = 2 /\ 1 + 2 = 3 /\ 1 + 3 = 4 /\ 1 + n + 1 = 5 /\ 1 + n + m = 5
    BY <2>2
  <2>5. w[1 + 1] = size[1] /\ w[1 + 2] = size[2] /\ w[1 + 3] = size[3] /\ w[1 + n + 1] = rank[1]
    BY <1>12, <2>4
  <2>6. Len(w) = 5 /\ w[1] = t /\ w[2] = 253 /\ w[3] = high /\ w[4] = low /\ w[5] = r
    BY <1>12, <2>3, <2>4, <2>5
  <2> QED BY Zenon, <1>4, <1>5, <2>1, <2>6 DEF WireIs
<1>16. s = 0 \/ s \in 1..252 \/ s > 252
  BY <1>1
<1> QED BY <1>13, <1>14, <1>15, <1>16

LEMMA WireOfElement ==
  ASSUME NEW e
  PROVE  Wire(e) = WireOf(TypeCode(e), ValueSize(e), ValueRank(e))
  BY Zenon DEF Wire, WireOf
-----------------------------------------------------------------------------
(***************************************************************************)
(* The first that differs decides.                                         *)
(***************************************************************************)
LEMMA MinIsFirst ==
  ASSUME NEW D, D \in SUBSET Nat, NEW p, p \in D, \A i \in D : p <= i
  PROVE  Min(D) = p
<1>1. PICK m : m = Min(D)
  OBVIOUS
<1>2. m = CHOOSE x \in D : \A y \in D : x =< y
  BY Zenon, <1>1 DEF Min
<1>3. m \in D /\ \A y \in D : m <= y
  BY Zenon, <1>2
<1>4. m <= p /\ p <= m
  BY <1>3
<1>5. m \in Nat /\ p \in Nat
  BY <1>3
<1> QED BY <1>1, <1>4, <1>5

LEMMA MinOfTwo ==
  ASSUME NEW m, NEW n, m \in Nat, n \in Nat
  PROVE  Min({m, n}) = IF m <= n THEN m ELSE n
<1>1. CASE m <= n
  <2>1. {m, n} \in SUBSET Nat /\ m \in {m, n} /\ \A i \in {m, n} : m <= i
    BY <1>1
  <2>2. Min({m, n}) = m
    BY <2>1, MinIsFirst
  <2> QED BY <1>1, <2>2
<1>2. CASE ~(m <= n)
  <2>1. {m, n} \in SUBSET Nat /\ n \in {m, n} /\ \A i \in {m, n} : n <= i
    BY <1>2
  <2>2. Min({m, n}) = n
    BY <2>1, MinIsFirst
  <2> QED BY <1>2, <2>2
<1> QED BY <1>1, <1>2

SameBefore(w, v, p) == \A i \in 1..p-1 : w[i] = v[i]

(* memcmp returns the difference of the first octets that differ.          *)
LEMMA MemcmpFirst ==
  ASSUME NEW w, NEW v, NEW n, NEW p, n \in Nat, p \in 1..n,
         NEW x, NEW y, x = w[p], y = v[p], x # y,
         SameBefore(w, v, p)
  PROVE  Memcmp(w, v, n) = x - y
<1>1. PICK D : D = {i \in 1..n : w[i] # v[i]}
  OBVIOUS
<1>2. p \in D /\ D \in SUBSET Nat
  BY <1>1
<1>3. \A i \in D : p <= i
  <2>1. TAKE i \in D
  <2>2. i \in 1..n /\ ~(w[i] = v[i])
    BY <1>1
  <2>3. ~(i \in 1..p-1)
    BY <2>2 DEF SameBefore
  <2> QED BY <2>2, <2>3
<1>4. Min(D) = p
  BY <1>2, <1>3, MinIsFirst
<1>5. D # {}
  BY <1>2
<1> QED BY Zenon, <1>1, <1>4, <1>5 DEF Memcmp

LEMMA MemcmpSame ==
  ASSUME NEW w, NEW n
  PROVE  Memcmp(w, w, n) = 0
<1>1. {i \in 1..n : w[i] # w[i]} = {}
  OBVIOUS
<1> QED BY Zenon, <1>1 DEF Memcmp

(***************************************************************************)
(* Octets are ordered as the keys they encode.                             *)
(***************************************************************************)
KeyLess(t, s, r, u, z, q) ==
  \/ t < u
  \/ t = u /\ s < z
  \/ t = u /\ s = z /\ r < q

Shorter(w, v) == Min({Len(w), Len(v)})

LEMMA KeyNumbers ==
  ASSUME NEW t, NEW s, NEW r, IsKey(t, s, r)
  PROVE  t \in Nat /\ s \in Nat /\ r \in Nat
<1>1. t \in {8, 81, 82} /\ s \in Nat /\ r \in Nat
  BY Zenon DEF IsKey
<1> QED BY <1>1

(* Of two keys one is less, or they are the same.                          *)
LEMMA KeysAreOrdered ==
  ASSUME NEW t, NEW s, NEW r, NEW u, NEW z, NEW q, IsKey(t, s, r), IsKey(u, z, q)
  PROVE  \/ KeyLess(t, s, r, u, z, q) /\ ~KeyLess(u, z, q, t, s, r)
         \/ ~KeyLess(t, s, r, u, z, q) /\ KeyLess(u, z, q, t, s, r)
         \/ /\ t = u /\ s = z /\ r = q
            /\ ~KeyLess(t, s, r, u, z, q) /\ ~KeyLess(u, z, q, t, s, r)
<1>1. t \in Nat /\ s \in Nat /\ r \in Nat /\ u \in Nat /\ z \in Nat /\ q \in Nat
  BY KeyNumbers
<1>2. CASE t < u
  BY <1>1, <1>2 DEF KeyLess
<1>3. CASE u < t
  BY <1>1, <1>3 DEF KeyLess
<1>4. CASE t = u /\ s < z
  BY <1>1, <1>4 DEF KeyLess
<1>5. CASE t = u /\ z < s
  BY <1>1, <1>5 DEF KeyLess
<1>6. CASE t = u /\ s = z
  BY <1>1, <1>6 DEF KeyLess
<1> QED BY <1>1, <1>2, <1>3, <1>4, <1>5, <1>6

Negative(c) == c \in Int /\ c < 0
Positive(c) == c \in Int /\ c > 0

(* The length is told by its first octet, whatever number of octets it has *)
LEMMA LowerWire ==
  ASSUME NEW t, NEW s, NEW r, NEW u, NEW z, NEW q, IsKey(t, s, r), IsKey(u, z, q),
         NEW w, NEW v, WireIs(w, t, s, r), WireIs(v, u, z, q), KeyLess(t, s, r, u, z, q)
  PROVE  Negative(Memcmp(w, v, Shorter(w, v))) /\ Positive(Memcmp(v, w, Shorter(v, w)))
<1>1. t \in Nat /\ s \in Nat /\ r \in Nat /\ u \in Nat /\ z \in Nat /\ q \in Nat
  BY KeyNumbers
<1>2. PICK m, n, k, l : m = Len(w) /\ n = Len(v) /\ k = Shorter(w, v) /\ l = Shorter(v, w)
  OBVIOUS
<1>3. (s = 0 /\ m = 2) \/ (s \in 1..252 /\ m = 3) \/ (s > 252 /\ m = 5)
  <2>1. s = 0 \/ s \in 1..252 \/ s > 252
    BY <1>1
  <2> QED BY Zenon, <1>2, <2>1 DEF WireIs
<1>4. (z = 0 /\ n = 2) \/ (z \in 1..252 /\ n = 3) \/ (z > 252 /\ n = 5)
  <2>1. z = 0 \/ z \in 1..252 \/ z > 252
    BY <1>1
  <2> QED BY Zenon, <1>2, <2>1 DEF WireIs
<1>5. m \in Nat /\ n \in Nat
  BY <1>3, <1>4
<1>6. k = (IF m <= n THEN m ELSE n) /\ l = (IF n <= m THEN n ELSE m)
  BY Zenon, <1>2, <1>5, MinOfTwo DEF Shorter
<1>7. k \in Nat /\ l = k /\ k <= m /\ k <= n /\ (k = m \/ k = n)
  BY <1>5, <1>6
<1>8. ASSUME NEW p \in 1..k, NEW x, NEW y, x = w[p], y = v[p], x \in Nat, y \in Nat, x < y,
             SameBefore(w, v, p)
      PROVE  Negative(Memcmp(w, v, k)) /\ Positive(Memcmp(v, w, k))
  <2>1. x # y /\ y # x /\ Negative(x - y) /\ Positive(y - x)
    BY <1>8 DEF Negative, Positive
  <2>5. k \in Nat
    BY <1>7
  <2>2. Memcmp(w, v, k) = x - y
    BY <2>5, <1>8, <2>1, MemcmpFirst
  <2>3. SameBefore(v, w, p)
    BY Zenon, <1>8 DEF SameBefore
  <2>4. Memcmp(v, w, k) = y - x
    BY <2>5, <1>8, <2>1, <2>3, MemcmpFirst
  <2> QED BY <2>1, <2>2, <2>4
<1>9. w[1] = t /\ v[1] = u
  BY DEF WireIs
<1>10. Negative(Memcmp(w, v, k)) /\ Positive(Memcmp(v, w, k))
  <2>1. CASE t < u
    <3>1. 1 \in 1..k /\ SameBefore(w, v, 1)
      BY <1>3, <1>4, <1>7 DEF SameBefore
    <3> QED BY Zenon, <1>1, <1>8, <1>9, <2>1, <3>1
  <2>2. CASE t = u /\ s < z
    <3>1. PICK x, y : x = w[2] /\ y = v[2]
      OBVIOUS
    <3>2. SameBefore(w, v, 2)
      BY <1>9, <2>2 DEF SameBefore
    <3>3. 2 \in 1..k
      BY <1>3, <1>4, <1>7
    <3>4. (s = 0 /\ x = 0) \/ (s \in 1..252 /\ x = s) \/ (s > 252 /\ x = 253 /\ m = 5)
      BY Zenon, <1>2, <1>3, <3>1 DEF WireIs
    <3>5. (z = 0 /\ y = 0) \/ (z \in 1..252 /\ y = z) \/ (z > 252 /\ y = 253 /\ n = 5)
      BY Zenon, <1>2, <1>4, <3>1 DEF WireIs
    <3>6. x \in Nat /\ y \in Nat /\ (x < y \/ (s > 252 /\ z > 252 /\ x = y /\ m = 5 /\ n = 5))
      BY <1>1, <2>2, <3>4, <3>5
    <3>7. CASE x < y
      BY Zenon, <1>8, <3>1, <3>2, <3>3, <3>6, <3>7
    <3>8. CASE s > 252 /\ z > 252 /\ x = y /\ m = 5 /\ n = 5
      <4>1. PICK a, b, c, d : a = w[3] /\ b = v[3] /\ c = w[4] /\ d = v[4]
        OBVIOUS
      <4>2. a = s \div 256 /\ c = s % 256
        BY Zenon, <3>8, <4>1 DEF WireIs
      <4>3. b = z \div 256 /\ d = z % 256
        BY Zenon, <3>8, <4>1 DEF WireIs
      <4>4. a \in Nat /\ b \in Nat /\ c \in Nat /\ d \in Nat /\ (a < b \/ (a = b /\ c < d))
        BY <1>1, <2>2, <4>2, <4>3
      <4>5. 3 \in 1..k /\ 4 \in 1..k
        BY <1>7, <3>8
      <4>6. SameBefore(w, v, 3)
        <5>1. SUFFICES ASSUME NEW i \in 1..3-1 PROVE w[i] = v[i]
          BY DEF SameBefore
        <5>2. i = 1 \/ i = 2
          OBVIOUS
        <5> QED BY Zenon, <1>9, <2>2, <3>1, <3>8, <5>2
      <4>7. CASE a < b
        BY Zenon, <1>8, <4>1, <4>4, <4>5, <4>6, <4>7
      <4>8. CASE a = b /\ c < d
        <5>1. SameBefore(w, v, 4)
          <6>1. SUFFICES ASSUME NEW i \in 1..4-1 PROVE w[i] = v[i]
            BY DEF SameBefore
          <6>2. i = 1 \/ i = 2 \/ i = 3
            OBVIOUS
          <6> QED BY Zenon, <1>9, <2>2, <3>1, <3>8, <4>1, <4>8, <6>2
        <5> QED BY Zenon, <1>8, <4>1, <4>4, <4>5, <4>8, <5>1
      <4> QED BY <4>4, <4>7, <4>8
    <3> QED BY <3>6, <3>7, <3>8
  <2>3. CASE t = u /\ s = z /\ r < q
    <3>1. ~(s = 0)
      <4>1. ASSUME s = 0 PROVE r = q
        BY Zenon, <2>3, <4>1 DEF IsKey
      <4> QED BY <1>1, <2>3, <4>1
    <3>2. CASE s \in 1..252
      <4>1. w[2] = s /\ w[3] = r /\ v[2] = s /\ v[3] = q
        BY Zenon, <2>3, <3>2 DEF WireIs
      <4>2. 3 \in 1..k
        BY <1>3, <1>4, <1>7, <2>3, <3>2
      <4>3. SameBefore(w, v, 3)
        <5>1. SUFFICES ASSUME NEW i \in 1..3-1 PROVE w[i] = v[i]
          BY DEF SameBefore
        <5>2. i = 1 \/ i = 2
          OBVIOUS
        <5> QED BY Zenon, <1>9, <2>3, <4>1, <5>2
      <4> QED BY Zenon, <1>1, <1>8, <2>3, <4>1, <4>2, <4>3
    <3>3. CASE s > 252
      <4>1. /\ w[2] = 253 /\ w[3] = s \div 256 /\ w[4] = s % 256 /\ w[5] = r
            /\ v[2] = 253 /\ v[3] = s \div 256 /\ v[4] = s % 256 /\ v[5] = q
        BY Zenon, <2>3, <3>3 DEF WireIs
      <4>2. 5 \in 1..k
        BY <1>3, <1>4, <1>7, <2>3, <3>3
      <4>3. SameBefore(w, v, 5)
        <5>1. SUFFICES ASSUME NEW i \in 1..5-1 PROVE w[i] = v[i]
          BY DEF SameBefore
        <5>2. i = 1 \/ i = 2 \/ i = 3 \/ i = 4
          OBVIOUS
        <5>3. w[1] = v[1] /\ w[2] = v[2] /\ w[3] = v[3] /\ w[4] = v[4]
          BY <1>9, <2>3, <4>1
        <5> QED BY Zenon, <5>2, <5>3
      <4>4. w[5] = r /\ v[5] = q
        BY <4>1
      <4> QED BY Zenon, <1>1, <1>8, <2>3, <4>2, <4>3, <4>4
    <3> QED BY <1>1, <3>1, <3>2, <3>3
  <2> QED BY <2>1, <2>2, <2>3 DEF KeyLess
<1> QED BY Zenon, <1>2, <1>7, <1>10
-----------------------------------------------------------------------------
(***************************************************************************)
(* Elements are ordered as their keys, and CDs as in a dictionary.         *)
(***************************************************************************)
Lower(a, b) == KeyLess(TypeCode(a), ValueSize(a), ValueRank(a), TypeCode(b), ValueSize(b), ValueRank(b))

(* What c says of two that may be the same.                                *)
Decided(c, same, less, greater) ==
  \/ Negative(c) /\ ~same /\ less /\ ~greater
  \/ Positive(c) /\ ~same /\ ~less /\ greater
  \/ c = 0 /\ same /\ ~less /\ ~greater

(* With octets or without, two elements are ordered by their keys.         *)
LEMMA CompareElementsIs ==
  ASSUME NEW a \in ElementsOfTexts, NEW b \in ElementsOfTexts, NEW h \in BOOLEAN
  PROVE  Decided(CompareElements(a, b, h), a = b, Lower(a, b), Lower(b, a))
<1>1. PICK t, s, r, u, z, q, c, d, w, v :
        /\ t = TypeCode(a) /\ s = ValueSize(a) /\ r = ValueRank(a)
        /\ u = TypeCode(b) /\ z = ValueSize(b) /\ q = ValueRank(b)
        /\ c = CompareWires(a, b) /\ d = CompareValues(a, b) /\ w = Wire(a) /\ v = Wire(b)
  OBVIOUS
<1>2. IsKey(t, s, r) /\ IsKey(u, z, q)
  BY Zenon, <1>1, ElementIs
<1>3. w = WireOf(t, s, r) /\ v = WireOf(u, z, q) /\ WireIs(w, t, s, r) /\ WireIs(v, u, z, q)
  BY Zenon, <1>1, <1>2, WireOfElement, WireOfKey
<1>4. c = Memcmp(w, v, Shorter(w, v))
  BY Zenon, <1>1 DEF CompareWires, Shorter
<1>5. d = IF t # u THEN t - u ELSE IF s # z THEN s - z ELSE r - q
  BY Zenon, <1>1 DEF CompareValues
<1>6. t \in Nat /\ s \in Nat /\ r \in Nat /\ u \in Nat /\ z \in Nat /\ q \in Nat
  BY <1>2, KeyNumbers
<1>7. CompareElements(a, b, h) = c \/ CompareElements(a, b, h) = d
  BY Zenon, <1>1 DEF CompareElements
<1>8. CASE KeyLess(t, s, r, u, z, q) /\ ~KeyLess(u, z, q, t, s, r)
  <2>1. Negative(c)
    BY Zenon, <1>2, <1>3, <1>4, <1>8, LowerWire
  <2>2. Negative(d)
    BY <1>5, <1>6, <1>8 DEF KeyLess, Negative
  <2>3. a # b
    BY Zenon, <1>1, <1>8
  <2>4. Lower(a, b) /\ ~Lower(b, a)
    BY Zenon, <1>1, <1>8 DEF Lower
  <2> QED BY Zenon, <1>7, <2>1, <2>2, <2>3, <2>4 DEF Decided
<1>9. CASE ~KeyLess(t, s, r, u, z, q) /\ KeyLess(u, z, q, t, s, r)
  <2>1. Positive(c)
    BY Zenon, <1>2, <1>3, <1>4, <1>9, LowerWire
  <2>2. Positive(d)
    BY <1>5, <1>6, <1>9 DEF KeyLess, Positive
  <2>3. a # b
    BY Zenon, <1>1, <1>9
  <2>4. ~Lower(a, b) /\ Lower(b, a)
    BY Zenon, <1>1, <1>9 DEF Lower
  <2> QED BY Zenon, <1>7, <2>1, <2>2, <2>3, <2>4 DEF Decided
<1>10. CASE /\ t = u /\ s = z /\ r = q
            /\ ~KeyLess(t, s, r, u, z, q) /\ ~KeyLess(u, z, q, t, s, r)
  <2>1. c = 0
    <3>1. w = v
      BY Zenon, <1>3, <1>10
    <3> QED BY Zenon, <1>4, <3>1, MemcmpSame
  <2>2. d = 0
    BY <1>5, <1>6, <1>10
  <2>3. a = b
    BY Zenon, <1>1, <1>10, SameElement
  <2>4. ~Lower(a, b) /\ ~Lower(b, a)
    BY Zenon, <1>1, <1>10 DEF Lower
  <2> QED BY Zenon, <1>7, <2>1, <2>2, <2>3, <2>4 DEF Decided
<1> QED BY Zenon, <1>2, <1>8, <1>9, <1>10, KeysAreOrdered

(* What are not equal have different octets.                               *)
LEMMA WiresTellApart ==
  ASSUME NEW a \in ElementsOfTexts, NEW b \in ElementsOfTexts
  PROVE  Wire(a) = Wire(b) <=> a = b
<1>1. ASSUME Wire(a) = Wire(b) PROVE a = b
  <2>1. CompareElements(a, b, TRUE) = Memcmp(Wire(a), Wire(b), Shorter(Wire(a), Wire(b)))
    BY Zenon DEF CompareElements, CompareWires, Shorter
  <2>2. CompareElements(a, b, TRUE) = 0
    BY Zenon, <1>1, <2>1, MemcmpSame
  <2>3. Decided(0, a = b, Lower(a, b), Lower(b, a))
    BY Zenon, <2>2, CompareElementsIs
  <2>4. ~Negative(0) /\ ~Positive(0)
    BY DEF Negative, Positive
  <2> QED BY Zenon, <2>3, <2>4 DEF Decided
<1> QED BY Zenon, <1>1
-----------------------------------------------------------------------------
(***************************************************************************)
(* CDs are ordered as in a dictionary.                                     *)
(***************************************************************************)
CdsOfTexts == Seq(ElementsOfTexts)

DictLess(a, b) ==
  \/ Len(a) < Len(b) /\ SameBefore(a, b, Len(a) + 1)
  \/ \E p \in 1..Len(a) : p <= Len(b) /\ SameBefore(a, b, p) /\ Lower(a[p], b[p])

LEMMA NotLowerThanItself ==
  ASSUME NEW e \in ElementsOfTexts
  PROVE  ~Lower(e, e)
<1>1. PICK t, s, r : t = TypeCode(e) /\ s = ValueSize(e) /\ r = ValueRank(e)
  OBVIOUS
<1>2. IsKey(t, s, r)
  BY Zenon, <1>1, ElementIs
<1>3. ~KeyLess(t, s, r, t, s, r)
  <2>1. t \in Nat /\ s \in Nat /\ r \in Nat
    BY <1>2, KeyNumbers
  <2> QED BY <2>1 DEF KeyLess
<1> QED BY Zenon, <1>1, <1>3 DEF Lower

(* The first elements that differ decide between two CDs.                  *)
LEMMA FirstDecides ==
  ASSUME NEW a \in CdsOfTexts, NEW b \in CdsOfTexts, NEW p \in 1..Len(a), p <= Len(b),
         SameBefore(a, b, p), a[p] # b[p], Lower(a[p], b[p]), ~Lower(b[p], a[p])
  PROVE  DictLess(a, b) /\ ~DictLess(b, a)
<1>1. PICK n, m : n = Len(a) /\ m = Len(b)
  OBVIOUS
<1>2. n \in Nat /\ m \in Nat /\ p \in 1..n /\ p \in 1..m
  BY <1>1, LenProperties DEF CdsOfTexts
<1>3. DictLess(a, b)
  BY Zenon DEF DictLess
<1>4. ASSUME DictLess(b, a) PROVE FALSE
  <2>1. CASE Len(b) < Len(a) /\ SameBefore(b, a, Len(b) + 1)
    <3>1. p \in 1..(m + 1)-1
      BY <1>2
    <3>2. b[p] = a[p]
      BY Zenon, <1>1, <2>1, <3>1 DEF SameBefore
    <3> QED BY Zenon, <3>2
  <2>2. ASSUME NEW q \in 1..Len(b), q <= Len(a), SameBefore(b, a, q), Lower(b[q], a[q]) PROVE FALSE
    <3>1. q \in 1..n /\ q \in 1..m
      BY <1>1, <1>2, <2>2
    <3>2. CASE q \in 1..p-1
      <4>1. a[q] = b[q]
        BY Zenon, <3>2 DEF SameBefore
      <4>2. a[q] \in ElementsOfTexts
        BY <1>1, <3>1, ElementOfSeq DEF CdsOfTexts
      <4> QED BY Zenon, <2>2, <4>1, <4>2, NotLowerThanItself
    <3>3. CASE p \in 1..q-1
      <4>1. b[p] = a[p]
        BY Zenon, <2>2, <3>3 DEF SameBefore
      <4> QED BY Zenon, <4>1
    <3>4. CASE p = q
      BY Zenon, <2>2, <3>4
    <3>5. q \in 1..p-1 \/ p \in 1..q-1 \/ p = q
      BY <1>2, <3>1
    <3> QED BY <3>2, <3>3, <3>4, <3>5
  <2> QED BY Zenon, <1>4, <2>1, <2>2 DEF DictLess
<1> QED BY <1>3, <1>4

(* If none differ it is the shorter one.                                   *)
LEMMA PrefixDecides ==
  ASSUME NEW a \in CdsOfTexts, NEW b \in CdsOfTexts, Len(a) <= Len(b), SameBefore(a, b, Len(a) + 1)
  PROVE  /\ ~DictLess(b, a)
         /\ Len(a) < Len(b) => DictLess(a, b) /\ a # b
         /\ Len(a) = Len(b) => a = b
<1>1. PICK n, m : n = Len(a) /\ m = Len(b)
  OBVIOUS
<1>2. n \in Nat /\ m \in Nat /\ n <= m /\ DOMAIN a = 1..n /\ DOMAIN b = 1..m
  BY <1>1, LenProperties DEF CdsOfTexts
<1>3. \A q \in 1..n : a[q] = b[q]
  <2>1. 1..(n+1)-1 = 1..n
    BY <1>2
  <2> QED BY Zenon, <1>1, <2>1 DEF SameBefore
<1>4. ASSUME DictLess(b, a) PROVE FALSE
  <2>1. ~(Len(b) < Len(a))
    BY <1>1, <1>2
  <2>2. ASSUME NEW q \in 1..Len(b), q <= Len(a), SameBefore(b, a, q), Lower(b[q], a[q]) PROVE FALSE
    <3>1. q \in 1..n
      BY <1>1, <1>2, <2>2
    <3>2. a[q] = b[q]
      BY Zenon, <1>3, <3>1
    <3>3. a[q] \in ElementsOfTexts
      BY <1>1, <3>1, ElementOfSeq DEF CdsOfTexts
    <3> QED BY Zenon, <2>2, <3>2, <3>3, NotLowerThanItself
  <2> QED BY Zenon, <1>4, <2>1, <2>2 DEF DictLess
<1>5. ASSUME Len(a) < Len(b) PROVE DictLess(a, b) /\ a # b
  <2>1. a # b
    <3>1. n # m
      BY <1>1, <1>2, <1>5
    <3> QED BY <1>1, <3>1
  <2> QED BY Zenon, <1>5, <2>1 DEF DictLess
<1>6. ASSUME Len(a) = Len(b) PROVE a = b
  <2>1. n = m
    BY <1>1, <1>6
  <2> QED BY <1>1, <1>2, <1>3, <2>1, SeqEqual DEF CdsOfTexts
<1> QED BY <1>4, <1>5, <1>6

(* So compare() is the order of a dictionary.                              *)
LEMMA CompareIs ==
  ASSUME NEW a \in CdsOfTexts, NEW b \in CdsOfTexts, NEW h \in BOOLEAN
  PROVE  Decided(Compare(a, b, h), a = b, DictLess(a, b), DictLess(b, a))
<1>1. PICK n, m, k, D, c : /\ n = Len(a) /\ m = Len(b) /\ k = Min({n, m}) /\ c = Compare(a, b, h)
                           /\ D = {i \in 1..k : CompareElements(a[i], b[i], h) # 0}
  OBVIOUS
<1>2. n \in Nat /\ m \in Nat /\ k \in Nat /\ k <= n /\ k <= m /\ (k = n \/ k = m)
  <2>1. n \in Nat /\ m \in Nat
    BY <1>1, LenProperties DEF CdsOfTexts
  <2>2. k = IF n <= m THEN n ELSE m
    BY Zenon, <1>1, <2>1, MinOfTwo
  <2> QED BY <2>1, <2>2
<1>3. c = IF D = {} THEN n - m ELSE CompareElements(a[Min(D)], b[Min(D)], h)
  BY Zenon, <1>1 DEF Compare
<1>4. ASSUME NEW i \in 1..k
      PROVE  /\ a[i] \in ElementsOfTexts /\ b[i] \in ElementsOfTexts
             /\ Decided(CompareElements(a[i], b[i], h), a[i] = b[i], Lower(a[i], b[i]), Lower(b[i], a[i]))
  <2>1. i \in 1..n /\ i \in 1..m
    BY <1>2
  <2>2. a[i] \in ElementsOfTexts /\ b[i] \in ElementsOfTexts
    BY <1>1, <2>1, ElementOfSeq DEF CdsOfTexts
  <2> QED BY Zenon, <2>2, CompareElementsIs
<1>5. ~Negative(0) /\ ~Positive(0)
  BY DEF Negative, Positive
<1>6. ASSUME NEW i \in 1..k PROVE i \in D <=> a[i] # b[i]
  <2>1. PICK x : x = CompareElements(a[i], b[i], h)
    OBVIOUS
  <2>2. x = 0 <=> a[i] = b[i]
    BY Zenon, <1>4, <1>5, <2>1 DEF Decided
  <2>3. i \in D <=> x # 0
    BY Zenon, <1>1, <2>1
  <2> QED BY Zenon, <2>2, <2>3
<1>7. CASE D = {}
  <2>1. \A i \in 1..k : a[i] = b[i]
    BY Zenon, <1>6, <1>7
  <2>2. CASE n <= m
    <3>1. k = n /\ 1..(n+1)-1 = 1..k
      BY <1>2, <2>2
    <3>2. SameBefore(a, b, Len(a) + 1)
      BY Zenon, <1>1, <2>1, <3>1 DEF SameBefore
    <3>3. /\ ~DictLess(b, a)
          /\ n < m => DictLess(a, b) /\ a # b
          /\ n = m => a = b
      BY Zenon, <1>1, <2>2, <3>2, PrefixDecides
    <3>4. CASE n < m
      <4>1. Negative(n - m)
        BY <1>2, <3>4 DEF Negative
      <4> QED BY Zenon, <1>1, <1>3, <1>7, <3>3, <3>4, <4>1 DEF Decided
    <3>5. CASE n = m
      <4>1. n - m = 0
        BY <1>2, <3>5
      <4>2. a = b
        BY <3>3, <3>5
      <4> QED BY Zenon, <1>1, <1>3, <1>7, <3>3, <4>1, <4>2 DEF Decided
    <3> QED BY <1>2, <2>2, <3>4, <3>5
  <2>3. CASE ~(n <= m)
    <3>1. k = m /\ 1..(m+1)-1 = 1..k /\ m <= n /\ m < n
      BY <1>2, <2>3
    <3>2. SameBefore(b, a, Len(b) + 1)
      BY Zenon, <1>1, <2>1, <3>1 DEF SameBefore
    <3>3. ~DictLess(a, b) /\ DictLess(b, a) /\ b # a
      BY Zenon, <1>1, <3>1, <3>2, PrefixDecides
    <3>4. Positive(n - m)
      BY <1>2, <3>1 DEF Positive
    <3> QED BY Zenon, <1>1, <1>3, <1>7, <3>3, <3>4 DEF Decided
  <2> QED BY <2>2, <2>3
<1>8. CASE D # {}
  <2>1. D \in SUBSET Nat
    BY <1>1, <1>2
  <2>2. PICK p \in D : \A i \in D : p <= i
    BY <1>8, <2>1, LeastExists
  <2>3. Min(D) = p
    BY <2>1, <2>2, MinIsFirst
  <2>4. p \in 1..k
    BY <1>1, <2>2
  <2>5. p \in 1..n /\ p \in 1..m /\ p <= n /\ p <= m
    BY <1>2, <2>4
  <2>6. a[p] # b[p]
    BY Zenon, <1>6, <2>2, <2>4
  <2>7. \A i \in 1..p-1 : a[i] = b[i]
    <3>1. SUFFICES ASSUME NEW i \in 1..p-1 PROVE a[i] = b[i]
      OBVIOUS
    <3>2. i \in 1..k /\ ~(p <= i)
      BY <1>2, <2>4
    <3>3. i \notin D
      BY Zenon, <2>2, <3>2
    <3> QED BY Zenon, <1>6, <3>2, <3>3
  <2>8. SameBefore(a, b, p) /\ SameBefore(b, a, p)
    BY Zenon, <2>7 DEF SameBefore
  <2>9. c = CompareElements(a[p], b[p], h)
    BY Zenon, <1>3, <1>8, <2>3
  <2>10. Decided(c, a[p] = b[p], Lower(a[p], b[p]), Lower(b[p], a[p]))
    BY Zenon, <1>4, <2>4, <2>9
  <2>11. a # b
    BY Zenon, <2>6
  <2>12. CASE Negative(c) /\ Lower(a[p], b[p]) /\ ~Lower(b[p], a[p])
    <3>1. DictLess(a, b) /\ ~DictLess(b, a)
      BY Zenon, <1>1, <2>5, <2>6, <2>8, <2>12, FirstDecides
    <3> QED BY Zenon, <1>1, <2>11, <2>12, <3>1 DEF Decided
  <2>13. CASE Positive(c) /\ ~Lower(a[p], b[p]) /\ Lower(b[p], a[p])
    <3>1. DictLess(b, a) /\ ~DictLess(a, b)
      BY Zenon, <1>1, <2>5, <2>6, <2>8, <2>13, FirstDecides
    <3> QED BY Zenon, <1>1, <2>11, <2>13, <3>1 DEF Decided
  <2> QED BY Zenon, <2>6, <2>10, <2>12, <2>13 DEF Decided
<1> QED BY <1>7, <1>8

LEMMA EqualsIs ==
  ASSUME NEW a \in CdsOfTexts, NEW b \in CdsOfTexts
  PROVE  Equals(a, b) <=> a = b
<1>1. PICK n, m : n = Len(a) /\ m = Len(b)
  OBVIOUS
<1>2. n \in Nat /\ m \in Nat
  BY <1>1, LenProperties DEF CdsOfTexts
<1>3. ASSUME Equals(a, b) PROVE a = b
  <2>1. n = m /\ \A i \in 1..n : Wire(a[i]) = Wire(b[i])
    BY Zenon, <1>1, <1>3 DEF Equals
  <2>2. ASSUME NEW i \in 1..n PROVE a[i] = b[i]
    <3>1. a[i] \in ElementsOfTexts /\ b[i] \in ElementsOfTexts
      BY <1>1, <2>1, ElementOfSeq DEF CdsOfTexts
    <3> QED BY Zenon, <2>1, <3>1, WiresTellApart
  <2> QED BY <1>1, <1>2, <2>1, <2>2, SeqEqual DEF CdsOfTexts
<1>4. ASSUME a = b PROVE Equals(a, b)
  BY Zenon, <1>4 DEF Equals
<1> QED BY <1>3, <1>4
-----------------------------------------------------------------------------
(***************************************************************************)
(* The canonical order: the same, over the keys of the elements.           *)
(***************************************************************************)
LEMMA PrecedesAt ==
  ASSUME NEW K \in Seq(Int), NEW L \in Seq(Int), NEW n \in Nat, NEW m \in Nat, n = Len(K), m = Len(L),
         NEW d \in 1..n, d <= m, SameBefore(K, L, d),
         NEW x \in Int, NEW y \in Int, x = K[d], y = L[d], x < y
  PROVE  Precedes(K, L) /\ ~Precedes(L, K)
<1>1. d \in 1..n /\ d \in 1..m /\ ~(y < x) /\ x # y
  OBVIOUS
<1>2. Precedes(K, L)
  BY Zenon, <1>1 DEF Precedes, SameBefore
<1>3. ASSUME IsStrictPrefix(L, K) PROVE FALSE
  <2>1. m <= n /\ SubSeq(L, 1, m) = SubSeq(K, 1, m)
    BY Zenon, <1>3 DEF IsStrictPrefix, IsPrefix
  <2>2. SubSeq(L, 1, m) = [i \in 1..m |-> L[i]] /\ SubSeq(K, 1, m) = [i \in 1..m |-> K[i]]
    BY <1>1 DEF SubSeq
  <2>3. [i \in 1..m |-> L[i]][d] = [i \in 1..m |-> K[i]][d]
    BY Zenon, <2>1, <2>2
  <2>4. L[d] = K[d]
    BY Zenon, <1>1, <2>3
  <2> QED BY Zenon, <1>1, <2>4
<1>4. ASSUME NEW e \in 1..m, e <= n, L[e] < K[e], \A i \in 1..e-1 : L[i] = K[i] PROVE FALSE
  <2>1. CASE e \in 1..d-1
    <3>1. K[e] = L[e]
      BY Zenon, <2>1 DEF SameBefore
    <3>2. PICK z : z = K[e]
      OBVIOUS
    <3>3. z \in Int
      <4>1. e \in 1..n
        BY <1>4
      <4> QED BY <3>2, <4>1, ElementOfSeq
    <3>4. z < z
      BY Zenon, <1>4, <3>1, <3>2
    <3> QED BY <3>3, <3>4
  <2>2. CASE d \in 1..e-1
    <3>1. L[d] = K[d]
      BY Zenon, <1>4, <2>2
    <3> QED BY Zenon, <1>1, <3>1
  <2>3. CASE d = e
    BY Zenon, <1>1, <1>4, <2>3
  <2>4. e \in 1..d-1 \/ d \in 1..e-1 \/ d = e
    BY <1>1, <1>4
  <2> QED BY <2>1, <2>2, <2>3, <2>4
<1>5. ~Precedes(L, K)
  BY Zenon, <1>3, <1>4 DEF Precedes
<1> QED BY <1>2, <1>5

LEMMA PrefixPrecedes ==
  ASSUME NEW K \in Seq(Int), NEW L \in Seq(Int), NEW n \in Nat, NEW m \in Nat, n = Len(K), m = Len(L),
         n <= m, \A i \in 1..n : K[i] = L[i]
  PROVE  ~Precedes(L, K) /\ (n < m => Precedes(K, L))
<1>1. ASSUME NEW e \in 1..m, e <= n, L[e] < K[e] PROVE FALSE
  <2>1. PICK z : z = K[e]
    OBVIOUS
  <2>2. e \in 1..n /\ z \in Int
    <3>1. e \in 1..n
      BY <1>1
    <3> QED BY <2>1, <3>1, ElementOfSeq
  <2>3. L[e] = z
    BY Zenon, <2>1, <2>2
  <2>4. z < z
    BY Zenon, <1>1, <2>1, <2>3
  <2> QED BY <2>2, <2>4
<1>2. ASSUME IsStrictPrefix(L, K) PROVE FALSE
  <2>1. m <= n /\ L # K
    BY Zenon, <1>2 DEF IsStrictPrefix, IsPrefix
  <2>2. m = n
    BY <2>1
  <2>3. L = K
    BY <2>2, SeqEqual
  <2> QED BY <2>1, <2>3
<1>3. ~Precedes(L, K)
  BY Zenon, <1>1, <1>2 DEF Precedes
<1>4. ASSUME n < m PROVE Precedes(K, L)
  <2>1. K # L
    BY <1>4
  <2>2. SubSeq(K, 1, n) = [i \in 1..n |-> K[i]] /\ SubSeq(L, 1, n) = [i \in 1..n |-> L[i]]
    BY DEF SubSeq
  <2>3. [i \in 1..n |-> K[i]] = [i \in 1..n |-> L[i]]
    OBVIOUS
  <2>4. SubSeq(K, 1, n) = SubSeq(L, 1, n)
    BY Zenon, <2>2, <2>3
  <2>5. IsStrictPrefix(K, L)
    BY Zenon, <2>1, <2>4 DEF IsStrictPrefix, IsPrefix
  <2> QED BY Zenon, <2>5 DEF Precedes
<1> QED BY <1>3, <1>4

(* K are the keys of the first n elements.                                 *)
KeysOf(K, cd, n) ==
  /\ K \in Seq(Int) /\ Len(K) = 3 * n
  /\ \A i \in 1..n : /\ K[3 * i - 2] = TypeCode(cd[i])
                     /\ K[3 * i - 1] = ValueSize(cd[i])
                     /\ K[3 * i] = ValueRank(cd[i])

SameUpTo(a, b, n) == \A i \in 1..n : a[i] = b[i]

AreKeys(K, a, n, L, b, m, p) ==
  KeysOf(K, a, n) /\ KeysOf(L, b, m) /\ p \in Nat /\ p <= n /\ p <= m /\ SameUpTo(a, b, p)

LEMMA SameKeys ==
  ASSUME NEW a, NEW b, NEW K, NEW L, NEW n, NEW m, NEW p, n \in Nat, m \in Nat,
         AreKeys(K, a, n, L, b, m, p)
  PROVE  SameUpTo(K, L, 3 * p)
<1>0. KeysOf(K, a, n) /\ KeysOf(L, b, m) /\ p \in Nat /\ p <= n /\ p <= m /\ SameUpTo(a, b, p)
  BY Zenon DEF AreKeys
<1> SUFFICES ASSUME NEW j \in 1..3 * p PROVE K[j] = L[j]
  BY Zenon DEF SameUpTo
<1>1. PICK i : i = (j + 2) \div 3
  OBVIOUS
<1>2. i \in 1..p /\ (j = 3 * i - 2 \/ j = 3 * i - 1 \/ j = 3 * i)
  BY <1>0, <1>1
<1>3. i \in 1..n /\ i \in 1..m
  BY <1>0, <1>2
<1>4. a[i] = b[i]
  BY <1>0, <1>2 DEF SameUpTo
<1>5. K[3 * i - 2] = L[3 * i - 2] /\ K[3 * i - 1] = L[3 * i - 1] /\ K[3 * i] = L[3 * i]
  BY Zenon, <1>0, <1>3, <1>4 DEF KeysOf
<1> QED BY Zenon, <1>2, <1>5

(* CDs are in the order of their keys.                                     *)
LEMMA KeysOrder ==
  ASSUME NEW a \in CdsOfTexts, NEW b \in CdsOfTexts, NEW K, NEW L,
         KeysOf(K, a, Len(a)), KeysOf(L, b, Len(b)), DictLess(a, b)
  PROVE  Precedes(K, L) /\ ~Precedes(L, K)
<1>1. PICK n, m : n = Len(a) /\ m = Len(b)
  OBVIOUS
<1>2. n \in Nat /\ m \in Nat
  BY <1>1, LenProperties DEF CdsOfTexts
<1>3. K \in Seq(Int) /\ L \in Seq(Int) /\ KeysOf(K, a, n) /\ KeysOf(L, b, m) /\ Len(K) = 3 * n /\ Len(L) = 3 * m
  BY Zenon, <1>1 DEF KeysOf
<1>4. PICK k, l : k = 3 * n /\ l = 3 * m
  OBVIOUS
<1>5. k \in Nat /\ l \in Nat /\ k = Len(K) /\ l = Len(L)
  BY <1>2, <1>3, <1>4
<1>6. CASE Len(a) < Len(b) /\ SameBefore(a, b, Len(a) + 1)
  <2>1. n < m /\ n <= m /\ n <= n /\ k < l /\ k <= l /\ 1..(n+1)-1 = 1..n
    BY <1>1, <1>2, <1>4, <1>6
  <2>2. SameUpTo(a, b, n)
    BY Zenon, <1>1, <1>6, <2>1 DEF SameBefore, SameUpTo
  <2>3. SameUpTo(K, L, k)
    <3>1. AreKeys(K, a, n, L, b, m, n)
      BY Zenon, <1>2, <1>3, <2>1, <2>2 DEF AreKeys
    <3> QED BY Zenon, <1>2, <1>4, <3>1, SameKeys
  <2>4. \A j \in 1..k : K[j] = L[j]
    BY Zenon, <2>3 DEF SameUpTo
  <2> QED BY <1>3, <1>5, <2>1, <2>4, PrefixPrecedes
<1>7. ASSUME NEW p \in 1..Len(a), p <= Len(b), SameBefore(a, b, p), Lower(a[p], b[p])
      PROVE  Precedes(K, L) /\ ~Precedes(L, K)
  <2>1. PICK o, f, g, h : o = p - 1 /\ f = 3 * p - 2 /\ g = 3 * p - 1 /\ h = 3 * p
    OBVIOUS
  <2>2. p \in 1..n /\ p \in 1..m /\ o \in Nat /\ o <= n /\ o <= m
    BY <1>1, <1>2, <1>7, <2>1
  <2>3. /\ f \in 1..k /\ g \in 1..k /\ h \in 1..k /\ f <= l /\ g <= l /\ h <= l
        /\ 1..f-1 = 1..3 * o
    BY <1>2, <1>4, <2>1, <2>2
  <2>4. SameUpTo(a, b, o)
    BY Zenon, <1>7, <2>1 DEF SameBefore, SameUpTo
  <2>5. \A j \in 1..3 * o : K[j] = L[j]
    <3>1. AreKeys(K, a, n, L, b, m, o)
      BY Zenon, <1>3, <2>2, <2>4 DEF AreKeys
    <3>2. SameUpTo(K, L, 3 * o)
      BY Zenon, <1>2, <3>1, SameKeys
    <3> QED BY Zenon, <3>2 DEF SameUpTo
  <2>6. PICK t, s, r, u, z, q :
          /\ t = TypeCode(a[p]) /\ s = ValueSize(a[p]) /\ r = ValueRank(a[p])
          /\ u = TypeCode(b[p]) /\ z = ValueSize(b[p]) /\ q = ValueRank(b[p])
    OBVIOUS
  <2>7. KeyLess(t, s, r, u, z, q)
    BY Zenon, <1>7, <2>6 DEF Lower
  <2>8. t \in Int /\ s \in Int /\ r \in Int /\ u \in Int /\ z \in Int /\ q \in Int
    <3>1. a[p] \in ElementsOfTexts /\ b[p] \in ElementsOfTexts
      BY <1>1, <2>2, ElementOfSeq DEF CdsOfTexts
    <3>2. IsKey(t, s, r) /\ IsKey(u, z, q)
      BY Zenon, <2>6, <3>1, ElementIs
    <3>3. t \in Nat /\ s \in Nat /\ r \in Nat /\ u \in Nat /\ z \in Nat /\ q \in Nat
      BY <3>2, KeyNumbers
    <3> QED BY <3>3
  <2>9. K[f] = t /\ K[g] = s /\ K[h] = r /\ L[f] = u /\ L[g] = z /\ L[h] = q
    BY Zenon, <1>3, <2>1, <2>2, <2>6 DEF KeysOf
  <2>10. CASE t < u
    <3>1. SameBefore(K, L, f)
      BY Zenon, <2>3, <2>5 DEF SameBefore
    <3> QED BY <1>3, <1>5, <2>3, <2>8, <2>9, <2>10, <3>1, PrecedesAt
  <2>11. CASE t = u /\ s < z
    <3>1. SameBefore(K, L, g)
      <4>1. SUFFICES ASSUME NEW i \in 1..g-1 PROVE K[i] = L[i]
        BY DEF SameBefore
      <4>2. i \in 1..f-1 \/ i = f
        BY <2>1, <2>2
      <4> QED BY Zenon, <2>3, <2>5, <2>9, <2>11, <4>2
    <3> QED BY <1>3, <1>5, <2>3, <2>8, <2>9, <2>11, <3>1, PrecedesAt
  <2>12. CASE t = u /\ s = z /\ r < q
    <3>1. SameBefore(K, L, h)
      <4>1. SUFFICES ASSUME NEW i \in 1..h-1 PROVE K[i] = L[i]
        BY DEF SameBefore
      <4>2. i \in 1..f-1 \/ i = f \/ i = g
        BY <2>1, <2>2
      <4> QED BY Zenon, <2>3, <2>5, <2>9, <2>12, <4>2
    <3> QED BY <1>3, <1>5, <2>3, <2>8, <2>9, <2>12, <3>1, PrecedesAt
  <2> QED BY <2>7, <2>10, <2>11, <2>12 DEF KeyLess
<1> QED BY Zenon, <1>6, <1>7 DEF DictLess
-----------------------------------------------------------------------------
KeysThen(keys, e) == keys \o <<TypeCode(e), ValueSize(e), ValueRank(e)>>

(* The keys of the first elements of a CD, from none to all of them.       *)
IsKeysFold(f, n, cd) ==
  f = [s \in SUBSET (1..n) |-> IF s = {} THEN <<>> ELSE KeysThen(f[s \ {Max(s)}], cd[Max(s)])]

LEMMA KeysStep ==
  ASSUME NEW K, NEW cd, NEW i \in Nat, NEW j, j = i + 1, KeysOf(K, cd, i), cd[j] \in ElementsOfTexts
  PROVE  KeysOf(KeysThen(K, cd[j]), cd, j)
<1>1. PICK e, t, s, r, three, L :
        /\ e = cd[j] /\ t = TypeCode(e) /\ s = ValueSize(e) /\ r = ValueRank(e)
        /\ three = <<t, s, r>> /\ L = K \o three
  OBVIOUS
<1>2. KeysThen(K, e) = L
  BY Zenon, <1>1 DEF KeysThen
<1>3. t \in Int /\ s \in Int /\ r \in Int
  <2>1. IsKey(t, s, r)
    BY Zenon, <1>1, ElementIs
  <2>2. t \in Nat /\ s \in Nat /\ r \in Nat
    BY <2>1, KeyNumbers
  <2> QED BY <2>2
<1>4. three \in Seq(Int) /\ Len(three) = 3 /\ three[1] = t /\ three[2] = s /\ three[3] = r
  BY <1>1, <1>3, ThreeAre
<1>5. PICK k : k = 3 * i
  OBVIOUS
<1>6. K \in Seq(Int) /\ Len(K) = k
  BY Zenon, <1>5 DEF KeysOf
<1>7. k \in Nat /\ 3 * j = k + 3 /\ 3 * j - 1 = k + 2 /\ 3 * j - 2 = k + 1
  BY <1>5
<1>8. /\ L \in Seq(Int) /\ Len(L) = k + 3
      /\ \A o \in 1..k+3 : L[o] = IF o <= k THEN K[o] ELSE three[o - k]
  BY <1>1, <1>4, <1>6, ConcatProperties
<1>9. \A o \in 1..k : L[o] = K[o]
  <2>1. \A o \in 1..k : o \in 1..k+3 /\ o <= k
    BY <1>7
  <2> QED BY Zenon, <1>8, <2>1
<1>10. L[k + 1] = t /\ L[k + 2] = s /\ L[k + 3] = r
  <2>1. PICK x, y, z : x = k + 1 /\ y = k + 2 /\ z = k + 3
    OBVIOUS
  <2>2. /\ x \in 1..k+3 /\ y \in 1..k+3 /\ z \in 1..k+3 /\ ~(x <= k) /\ ~(y <= k) /\ ~(z <= k)
        /\ x - k = 1 /\ y - k = 2 /\ z - k = 3
    BY <1>7, <2>1
  <2>3. L[x] = three[1] /\ L[y] = three[2] /\ L[z] = three[3]
    BY Zenon, <1>8, <2>2
  <2> QED BY Zenon, <1>4, <2>1, <2>3
<1>11. ASSUME NEW o \in 1..j
       PROVE  /\ L[3 * o - 2] = TypeCode(cd[o])
              /\ L[3 * o - 1] = ValueSize(cd[o])
              /\ L[3 * o] = ValueRank(cd[o])
  <2>1. CASE o = j
    BY Zenon, <1>1, <1>7, <1>10, <2>1
  <2>2. CASE o \in 1..i
    <3>1. 3 * o - 2 \in 1..k /\ 3 * o - 1 \in 1..k /\ 3 * o \in 1..k
      BY <1>5, <2>2
    <3>2. K[3 * o - 2] = TypeCode(cd[o]) /\ K[3 * o - 1] = ValueSize(cd[o]) /\ K[3 * o] = ValueRank(cd[o])
      BY Zenon, <2>2 DEF KeysOf
    <3> QED BY Zenon, <1>9, <3>1, <3>2
  <2>3. o = j \/ o \in 1..i
    BY <1>11
  <2> QED BY <2>1, <2>2, <2>3
<1>12. KeysOf(L, cd, j)
  BY Zenon, <1>7, <1>8, <1>11 DEF KeysOf
<1> QED BY Zenon, <1>1, <1>2, <1>12

(* The fold gives the keys of all elements.                                *)
LEMMA KeysFold ==
  ASSUME NEW cd \in CdsOfTexts
  PROVE  KeysOf(Canonical(cd), cd, Len(cd))
<1>1. PICK n \in Nat : DOMAIN cd = 1..n /\ n = Len(cd)
  BY LenProperties DEF CdsOfTexts
<1> DEFINE V    == Seq(Int)
           step == [i \in 1..n |-> [v \in V |-> KeysThen(v, cd[i])]]
<1>2. \A i \in 1..n : cd[i] \in ElementsOfTexts
  BY <1>1, ElementOfSeq DEF CdsOfTexts
<1>3. step \in [1..n -> [V -> V]]
  <2>1. ASSUME NEW i \in 1..n, NEW v \in V PROVE KeysThen(v, cd[i]) \in V
    <3>1. PICK t, s, r, three :
            /\ t = TypeCode(cd[i]) /\ s = ValueSize(cd[i]) /\ r = ValueRank(cd[i])
            /\ three = <<t, s, r>>
      OBVIOUS
    <3>2. IsKey(t, s, r)
      BY Zenon, <1>2, <3>1, ElementIs
    <3>3. t \in Nat /\ s \in Nat /\ r \in Nat
      BY <3>2, KeyNumbers
    <3>4. three \in Seq(Int)
      BY <3>1, <3>3
    <3>5. v \o three \in Seq(Int)
      BY <3>4, ConcatProperties
    <3> QED BY Zenon, <3>1, <3>5 DEF KeysThen
  <2> HIDE DEF V
  <2> QED BY <2>1
<1>4. <<>> \in V
  OBVIOUS
<1>5. PICK f : Folded(f, n, V, <<>>, step)
  <2> HIDE DEF V, step
  <2> QED BY <1>3, <1>4, FoldedExists
<1>6. IsKeysFold(f, n, cd)
  <2>1. ASSUME NEW s \in SUBSET (1..n), s # {}
        PROVE  f[s] = KeysThen(f[s \ {Max(s)}], cd[Max(s)])
    <3>1. PICK m, v : m = Max(s) /\ v = f[s \ {m}]
      OBVIOUS
    <3>2. m \in 1..n /\ v \in V /\ f[s] = step[m][v]
      BY <1>5, <2>1, <3>1 DEF Folded
    <3>3. step[m][v] = KeysThen(v, cd[m])
      <4> HIDE DEF V
      <4> QED BY <3>2
    <3> HIDE DEF step
    <3> QED BY <3>1, <3>2, <3>3
  <2> HIDE DEF V, step
  <2> QED BY <1>5, <2>1, Zenon DEF IsKeysFold, Folded
<1>7. PICK g : g = CHOOSE h : IsKeysFold(h, n, cd)
  OBVIOUS
<1>8. IsKeysFold(g, n, cd)
  BY <1>6, <1>7, Zenon
<1>9. Canonical(cd) = g[1..n]
  BY <1>1, <1>7, Zenon DEF Canonical, KeysThen, FoldLeft, MapThenFoldSet, IsKeysFold
<1> HIDE DEF V, step
<1>10. \A s \in SUBSET (1..n) : g[s] = IF s = {} THEN <<>> ELSE KeysThen(g[s \ {Max(s)}], cd[Max(s)])
  BY <1>8, Zenon DEF IsKeysFold
<1> DEFINE q == [i \in 0..n |-> g[1..i]]
<1>11. q[0] = <<>>
  <2>1. 1..0 = {} /\ {} \in SUBSET (1..n) /\ 0 \in 0..n
    OBVIOUS
  <2>2. g[{}] = <<>>
    BY <1>10, <2>1
  <2> QED BY <2>1, <2>2
<1>12. ASSUME NEW i \in 1..n PROVE q[i] = KeysThen(q[i-1], cd[i])
  <2>1. 1..i \in SUBSET (1..n) /\ 1..i # {} /\ Max(1..i) = i /\ (1..i) \ {i} = 1..i-1
    BY FirstIndices
  <2>2. g[1..i] = KeysThen(g[1..i-1], cd[i])
    BY <1>10, <2>1
  <2>3. i \in 0..n /\ i - 1 \in 0..n
    OBVIOUS
  <2> QED BY <2>2, <2>3
<1>13. q[n] = Canonical(cd)
  BY <1>9
<1> HIDE DEF q
<1> DEFINE T == {i \in Nat : i <= n => KeysOf(q[i], cd, i)}
<1>14. 0 \in T
  <2>1. KeysOf(<<>>, cd, 0)
    BY DEF KeysOf
  <2> QED BY <1>11, <2>1
<1>15. ASSUME NEW i \in Nat, i \in T PROVE i + 1 \in T
  <2> SUFFICES ASSUME i + 1 <= n PROVE KeysOf(q[i + 1], cd, i + 1)
    OBVIOUS
  <2>1. PICK j : j = i + 1
    OBVIOUS
  <2>2. j \in 1..n /\ j - 1 = i /\ KeysOf(q[i], cd, i)
    BY <1>15, <2>1
  <2>3. q[j] = KeysThen(q[i], cd[j]) /\ cd[j] \in ElementsOfTexts
    BY <1>2, <1>12, <2>2
  <2>4. KeysOf(q[j], cd, j)
    BY Zenon, <2>1, <2>2, <2>3, KeysStep
  <2> QED BY <2>1, <2>4
<1>16. n \in T
  <2> HIDE DEF T
  <2> QED BY <1>1, <1>14, <1>15, NatSetInduction
<1>17. KeysOf(q[n], cd, n)
  BY <1>16
<1> HIDE DEF T
<1> QED BY Zenon, <1>1, <1>13, <1>17
-----------------------------------------------------------------------------
(***************************************************************************)
(* Both comparisons decide as the canonical order does.                    *)
(***************************************************************************)
LEMMA DecidedBoth ==
  ASSUME NEW c, NEW same \in BOOLEAN, NEW less \in BOOLEAN, NEW greater \in BOOLEAN,
         Decided(c, same, less, greater)
  PROVE  /\ (c < 0) = less
         /\ (c > 0) = greater
         /\ same = (c = 0)
<1>1. CASE Negative(c) /\ ~same /\ less /\ ~greater
  <2>1. (c < 0) = TRUE /\ (c > 0) = FALSE /\ (c = 0) = FALSE
    BY <1>1 DEF Negative
  <2>2. less = TRUE /\ greater = FALSE /\ same = FALSE
    BY Zenon, <1>1
  <2> QED BY Zenon, <2>1, <2>2
<1>2. CASE Positive(c) /\ ~same /\ ~less /\ greater
  <2>1. (c < 0) = FALSE /\ (c > 0) = TRUE /\ (c = 0) = FALSE
    BY <1>2 DEF Positive
  <2>2. less = FALSE /\ greater = TRUE /\ same = FALSE
    BY Zenon, <1>2
  <2> QED BY Zenon, <2>1, <2>2
<1>3. CASE c = 0 /\ same /\ ~less /\ ~greater
  <2>1. (c < 0) = FALSE /\ (c > 0) = FALSE /\ (c = 0) = TRUE
    BY <1>3
  <2>2. less = FALSE /\ greater = FALSE /\ same = TRUE
    BY Zenon, <1>3
  <2> QED BY Zenon, <2>1, <2>2
<1> QED BY <1>1, <1>2, <1>3 DEF Decided

LEMMA CdOrderIsCanonical ==
  ASSUME NEW a \in CdsOfTexts, NEW b \in CdsOfTexts
  PROVE  OrderIsCanonical(a, b)
<1>1. PICK K, L : K = Canonical(a) /\ L = Canonical(b)
  OBVIOUS
<1>2. KeysOf(K, a, Len(a)) /\ KeysOf(L, b, Len(b))
  BY Zenon, <1>1, KeysFold
<1>3. DictLess(a, b) => Precedes(K, L) /\ ~Precedes(L, K)
  BY Zenon, <1>2, KeysOrder
<1>4. DictLess(b, a) => Precedes(L, K) /\ ~Precedes(K, L)
  BY Zenon, <1>2, KeysOrder
<1>5. a = b => ~Precedes(K, L) /\ ~Precedes(L, K)
  <2>1. SUFFICES ASSUME a = b PROVE ~Precedes(K, K)
    BY Zenon, <1>1
  <2>2. PICK n : n = Len(K)
    OBVIOUS
  <2>3. K \in Seq(Int) /\ n \in Nat /\ n <= n
    BY <1>2, <2>2, LenProperties DEF KeysOf
  <2>4. \A i \in 1..n : K[i] = K[i]
    OBVIOUS
  <2> QED BY <2>2, <2>3, <2>4, PrefixPrecedes
<1>6. ASSUME NEW h \in BOOLEAN
      PROVE  /\ Less(a, b, h)    = Precedes(K, L)
             /\ Greater(a, b, h) = Precedes(L, K)
             /\ Equals(a, b)     = (Compare(a, b, h) = 0)
             /\ Equals(a, b)     = (a = b)
  <2>1. PICK c : c = Compare(a, b, h)
    OBVIOUS
  <2>2. Decided(c, a = b, DictLess(a, b), DictLess(b, a))
    BY Zenon, <2>1, CompareIs
  <2>3. Decided(c, a = b, Precedes(K, L), Precedes(L, K))
    BY Zenon, <1>3, <1>4, <1>5, <2>2 DEF Decided
  <2>4. PICK less, greater, same : less = Precedes(K, L) /\ greater = Precedes(L, K) /\ same = (a = b)
    OBVIOUS
  <2>5. less \in BOOLEAN /\ greater \in BOOLEAN /\ same \in BOOLEAN
    BY Zenon, <2>4 DEF Precedes, IsStrictPrefix
  <2>6. Decided(c, same, less, greater)
    BY Zenon, <2>3, <2>4
  <2>7. (c < 0) = less /\ (c > 0) = greater /\ same = (c = 0)
    BY Zenon, <2>5, <2>6, DecidedBoth
  <2>8. Equals(a, b) = same
    <3>1. Equals(a, b) <=> a = b
      BY Zenon, EqualsIs
    <3>2. PICK v : v = Equals(a, b)
      OBVIOUS
    <3>3. v \in BOOLEAN
      BY Zenon, <3>2 DEF Equals
    <3>4. v <=> same
      BY Zenon, <2>4, <3>1, <3>2
    <3> QED BY Zenon, <2>5, <3>2, <3>3, <3>4
  <2>9. Less(a, b, h) = (c < 0) /\ Greater(a, b, h) = (c > 0)
    BY Zenon, <2>1 DEF Less, Greater
  <2>10. Equals(a, b) = (c = 0)
    BY Zenon, <2>7, <2>8
  <2> QED BY Zenon, <2>1, <2>4, <2>7, <2>8, <2>9, <2>10
<1> QED BY Zenon, <1>1, <1>6 DEF OrderIsCanonical

(* While the loop runs both CDs are sequences of elements with such texts. *)
HaveTexts == result = "running" => entry \in CdsOfTexts /\ input \in CdsOfTexts

LEMMA MatchInitTexts ==
  ASSUME MatchInit
  PROVE  HaveTexts
<1> SUFFICES ASSUME result = "running" PROVE entry \in CdsOfTexts /\ input \in CdsOfTexts
  BY DEF HaveTexts
<1>1. PICK words, e, i : words = uri /\ e = entry /\ i = input
  OBVIOUS
<1>2. words \in EntryUris /\ IsLegal(words) /\ e = CdOf(words) /\ i \in InputCds
  BY <1>1 DEF MatchInit
<1>3. words \in Seq(WordsOver(Texts))
  <2>1. PICK n \in Nat : n = Len(words) /\ DOMAIN words = 1..n
    BY <1>2, CdMatchAssumption, LenProperties DEF Uris
  <2>2. words \in Seq(WordsOver(STRING))
    BY <1>2, CdMatchAssumption DEF Uris, WordsOver
  <2>3. ASSUME NEW j \in 1..n PROVE words[j] \in WordsOver(Texts)
    <3>1. PICK w : w = words[j]
      OBVIOUS
    <3>2. w \in WordsOver(STRING)
      BY <2>1, <2>2, <3>1, ElementOfSeq
    <3>3. w.text \in Texts
      BY Zenon, <1>2, <2>1, <3>1, CdMatchAssumption
    <3> QED BY <3>1, <3>2, <3>3 DEF WordsOver
  <2>4. words = [j \in 1..n |-> words[j]]
    BY <2>1, <2>2
  <2>5. words \in [1..n -> WordsOver(Texts)]
    BY <2>3, <2>4
  <2> QED BY <2>5, SeqDef
<1>4. e \in CdsOfTexts
  <2>1. e \in BlocksOver(Texts)
    BY <1>2, <1>3, LegalUriShape
  <2>2. Texts \cup {""} = Texts
    BY CdOrderAssumption
  <2> QED BY Zenon, <2>1, <2>2 DEF BlocksOver, CdsOfTexts, ElementsOfTexts
<1>5. i \in CdsOfTexts
  <2>1. i \in CdBlocks
    BY <1>2, CdMatchAssumption
  <2>2. PICK n \in Nat : n = Len(i) /\ DOMAIN i = 1..n
    BY <2>1, LenProperties DEF CdBlocks
  <2>3. ASSUME NEW j \in 1..n PROVE i[j] \in ElementsOfTexts
    <3>1. PICK w : w = i[j]
      OBVIOUS
    <3>2. w \in [type : {"C", "O", "A"}, value : STRING]
      BY <2>1, <2>2, <3>1, ElementOfSeq DEF CdBlocks
    <3>3. w.value \in Texts
      BY Zenon, <1>2, <2>2, <3>1, CdMatchAssumption
    <3> QED BY <3>1, <3>2, <3>3 DEF ElementsOfTexts
  <2>4. i = [j \in 1..n |-> i[j]]
    BY <2>1, <2>2 DEF CdBlocks
  <2>5. i \in [1..n -> ElementsOfTexts]
    BY <2>3, <2>4
  <2> QED BY <2>5, SeqDef DEF CdsOfTexts
<1> QED BY <1>1, <1>4, <1>5

LEMMA MatchNextTexts ==
  ASSUME HaveTexts, [MatchNext]_matchVars
  PROVE  HaveTexts'
<1>1. result' = "running" => result = "running" /\ entry' = entry /\ input' = input
  BY DEF MatchNext, matchVars, EntryEnd, InputEnd, SkipAsterisk, ProceedBoth, SkipOptionals, ComponentDiffers, InLoop
<1> QED BY <1>1 DEF HaveTexts

(***************************************************************************)
(* Whatever two CDs meet, of texts of any lengths and ranks: the order of  *)
(* their octets, and the order without octets, is the canonical one.       *)
(***************************************************************************)
THEOREM CdMatchWireOrderIsCanonical == MatchSpec => []WireOrderIsCanonical
<1>1. MatchInit => HaveTexts
  BY MatchInitTexts
<1>2. HaveTexts /\ [MatchNext]_matchVars => HaveTexts'
  BY MatchNextTexts
<1>3. HaveTexts => WireOrderIsCanonical
  BY Zenon, CdOrderIsCanonical DEF HaveTexts, WireOrderIsCanonical
<1> QED BY <1>1, <1>2, <1>3, PTL DEF MatchSpec

=============================================================================

------------------------------ MODULE CdMatch ------------------------------
(***************************************************************************)
(* The way of a subscription from its URI to a match.  The subscriber's    *)
(* constructor of Cd parses the URI; the router's subscription table then  *)
(* runs its matching loop, StImpl::matchRegex, which is here with its two  *)
(* iterators as variables and one action per branch of the loop.  `entry'  *)
(* is the CD of the subscription, `input' the CD of a publication.         *)
(***************************************************************************)
EXTENDS CdUri, CdOrder, FiniteSets, FiniteSetsExt

CONSTANTS EntryUris,  \* what subscribers give to the constructor of Cd
          InputCds    \* CDs a publisher may have sent

(* Their texts are among those that CdOrder knows the lengths of.          *)
ASSUME CdMatchAssumption ==
  /\ EntryUris \subseteq Uris
  /\ \A words \in EntryUris : \A i \in 1..Len(words) : words[i].text \in Texts
  /\ InputCds \subseteq CdBlocks
  /\ \A cd \in InputCds : \A i \in 1..Len(cd) : cd[i].value \in Texts

VARIABLES uri,                \* of the subscription
          entry, input,       \* the two arguments
          entryIt, inputIt,   \* positions of the iterators, Len + 1 is end()
          result              \* "running", then what the function returned

matchVars == <<uri, entry, input, entryIt, inputIt, result>>

(* A URI for which the constructor throws never becomes an entry.          *)
MatchInit ==
  /\ uri \in EntryUris
  /\ \/ IsLegal(uri) /\ result = "running" /\ entry = CdOf(uri) /\ input \in InputCds
     \/ ~IsLegal(uri) /\ result = "illegal" /\ entry = <<>> /\ input = <<>>
  /\ entryIt = 1
  /\ inputIt = 1

InLoop ==
  /\ result = "running"
  /\ entryIt <= Len(entry)
  /\ inputIt <= Len(input)

EntryEnd ==
  /\ result = "running"
  /\ entryIt = Len(entry) + 1
  /\ result' = "match"
  /\ UNCHANGED <<uri, entry, input, entryIt, inputIt>>

(* Mutant: an input that ends first is a match. *)
InputEndMatches ==
  /\ result = "running"
  /\ entryIt <= Len(entry)
  /\ inputIt = Len(input) + 1
  /\ result' = "match"
  /\ UNCHANGED <<uri, entry, input, entryIt, inputIt>>

InputEnd ==
  /\ result = "running"
  /\ entryIt <= Len(entry)
  /\ inputIt = Len(input) + 1
  /\ result' = "no match"
  /\ UNCHANGED <<uri, entry, input, entryIt, inputIt>>

(* Mutant: entryIt++ is missing. *)
StayAtAsterisk ==
  /\ InLoop
  /\ entry[entryIt].type = "A"
  /\ UNCHANGED matchVars

SkipAsterisk ==
  /\ InLoop
  /\ entry[entryIt].type = "A"
  /\ entryIt' = entryIt + 1
  /\ UNCHANGED <<uri, entry, input, inputIt, result>>

ProceedBoth ==
  /\ InLoop
  /\ entry[entryIt].type # "A"
  /\ IsEqualValue(entry[entryIt], input[inputIt])
  /\ entryIt' = entryIt + 1
  /\ inputIt' = inputIt + 1
  /\ UNCHANGED <<uri, entry, input, result>>

(* Mutant: the component of the input is skipped with the group. *)
SkipOptionalsAndInput ==
  /\ InLoop
  /\ entry[entryIt].type = "O"
  /\ ~IsEqualValue(entry[entryIt], input[inputIt])
  /\ entryIt' = NextComponent(entry, entryIt)
  /\ inputIt' = inputIt + 1
  /\ UNCHANGED <<uri, entry, input, result>>

SkipOptionals ==
  /\ InLoop
  /\ entry[entryIt].type = "O"
  /\ ~IsEqualValue(entry[entryIt], input[inputIt])
  /\ entryIt' = NextComponent(entry, entryIt)
  /\ UNCHANGED <<uri, entry, input, inputIt, result>>

ComponentDiffers ==
  /\ InLoop
  /\ entry[entryIt].type = "C"
  /\ ~IsEqualValue(entry[entryIt], input[inputIt])
  /\ result' = "no match"
  /\ UNCHANGED <<uri, entry, input, entryIt, inputIt>>

MatchNext == EntryEnd \/ InputEnd \/ SkipAsterisk \/ ProceedBoth \/ SkipOptionals \/ ComponentDiffers

MatchSpec == MatchInit /\ [][MatchNext]_matchVars /\ WF_matchVars(MatchNext)

-----------------------------------------------------------------------------
(***************************************************************************)
(* What a subscription stands for, stated without iterators: a group       *)
(* (/x/y/z) may be left out or be present up to any of its options, and a  *)
(* publication matches when it starts with one of the resulting names.     *)
(***************************************************************************)
Positions(cd, t) == {i \in 1..Len(cd) : cd[i].type = t}

(* The elements that remain when only the first k options are taken. *)
Kept(cd, k) ==
  LET options == Positions(cd, "O")
  IN  Positions(cd, "C") \cup {i \in options : i < Min(options) + k}

ValuesAt(cd, P) ==
  FoldLeftDomain(LAMBDA vs, i : IF i \in P THEN Append(vs, cd[i].value) ELSE vs, <<>>, cd)

Names(cd) == {ValuesAt(cd, Kept(cd, k)) : k \in 0..Cardinality(Positions(cd, "O"))}

StandsFor(e, i) ==
  \E name \in Names(e) : IsPrefixOf(name, ValuesAt(i, DOMAIN i))

(* No option has the value of the component that follows its group: then   *)
(* the greedy loop has only one way to read the input.                     *)
Unambiguous(cd) ==
  \A i \in Positions(cd, "O") : cd[i].value # cd[NextComponent(cd, i)].value

-----------------------------------------------------------------------------
(* The parser, a state machine over words, accepts exactly the URIs of the *)
(* grammar.                                                                *)
UriGrammar == (result # "illegal") = InGrammar(uri)

(* What a CD prints can be parsed again, whatever is in its texts; and for *)
(* plain texts it is the same CD.  (For others it is not: the printer      *)
(* escapes them and the parser never takes an escape back.)                *)
PrintedUriIsParsed ==
  result # "illegal" =>
    /\ IsLegal(ToUri(entry))
    /\ IsPlainUri(uri) => CdOf(ToUri(entry)) = entry

(* What the loop accepts is always one of the names the subscription       *)
(* stands for: no subscriber gets a publication it did not ask for.  And   *)
(* for an unambiguous subscription it misses none, although it skips a     *)
(* whole group at the first option that differs and never comes back.      *)
MatchIsWhatItStandsFor ==
  /\ result = "match" => StandsFor(entry, input)
  /\ result = "no match" /\ Unambiguous(entry) => ~StandsFor(entry, input)

(* The router's model may use the function MatchRegex for the loop.        *)
LoopComputesMatchRegex ==
  result \in {"match", "no match"} => (result = "match") = MatchRegex(entry, input)

(* "lexical order of TLV encoding happens to be the same as canonical      *)
(* order of the value" (src/src/lib/cd-optional.cpp, compare): for the two *)
(* CDs that meet here, as they were when the loop began.                   *)
WireOrderIsCanonical ==
  result = "running" /\ entryIt = 1 /\ inputIt = 1 => OrderIsCanonical(entry, input)

(* The loop ends for every pair of CDs: each round moves an iterator.      *)
Terminates == <>(result # "running")

=============================================================================

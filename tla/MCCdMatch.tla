----------------------------- MODULE MCCdMatch -----------------------------
(* Small instance of CdMatch: every URI of up to four words over two       *)
(* texts, every URI of up to three words with texts and parentheses that   *)
(* are less usual, and the URIs of the usage example in src/README.md.     *)
EXTENDS CdMatch

Words(texts) == {Word(t) : t \in texts} \cup {OpenWord(t) : t \in texts} \cup {CloseWord(t) : t \in texts}

PlainWords == Words({"a", "b"})
OddWords   == Words({"a", "", ".", "a b", "a(b", "a)b", "a()b"})

UrisOf(words, n) == UNION {[1..k -> words] : k \in 0..n}

Group(open, options, rest) ==
  <<OpenWord(open)>>
    \o [i \in 1..Len(options) |->
          IF i = Len(options) THEN CloseWord(options[i]) ELSE Word(options[i])]
    \o [i \in 1..Len(rest) |-> Word(rest[i])]

MCEntryUris ==
  UrisOf(PlainWords, 4) \cup UrisOf(OddWords, 3)
    \cup {Group("a", <<"b", "a">>, <<"b", "b">>)}
    \cup {Group("1", <<"2", "3", "0">>, <<"sports", "tennis">>)}

Components(w) == [i \in 1..Len(w) |-> Component(w[i])]

(* Publications, with or without a group of their own.                     *)
MCInputCds ==
  {CdOf(u) : u \in {u \in UrisOf(PlainWords, 4) : IsLegal(u)}}
    \cup {Components(<<"1">> \o way \o <<"sports", "tennis">>) :
            way \in {<<>>, <<"2">>, <<"3">>, <<"2", "3">>, <<"2", "3", "0">>}}

(* Lengths on both sides of 252, the longest that has one octet.           *)
MCTexts == {"", "a", "b", ".", "a b", "a(b", "a)b", "a()b", "1", "2", "3", "0", "sports", "tennis"}

MCLengths == [t \in MCTexts |-> CASE t = "" -> 0 [] t = "a" -> 252 [] t = "b" -> 256
                                [] t \in {".", "1", "2", "3", "0"} -> 1
                                [] t = "a()b" -> 4 [] t \in {"sports", "tennis"} -> 6 [] OTHER -> 3]
MCRanks   == [t \in MCTexts |-> CASE t \in {"1", "a b", "sports"} -> 1
                                [] t \in {"2", "a(b", "tennis"} -> 2
                                [] t \in {"3", "a)b"} -> 3 [] t = "0" -> 4 [] OTHER -> 0]

=============================================================================

------------------------------- MODULE CdUri -------------------------------
(***************************************************************************)
(* Between the text of a CD, /1(/2/3)/sports, and its block.  A URI is the *)
(* sequence of words between its slashes; a slash before the first word is *)
(* not shown.  A word that ends in a parenthesis has it as its mark; what  *)
(* precedes the mark is its text, which becomes the value of an element.   *)
(***************************************************************************)
EXTENDS Cds, SequencesExt

(* Texts that are not their own printed form, each with what the printer   *)
(* makes of it and of the result: dots only, none included; characters     *)
(* that it escapes, among them the parentheses and its own per cent sign.  *)
Unusual ==
  { <<"", "...", "......">>, <<".", "....", ".......">>,
    <<"a b", "a%20b", "a%2520b">>,
    <<"a(b", "a%28b", "a%2528b">>, <<"a)b", "a%29b", "a%2529b">>,
    <<"a()b", "a%28%29b", "a%2528%2529b">> }

IsPlain(text) == \A u \in Unusual : \A i \in 1..Len(u) : u[i] # text

ParensIn(text) ==
  CASE text = "a(b"  -> {"("}
    [] text = "a)b"  -> {")"}
    [] text = "a()b" -> {"(", ")"}
    [] OTHER         -> {}

Word(text)      == [text |-> text, mark |-> "none"]
OpenWord(text)  == [text |-> text, mark |-> "("]
CloseWord(text) == [text |-> text, mark |-> ")"]

(* All URIs: any words between the slashes.                                *)
Uris == Seq([text : STRING, mark : {"none", "(", ")"}])

(* getEventFromString: only the parenthesis of its own kind may not occur  *)
(* again in a word that opens or closes.                                   *)
EventOf(word) ==
  CASE word.mark = "(" -> IF "(" \in ParensIn(word.text) THEN "Error" ELSE "Open"
    [] word.mark = ")" -> IF ")" \in ParensIn(word.text) THEN "Error" ELSE "Close"
    [] OTHER -> IF ParensIn(word.text) # {} \/ word.text = "" THEN "Error" ELSE "Hold"

(* Mutant: a group may be opened in a group.                               *)
ConsumeNested(p, word) ==
  LET event == EventOf(word)
  IN  IF event = "Error" \/ (event = "Close" /\ p.state # "Opened")
      THEN [p EXCEPT !.state = "Error"]
      ELSE [state |-> CASE event = "Open"  -> "Opened"
                        [] event = "Close" -> "Closed"
                        [] OTHER           -> p.state,
            block |-> p.block
                        \o <<IF p.state = "Opened" THEN Optional(word.text) ELSE Component(word.text)>>
                        \o IF event = "Close" THEN <<Asterisk>> ELSE <<>>]

(* One round of parseCdString: from the state and the block so far.        *)
Consume(p, word) ==
  LET event == EventOf(word)
  IN  IF \/ p.state = "Error" \/ event = "Error"
         \/ event = "Open" /\ p.state # "NotOpened"
         \/ event = "Close" /\ p.state # "Opened"
      THEN [p EXCEPT !.state = "Error"]
      ELSE [state |-> CASE event = "Open"  -> "Opened"
                        [] event = "Close" -> "Closed"
                        [] OTHER           -> p.state,
            block |-> p.block
                        \o <<IF p.state = "Opened" THEN Optional(word.text) ELSE Component(word.text)>>
                        \o IF event = "Close" THEN <<Asterisk>> ELSE <<>>]

ParseCdString(words) ==
  FoldLeft(Consume, [state |-> "NotOpened", block |-> <<>>], words)

(* parseCdString returns or throws.                                        *)
Parses(words) ==
  LET p == ParseCdString(words)
  IN  p.state # "Error" /\ (p.block # <<>> => Last(p.block).type = "C")

BlockOf(words) == ParseCdString(words).block

(* trim_if: the slashes at either end are no part of the URI, so there is  *)
(* no empty word at either end, and nothing of a URI of slashes only.      *)
Filled(uri) == {i \in 1..Len(uri) : uri[i] # Word("")}

Trimmed(uri) ==
  IF Filled(uri) = {} THEN <<>> ELSE SubSeq(uri, Min(Filled(uri)), Max(Filled(uri)))

(* The constructor Cd(uri) returns or throws.                              *)
IsLegal(uri) == Parses(Trimmed(uri))
CdOf(uri)    == BlockOf(Trimmed(uri))

(* Mutant: parentheses are no special characters.                          *)
EscapedKeepsParens(text) ==
  IF ParensIn(text) # {} \/ \A u \in Unusual : text \notin {u[1], u[2]} THEN text
  ELSE LET u == CHOOSE u \in Unusual : text \in {u[1], u[2]}
       IN  IF text = u[1] THEN u[2] ELSE u[3]

(* Component::toUri, Optional::toUri.  A text of dots gets three more; a   *)
(* special character becomes %XX.                                          *)
Escaped(text) ==
  IF \A u \in Unusual : text \notin {u[1], u[2]} THEN text
  ELSE LET u == CHOOSE u \in Unusual : text \in {u[1], u[2]}
       IN  IF text = u[1] THEN u[2] ELSE u[3]

Marked(cd, i) ==
  [text |-> Escaped(cd[i].value),
   mark |-> CASE i < Len(cd) /\ cd[i+1].type = "A" -> ")"
               [] i < Len(cd) /\ cd[i].type = "C" /\ cd[i+1].type = "O" -> "("
               [] OTHER -> "none"]

(* operator<<, for a CD with at most one group as the parser makes it.     *)
ToUri(cd) ==
  FoldLeftDomain(LAMBDA words, i : IF cd[i].type = "A" THEN words ELSE Append(words, Marked(cd, i)),
                 <<>>, cd)

-----------------------------------------------------------------------------
(* The grammar, stated without a parser. *)

Opens(uri)  == {i \in 1..Len(uri) : uri[i].mark = "("}
Closes(uri) == {i \in 1..Len(uri) : uri[i].mark = ")"}

(* What is between the first and the last word that is not empty.          *)
Inner(uri) == {i \in 1..Len(uri) : \E a, b \in Filled(uri) : a <= i /\ i <= b}

(* Any slashes at the ends.  No group; or one, that has an option and is   *)
(* followed by a component; or a parenthesis that opens nothing at the     *)
(* very end.                                                               *)
InGrammar(uri) ==
  /\ \A i \in Inner(uri) :
       /\ uri[i].mark \notin ParensIn(uri[i].text)
       /\ uri[i].mark = "none" => ParensIn(uri[i].text) = {} /\ uri[i].text # ""
  /\ \/ Opens(uri) = {} /\ Closes(uri) = {}
     \/ \E i, j \in 1..Len(uri) :
          Opens(uri) = {i} /\ Closes(uri) = {j} /\ i < j /\ \E k \in Filled(uri) : j < k
     \/ \E i \in 1..Len(uri) :
          Opens(uri) = {i} /\ Closes(uri) = {} /\ \A k \in Filled(uri) : k <= i

IsPlainUri(uri) == \A i \in Inner(uri) : IsPlain(uri[i].text)

=============================================================================

---------------------------- MODULE CountryCode ----------------------------
(***************************************************************************)
(* The country of a node, from its name (src/profile/country.go).  A name  *)
(* is a sequence of characters, in lower case and without the space around *)
(* it; a pair of regional indicators is a flag.  The table is a Go map,    *)
(* which is searched in any order: a name that mentions two countries may  *)
(* get either of their codes, and not the same one each time.              *)
(***************************************************************************)
EXTENDS Naturals, Sequences

CONSTANTS
  Letters,     \* the letters a to z
  Indicators,  \* the regional indicators
  FlagCode,    \* FlagCode[<<first, second>>]: the code of a flag
  Aliases,     \* Aliases[code]: the names of a country
  Space,       \* the character that makes an alias a phrase
  Foreign      \* characters beyond ASCII

\* strings.Index from any offset.
Occurs(word, text, start) ==
  /\ start + Len(word) - 1 <= Len(text)
  /\ SubSeq(text, start, start + Len(word) - 1) = word

IsPhrase(alias) == \E i \in DOMAIN alias : alias[i] = Space \/ alias[i] \in Foreign

\* containsWord: no letter on either side.
ContainsWord(word, text) ==
  \E start \in DOMAIN text :
    LET after == start + Len(word)
    IN  /\ Occurs(word, text, start)
        /\ start = 1 \/ text[start - 1] \notin Letters
        /\ after > Len(text) \/ text[after] \notin Letters

ContainsAlias(alias, text) ==
  IF IsPhrase(alias) THEN \E start \in DOMAIN text : Occurs(alias, text, start)
  ELSE ContainsWord(alias, text)

FlagAt(text, i) ==
  i < Len(text) /\ text[i] \in Indicators /\ text[i + 1] \in Indicators

\* inferCountryCode: the first flag, or a country whose name occurs.
InferCountryCodes(text) ==
  LET flags == {i \in DOMAIN text : FlagAt(text, i)}
      named == {code \in DOMAIN Aliases :
                  \E alias \in Aliases[code] : ContainsAlias(alias, text)}
  IN  IF flags # {}
      THEN LET first == CHOOSE i \in flags : \A j \in flags : i <= j
           IN  {FlagCode[<<text[first], text[first + 1]>>]}
      ELSE IF named # {} THEN named ELSE {""}

=============================================================================

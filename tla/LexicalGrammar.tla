--------------------------- MODULE LexicalGrammar ---------------------------
(***************************************************************************)
(* The lexical grammar of Kaleidoscope, as functions of a text: which      *)
(* characters belong to no token, and where a token ends.  A text is a     *)
(* sequence of bytes; character 0, before it, is a blank and every         *)
(* character behind it is EOF.                                             *)
(***************************************************************************)
EXTENDS Integers, Sequences

CONSTANT Keyword   \* token of every word that is a keyword

EOF       == -1
LineEnds  == {10, 13}
Hash      == 35
isspace(c)   == c \in 9..13 \cup {32}
isalpha(c)   == c \in 65..90 \cup 97..122
isdigit(c)   == c \in 48..57
isalnum(c)   == isalpha(c) \/ isdigit(c)
IsNumeral(c) == isdigit(c) \/ c = 46

\* The tokens that are no characters.
tok_eof        == -1
tok_identifier == -4
tok_number     == -5
KeywordTokens  == -13..-2 \ {tok_identifier, tok_number}

ASSUME KeywordAssumption ==
  /\ Keyword \in [DOMAIN Keyword -> KeywordTokens]
  /\ DOMAIN Keyword \subseteq Seq(Int)

\* getSingleChar returns a char, which is signed.
Signed(byte) == IF byte >= 128 THEN byte - 256 ELSE byte
Byte(text, i) == IF i <= Len(text) THEN Signed(text[i]) ELSE EOF
Char(text, i) == IF i = 0 THEN 32 ELSE Byte(text, i)

\* A comment reaches from a '#' to the end of its line.
EndsComment(c) == c = EOF \/ c \in LineEnds
InComment(text, i) ==
  \E j \in 1..i : Char(text, j) = Hash /\ \A k \in j..i : ~EndsComment(Char(text, k))

Skipped(text, i) == isspace(Char(text, i)) \/ InComment(text, i)

\* May a token that begins with c hold d?
Belongs(c, d) == (isalpha(c) /\ isalnum(d)) \/ (IsNumeral(c) /\ IsNumeral(d))

\* The characters s .. e-1 are the longest token that begins at s.
IsToken(text, s, e) ==
  IF Char(text, s) = EOF THEN e = s
  ELSE /\ e > s
       /\ \A k \in s+1..e-1 : Belongs(Char(text, s), Char(text, k))
       /\ ~Belongs(Char(text, s), Char(text, e))

WordToken(word) == IF word \in DOMAIN Keyword THEN Keyword[word] ELSE tok_identifier

TokenOf(text, s, e) ==
  IF isalpha(Char(text, s)) THEN WordToken([k \in 1..e-s |-> Char(text, s+k-1)])
  ELSE IF IsNumeral(Char(text, s)) THEN tok_number
  ELSE Char(text, s)
=============================================================================

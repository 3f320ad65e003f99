----------------------------- MODULE TinyLexer -----------------------------
(***************************************************************************)
(* Lexer::next() of src/tinylang/Lexer.cpp on a buffer that ends with a    *)
(* NUL.  Pointers are positions in the buffer, from 1; the NUL is behind   *)
(* its last character.  A character stands for its class: "A" for the hex  *)
(* digits that are letters, "g" for the other letters and '_', "1" for     *)
(* digits, " " for horizontal white space and "?" for what begins no token.*)
(***************************************************************************)
EXTENDS Integers, Sequences

CONSTANTS
  Buffers,    \* bound: the buffers, sequences of characters
  Keywords    \* the words of Keywords' table

Quotes      == {"\"", "'"}
NUL         == "NUL"
isVerticalWhitespace(c) == c = "\n"
isWhitespace(c)         == c = " " \/ isVerticalWhitespace(c)
isDigit(c)              == c = "1"
isHexDigit(c)           == isDigit(c) \/ c = "A"
isIdentifierHead(c)     == c \in {"A", "g"}
isIdentifierBody(c)     == isIdentifierHead(c) \/ isDigit(c)

ASSUME BuffersAssumption ==
  \A b \in Buffers : b \in Seq(STRING) /\ \A i \in 1..Len(b) : b[i] # NUL

VARIABLES
  buffer,
  CurPtr,             \* the next character of the buffer
  kind, Ptr, Length,  \* the token that the client holds
  NumErrors,          \* errors that were reported
  pc,                 \* "client", or where next() is
  End, IsHex, Level,  \* local variables of identifier(), number(), string() and comment()
  from, before        \* history: CurPtr and NumErrors when next() was called

token  == <<kind, Ptr, Length>>
locals == <<End, IsHex, Level>>
called == <<from, before>>
vars   == <<buffer, CurPtr, token, NumErrors, pc, locals, called>>

At(p) == IF p <= Len(buffer) THEN buffer[p] ELSE NUL

----------------------------------------------------------------------------
(* Punctuators.                                                            *)

Single(c) ==
  CASE c = "=" -> "equal"  [] c = "#" -> "hash"  [] c = "+" -> "plus"
    [] c = "-" -> "minus"  [] c = "*" -> "star"  [] c = "/" -> "slash"
    [] c = "," -> "comma"  [] c = "." -> "period" [] c = ";" -> "semi"
    [] c = ")" -> "r_paren" [] c = "(" -> "l_paren"
    [] c \in {":", "<"} -> "less" [] c = ">" -> "greater"

Singles == {"=", "#", "+", "-", "*", "/", ",", ".", ";", ")", "(", ":", "<", ">"}
Doubles == {":", "<", ">"}     \* those that a '=' may follow
Double(c) == IF c = ">" THEN "greaterequal" ELSE "lessequal"

----------------------------------------------------------------------------
(* Tokens and errors.                                                      *)

formToken(p, k) ==
  /\ kind' = k /\ Ptr' = CurPtr /\ Length' = p - CurPtr
  /\ CurPtr' = p

ReportIf(error) == NumErrors' = IF error THEN NumErrors + 1 ELSE NumErrors

\* A client reads on until it is told the end.
Call ==
  /\ pc = "client" /\ kind # "eof"
  /\ pc' = "next" /\ from' = CurPtr /\ before' = NumErrors
  /\ UNCHANGED <<buffer, CurPtr, token, NumErrors, locals>>

\* What next() finds at CurPtr, when that is in the buffer.
Finds(c) == pc = "next" /\ CurPtr <= Len(buffer) + 1 /\ c

\* Reading behind the NUL: nothing is known of what follows.
Outside ==
  /\ pc = "next" /\ CurPtr > Len(buffer) + 1
  /\ pc' = "outside"
  /\ UNCHANGED <<buffer, CurPtr, token, NumErrors, locals, called>>

SkipWhitespace_Stays ==
  /\ Finds(isWhitespace(At(CurPtr)))
  /\ UNCHANGED vars
SkipWhitespace ==
  /\ Finds(isWhitespace(At(CurPtr)))
  /\ CurPtr' = CurPtr + 1
  /\ UNCHANGED <<buffer, token, NumErrors, pc, locals, called>>

\* Only the kind of the token is set.
EndOfBuffer ==
  /\ Finds(At(CurPtr) = NUL)
  /\ kind' = "eof" /\ pc' = "client"
  /\ UNCHANGED <<buffer, CurPtr, Ptr, Length, NumErrors, locals, called>>

Begin(l) == pc' = l /\ End' = CurPtr + 1

Identifier ==
  /\ Finds(isIdentifierHead(At(CurPtr)))
  /\ Begin("identifier")
  /\ UNCHANGED <<buffer, CurPtr, token, NumErrors, IsHex, Level, called>>

MoreOfIdentifier ==
  /\ pc = "identifier" /\ isIdentifierBody(At(End))
  /\ End' = End + 1
  /\ UNCHANGED <<buffer, CurPtr, token, NumErrors, pc, IsHex, Level, called>>

getKeyword(name) == IF name \in Keywords THEN "keyword" ELSE "identifier"

EndOfIdentifier_Eats ==
  /\ pc = "identifier" /\ ~isIdentifierBody(At(End))
  /\ formToken(End + 1, getKeyword(SubSeq(buffer, CurPtr, End - 1)))
  /\ pc' = "client"
  /\ UNCHANGED <<buffer, NumErrors, locals, called>>
EndOfIdentifier ==
  /\ pc = "identifier" /\ ~isIdentifierBody(At(End))
  /\ formToken(End, getKeyword(SubSeq(buffer, CurPtr, End - 1)))
  /\ pc' = "client"
  /\ UNCHANGED <<buffer, NumErrors, locals, called>>

Number ==
  /\ Finds(isDigit(At(CurPtr)))
  /\ Begin("number") /\ IsHex' = FALSE
  /\ UNCHANGED <<buffer, CurPtr, token, NumErrors, Level, called>>

\* The loop ends at the NUL only; IsHex is set by what is no hex digit.
MoreOfNumber ==
  /\ pc = "number" /\ At(End) # NUL
  /\ IsHex' = (IsHex \/ ~isHexDigit(At(End)))
  /\ End' = End + 1
  /\ UNCHANGED <<buffer, CurPtr, token, NumErrors, pc, Level, called>>

\* So *End is never the 'H' of a hex number.
EndOfNumber ==
  /\ pc = "number" /\ At(End) = NUL
  /\ ReportIf(IsHex)
  /\ formToken(End, "integer_literal")
  /\ pc' = "client"
  /\ UNCHANGED <<buffer, locals, called>>

String ==
  /\ Finds(At(CurPtr) \in Quotes)
  /\ Begin("string")
  /\ UNCHANGED <<buffer, CurPtr, token, NumErrors, IsHex, Level, called>>

EndsString(c) == c = NUL \/ c = At(CurPtr) \/ isVerticalWhitespace(c)

MoreOfString_NoEnd ==
  /\ pc = "string" /\ At(End) # At(CurPtr) /\ ~isVerticalWhitespace(At(End))
  /\ End' = End + 1
  /\ UNCHANGED <<buffer, CurPtr, token, NumErrors, pc, IsHex, Level, called>>
MoreOfString ==
  /\ pc = "string" /\ ~EndsString(At(End))
  /\ End' = End + 1
  /\ UNCHANGED <<buffer, CurPtr, token, NumErrors, pc, IsHex, Level, called>>

EndOfString ==
  /\ pc = "string" /\ EndsString(At(End))
  /\ ReportIf(isVerticalWhitespace(At(End)))
  /\ formToken(End + 1, "string_literal")
  /\ pc' = "client"
  /\ UNCHANGED <<buffer, locals, called>>

Delimits(c, d) == <<c, d>> \in {<<"(", "*">>, <<"*", ")">>}
OpensComment   == At(CurPtr) = "(" /\ At(CurPtr + 1) = "*"

Comment ==
  /\ Finds(OpensComment)
  /\ pc' = "comment" /\ End' = CurPtr + 2 /\ Level' = 1
  /\ UNCHANGED <<buffer, CurPtr, token, NumErrors, IsHex, called>>

\* The level goes up at both delimiters.
Delimiter ==
  /\ pc = "comment" /\ At(End) # NUL /\ Level > 0 /\ Delimits(At(End), At(End + 1))
  /\ End' = End + 2 /\ Level' = Level + 1
  /\ UNCHANGED <<buffer, CurPtr, token, NumErrors, pc, IsHex, called>>

MoreOfComment ==
  /\ pc = "comment" /\ At(End) # NUL /\ Level > 0 /\ ~Delimits(At(End), At(End + 1))
  /\ End' = End + 1
  /\ UNCHANGED <<buffer, CurPtr, token, NumErrors, pc, IsHex, Level, called>>

\* next() calls itself.
EndOfComment_Silent ==
  /\ pc = "comment" /\ (At(End) = NUL \/ Level = 0)
  /\ CurPtr' = End /\ pc' = "next"
  /\ UNCHANGED <<buffer, token, NumErrors, locals, called>>
EndOfComment ==
  /\ pc = "comment" /\ (At(End) = NUL \/ Level = 0)
  /\ ReportIf(At(End) = NUL)
  /\ CurPtr' = End /\ pc' = "next"
  /\ UNCHANGED <<buffer, token, locals, called>>

Punctuator_Overruns ==
  /\ Finds(At(CurPtr) \in Singles /\ ~OpensComment)
  /\ \/ At(CurPtr) \in Doubles /\ formToken(CurPtr + 2, Double(At(CurPtr)))
     \/ At(CurPtr) \notin Doubles /\ formToken(CurPtr + 1, Single(At(CurPtr)))
  /\ pc' = "client"
  /\ UNCHANGED <<buffer, NumErrors, locals, called>>
Punctuator ==
  /\ Finds(At(CurPtr) \in Singles /\ ~OpensComment)
  /\ IF At(CurPtr) \in Doubles /\ At(CurPtr + 1) = "="
     THEN formToken(CurPtr + 2, Double(At(CurPtr)))
     ELSE formToken(CurPtr + 1, Single(At(CurPtr)))
  /\ pc' = "client"
  /\ UNCHANGED <<buffer, NumErrors, locals, called>>

\* The character is not taken.
BeginsNothing(c) ==
  c # NUL /\ ~isWhitespace(c) /\ ~isIdentifierBody(c) /\ c \notin Quotes \cup Singles

Unknown ==
  /\ Finds(BeginsNothing(At(CurPtr)))
  /\ kind' = "unknown" /\ pc' = "client"
  /\ UNCHANGED <<buffer, CurPtr, Ptr, Length, NumErrors, locals, called>>

Init ==
  /\ buffer \in Buffers
  /\ CurPtr = 1 /\ NumErrors = 0 /\ pc = "client" /\ from = 1 /\ before = 0
  /\ kind = "none" /\ Ptr = 1 /\ Length = 0
  /\ End = 1 /\ IsHex = FALSE /\ Level = 0

Lex ==
  \/ Outside \/ SkipWhitespace \/ EndOfBuffer
  \/ Identifier \/ MoreOfIdentifier \/ EndOfIdentifier
  \/ Number \/ MoreOfNumber \/ EndOfNumber
  \/ String \/ MoreOfString \/ EndOfString
  \/ Comment \/ Delimiter \/ MoreOfComment \/ EndOfComment
  \/ Punctuator \/ Unknown

Next == Call \/ Lex

Spec == Init /\ [][Next]_vars

\* A call goes on, and the client goes on as long as it is not told the end.
FairSpec == Spec /\ WF_vars(Next)

----------------------------------------------------------------------------
(* Properties.                                                             *)

Formed == pc = "client" /\ kind \notin {"none", "eof", "unknown"}

Kinds ==
  {"none", "eof", "unknown", "identifier", "keyword", "integer_literal", "string_literal"}
    \cup {Single(c) : c \in Singles} \cup {Double(c) : c \in Doubles}

\* The type invariant.  A pointer is at most one position behind the NUL.
TypeOK ==
  /\ buffer \in Seq(STRING)
  /\ CurPtr \in 1..Len(buffer) + 2 /\ End \in 1..Len(buffer) + 1
  /\ kind \in Kinds /\ Ptr \in 1..Len(buffer) + 1 /\ Length \in Nat
  /\ NumErrors \in Nat /\ IsHex \in BOOLEAN /\ Level \in Nat
  /\ pc \in {"client", "next", "identifier", "number", "string", "comment", "outside"}
  /\ from \in 1..Len(buffer) + 2 /\ before \in Nat

\* Tokens lose nothing: between the place where next() was called and the
\* token there is white space only, the next token is looked for right behind
\* it, and a word holds all the letters and digits that follow each other.
TokensAdjoin ==
  Formed =>
    /\ from <= Ptr /\ \A i \in from..Ptr - 1 : isWhitespace(At(i))
    /\ Length >= 1 /\ CurPtr = Ptr + Length
    /\ kind \in {"identifier", "keyword"} =>
         /\ \A i \in Ptr..CurPtr - 1 : isIdentifierBody(At(i))
         /\ ~isIdentifierBody(At(CurPtr))

\* Only a string that is not closed before the end of the buffer makes the
\* lexer read behind it: two-character tokens, comments and numbers that end
\* at the NUL do not.
OnlyStringsOverrun ==
  CurPtr > Len(buffer) + 1 =>
    /\ kind = "string_literal" /\ Ptr <= Len(buffer) /\ CurPtr = Len(buffer) + 2
    /\ \A i \in Ptr + 1..Len(buffer) :
         buffer[i] # buffer[Ptr] /\ ~isVerticalWhitespace(buffer[i])

\* A call of next() that finds the end and reports no error has skipped white
\* space only: what a comment swallows that is not closed (or is, as the level
\* only goes up) is reported.  Of numbers it says nothing: IsHex is the wrong
\* way round in the code, and "1A" passes for a decimal without an error.
SkippedTextReported ==
  pc = "client" /\ kind = "eof" /\ NumErrors = before =>
    \A i \in from..Len(buffer) : isWhitespace(buffer[i])

\* A client that reads on comes to the end of the buffer, to an unknown
\* character, over which it never gets, or behind the buffer.
StopsAdvancing == <>[](kind \in {"eof", "unknown"} \/ pc = "outside")
=============================================================================

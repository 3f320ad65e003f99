------------------------------- MODULE Lexer -------------------------------
(***************************************************************************)
(* gettok() of src/main2.cpp (141-241), one action for every piece of code *)
(* between two calls of advance().                                         *)
(*                                                                         *)
(* The lexer has always read one character that it has not used yet.  It   *)
(* is kept in a static variable across calls, a token ends when a          *)
(* character is read that cannot belong to it, and when the file ends the  *)
(* stream's state decides what the next read would be served from.         *)
(***************************************************************************)
EXTENDS LexicalGrammar, FiniteSets

CONSTANT Setups   \* bound: the inputs, [opened, file, stdin]

\* A program that is not given a file name has an empty file, as a stream
\* that was never opened tests true.
ASSUME SetupsAssumption ==
  \A s \in Setups : /\ s.opened \in BOOLEAN
                    /\ s.file \in Seq(0..255) /\ s.stdin \in Seq(0..255)

VARIABLES
  opened,         \* was opening the file no failure?
  file, stdin,    \* the bytes of the file and of standard input
  in,             \* does the stream test true?
  fileRead,       \* characters got from each of the two, the one that
  stdinRead,      \*   reports the end included
  LastChar,       \* the character read last
  LexLoc, CurLoc, \* line and column of LastChar and of the token
  IdentifierStr,
  pc,             \* where gettok is
  tok,            \* what it has returned
  start,          \* history: the character that the token begins with
  at              \* history: the character behind the last token

inputs  == <<opened, file, stdin>>
reading == <<in, fileRead, stdinRead, LastChar, LexLoc>>
vars    == <<inputs, reading, CurLoc, IdentifierStr, pc, tok, start, at>>

Source == IF opened THEN file ELSE stdin
read   == fileRead + stdinRead

----------------------------------------------------------------------------
(* Characters.                                                             *)

getSingleChar ==
  \/ /\ in
     /\ LastChar' = Byte(file, fileRead + 1)
     /\ fileRead' = fileRead + 1
     /\ in' = (fileRead < Len(file))
     /\ UNCHANGED stdinRead
  \/ /\ ~in
     /\ LastChar' = Byte(stdin, stdinRead + 1)
     /\ stdinRead' = stdinRead + 1
     /\ UNCHANGED <<in, fileRead>>

advance_KeepsCol ==
  /\ getSingleChar
  /\ LexLoc' = [Line |-> IF LastChar' \in LineEnds THEN LexLoc.Line + 1 ELSE LexLoc.Line,
                Col |-> LexLoc.Col + 1]
advance ==
  /\ getSingleChar
  /\ LexLoc' = IF LastChar' \in LineEnds THEN [Line |-> LexLoc.Line + 1, Col |-> 0]
               ELSE [LexLoc EXCEPT !.Col = @ + 1]

----------------------------------------------------------------------------
(* gettok().                                                               *)

\* The parser asks for a token, whatever the last one was.
gettok ==
  /\ pc = "idle" /\ pc' = "blank"
  /\ UNCHANGED <<inputs, reading, CurLoc, IdentifierStr, tok, start, at>>

Blank_NoAdvance ==
  /\ pc = "blank" /\ isspace(LastChar)
  /\ UNCHANGED vars
Blank ==
  /\ pc = "blank" /\ isspace(LastChar)
  /\ advance
  /\ UNCHANGED <<inputs, CurLoc, IdentifierStr, pc, tok, start, at>>

Begin ==
  /\ pc = "blank" /\ ~isspace(LastChar)
  /\ CurLoc' = LexLoc /\ start' = read

\* The characters read by then are the token's, and one that is not used yet.
Return(t) == tok' = t /\ pc' = "idle" /\ at' = read'

Identifier ==
  /\ Begin /\ isalpha(LastChar)
  /\ IdentifierStr' = <<LastChar>>
  /\ advance
  /\ pc' = "identifier"
  /\ UNCHANGED <<inputs, tok, at>>

MoreOfIdentifier ==
  /\ pc = "identifier" /\ isalnum(LastChar)
  /\ IdentifierStr' = Append(IdentifierStr, LastChar)
  /\ advance
  /\ UNCHANGED <<inputs, CurLoc, pc, tok, start, at>>

EndOfIdentifier ==
  /\ pc = "identifier" /\ ~isalnum(LastChar)
  /\ UNCHANGED <<inputs, reading, CurLoc, IdentifierStr, start>>
  /\ Return(WordToken(IdentifierStr))

Number ==
  /\ Begin /\ IsNumeral(LastChar)
  /\ advance
  /\ pc' = "number"
  /\ UNCHANGED <<inputs, IdentifierStr, tok, at>>

MoreOfNumber ==
  /\ pc = "number" /\ IsNumeral(LastChar)
  /\ advance
  /\ UNCHANGED <<inputs, CurLoc, IdentifierStr, pc, tok, start, at>>

EndOfNumber ==
  /\ pc = "number" /\ ~IsNumeral(LastChar)
  /\ UNCHANGED <<inputs, reading, CurLoc, IdentifierStr, start>>
  /\ Return(tok_number)

Comment ==
  /\ Begin /\ LastChar = Hash
  /\ advance
  /\ pc' = "comment"
  /\ UNCHANGED <<inputs, IdentifierStr, tok, at>>

MoreOfComment_NoReturn ==
  /\ pc = "comment" /\ LastChar # EOF /\ LastChar # 10
  /\ advance
  /\ UNCHANGED <<inputs, CurLoc, IdentifierStr, pc, tok, start, at>>
MoreOfComment ==
  /\ pc = "comment" /\ ~EndsComment(LastChar)
  /\ advance
  /\ UNCHANGED <<inputs, CurLoc, IdentifierStr, pc, tok, start, at>>

\* gettok() calls itself.
EndOfComment ==
  /\ pc = "comment" /\ LastChar \in LineEnds
  /\ pc' = "blank"
  /\ UNCHANGED <<inputs, reading, CurLoc, IdentifierStr, tok, start, at>>

\* "Don't eat the EOF."
EndOfFile_Eaten ==
  /\ LastChar = EOF
  /\ \/ Begin
     \/ pc = "comment" /\ UNCHANGED <<CurLoc, start>>
  /\ advance
  /\ Return(tok_eof)
  /\ UNCHANGED <<inputs, IdentifierStr>>
EndOfFile ==
  /\ LastChar = EOF
  /\ \/ Begin
     \/ pc = "comment" /\ UNCHANGED <<CurLoc, start>>
  /\ UNCHANGED <<inputs, reading, IdentifierStr>>
  /\ Return(tok_eof)

Character ==
  /\ Begin /\ ~isalpha(LastChar) /\ ~IsNumeral(LastChar) /\ LastChar \notin {Hash, EOF}
  /\ advance
  /\ Return(LastChar)
  /\ UNCHANGED <<inputs, IdentifierStr>>

Init ==
  /\ \E s \in Setups : opened = s.opened /\ file = s.file /\ stdin = s.stdin
  /\ in = opened /\ fileRead = 0 /\ stdinRead = 0 /\ LastChar = 32
  /\ LexLoc = [Line |-> 1, Col |-> 0] /\ CurLoc = [Line |-> 0, Col |-> 0]
  /\ IdentifierStr = <<>> /\ pc = "idle" /\ tok = 0 /\ start = 0 /\ at = 0

Scan ==
  \/ Blank
  \/ Identifier \/ MoreOfIdentifier \/ EndOfIdentifier
  \/ Number \/ MoreOfNumber \/ EndOfNumber
  \/ Comment \/ MoreOfComment \/ EndOfComment
  \/ EndOfFile \/ Character

Next == gettok \/ Scan

Spec == Init /\ [][Next]_vars

\* A call that was made goes on: reading a file does not block for ever.
FairSpec == Spec /\ WF_vars(Scan)

----------------------------------------------------------------------------
(* Properties that hold.                                                   *)

Locations == [Line : Nat, Col : Nat]

\* The type invariant.  Nothing is read behind the end of the input.
TypeOK ==
  /\ opened \in BOOLEAN /\ file \in Seq(0..255) /\ stdin \in Seq(0..255)
  /\ in \in BOOLEAN /\ fileRead \in 0..Len(file)+1 /\ stdinRead \in 0..Len(stdin)+1
  /\ LastChar \in -128..127
  /\ LexLoc \in Locations /\ CurLoc \in Locations
  /\ IdentifierStr \in Seq(Int)
  /\ pc \in {"idle", "blank", "identifier", "number", "comment"}
  /\ tok \in -128..127 /\ start \in Nat /\ at \in Nat

\* Reading ahead by one character loses and repeats none: the tokens are
\* those of the lexical grammar, one behind the other, for every way in which
\* tokens, comments and line ends follow each other and the input may end.
Stream == INSTANCE TokenStream WITH text <- Source
ImplementsTokenStream == Stream!Spec

\* Line and column of character i.  Each of '\r' and '\n' ends a line.
Location(i) ==
  LET ends == {k \in 1..i : Char(Source, k) \in LineEnds}
      last == CHOOSE k \in ends \cup {0} : \A j \in ends : j <= k
  IN  [Line |-> 1 + Cardinality(ends), Col |-> i - last]

\* The location of a token is that of its first character, although LexLoc
\* is always ahead by one character.
TokensLocated == pc = "idle" /\ at > 0 /\ tok # tok_eof => CurLoc = Location(start)

\* A program that was given a file never reads standard input, though every
\* read behind the end of the file would be served from there.
StdinUntouched == opened => stdinRead = 0

\* Once the end is reached every call returns it, which is what the parser's
\* error recovery relies on.
EofIsFinal == [][tok = tok_eof => UNCHANGED <<tok, at>>]_vars

\* Every call of gettok() returns.
GettokReturns == pc # "idle" ~> pc = "idle"

----------------------------------------------------------------------------
(* A property that the code's comments state and the code does not have.   *)

\* "The lexer returns tokens [0-255] if it is an unknown character, otherwise
\* one of these for known things."
TokensAreKnown ==
  \/ tok \in 0..255 \cup {tok_eof, tok_identifier, tok_number}
  \/ IdentifierStr \in DOMAIN Keyword /\ tok = Keyword[IdentifierStr]
=============================================================================

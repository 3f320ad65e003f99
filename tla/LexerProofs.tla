---------------------------- MODULE LexerProofs ----------------------------
(***************************************************************************)
(* The lexer returns the tokens of the lexical grammar for every input:    *)
(* Lexer implements TokenStream.  The inductive invariant relates the      *)
(* character that is read ahead to its place in the source, and says for   *)
(* every place of gettok what the characters between the last token and    *)
(* that place are.                                                         *)
(***************************************************************************)
EXTENDS Lexer, SequenceTheorems, FiniteSetTheorems, TLAPS

Bytes == Seq(0..255)

----------------------------------------------------------------------------
(* The characters of a text.                                               *)

\* No comment that began before character p is open behind it.
OutOfComment(text, p) ==
  \A j \in 1..p-1 : Char(text, j) = Hash => \E k \in j..p : EndsComment(Char(text, k))

AllSkipped(text, a, p) == \A i \in a..p-1 : Skipped(text, i)

Word(text, s, p) == [k \in 1..p-s |-> Char(text, s+k-1)]

\* Every character is a signed byte.
LEMMA CharType ==
  ASSUME NEW text \in Bytes, NEW i \in Nat
  PROVE  Char(text, i) \in -128..127
<1>1. Len(text) \in Nat /\ \A k \in 1..Len(text) : text[k] \in 0..255
  BY LenProperties, ElementOfSeq DEF Bytes
<1>2. CASE i = 0
  BY <1>2 DEF Char
<1>3. CASE i # 0 /\ i <= Len(text)
  <2>1. text[i] \in 0..255
    BY <1>1, <1>3
  <2>2. Char(text, i) = Signed(text[i])
    BY <1>3 DEF Char, Byte
  <2>3. Signed(text[i]) \in -128..127
    BY <2>1 DEF Signed
  <2> QED BY <2>2, <2>3
<1>4. CASE i # 0 /\ ~(i <= Len(text))
  BY <1>4 DEF Char, Byte, EOF
<1> QED BY <1>2, <1>3, <1>4

\* Behind the text there is EOF.
LEMMA CharBehind ==
  ASSUME NEW text \in Bytes, NEW i \in Nat, i > Len(text)
  PROVE  Char(text, i) = EOF
<1>1. Len(text) \in Nat
  BY DEF Bytes
<1> QED BY <1>1 DEF Char, Byte

\* The classes of characters exclude each other.
LEMMA CharClasses ==
  ASSUME NEW c \in -128..127
  PROVE  /\ isalpha(c) => ~IsNumeral(c) /\ isalnum(c) /\ ~isspace(c)
         /\ IsNumeral(c) => ~isalpha(c) /\ ~isspace(c)
         /\ isalnum(c) => c # EOF /\ c # Hash
         /\ IsNumeral(c) => c # EOF /\ c # Hash
<1>1. isalpha(c) => ~isdigit(c) /\ c # 46 /\ ~isspace(c)
  BY DEF isalpha, isdigit, isspace
<1>2. isdigit(c) => ~isalpha(c) /\ ~isspace(c) /\ c # EOF /\ c # Hash
  BY DEF isalpha, isdigit, isspace, EOF, Hash
<1>3. isalpha(c) => c # EOF /\ c # Hash
  BY DEF isalpha, EOF, Hash
<1>4. c = 46 => ~isalpha(c) /\ ~isspace(c) /\ c # EOF /\ c # Hash
  BY DEF isalpha, isspace, EOF, Hash
<1> QED BY <1>1, <1>2, <1>3, <1>4, Zenon DEF IsNumeral, isalnum

\* A character outside comments that is no blank begins a token or a comment.
LEMMA BeginsToken ==
  ASSUME NEW text \in Bytes, NEW p \in Nat, OutOfComment(text, p),
         ~isspace(Char(text, p)), Char(text, p) # Hash
  PROVE  ~Skipped(text, p)
<1>1. SUFFICES ASSUME InComment(text, p) PROVE FALSE
  BY DEF Skipped
<1>2. PICK j \in 1..p : Char(text, j) = Hash /\ \A k \in j..p : ~EndsComment(Char(text, k))
  BY <1>1 DEF InComment
<1>3. j \in 1..p-1
  BY <1>2
<1> QED BY <1>2, <1>3 DEF OutOfComment

\* Only a '#' opens a comment.
LEMMA StaysOut ==
  ASSUME NEW text \in Bytes, NEW p \in Nat, OutOfComment(text, p), Char(text, p) # Hash
  PROVE  OutOfComment(text, p+1)
<1>1. SUFFICES ASSUME NEW j \in 1..p, Char(text, j) = Hash
               PROVE  \E k \in j..p+1 : EndsComment(Char(text, k))
  BY DEF OutOfComment
<1>2. j \in 1..p-1
  BY <1>1
<1>3. PICK k \in j..p : EndsComment(Char(text, k))
  BY <1>1, <1>2 DEF OutOfComment
<1>4. k \in j..p+1
  OBVIOUS
<1> QED BY <1>3, <1>4

\* The end of a line or of the text is behind every comment.
LEMMA EndIsOut ==
  ASSUME NEW text \in Bytes, NEW p \in Nat, EndsComment(Char(text, p))
  PROVE  OutOfComment(text, p)
<1>1. \A j \in 1..p-1 : p \in j..p
  OBVIOUS
<1> QED BY <1>1 DEF OutOfComment

\* From a '#' to the end of its line everything is in a comment.
LEMMA CommentSkipped ==
  ASSUME NEW text \in Bytes, NEW a \in Nat, NEW s \in Nat, NEW p \in Nat,
         AllSkipped(text, a, s), a <= s, Char(text, s) = Hash,
         \A k \in s..p-1 : ~EndsComment(Char(text, k))
  PROVE  AllSkipped(text, a, p)
<1>1. s # 0
  BY DEF Char, Hash
<1>2. SUFFICES ASSUME NEW i \in s..p-1 PROVE Skipped(text, i)
  BY DEF AllSkipped
<1>3. s \in 1..i /\ \A k \in s..i : k \in s..p-1
  BY <1>1
<1> QED BY <1>3 DEF Skipped, InComment

\* A word is the sequence of its characters.
LEMMA WordType ==
  ASSUME NEW text \in Bytes, NEW s \in Nat, NEW p \in Nat, s <= p
  PROVE  /\ Word(text, s, p) \in Seq(Int) /\ Len(Word(text, s, p)) = p-s
         /\ \A k \in 1..p-s : Word(text, s, p)[k] = Char(text, s+k-1)
<1>1. ASSUME NEW k \in 1..p-s PROVE Char(text, s+k-1) \in Int
  <2>1. s+k-1 \in Nat
    OBVIOUS
  <2>2. Char(text, s+k-1) \in -128..127
    BY <2>1, CharType
  <2> QED BY <2>2
<1>2. p-s \in Nat
  OBVIOUS
<1> QED BY <1>1, <1>2 DEF Word

\* A word grows by the character behind it.
LEMMA WordGrows ==
  ASSUME NEW text \in Bytes, NEW s \in Nat, NEW p \in Nat, s < p
  PROVE  Append(Word(text, s, p), Char(text, p)) = Word(text, s, p+1)
<1> DEFINE w == Word(text, s, p)
           x == Word(text, s, p+1)
           c == Char(text, p)
<1>1. c \in Int
  BY CharType
<1>2. w \in Seq(Int) /\ Len(w) = p-s /\ \A k \in 1..p-s : w[k] = Char(text, s+k-1)
  BY p \in Nat, WordType
<1>3. x \in Seq(Int) /\ Len(x) = p+1-s /\ \A k \in 1..p+1-s : x[k] = Char(text, s+k-1)
  BY p+1 \in Nat, WordType
<1> HIDE DEF w, x
<1>4. /\ Append(w, c) \in Seq(Int) /\ Len(Append(w, c)) = Len(w)+1
      /\ \A k \in 1..Len(w) : Append(w, c)[k] = w[k]
      /\ Append(w, c)[Len(w)+1] = c
  BY <1>1, <1>2, AppendProperties
<1>5. Len(Append(w, c)) = Len(x)
  BY <1>2, <1>3, <1>4
<1>6. ASSUME NEW k \in 1..Len(x) PROVE Append(w, c)[k] = x[k]
  <2>1. CASE k <= p-s
    BY <2>1, <1>2, <1>3, <1>4
  <2>2. CASE ~(k <= p-s)
    <3>1. k = p-s+1 /\ s+k-1 = p
      BY <2>2, <1>3
    <3>2. x[k] = Char(text, s+k-1)
      BY <1>3
    <3> QED BY <3>1, <3>2, <1>2, <1>4
  <2> QED BY <2>1, <2>2
<1>7. Append(w, c) = x
  BY <1>3, <1>4, <1>5, <1>6, SeqEqual
<1> QED BY <1>7 DEF w, x

\* The first character of a word, alone.
LEMMA WordBegins ==
  ASSUME NEW text \in Bytes, NEW s \in Nat
  PROVE  <<Char(text, s)>> = Word(text, s, s+1)
<1>1. (s+1)-s = 1 /\ s+1-1 = s
  OBVIOUS
<1>2. Word(text, s, s+1) = [k \in 1..1 |-> Char(text, s+k-1)]
  BY <1>1 DEF Word
<1>3. <<Char(text, s)>> = [k \in 1..1 |-> Char(text, s)]
  OBVIOUS
<1>4. \A k \in 1..1 : s+k-1 = s
  OBVIOUS
<1> QED BY <1>2, <1>3, <1>4

----------------------------------------------------------------------------
(* The inductive invariant.                                                *)

InputType == opened \in BOOLEAN /\ file \in Bytes /\ stdin \in Bytes

ReadType ==
  /\ in \in BOOLEAN /\ fileRead \in 0..Len(file)+1 /\ stdinRead \in 0..Len(stdin)+1
  /\ LastChar \in -128..127 /\ LexLoc \in Locations

TokenType ==
  /\ CurLoc \in Locations /\ IdentifierStr \in Seq(Int)
  /\ pc \in {"idle", "blank", "identifier", "number", "comment"}
  /\ tok \in -128..127 /\ start \in Nat /\ at \in Nat

\* All that was read comes from one place, and LastChar is the last of it.
Reading ==
  /\ opened => stdinRead = 0 /\ in = (fileRead <= Len(file))
  /\ ~opened => ~in /\ fileRead = 0
  /\ LastChar = Char(Source, read)

\* The characters a .. p-1 are skipped, and p is in no comment.
Between(text, a, p) == a <= p /\ AllSkipped(text, a, p) /\ OutOfComment(text, p)

\* The characters s .. p-1, behind what is skipped, are in one comment.
WithinComment(text, a, s, p) ==
  /\ a <= s /\ s < p /\ AllSkipped(text, a, s)
  /\ Char(text, s) = Hash /\ \A k \in s..p-1 : ~EndsComment(Char(text, k))

\* The characters s .. p-1, behind what is skipped, are of one token.
WithinToken(text, a, s, p) ==
  /\ a <= s /\ s < p /\ AllSkipped(text, a, s) /\ OutOfComment(text, p)
  /\ ~Skipped(text, s)
  /\ \A k \in s+1..p-1 : Belongs(Char(text, s), Char(text, k))

Scanned ==
  /\ pc = "idle" => at = read
  /\ pc \in {"idle", "blank"} => Between(Source, at, read)
  /\ pc = "comment" => WithinComment(Source, at, start, read)
  /\ pc \in {"identifier", "number"} => WithinToken(Source, at, start, read)
  /\ pc = "identifier" => /\ isalpha(Char(Source, start))
                          /\ IdentifierStr = Word(Source, start, read)
  /\ pc = "number" => IsNumeral(Char(Source, start))

AtEnd == tok = tok_eof => LastChar = EOF /\ at = read /\ pc \in {"idle", "blank"}

LInv == InputType /\ ReadType /\ TokenType /\ Reading /\ Scanned /\ AtEnd

\* The invariant contains the type invariant.
LEMMA LInvType == LInv => TypeOK
BY DEF LInv, InputType, ReadType, TokenType, TypeOK, Bytes

----------------------------------------------------------------------------
(* Reading a character, and reading none.                                  *)

\* The source and the place in it have their types.
LEMMA SourceType ==
  ASSUME InputType, ReadType, Reading
  PROVE  /\ Source \in Bytes /\ Len(Source) \in Nat
         /\ read \in 0..Len(Source)+1
<1>1. Source \in Bytes /\ Len(file) \in Nat /\ Len(stdin) \in Nat
  BY LenProperties DEF InputType, Source, Bytes
<1>2. CASE opened
  BY <1>1, <1>2 DEF ReadType, Reading, Source, read
<1>3. CASE ~opened
  BY <1>1, <1>3 DEF ReadType, Reading, Source, read
<1> QED BY <1>1, <1>2, <1>3

\* What is not at the end is in the text.
LEMMA NotBehind ==
  ASSUME InputType, ReadType, Reading, LastChar # EOF
  PROVE  read <= Len(Source)
<1>1. Source \in Bytes /\ Len(Source) \in Nat /\ read \in Nat
  BY SourceType
<1>2. LastChar = Char(Source, read)
  BY DEF Reading
<1> QED BY <1>1, <1>2, CharBehind

\* Reading goes on by one character of the same source.
LEMMA Advance ==
  ASSUME InputType, ReadType, Reading, LastChar # EOF, advance, UNCHANGED inputs
  PROVE  InputType' /\ ReadType' /\ Reading' /\ read' = read + 1 /\ Source' = Source
<1>1. getSingleChar /\ LexLoc' \in Locations
  <2>1. LexLoc \in Locations
    BY DEF ReadType
  <2> QED BY <2>1 DEF advance, Locations
<1>2. opened' = opened /\ file' = file /\ stdin' = stdin
  BY DEF inputs
<1>3. InputType' /\ Source' = Source
  BY <1>2 DEF InputType, Source
<1>4. Len(file) \in Nat /\ Len(stdin) \in Nat /\ file \in Bytes /\ stdin \in Bytes
  BY LenProperties DEF InputType, Bytes
<1>5. read <= Len(Source)
  BY NotBehind
<1>6. CASE opened
  <2>1. Source = file /\ stdinRead = 0 /\ read = fileRead /\ fileRead \in Nat
    BY <1>6, <1>4 DEF Source, Reading, read, ReadType
  <2>2. fileRead <= Len(file) /\ in
    BY <1>5, <1>6, <2>1 DEF Reading
  <2>3. /\ LastChar' = Byte(file, fileRead + 1) /\ fileRead' = fileRead + 1
        /\ in' = (fileRead < Len(file)) /\ stdinRead' = stdinRead
    BY <1>1, <2>2 DEF getSingleChar
  <2>4. read' = read + 1
    BY <2>1, <2>3 DEF read
  <2>5. LastChar' = Char(file, fileRead + 1)
    BY <2>1, <2>3 DEF Char
  <2>6. LastChar' \in -128..127
    <3>1. fileRead+1 \in Nat
      BY <2>1
    <3>2. Char(file, fileRead+1) \in -128..127
      BY <1>4, <3>1, CharType
    <3> QED BY <2>5, <3>2
  <2>7. fileRead' \in 0..Len(file)+1 /\ stdinRead' \in 0..Len(stdin)+1
    BY <2>1, <2>2, <2>3, <1>4
  <2>8. in' \in BOOLEAN
    BY <2>3
  <2>9. ReadType'
    BY <1>1, <1>2, <2>6, <2>7, <2>8 DEF ReadType
  <2>10. in' = (fileRead' <= Len(file)')
    BY <1>2, <1>4, <2>1, <2>3
  <2>11. LastChar' = Char(Source', read')
    BY <1>3, <2>1, <2>4, <2>5
  <2>12. Reading'
    BY <1>2, <1>6, <2>1, <2>3, <2>10, <2>11 DEF Reading
  <2> QED BY <1>3, <2>4, <2>9, <2>12
<1>7. CASE ~opened
  <2>1. Source = stdin /\ ~in /\ fileRead = 0 /\ read = stdinRead /\ stdinRead \in Nat
    BY <1>7, <1>4 DEF Source, Reading, read, ReadType
  <2>2. stdinRead <= Len(stdin)
    BY <1>5, <2>1
  <2>3. /\ LastChar' = Byte(stdin, stdinRead + 1) /\ stdinRead' = stdinRead + 1
        /\ in' = in /\ fileRead' = fileRead
    BY <1>1, <2>1 DEF getSingleChar
  <2>4. read' = read + 1
    BY <2>1, <2>3 DEF read
  <2>5. LastChar' = Char(stdin, stdinRead + 1)
    BY <2>1, <2>3 DEF Char
  <2>6. LastChar' \in -128..127
    <3>1. stdinRead+1 \in Nat
      BY <2>1
    <3>2. Char(stdin, stdinRead+1) \in -128..127
      BY <1>4, <3>1, CharType
    <3> QED BY <2>5, <3>2
  <2>7. fileRead' \in 0..Len(file)+1 /\ stdinRead' \in 0..Len(stdin)+1
    BY <2>1, <2>2, <2>3, <1>4
  <2>8. in' \in BOOLEAN
    BY <2>3 DEF ReadType
  <2>9. ReadType'
    BY <1>1, <1>2, <2>6, <2>7, <2>8 DEF ReadType
  <2>10. LastChar' = Char(Source', read')
    BY <1>3, <2>1, <2>4, <2>5
  <2>11. Reading'
    BY <1>2, <1>7, <2>1, <2>3, <2>10 DEF Reading
  <2> QED BY <1>3, <2>4, <2>9, <2>11
<1> QED BY <1>6, <1>7

\* What reads nothing leaves the source and the place in it alone.
LEMMA NoRead ==
  ASSUME InputType, ReadType, Reading, UNCHANGED <<inputs, reading>>
  PROVE  /\ InputType' /\ ReadType' /\ Reading' /\ read' = read /\ Source' = Source
         /\ LastChar' = LastChar
BY DEF inputs, reading, InputType, ReadType, Reading, Source, read

----------------------------------------------------------------------------
(* The steps.                                                              *)

\* A step inside a call, as the abstract lexer sees it.
Inside == Source' = Source /\ at' = at /\ tok' = tok

\* The token s .. e-1 is returned.
Returns(s, e) ==
  /\ s \in at..Len(Source)+1 /\ e \in s..Len(Source)+1
  /\ AllSkipped(Source, at, s) /\ ~Skipped(Source, s) /\ IsToken(Source, s, e)
  /\ at' = e /\ tok' = TokenOf(Source, s, e) /\ Source' = Source

LEMMA CallStep ==
  ASSUME LInv, gettok
  PROVE  LInv' /\ Inside
<1>1. UNCHANGED <<inputs, reading>> /\ UNCHANGED <<CurLoc, IdentifierStr, tok, start, at>>
  BY DEF gettok
<1>2. pc = "idle" /\ pc' = "blank"
  BY DEF gettok
<1>3. /\ InputType' /\ ReadType' /\ Reading' /\ read' = read /\ Source' = Source
      /\ LastChar' = LastChar
  BY <1>1, NoRead DEF LInv
<1>4. TokenType'
  BY <1>1, <1>2 DEF LInv, TokenType
<1>5. Scanned'
  BY <1>1, <1>2, <1>3 DEF LInv, Scanned
<1>6. AtEnd'
  BY <1>1, <1>2, <1>3 DEF LInv, AtEnd
<1> QED BY <1>1, <1>3, <1>4, <1>5, <1>6 DEF LInv, Inside

LEMMA BlankStep ==
  ASSUME LInv, Blank
  PROVE  LInv' /\ Inside
<1>1. pc = "blank" /\ pc' = "blank" /\ isspace(LastChar) /\ advance /\ UNCHANGED inputs
      /\ UNCHANGED <<CurLoc, IdentifierStr, tok, start, at>>
  BY DEF Blank
<1>2. LastChar # EOF /\ LastChar # Hash
  BY <1>1 DEF isspace, EOF, Hash
<1>3. InputType' /\ ReadType' /\ Reading' /\ read' = read + 1 /\ Source' = Source
  BY <1>1, <1>2, Advance DEF LInv
<1>4. Source \in Bytes /\ read \in Nat /\ LastChar = Char(Source, read)
  BY SourceType DEF LInv, Reading
<1>5. Between(Source, at, read) /\ at \in Nat
  BY <1>1 DEF LInv, Scanned, TokenType
<1>6. Between(Source, at, read + 1)
  <2>1. OutOfComment(Source, read + 1)
    BY <1>2, <1>4, <1>5, StaysOut DEF Between
  <2>2. Skipped(Source, read)
    BY <1>1, <1>4 DEF Skipped
  <2> QED BY <1>4, <1>5, <2>1, <2>2 DEF Between, AllSkipped
<1>7. TokenType'
  BY <1>1 DEF LInv, TokenType
<1>8. Scanned'
  BY <1>1, <1>3, <1>6 DEF Scanned
<1>9. AtEnd'
  BY <1>1, <1>2 DEF LInv, AtEnd
<1> QED BY <1>1, <1>3, <1>7, <1>8, <1>9 DEF LInv, Inside

\* What holds when gettok has found a character that is no blank.
LEMMA BeginFacts ==
  ASSUME LInv, Begin
  PROVE  /\ pc = "blank" /\ start' = read /\ CurLoc' \in Locations /\ start' \in Nat
         /\ Source \in Bytes /\ read \in Nat /\ at \in Nat /\ LastChar = Char(Source, read)
         /\ Between(Source, at, read) /\ ~isspace(LastChar)
         /\ LastChar # Hash => ~Skipped(Source, read)
<1>1. pc = "blank" /\ ~isspace(LastChar) /\ CurLoc' = LexLoc /\ start' = read
  BY DEF Begin
<1>2. Source \in Bytes /\ read \in Nat /\ LastChar = Char(Source, read)
  BY SourceType DEF LInv, Reading
<1>3. Between(Source, at, read) /\ at \in Nat
  BY <1>1 DEF LInv, Scanned, TokenType
<1>4. CurLoc' \in Locations
  BY <1>1 DEF LInv, ReadType
<1>5. LastChar # Hash => ~Skipped(Source, read)
  BY <1>1, <1>2, <1>3, BeginsToken DEF Between
<1> QED BY <1>1, <1>2, <1>3, <1>4, <1>5

\* A word or a number begins, grows and ends.
LEMMA IdentifierStep ==
  ASSUME LInv, Identifier
  PROVE  LInv' /\ Inside
<1>1. Begin /\ isalpha(LastChar) /\ advance /\ pc' = "identifier" /\ IdentifierStr' = <<LastChar>>
      /\ UNCHANGED inputs /\ UNCHANGED <<tok, at>>
  BY DEF Identifier
<1>2. LastChar # EOF /\ LastChar # Hash
  BY <1>1 DEF isalpha, EOF, Hash
<1>3. InputType' /\ ReadType' /\ Reading' /\ read' = read + 1 /\ Source' = Source
  BY <1>1, <1>2, Advance DEF LInv
<1>4. /\ start' = read /\ CurLoc' \in Locations /\ start' \in Nat /\ Source \in Bytes
      /\ read \in Nat /\ at \in Nat /\ LastChar = Char(Source, read)
      /\ Between(Source, at, read) /\ ~Skipped(Source, read)
  BY <1>1, <1>2, BeginFacts
<1>5. WithinToken(Source, at, read, read + 1)
  <2>1. OutOfComment(Source, read + 1)
    BY <1>2, <1>4, StaysOut DEF Between
  <2> QED BY <1>4, <2>1 DEF Between, WithinToken
<1>6. IdentifierStr' = Word(Source, read, read + 1) /\ IdentifierStr' \in Seq(Int)
  <2>1. IdentifierStr' = Word(Source, read, read + 1)
    BY <1>1, <1>4, WordBegins
  <2>2. Word(Source, read, read + 1) \in Seq(Int)
    BY <1>4, read + 1 \in Nat, read <= read + 1, WordType
  <2> QED BY <2>1, <2>2
<1>7. TokenType'
  <2>1. tok' \in -128..127 /\ at' \in Nat
    BY <1>1 DEF LInv, TokenType
  <2> QED BY <1>1, <1>4, <1>6, <2>1 DEF TokenType
<1>8. isalpha(Char(Source', start'))
  BY <1>1, <1>3, <1>4
<1>9. Scanned'
  BY <1>1, <1>3, <1>4, <1>5, <1>6, <1>8 DEF Scanned
<1>10. AtEnd'
  BY <1>1, <1>2 DEF LInv, AtEnd
<1> QED BY <1>1, <1>3, <1>7, <1>9, <1>10 DEF LInv, Inside

LEMMA MoreOfIdentifierStep ==
  ASSUME LInv, MoreOfIdentifier
  PROVE  LInv' /\ Inside
<1>1. pc = "identifier" /\ isalnum(LastChar) /\ advance /\ pc' = "identifier" /\ IdentifierStr' = Append(IdentifierStr, LastChar)
      /\ UNCHANGED inputs /\ UNCHANGED <<CurLoc, tok, start, at>>
  BY DEF MoreOfIdentifier
<1>2. LastChar # EOF /\ LastChar # Hash
  BY <1>1, CharClasses DEF LInv, ReadType
<1>3. InputType' /\ ReadType' /\ Reading' /\ read' = read + 1 /\ Source' = Source
  BY <1>1, <1>2, Advance DEF LInv
<1>4. Source \in Bytes /\ read \in Nat /\ LastChar = Char(Source, read)
  BY SourceType DEF LInv, Reading
<1>5. /\ WithinToken(Source, at, start, read) /\ isalpha(Char(Source, start))
      /\ start \in Nat /\ at \in Nat
  BY <1>1 DEF LInv, Scanned, TokenType
<1>6. WithinToken(Source, at, start, read + 1)
  <2>1. OutOfComment(Source, read + 1)
    BY <1>2, <1>4, <1>5, StaysOut DEF WithinToken
  <2>2. Belongs(Char(Source, start), Char(Source, read))
    BY <1>1, <1>4, <1>5 DEF Belongs
  <2> QED BY <1>4, <1>5, <2>1, <2>2 DEF WithinToken
<1>7. IdentifierStr' = Word(Source, start, read + 1) /\ IdentifierStr' \in Seq(Int)
  <2>1. IdentifierStr = Word(Source, start, read) /\ start < read
    BY <1>1, <1>5 DEF LInv, Scanned, WithinToken
  <2>2. IdentifierStr' = Word(Source, start, read + 1)
    BY <1>1, <1>4, <1>5, <2>1, WordGrows
  <2>3. start <= read + 1 /\ read + 1 \in Nat
    BY <1>4, <1>5, <2>1
  <2>4. Word(Source, start, read + 1) \in Seq(Int)
    BY <1>4, <1>5, <2>3, WordType
  <2> QED BY <2>2, <2>4
<1>8. TokenType'
  <2>1. CurLoc' \in Locations /\ tok' \in -128..127 /\ start' \in Nat /\ at' \in Nat
    BY <1>1 DEF LInv, TokenType
  <2> QED BY <1>1, <1>7, <2>1 DEF TokenType
<1>9. isalpha(Char(Source', start'))
  BY <1>1, <1>3, <1>5
<1>10. Scanned'
  BY <1>1, <1>3, <1>6, <1>7, <1>9 DEF Scanned
<1>11. AtEnd'
  BY <1>1, <1>2 DEF LInv, AtEnd
<1> QED BY <1>1, <1>3, <1>8, <1>10, <1>11 DEF LInv, Inside

LEMMA EndOfIdentifierStep ==
  ASSUME LInv, EndOfIdentifier
  PROVE  LInv' /\ Returns(start, read)
<1>1. /\ pc = "identifier" /\ ~isalnum(LastChar) /\ pc' = "idle" /\ tok' = WordToken(IdentifierStr)
      /\ at' = read' /\ UNCHANGED <<inputs, reading>> /\ UNCHANGED <<CurLoc, IdentifierStr, start>>
  BY DEF EndOfIdentifier, Return
<1>2. /\ InputType' /\ ReadType' /\ Reading' /\ read' = read /\ Source' = Source
      /\ LastChar' = LastChar
  BY <1>1, NoRead DEF LInv
<1>3. /\ Source \in Bytes /\ read \in 0..Len(Source)+1 /\ LastChar = Char(Source, read)
      /\ Len(Source) \in Nat
  BY SourceType DEF LInv, Reading
<1>4. /\ WithinToken(Source, at, start, read) /\ isalpha(Char(Source, start))
      /\ start \in Nat /\ at \in Nat
  BY <1>1 DEF LInv, Scanned, TokenType
<1>5. tok' = TokenOf(Source, start, read)
  <2>1. IdentifierStr = Word(Source, start, read)
    BY <1>1 DEF LInv, Scanned
  <2> QED BY <1>1, <1>4, <2>1 DEF TokenOf, Word
<1>6. tok' \in -13..-2
  BY <1>1, KeywordAssumption DEF WordToken, KeywordTokens, tok_identifier
<1>7. IsToken(Source, start, read)
  <2>1. Char(Source, start) # EOF
    BY <1>4 DEF isalpha, IsNumeral, isdigit, EOF
  <2>2. ~Belongs(Char(Source, start), Char(Source, read))
    <3>1. Char(Source, start) \in -128..127
      BY <1>3, <1>4, CharType
    <3>2. isalpha(Char(Source, start)) => ~IsNumeral(Char(Source, start))
      BY <3>1, CharClasses
    <3> QED BY <1>1, <1>3, <1>4, <3>2, Zenon DEF Belongs
  <2> QED BY <1>3, <1>4, <2>1, <2>2 DEF WithinToken, IsToken
<1>8. Between(Source, read, read)
  BY <1>3, <1>4 DEF WithinToken, Between, AllSkipped
<1>9. TokenType'
  <2>1. CurLoc' \in Locations /\ IdentifierStr' \in Seq(Int) /\ start' \in Nat
    BY <1>1 DEF LInv, TokenType
  <2>2. at' \in Nat /\ tok' \in -128..127
    BY <1>1, <1>2, <1>3, <1>6
  <2> QED BY <1>1, <2>1, <2>2 DEF TokenType
<1>10. Scanned'
  BY <1>1, <1>2, <1>8 DEF Scanned
<1>11. AtEnd'
  <2>1. tok' # tok_eof
    BY <1>6 DEF tok_eof
  <2> QED BY <2>1 DEF AtEnd
<1>12. Returns(start, read)
  BY <1>1, <1>2, <1>3, <1>4, <1>5, <1>7 DEF WithinToken, Returns
<1> QED BY <1>2, <1>9, <1>10, <1>11, <1>12 DEF LInv

LEMMA NumberStep ==
  ASSUME LInv, Number
  PROVE  LInv' /\ Inside
<1>1. Begin /\ IsNumeral(LastChar) /\ advance /\ pc' = "number" /\ IdentifierStr' = IdentifierStr
      /\ UNCHANGED inputs /\ UNCHANGED <<tok, at>>
  BY DEF Number
<1>2. LastChar # EOF /\ LastChar # Hash
  BY <1>1 DEF IsNumeral, isdigit, EOF, Hash
<1>3. InputType' /\ ReadType' /\ Reading' /\ read' = read + 1 /\ Source' = Source
  BY <1>1, <1>2, Advance DEF LInv
<1>4. /\ start' = read /\ CurLoc' \in Locations /\ start' \in Nat /\ Source \in Bytes
      /\ read \in Nat /\ at \in Nat /\ LastChar = Char(Source, read)
      /\ Between(Source, at, read) /\ ~Skipped(Source, read)
  BY <1>1, <1>2, BeginFacts
<1>5. WithinToken(Source, at, read, read + 1)
  <2>1. OutOfComment(Source, read + 1)
    BY <1>2, <1>4, StaysOut DEF Between
  <2> QED BY <1>4, <2>1 DEF Between, WithinToken
<1>6. IdentifierStr' \in Seq(Int)
  BY <1>1 DEF LInv, TokenType
<1>7. TokenType'
  <2>1. tok' \in -128..127 /\ at' \in Nat
    BY <1>1 DEF LInv, TokenType
  <2> QED BY <1>1, <1>4, <1>6, <2>1 DEF TokenType
<1>8. IsNumeral(Char(Source', start'))
  BY <1>1, <1>3, <1>4
<1>9. Scanned'
  BY <1>1, <1>3, <1>4, <1>5, <1>6, <1>8 DEF Scanned
<1>10. AtEnd'
  BY <1>1, <1>2 DEF LInv, AtEnd
<1> QED BY <1>1, <1>3, <1>7, <1>9, <1>10 DEF LInv, Inside

LEMMA MoreOfNumberStep ==
  ASSUME LInv, MoreOfNumber
  PROVE  LInv' /\ Inside
<1>1. pc = "number" /\ IsNumeral(LastChar) /\ advance /\ pc' = "number" /\ IdentifierStr' = IdentifierStr
      /\ UNCHANGED inputs /\ UNCHANGED <<CurLoc, tok, start, at>>
  BY DEF MoreOfNumber
<1>2. LastChar # EOF /\ LastChar # Hash
  BY <1>1 DEF IsNumeral, isdigit, EOF, Hash
<1>3. InputType' /\ ReadType' /\ Reading' /\ read' = read + 1 /\ Source' = Source
  BY <1>1, <1>2, Advance DEF LInv
<1>4. Source \in Bytes /\ read \in Nat /\ LastChar = Char(Source, read)
  BY SourceType DEF LInv, Reading
<1>5. /\ WithinToken(Source, at, start, read) /\ IsNumeral(Char(Source, start))
      /\ start \in Nat /\ at \in Nat
  BY <1>1 DEF LInv, Scanned, TokenType
<1>6. WithinToken(Source, at, start, read + 1)
  <2>1. OutOfComment(Source, read + 1)
    BY <1>2, <1>4, <1>5, StaysOut DEF WithinToken
  <2>2. Belongs(Char(Source, start), Char(Source, read))
    BY <1>1, <1>4, <1>5 DEF Belongs
  <2> QED BY <1>4, <1>5, <2>1, <2>2 DEF WithinToken
<1>7. IdentifierStr' \in Seq(Int)
  BY <1>1 DEF LInv, TokenType
<1>8. TokenType'
  <2>1. CurLoc' \in Locations /\ tok' \in -128..127 /\ start' \in Nat /\ at' \in Nat
    BY <1>1 DEF LInv, TokenType
  <2> QED BY <1>1, <1>7, <2>1 DEF TokenType
<1>9. IsNumeral(Char(Source', start'))
  BY <1>1, <1>3, <1>5
<1>10. Scanned'
  BY <1>1, <1>3, <1>6, <1>7, <1>9 DEF Scanned
<1>11. AtEnd'
  BY <1>1, <1>2 DEF LInv, AtEnd
<1> QED BY <1>1, <1>3, <1>8, <1>10, <1>11 DEF LInv, Inside

LEMMA EndOfNumberStep ==
  ASSUME LInv, EndOfNumber
  PROVE  LInv' /\ Returns(start, read)
<1>1. /\ pc = "number" /\ ~IsNumeral(LastChar) /\ pc' = "idle" /\ tok' = tok_number
      /\ at' = read' /\ UNCHANGED <<inputs, reading>> /\ UNCHANGED <<CurLoc, IdentifierStr, start>>
  BY DEF EndOfNumber, Return
<1>2. /\ InputType' /\ ReadType' /\ Reading' /\ read' = read /\ Source' = Source
      /\ LastChar' = LastChar
  BY <1>1, NoRead DEF LInv
<1>3. /\ Source \in Bytes /\ read \in 0..Len(Source)+1 /\ LastChar = Char(Source, read)
      /\ Len(Source) \in Nat
  BY SourceType DEF LInv, Reading
<1>4. /\ WithinToken(Source, at, start, read) /\ IsNumeral(Char(Source, start))
      /\ start \in Nat /\ at \in Nat
  BY <1>1 DEF LInv, Scanned, TokenType
<1>5. tok' = TokenOf(Source, start, read)
  <2>1. ~isalpha(Char(Source, start))
    BY <1>4 DEF isalpha, IsNumeral, isdigit
  <2> QED BY <1>1, <1>4, <2>1 DEF TokenOf
<1>6. tok' \in -13..-2
  BY <1>1 DEF tok_number
<1>7. IsToken(Source, start, read)
  <2>1. Char(Source, start) # EOF
    BY <1>4 DEF isalpha, IsNumeral, isdigit, EOF
  <2>2. ~Belongs(Char(Source, start), Char(Source, read))
    <3>1. Char(Source, start) \in -128..127
      BY <1>3, <1>4, CharType
    <3>2. isalpha(Char(Source, start)) => ~IsNumeral(Char(Source, start))
      BY <3>1, CharClasses
    <3> QED BY <1>1, <1>3, <1>4, <3>2, Zenon DEF Belongs
  <2> QED BY <1>3, <1>4, <2>1, <2>2 DEF WithinToken, IsToken
<1>8. Between(Source, read, read)
  BY <1>3, <1>4 DEF WithinToken, Between, AllSkipped
<1>9. TokenType'
  <2>1. CurLoc' \in Locations /\ IdentifierStr' \in Seq(Int) /\ start' \in Nat
    BY <1>1 DEF LInv, TokenType
  <2>2. at' \in Nat /\ tok' \in -128..127
    BY <1>1, <1>2, <1>3, <1>6
  <2> QED BY <1>1, <2>1, <2>2 DEF TokenType
<1>10. Scanned'
  BY <1>1, <1>2, <1>8 DEF Scanned
<1>11. AtEnd'
  <2>1. tok' # tok_eof
    BY <1>6 DEF tok_eof
  <2> QED BY <2>1 DEF AtEnd
<1>12. Returns(start, read)
  BY <1>1, <1>2, <1>3, <1>4, <1>5, <1>7 DEF WithinToken, Returns
<1> QED BY <1>2, <1>9, <1>10, <1>11, <1>12 DEF LInv

\* A comment begins, goes on and ends; what it holds is skipped.
LEMMA CommentStep ==
  ASSUME LInv, Comment
  PROVE  LInv' /\ Inside
<1>1. Begin /\ LastChar = Hash /\ advance /\ pc' = "comment"
      /\ UNCHANGED inputs /\ UNCHANGED <<IdentifierStr, tok, at>>
  BY DEF Comment
<1>2. LastChar # EOF
  BY <1>1 DEF EOF, Hash
<1>3. InputType' /\ ReadType' /\ Reading' /\ read' = read + 1 /\ Source' = Source
  BY <1>1, <1>2, Advance DEF LInv
<1>4. /\ start' = read /\ CurLoc' \in Locations /\ start' \in Nat
      /\ read \in Nat /\ at \in Nat /\ LastChar = Char(Source, read)
      /\ Between(Source, at, read)
  BY <1>1, BeginFacts
<1>5. WithinComment(Source, at, read, read + 1)
  <2>1. ~EndsComment(LastChar)
    BY <1>1 DEF EndsComment, LineEnds, EOF, Hash
  <2>2. \A k \in read..(read + 1)-1 : k = read
    BY <1>4
  <2> QED BY <1>1, <1>4, <2>1, <2>2 DEF Between, WithinComment
<1>6. TokenType'
  <2>1. IdentifierStr' \in Seq(Int) /\ tok' \in -128..127 /\ at' \in Nat
    BY <1>1 DEF LInv, TokenType
  <2> QED BY <1>1, <1>4, <2>1 DEF TokenType
<1>7. Scanned'
  BY <1>1, <1>3, <1>4, <1>5 DEF Scanned
<1>8. AtEnd'
  BY <1>1, <1>2 DEF LInv, AtEnd
<1> QED BY <1>1, <1>3, <1>6, <1>7, <1>8 DEF LInv, Inside

LEMMA MoreOfCommentStep ==
  ASSUME LInv, MoreOfComment
  PROVE  LInv' /\ Inside
<1>1. pc = "comment" /\ ~EndsComment(LastChar) /\ advance /\ pc' = "comment"
      /\ UNCHANGED inputs /\ UNCHANGED <<CurLoc, IdentifierStr, tok, start, at>>
  BY DEF MoreOfComment
<1>2. LastChar # EOF
  BY <1>1 DEF EndsComment
<1>3. InputType' /\ ReadType' /\ Reading' /\ read' = read + 1 /\ Source' = Source
  BY <1>1, <1>2, Advance DEF LInv
<1>4. read \in Nat /\ LastChar = Char(Source, read)
  BY SourceType DEF LInv, Reading
<1>5. WithinComment(Source, at, start, read) /\ start \in Nat
  BY <1>1 DEF LInv, Scanned, TokenType
<1>6. WithinComment(Source, at, start, read + 1)
  <2>1. start < read + 1 /\ \A k \in start..(read + 1)-1 : k \in start..read-1 \/ k = read
    BY <1>4, <1>5 DEF WithinComment
  <2> QED BY <1>1, <1>4, <1>5, <2>1 DEF WithinComment
<1>7. TokenType'
  BY <1>1 DEF LInv, TokenType
<1>8. Scanned'
  BY <1>1, <1>3, <1>6 DEF Scanned
<1>9. AtEnd'
  BY <1>1, <1>2 DEF LInv, AtEnd
<1> QED BY <1>1, <1>3, <1>7, <1>8, <1>9 DEF LInv, Inside

\* At the end of a comment everything up to there has been skipped.
LEMMA CommentEnds ==
  ASSUME LInv, pc = "comment", EndsComment(LastChar)
  PROVE  Between(Source, at, read)
<1>1. Source \in Bytes /\ read \in Nat /\ LastChar = Char(Source, read)
  BY SourceType DEF LInv, Reading
<1>2. WithinComment(Source, at, start, read) /\ start \in Nat /\ at \in Nat
  BY DEF LInv, Scanned, TokenType
<1>3. OutOfComment(Source, read)
  BY <1>1, EndIsOut
<1>4. AllSkipped(Source, at, read)
  BY <1>1, <1>2, CommentSkipped DEF WithinComment
<1> QED BY <1>1, <1>2, <1>3, <1>4 DEF Between, WithinComment

LEMMA EndOfCommentStep ==
  ASSUME LInv, EndOfComment
  PROVE  LInv' /\ Inside
<1>1. pc = "comment" /\ LastChar \in LineEnds /\ pc' = "blank"
      /\ UNCHANGED <<inputs, reading>> /\ UNCHANGED <<CurLoc, IdentifierStr, tok, start, at>>
  BY DEF EndOfComment
<1>2. /\ InputType' /\ ReadType' /\ Reading' /\ read' = read /\ Source' = Source
      /\ LastChar' = LastChar
  BY <1>1, NoRead DEF LInv
<1>3. Between(Source, at, read)
  BY <1>1, CommentEnds DEF EndsComment
<1>4. TokenType'
  BY <1>1 DEF LInv, TokenType
<1>5. Scanned'
  BY <1>1, <1>2, <1>3 DEF Scanned
<1>6. AtEnd'
  BY <1>1, <1>2 DEF LInv, AtEnd
<1> QED BY <1>1, <1>2, <1>4, <1>5, <1>6 DEF LInv, Inside

\* The end of the input is a token that no character belongs to.
LEMMA EndOfFileStep ==
  ASSUME LInv, EndOfFile
  PROVE  LInv' /\ Returns(read, read)
<1>1. /\ LastChar = EOF /\ tok' = tok_eof /\ pc' = "idle" /\ at' = read'
      /\ UNCHANGED <<inputs, reading>> /\ UNCHANGED IdentifierStr
  BY DEF EndOfFile, Return
<1>2. /\ InputType' /\ ReadType' /\ Reading' /\ read' = read /\ Source' = Source
      /\ LastChar' = LastChar
  BY <1>1, NoRead DEF LInv
<1>3. /\ Source \in Bytes /\ read \in 0..Len(Source)+1 /\ LastChar = Char(Source, read)
      /\ Len(Source) \in Nat
  BY SourceType DEF LInv, Reading
<1>4. Between(Source, at, read) /\ CurLoc' \in Locations /\ start' \in Nat
  <2>1. CASE Begin
    BY <2>1, BeginFacts
  <2>2. CASE pc = "comment" /\ UNCHANGED <<CurLoc, start>>
    <3>1. Between(Source, at, read)
      BY <1>1, <2>2, CommentEnds DEF EndsComment
    <3> QED BY <2>2, <3>1 DEF LInv, TokenType
  <2> QED BY <2>1, <2>2 DEF EndOfFile
<1>5. at \in Nat /\ IdentifierStr' \in Seq(Int)
  BY <1>1 DEF LInv, TokenType
<1>6. OutOfComment(Source, read) /\ ~isspace(LastChar) /\ LastChar # Hash
  BY <1>1, <1>4 DEF Between, isspace, EOF, Hash
<1>7. ~Skipped(Source, read)
  BY <1>3, <1>6, BeginsToken
<1>8. TokenOf(Source, read, read) = tok_eof
  <2>1. ~isalpha(LastChar) /\ ~IsNumeral(LastChar) /\ LastChar = tok_eof
    BY <1>1 DEF isalpha, IsNumeral, isdigit, EOF, tok_eof
  <2> QED BY <1>3, <2>1 DEF TokenOf
<1>9. IsToken(Source, read, read)
  BY <1>1, <1>3 DEF IsToken
<1>10. TokenType'
  <2>1. at' \in Nat /\ tok' \in -128..127
    BY <1>1, <1>2, <1>3 DEF tok_eof
  <2> QED BY <1>1, <1>4, <1>5, <2>1 DEF TokenType
<1>11. Between(Source, read, read)
  BY <1>3, <1>6 DEF Between, AllSkipped
<1>12. Scanned'
  BY <1>1, <1>2, <1>11 DEF Scanned
<1>13. AtEnd'
  BY <1>1, <1>2 DEF AtEnd
<1>14. Returns(read, read)
  BY <1>1, <1>2, <1>3, <1>4, <1>5, <1>7, <1>8, <1>9 DEF Between, Returns
<1> QED BY <1>2, <1>10, <1>12, <1>13, <1>14 DEF LInv

\* Every other character is a token of its own.
LEMMA CharacterStep ==
  ASSUME LInv, Character
  PROVE  LInv' /\ Returns(read, read + 1)
<1>1. /\ Begin /\ ~isalpha(LastChar) /\ ~IsNumeral(LastChar)
      /\ LastChar # Hash /\ LastChar # EOF
      /\ advance /\ tok' = LastChar /\ pc' = "idle" /\ at' = read'
      /\ UNCHANGED inputs /\ UNCHANGED IdentifierStr
  BY DEF Character, Return
<1>2. InputType' /\ ReadType' /\ Reading' /\ read' = read + 1 /\ Source' = Source
  BY <1>1, Advance DEF LInv
<1>3. /\ CurLoc' \in Locations /\ start' \in Nat /\ Source \in Bytes
      /\ read \in Nat /\ at \in Nat /\ LastChar = Char(Source, read)
      /\ Between(Source, at, read) /\ ~Skipped(Source, read)
  BY <1>1, BeginFacts
<1>4. read <= Len(Source) /\ Len(Source) \in Nat
  BY <1>1, NotBehind, SourceType DEF LInv
<1>5. Between(Source, read + 1, read + 1)
  <2>1. OutOfComment(Source, read + 1)
    BY <1>1, <1>3, StaysOut DEF Between
  <2> QED BY <1>3, <2>1 DEF Between, AllSkipped
<1>6. TokenOf(Source, read, read + 1) = LastChar
  BY <1>1, <1>3 DEF TokenOf
<1>7. IsToken(Source, read, read + 1)
  <2>1. ~Belongs(LastChar, Char(Source, read + 1))
    BY <1>1 DEF Belongs
  <2>2. \A k \in read+1..(read + 1)-1 : FALSE
    BY <1>3
  <2> QED BY <1>1, <1>3, <2>1, <2>2 DEF IsToken
<1>8. TokenType'
  <2>1. IdentifierStr' \in Seq(Int) /\ tok' \in -128..127
    BY <1>1 DEF LInv, TokenType, ReadType
  <2>2. at' \in Nat
    BY <1>1, <1>2, <1>3
  <2> QED BY <1>1, <1>3, <2>1, <2>2 DEF TokenType
<1>9. Scanned'
  BY <1>1, <1>2, <1>5 DEF Scanned
<1>10. AtEnd'
  BY <1>1 DEF AtEnd, tok_eof, EOF
<1>11. Returns(read, read + 1)
  BY <1>1, <1>2, <1>3, <1>4, <1>6, <1>7 DEF Between, Returns
<1> QED BY <1>2, <1>8, <1>9, <1>10, <1>11 DEF LInv

----------------------------------------------------------------------------
(* The theorems.                                                           *)

LEMMA InitInvariant == Init => LInv
<1> SUFFICES ASSUME Init PROVE LInv
  OBVIOUS
<1>1. InputType /\ opened = in
  <2>1. PICK s \in Setups : opened = s.opened /\ file = s.file /\ stdin = s.stdin
    BY DEF Init
  <2>2. s.opened \in BOOLEAN /\ s.file \in Bytes /\ s.stdin \in Bytes
    BY SetupsAssumption DEF Bytes
  <2>3. in = opened
    BY DEF Init
  <2> QED BY <2>1, <2>2, <2>3, Zenon DEF InputType
<1>2. /\ fileRead = 0 /\ stdinRead = 0 /\ LastChar = 32 /\ IdentifierStr = <<>>
      /\ LexLoc = [Line |-> 1, Col |-> 0] /\ CurLoc = [Line |-> 0, Col |-> 0]
      /\ tok = 0 /\ start = 0 /\ at = 0
  BY DEF Init
<1>3. pc = "idle"
  BY DEF Init
<1>4. Len(file) \in Nat /\ Len(stdin) \in Nat
  BY <1>1, LenProperties DEF InputType, Bytes
<1>5. ReadType
  <2>1. in \in BOOLEAN
    BY <1>1 DEF InputType
  <2>2. fileRead \in 0..Len(file)+1 /\ stdinRead \in 0..Len(stdin)+1 /\ LastChar \in -128..127
    BY <1>2, <1>4
  <2>3. LexLoc \in Locations
    BY <1>2 DEF Locations
  <2> QED BY <2>1, <2>2, <2>3 DEF ReadType
<1>6. TokenType
  BY <1>2, <1>3, EmptySeq DEF TokenType, Locations
<1>7. Reading
  <2>1. read = 0 /\ Char(Source, read) = 32
    BY <1>2 DEF read, Char
  <2>2. fileRead <= Len(file)
    BY <1>2, <1>4
  <2> QED BY <1>1, <1>2, <2>1, <2>2 DEF Reading, InputType
<1>8. Scanned
  <2>1. read = 0
    BY <1>2 DEF read
  <2>2. Between(Source, at, read)
    BY <1>2, <2>1 DEF Between, AllSkipped, OutOfComment
  <2> QED BY <1>2, <1>3, <2>1, <2>2 DEF Scanned
<1>9. AtEnd
  BY <1>2 DEF AtEnd, tok_eof
<1> QED BY <1>1, <1>5, <1>6, <1>7, <1>8, <1>9 DEF LInv

LEMMA Stutter ==
  ASSUME LInv, UNCHANGED vars
  PROVE  LInv' /\ Inside
<1>1. UNCHANGED <<inputs, reading>> /\ UNCHANGED <<CurLoc, IdentifierStr, pc, tok, start, at>>
  BY DEF vars
<1>2. /\ InputType' /\ ReadType' /\ Reading' /\ read' = read /\ Source' = Source
      /\ LastChar' = LastChar
  BY <1>1, NoRead DEF LInv
<1>3. TokenType'
  BY <1>1 DEF LInv, TokenType
<1>4. Scanned'
  BY <1>1, <1>2 DEF LInv, Scanned
<1>5. AtEnd'
  BY <1>1, <1>2 DEF LInv, AtEnd
<1> QED BY <1>1, <1>2, <1>3, <1>4, <1>5 DEF LInv, Inside

\* Every step keeps the invariant, and is inside a call or returns a token.
LEMMA StepInvariant ==
  ASSUME LInv, [Next]_vars
  PROVE  LInv' /\ (Inside \/ \E s, e \in Nat : Returns(s, e))
<1>start. start \in Nat
  BY DEF LInv, TokenType
<1>read. read \in Nat /\ read + 1 \in Nat
  BY SourceType DEF LInv
<1>1. CASE gettok
  BY <1>1, CallStep
<1>2. CASE Blank
  BY <1>2, BlankStep
<1>3. CASE Identifier
  BY <1>3, IdentifierStep
<1>4. CASE MoreOfIdentifier
  BY <1>4, MoreOfIdentifierStep
<1>5. CASE Number
  BY <1>5, NumberStep
<1>6. CASE MoreOfNumber
  BY <1>6, MoreOfNumberStep
<1>7. CASE Comment
  BY <1>7, CommentStep
<1>8. CASE MoreOfComment
  BY <1>8, MoreOfCommentStep
<1>9. CASE EndOfComment
  BY <1>9, EndOfCommentStep
<1>10. CASE EndOfIdentifier
  BY <1>10, <1>start, <1>read, EndOfIdentifierStep
<1>11. CASE EndOfNumber
  BY <1>11, <1>start, <1>read, EndOfNumberStep
<1>12. CASE EndOfFile
  BY <1>12, <1>read, EndOfFileStep
<1>13. CASE Character
  BY <1>13, <1>read, CharacterStep
<1>14. CASE UNCHANGED vars
  BY <1>14, Stutter
<1> QED
  BY <1>1, <1>2, <1>3, <1>4, <1>5, <1>6, <1>7, <1>8, <1>9, <1>10, <1>11, <1>12, <1>13, <1>14 DEF Next, Scan

LEMMA LexerInvariant == Spec => []LInv
<1>1. LInv /\ [Next]_vars => LInv'
  BY StepInvariant
<1> QED BY <1>1, InitInvariant, PTL DEF Spec

\* For every input: the type invariant, and nothing is read behind the end.
THEOREM LexerTypeCorrect == Spec => []TypeOK
BY LInvType, LexerInvariant, PTL

\* For every input: a program that was given a file never reads standard input.
THEOREM StdinIsUntouched == Spec => []StdinUntouched
<1>1. LInv => StdinUntouched
  BY DEF LInv, Reading, StdinUntouched
<1> QED BY <1>1, LexerInvariant, PTL

\* For every input: once the end has been returned it is returned for ever.
THEOREM EndIsFinal == Spec => EofIsFinal
<1>1. LInv /\ [Next]_vars => [tok = tok_eof => UNCHANGED <<tok, at>>]_vars
  <2>1. SUFFICES ASSUME LInv, Next, tok = tok_eof
                 PROVE  UNCHANGED <<tok, at>>
    OBVIOUS
  <2>2. LastChar = EOF /\ at = read /\ pc \in {"idle", "blank"}
    BY <2>1 DEF LInv, AtEnd
  <2>3. ~isspace(LastChar) /\ ~isalpha(LastChar) /\ ~IsNumeral(LastChar) /\ LastChar # Hash
    BY <2>2 DEF isspace, isalpha, IsNumeral, isdigit, EOF, Hash
  <2>4. CASE gettok
    BY <2>4 DEF gettok
  <2>5. CASE EndOfFile
    <3>1. UNCHANGED <<inputs, reading>> /\ tok' = tok_eof /\ at' = read'
      BY <2>5 DEF EndOfFile, Return
    <3>2. read' = read
      BY <2>1, <3>1, NoRead DEF LInv
    <3> QED BY <2>1, <2>2, <3>1, <3>2
  <2>6. ~Blank /\ ~Identifier /\ ~Number /\ ~Comment /\ ~Character
    BY <2>2, <2>3 DEF Blank, Identifier, Number, Comment, Character
  <2>7. ~MoreOfIdentifier /\ ~EndOfIdentifier /\ ~MoreOfNumber /\ ~EndOfNumber
    BY <2>2 DEF MoreOfIdentifier, EndOfIdentifier, MoreOfNumber, EndOfNumber
  <2>8. ~MoreOfComment /\ ~EndOfComment
    BY <2>2 DEF MoreOfComment, EndOfComment
  <2> QED BY <2>1, <2>4, <2>5, <2>6, <2>7, <2>8 DEF Next, Scan
<1> QED BY <1>1, LexerInvariant, PTL DEF Spec, EofIsFinal

\* A token that is returned is the abstract lexer's next one.
LEMMA ReturnsNextToken ==
  ASSUME NEW s \in Nat, NEW e \in Nat, Returns(s, e)
  PROVE  Stream!NextToken
<1>1. \A t, i : Stream!Skipped(t, i) <=> Skipped(t, i)
  BY DEF Stream!Skipped, Stream!isspace, Stream!InComment, Stream!Char, Stream!Byte,
         Stream!Signed, Stream!Hash, Stream!EndsComment, Stream!LineEnds, Stream!EOF,
         Skipped, isspace, InComment, Char, Byte, Signed, Hash, EndsComment, LineEnds, EOF
<1>2. \A t, a, b : Stream!IsToken(t, a, b) <=> IsToken(t, a, b)
  BY DEF Stream!IsToken, Stream!Belongs, Stream!isalpha, Stream!isalnum, Stream!isdigit,
         Stream!IsNumeral, Stream!Char, Stream!Byte, Stream!Signed, Stream!EOF,
         IsToken, Belongs, isalpha, isalnum, isdigit, IsNumeral, Char, Byte, Signed, EOF
<1>3. \A t, a, b : Stream!TokenOf(t, a, b) = TokenOf(t, a, b)
  BY DEF Stream!TokenOf, Stream!WordToken, Stream!isalpha, Stream!isdigit, Stream!IsNumeral,
         Stream!Char, Stream!Byte, Stream!Signed, Stream!EOF, Stream!tok_identifier,
         Stream!tok_number, TokenOf, WordToken, isalpha, isdigit, IsNumeral, Char, Byte,
         Signed, EOF, tok_identifier, tok_number
<1>4. /\ s \in at..Len(Source)+1 /\ e \in s..Len(Source)+1
      /\ \A i \in at..s-1 : Stream!Skipped(Source, i)
      /\ ~Stream!Skipped(Source, s) /\ Stream!IsToken(Source, s, e)
      /\ at' = e /\ tok' = Stream!TokenOf(Source, s, e) /\ UNCHANGED Source
  BY <1>1, <1>2, <1>3 DEF Returns, AllSkipped
<1> QED BY <1>4 DEF Stream!NextToken

\* For every input: the lexer returns the tokens of the lexical grammar.
THEOREM TokenStreamImplemented == Spec => ImplementsTokenStream
<1>1. Init => Stream!Init
  BY DEF Init, Stream!Init
<1>2. LInv /\ [Next]_vars => [Stream!NextToken]_<<Source, at, tok>>
  BY StepInvariant, ReturnsNextToken DEF Inside
<1> QED BY <1>1, <1>2, LexerInvariant, PTL DEF Spec, ImplementsTokenStream, Stream!Spec
----------------------------------------------------------------------------
(* Lines and columns.  Location counts the line ends up to a character and *)
(* the characters behind the last of them; the code counts as it reads.    *)

Ends(text, i) == {k \in 1..i : Char(text, k) \in LineEnds}

IsLastEnd(text, i, k) == k \in Ends(text, i) \cup {0} /\ \A j \in Ends(text, i) : j <= k

Last(ends) == CHOOSE k \in ends \cup {0} : \A j \in ends : j <= k

Loc(text, i) == [Line |-> 1 + Cardinality(Ends(text, i)), Col |-> i - Last(Ends(text, i))]

HasLastEnd(text, i) == \E k : IsLastEnd(text, i, k)

LEMMA LocationOfSource == \A i : Location(i) = Loc(Source, i)
BY DEF Location, Loc, Ends, Last

\* In front of the text nothing has been counted.
LEMMA FirstLocation ==
  ASSUME NEW text
  PROVE  Loc(text, 0) = [Line |-> 1, Col |-> 0] /\ HasLastEnd(text, 0)
<1>1. Ends(text, 0) = {}
  BY DEF Ends
<1>2. Cardinality({}) = 0
  BY FS_EmptySet
<1>3. Last({}) = 0
  BY DEF Last
<1>4. HasLastEnd(text, 0)
  <2>1. IsLastEnd(text, 0, 0)
    BY <1>1 DEF IsLastEnd
  <2> QED BY <2>1 DEF HasLastEnd
<1> QED BY <1>1, <1>2, <1>3, <1>4 DEF Loc

\* A line end is the last one, and counted once.
LEMMA NextLine ==
  ASSUME NEW text, NEW i \in Nat, Char(text, i+1) \in LineEnds
  PROVE  /\ Loc(text, i+1) = [Line |-> Loc(text, i).Line + 1, Col |-> 0]
         /\ HasLastEnd(text, i+1)
<1> DEFINE old == Ends(text, i)
           new == Ends(text, i+1)
<1>1. new = old \cup {i+1}
  BY DEF Ends
<1>2. i+1 \notin old /\ old \subseteq 1..i
  BY DEF Ends
<1>3. Cardinality(new) = Cardinality(old) + 1 /\ Cardinality(old) \in Nat
  <2>1. IsFiniteSet(1..i)
    BY FS_Interval
  <2>2. IsFiniteSet(old)
    BY <1>2, <2>1, FS_Subset
  <2>3. Cardinality(old) \in Nat
    BY <2>2, FS_CardinalityType
  <2> QED BY <1>1, <1>2, <2>2, <2>3, FS_AddElement
<1>4. \A j \in new : j <= i+1
  BY <1>1, <1>2
<1>5. Last(new) = i+1
  <2>1. ASSUME NEW k \in new \cup {0}, \A j \in new : j <= k PROVE k = i+1
    <3>1. i+1 <= k /\ k \in Nat /\ k <= i+1
      BY <1>1, <1>2, <2>1
    <3> QED BY <3>1
  <2>2. i+1 \in new \cup {0}
    BY <1>1
  <2> HIDE DEF new
  <2> QED BY <1>4, <2>1, <2>2 DEF Last
<1>6. HasLastEnd(text, i+1)
  <2>1. IsLastEnd(text, i+1, i+1)
    BY <1>1, <1>4 DEF IsLastEnd
  <2> QED BY <2>1 DEF HasLastEnd
<1>7. Loc(text, i).Line = 1 + Cardinality(old)
  BY DEF Loc
<1>8. Loc(text, i+1) = [Line |-> 1 + Cardinality(new), Col |-> (i+1) - Last(new)]
  BY DEF Loc
<1> HIDE DEF old, new
<1> QED BY <1>3, <1>5, <1>6, <1>7, <1>8

\* Any other character is one further in its line.
LEMMA NextColumn ==
  ASSUME NEW text, NEW i \in Nat, Char(text, i+1) \notin LineEnds, HasLastEnd(text, i)
  PROVE  /\ Loc(text, i+1) = [Loc(text, i) EXCEPT !.Col = @ + 1]
         /\ HasLastEnd(text, i+1)
<1> DEFINE old == Ends(text, i)
<1>1. Ends(text, i+1) = old
  BY DEF Ends
<1>2. old \cup {0} \subseteq Nat
  BY DEF Ends
<1>3. Last(old) \in old \cup {0}
  BY DEF HasLastEnd, IsLastEnd, Last
<1>4. HasLastEnd(text, i+1)
  BY <1>1 DEF HasLastEnd, IsLastEnd
<1>5. Loc(text, i) = [Line |-> 1 + Cardinality(old), Col |-> i - Last(old)]
  BY DEF Loc
<1>6. Loc(text, i+1) = [Line |-> 1 + Cardinality(old), Col |-> (i+1) - Last(old)]
  BY <1>1 DEF Loc
<1>7. Last(old) \in Nat
  BY <1>2, <1>3, Zenon
<1> HIDE DEF old
<1> QED BY <1>4, <1>5, <1>6, <1>7

\* LexLoc is the location of the character read ahead, CurLoc that of the
\* character the token began with; start is 0 until the first token begins.
LocInv ==
  /\ LexLoc = Loc(Source, read) /\ HasLastEnd(Source, read)
  /\ start > 0 => CurLoc = Loc(Source, start)
  /\ at > 0 \/ pc \in {"identifier", "number", "comment"} => start > 0

\* advance() keeps LexLoc in step.
LEMMA LocAdvance ==
  ASSUME LInv, LocInv, LastChar # EOF, advance, UNCHANGED inputs
  PROVE  /\ LexLoc' = Loc(Source', read') /\ HasLastEnd(Source', read')
         /\ Source' = Source /\ read' = read + 1
<1>1. Reading' /\ read' = read + 1 /\ Source' = Source
  BY Advance DEF LInv
<1>2. read \in Nat
  BY SourceType DEF LInv
<1>3. LastChar' = Char(Source, read + 1)
  BY <1>1 DEF Reading
<1>4. LexLoc = Loc(Source, read) /\ HasLastEnd(Source, read)
  BY DEF LocInv
<1>5. LexLoc' = IF LastChar' \in LineEnds THEN [Line |-> LexLoc.Line + 1, Col |-> 0]
                ELSE [LexLoc EXCEPT !.Col = @ + 1]
  BY DEF advance
<1>6. CASE LastChar' \in LineEnds
  <2>1. Loc(Source, read + 1) = [Line |-> LexLoc.Line + 1, Col |-> 0] /\ HasLastEnd(Source, read + 1)
    BY <1>2, <1>3, <1>4, <1>6, NextLine
  <2> QED BY <1>1, <1>5, <1>6, <2>1
<1>7. CASE LastChar' \notin LineEnds
  <2>1. Loc(Source, read + 1) = [LexLoc EXCEPT !.Col = @ + 1] /\ HasLastEnd(Source, read + 1)
    BY <1>2, <1>3, <1>4, <1>7, NextColumn
  <2> QED BY <1>1, <1>5, <1>7, <2>1
<1> QED BY <1>6, <1>7

\* Where a token begins, the location is the one of the character read ahead.
LEMMA LocBegin ==
  ASSUME LInv, LocInv, Begin, Source' = Source
  PROVE  start' > 0 /\ CurLoc' = Loc(Source', start')
<1>1. ~isspace(LastChar) /\ CurLoc' = LexLoc /\ start' = read
  BY DEF Begin
<1>2. LastChar = Char(Source, read) /\ read \in Nat
  BY SourceType DEF LInv, Reading
<1>3. read # 0
  BY <1>1, <1>2 DEF Char, isspace
<1> QED BY <1>1, <1>2, <1>3 DEF LocInv

LEMMA LocationInvariant == Spec => []LocInv
<1>1. Init => LocInv
  <2> SUFFICES ASSUME Init PROVE LocInv
    OBVIOUS
  <2>1. read = 0 /\ LexLoc = [Line |-> 1, Col |-> 0] /\ pc = "idle" /\ start = 0 /\ at = 0
    BY DEF Init, read
  <2> QED BY <2>1, FirstLocation DEF LocInv
<1>2. LInv /\ LocInv /\ [Next]_vars => LocInv'
  <2> SUFFICES ASSUME LInv, LocInv, [Next]_vars PROVE LocInv'
    OBVIOUS
  \* Nothing is read, and no token begins.
  <2>stay. ASSUME UNCHANGED <<inputs, reading, CurLoc, start>>,
                  at' > 0 \/ pc' \in {"identifier", "number", "comment"} => start > 0
           PROVE  LocInv'
    <3>1. read' = read /\ Source' = Source /\ LexLoc' = LexLoc
      BY <2>stay, NoRead DEF LInv, reading
    <3> QED BY <2>stay, <3>1 DEF LocInv
  \* A character is read, and no token begins.
  <2>more. ASSUME LastChar # EOF, advance, UNCHANGED <<inputs, CurLoc, start, at, pc>>
           PROVE  LocInv'
    <3>1. UNCHANGED inputs /\ start' = start /\ CurLoc' = CurLoc /\ at' = at /\ pc' = pc
      BY <2>more
    <3>2. LexLoc' = Loc(Source', read') /\ HasLastEnd(Source', read') /\ Source' = Source
      BY <2>more, <3>1, LocAdvance
    <3> QED BY <3>1, <3>2 DEF LocInv
  \* A token begins, and its first character is used.
  <2>begin. ASSUME LastChar # EOF, Begin, advance, UNCHANGED inputs
            PROVE  LocInv'
    <3>1. LexLoc' = Loc(Source', read') /\ HasLastEnd(Source', read') /\ Source' = Source
      BY <2>begin, LocAdvance
    <3> QED BY <2>begin, <3>1, LocBegin DEF LocInv
  <2>class. /\ isspace(LastChar) \/ isalpha(LastChar) \/ isalnum(LastChar) \/ IsNumeral(LastChar)
                 \/ LastChar = Hash \/ ~EndsComment(LastChar) => LastChar # EOF
            /\ pc = "comment" => start > 0
    BY DEF isspace, isalpha, isdigit, isalnum, IsNumeral, Hash, EndsComment, EOF, LocInv
  <2>1. CASE gettok
    BY <2>1, <2>stay DEF gettok, LocInv
  <2>2. CASE Blank
    BY <2>2, <2>more, <2>class DEF Blank
  <2>3. CASE Identifier
    BY <2>3, <2>begin, <2>class DEF Identifier
  <2>4. CASE MoreOfIdentifier
    BY <2>4, <2>more, <2>class DEF MoreOfIdentifier
  <2>5. CASE EndOfIdentifier
    BY <2>5, <2>stay DEF EndOfIdentifier, LocInv
  <2>6. CASE Number
    BY <2>6, <2>begin, <2>class DEF Number
  <2>7. CASE MoreOfNumber
    BY <2>7, <2>more, <2>class DEF MoreOfNumber
  <2>8. CASE EndOfNumber
    BY <2>8, <2>stay DEF EndOfNumber, LocInv
  <2>9. CASE Comment
    BY <2>9, <2>begin, <2>class DEF Comment
  <2>10. CASE MoreOfComment
    BY <2>10, <2>more, <2>class DEF MoreOfComment
  <2>11. CASE EndOfComment
    BY <2>11, <2>stay DEF EndOfComment, LocInv
  <2>12. CASE EndOfFile
    <3>1. UNCHANGED <<inputs, reading>>
      BY <2>12 DEF EndOfFile
    <3>2. CASE Begin
      <4>1. read' = read /\ Source' = Source /\ LexLoc' = LexLoc
        BY <3>1, NoRead DEF LInv, reading
      <4> QED BY <3>2, <4>1, LocBegin DEF LocInv
    <3>3. CASE pc = "comment" /\ UNCHANGED <<CurLoc, start>>
      BY <3>1, <3>3, <2>class, <2>stay
    <3> QED BY <2>12, <3>2, <3>3 DEF EndOfFile
  <2>13. CASE Character
    <3>1. LastChar # EOF /\ Begin /\ advance /\ UNCHANGED inputs
      BY <2>13 DEF Character
    <3> QED BY <3>1, <2>begin
  <2>14. CASE UNCHANGED vars
    <3>1. UNCHANGED <<inputs, reading, CurLoc, start>> /\ at' = at /\ pc' = pc
      BY <2>14 DEF vars
    <3> QED BY <3>1, <2>stay DEF LocInv
  <2> QED BY <2>1, <2>2, <2>3, <2>4, <2>5, <2>6, <2>7, <2>8, <2>9, <2>10, <2>11, <2>12, <2>13, <2>14
          DEF Next, Scan
<1> QED BY <1>1, <1>2, LexerInvariant, PTL DEF Spec

\* For every input: the location a token is given is that of its first
\* character, though LexLoc has moved on by the time the token is returned.
THEOREM TokensAreLocated == Spec => []TokensLocated
<1>1. LocInv => TokensLocated
  BY LocationOfSource DEF LocInv, TokensLocated
<1> QED BY <1>1, LocationInvariant, PTL

----------------------------------------------------------------------------
(* A call of gettok is finite: every step of it comes nearer to its end.   *)

\* Two steps for each character that can still be read, and those that
\* leave a loop.
StepsLeft ==
  2 * (Len(Source) + 1 - read) + (IF pc = "idle" THEN 0 ELSE IF pc = "blank" THEN 1 ELSE 2)

\* A step that reads one more character and goes on, anywhere.
LEMMA StepReads ==
  ASSUME LInv, LastChar # EOF, advance, UNCHANGED inputs, pc # "idle"
  PROVE  StepsLeft' < StepsLeft
<1>1. read' = read + 1 /\ Source' = Source
  BY Advance DEF LInv
<1>2. Len(Source) \in Nat /\ read \in Nat
  BY SourceType DEF LInv
<1>3. Len(Source') = Len(Source)
  BY <1>1
<1> DEFINE n == Len(Source)
           w == IF pc = "idle" THEN 0 ELSE IF pc = "blank" THEN 1 ELSE 2
           v == IF pc' = "idle" THEN 0 ELSE IF pc' = "blank" THEN 1 ELSE 2
<1>4. StepsLeft = 2 * (n + 1 - read) + w /\ StepsLeft' = 2 * (n + 1 - (read + 1)) + v
  BY <1>1, <1>3 DEF StepsLeft
<1>5. w \in 1..2 /\ v \in 0..2
  OBVIOUS
<1> HIDE DEF n, w, v
<1>6. n \in Nat
  BY <1>2 DEF n
<1> QED BY <1>2, <1>4, <1>5, <1>6

\* A step that reads nothing leaves a loop.
LEMMA StepReadsNot ==
  ASSUME LInv, UNCHANGED <<inputs, reading>>,
         (pc \in {"identifier", "number", "comment"} /\ pc' \in {"blank", "idle"})
           \/ (pc = "blank" /\ pc' = "idle")
  PROVE  StepsLeft' < StepsLeft
<1>1. read' = read /\ Source' = Source
  BY NoRead DEF LInv
<1>2. Len(Source) \in Nat /\ read \in Nat
  BY SourceType DEF LInv
<1> DEFINE w == IF pc = "idle" THEN 0 ELSE IF pc = "blank" THEN 1 ELSE 2
           v == IF pc' = "idle" THEN 0 ELSE IF pc' = "blank" THEN 1 ELSE 2
           r == 2 * (Len(Source) + 1 - read)
<1>3. StepsLeft = r + w /\ StepsLeft' = r + v
  BY <1>1 DEF StepsLeft
<1>4. w \in 1..2 /\ v \in 0..1 /\ v < w
  OBVIOUS
<1>5. r \in Int
  BY <1>2
<1> HIDE DEF r, w, v
<1> QED BY <1>3, <1>4, <1>5

\* Every step of a call decreases the number of steps left.
ScanAdvances == [][Scan => StepsLeft' < StepsLeft]_vars

\* For every input: each call of gettok returns after at most two steps for
\* each character that is left, comments and the calls of itself included.
\* With the fairness of Scan this is why GettokReturns holds.
THEOREM CallsAreFinite == Spec => [](StepsLeft \in Nat) /\ ScanAdvances
<1>1. LInv => StepsLeft \in Nat
  <2> SUFFICES ASSUME LInv PROVE StepsLeft \in Nat
    OBVIOUS
  <2>1. Len(Source) \in Nat /\ read \in 0..Len(Source)+1
    BY SourceType DEF LInv
  <2> DEFINE n == Len(Source)
             w == IF pc = "idle" THEN 0 ELSE IF pc = "blank" THEN 1 ELSE 2
  <2>2. StepsLeft = 2 * (n + 1 - read) + w /\ w \in 0..2
    BY DEF StepsLeft
  <2>3. n \in Nat /\ read \in 0..n+1
    BY <2>1
  <2> HIDE DEF n, w
  <2> QED BY <2>2, <2>3
<1>2. LInv /\ [Next]_vars => [Scan => StepsLeft' < StepsLeft]_vars
  <2> SUFFICES ASSUME LInv, Scan PROVE StepsLeft' < StepsLeft
    OBVIOUS
  <2>1. isspace(LastChar) => LastChar # EOF
    BY DEF isspace, EOF
  <2>2. isalpha(LastChar) => LastChar # EOF
    BY DEF isalpha, EOF
  <2>3. isalnum(LastChar) => LastChar # EOF
    BY DEF isalnum, isalpha, isdigit, EOF
  <2>4. IsNumeral(LastChar) => LastChar # EOF
    BY DEF IsNumeral, isdigit, EOF
  <2>5. LastChar = Hash => LastChar # EOF
    BY DEF Hash, EOF
  <2>6. CASE Blank
    BY <2>1, <2>6, StepReads DEF Blank
  <2>7. CASE Identifier
    BY <2>2, <2>7, StepReads DEF Identifier, Begin
  <2>8. CASE MoreOfIdentifier
    BY <2>3, <2>8, StepReads DEF MoreOfIdentifier
  <2>9. CASE EndOfIdentifier
    BY <2>9, StepReadsNot DEF EndOfIdentifier, Return
  <2>10. CASE Number
    BY <2>4, <2>10, StepReads DEF Number, Begin
  <2>11. CASE MoreOfNumber
    BY <2>4, <2>11, StepReads DEF MoreOfNumber
  <2>12. CASE EndOfNumber
    BY <2>12, StepReadsNot DEF EndOfNumber, Return
  <2>13. CASE Comment
    BY <2>5, <2>13, StepReads DEF Comment, Begin
  <2>14. CASE MoreOfComment
    BY <2>14, StepReads DEF MoreOfComment, EndsComment
  <2>15. CASE EndOfComment
    BY <2>15, StepReadsNot DEF EndOfComment
  <2>16. CASE EndOfFile
    BY <2>16, StepReadsNot DEF EndOfFile, Begin, Return
  <2>17. CASE Character
    BY <2>17, StepReads DEF Character, Begin
  <2> QED BY <2>6, <2>7, <2>8, <2>9, <2>10, <2>11, <2>12, <2>13, <2>14, <2>15, <2>16, <2>17 DEF Scan
<1> QED BY <1>1, <1>2, LexerInvariant, PTL DEF Spec, ScanAdvances
=============================================================================

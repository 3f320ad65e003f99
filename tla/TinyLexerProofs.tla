-------------------------- MODULE TinyLexerProofs --------------------------
(***************************************************************************)
(* The lexer of tinylang, for every buffer that holds no NUL.  Each loop   *)
(* has its invariant about the characters it has run over; the NUL behind  *)
(* the buffer is what stops it.                                            *)
(***************************************************************************)
EXTENDS TinyLexer, SequenceTheorems, TLAPS

N == Len(buffer)

Clean == buffer \in Seq(STRING) /\ \A i \in 1..N : buffer[i] # NUL

Numbers ==
  /\ CurPtr \in 1..N + 2 /\ End \in 1..N + 1 /\ Ptr \in 1..N + 1 /\ from \in 1..N + 2
  /\ Length \in Nat /\ NumErrors \in Nat /\ before \in Nat /\ Level \in Nat

Labels ==
  /\ kind \in Kinds /\ IsHex \in BOOLEAN
  /\ pc \in {"client", "next", "identifier", "number", "string", "comment", "outside"}

Blanks(a, b) == a <= b /\ \A i \in a..b - 1 : isWhitespace(At(i))

\* A loop has run from CurPtr, behind white space, to End.
Running == Blanks(from, CurPtr) /\ CurPtr < End /\ CurPtr <= N /\ before = NumErrors

Word(a, b) == \A i \in a..b - 1 : isIdentifierBody(At(i))
Unclosed(p, b) == \A i \in p + 1..b - 1 : At(i) # At(p) /\ ~isVerticalWhitespace(At(i))

Loops ==
  /\ pc = "next" => \/ Blanks(from, CurPtr) /\ before = NumErrors
                    \/ CurPtr = N + 1 /\ before < NumErrors
  /\ pc = "identifier" => Running /\ Word(CurPtr, End)
  /\ pc = "number" => Running
  /\ pc = "string" => Running /\ Unclosed(CurPtr, End)
  /\ pc = "comment" => CurPtr <= N /\ Level > 0 /\ before = NumErrors

TInv == /\ Clean /\ Numbers /\ Labels /\ Loops
        /\ OnlyStringsOverrun /\ TokensAdjoin /\ SkippedTextReported

LEMMA TInvType == TInv => TypeOK
BY DEF TInv, Clean, Numbers, Labels, TypeOK, N

----------------------------------------------------------------------------
(* The buffer and its end.                                                 *)

LEMMA NIsNat == Clean => N \in Nat
BY LenProperties DEF Clean, N

\* The NUL is behind the last character, and nowhere else.
LEMMA OneNUL ==
  ASSUME Clean, NEW p \in 1..N + 1
  PROVE  (At(p) = NUL <=> p = N + 1) /\ (At(p) # NUL => p <= N)
<1>1. N \in Nat
  BY NIsNat
<1>2. CASE p <= N
  <2>1. At(p) = buffer[p] /\ buffer[p] # NUL
    BY <1>1, <1>2 DEF At, Clean, N
  <2> QED BY <1>1, <1>2, <2>1
<1>3. CASE ~(p <= N)
  <2>1. At(p) = NUL /\ p = N + 1
    BY <1>1, <1>3 DEF At, N
  <2> QED BY <1>1, <2>1
<1> QED BY <1>2, <1>3

\* What stops at the NUL.
LEMMA NULIsOther ==
  /\ ~isWhitespace(NUL) /\ ~isVerticalWhitespace(NUL) /\ ~isIdentifierBody(NUL)
  /\ ~isDigit(NUL) /\ ~isIdentifierHead(NUL) /\ NUL \notin Quotes /\ NUL \notin Singles
  /\ NUL # "=" /\ NUL # "*" /\ NUL # ")" /\ NUL # "("
BY DEF NUL, isWhitespace, isVerticalWhitespace, isIdentifierBody, isDigit, isIdentifierHead,
       Quotes, Singles

\* No step changes the buffer.
LEMMA SameBuffer ==
  ASSUME Clean, buffer' = buffer
  PROVE  /\ Clean' /\ N' = N /\ N \in Nat /\ \A p : At(p)' = At(p)
         /\ \A a, b : (Blanks(a, b)' <=> Blanks(a, b)) /\ (Word(a, b)' <=> Word(a, b))
                      /\ (Unclosed(a, b)' <=> Unclosed(a, b))
<1>1. N \in Nat
  BY NIsNat
<1> QED BY <1>1 DEF Clean, N, At, Blanks, Word, Unclosed

----------------------------------------------------------------------------
(* Steps inside a call, and the forming of a token.                        *)

\* Nothing is said of a token while a call is running.
LEMMA Unformed ==
  ASSUME TInv, buffer' = buffer, kind' = kind, Ptr' = Ptr, pc' # "client",
         CurPtr' = CurPtr \/ CurPtr' <= N + 1, CurPtr' \in Nat
  PROVE  OnlyStringsOverrun' /\ TokensAdjoin' /\ SkippedTextReported'
<1>1. TokensAdjoin' /\ SkippedTextReported'
  BY DEF TokensAdjoin, SkippedTextReported, Formed
<1>2. N \in Nat
  BY NIsNat DEF TInv
<1>3. OnlyStringsOverrun'
  <2>1. CASE CurPtr' = CurPtr
    BY <2>1 DEF TInv, OnlyStringsOverrun
  <2>2. CASE CurPtr' <= N + 1
    <3>1. ~(CurPtr' > Len(buffer') + 1)
      BY <1>2, <2>2 DEF N
    <3> QED BY <3>1 DEF OnlyStringsOverrun
  <2> QED BY <2>1, <2>2
<1> QED BY <1>1, <1>3

\* A loop begins or goes on.
LEMMA LoopStep ==
  ASSUME TInv, buffer' = buffer, UNCHANGED <<CurPtr, token, NumErrors, called>>,
         pc' \in {"identifier", "number", "string", "comment"}, End' \in 1..N + 1, IsHex' \in BOOLEAN, Level' \in Nat, Loops'
  PROVE  TInv'
<1>1. Clean' /\ N' = N
  BY SameBuffer DEF TInv
<1>2. kind' = kind /\ Ptr' = Ptr /\ Length' = Length /\ from' = from /\ before' = before
  BY DEF token, called
<1>3. Numbers' /\ CurPtr' \in Nat
  BY <1>1, <1>2, NIsNat DEF TInv, Numbers
<1>4. Labels'
  BY <1>2 DEF TInv, Labels
<1>5. OnlyStringsOverrun' /\ TokensAdjoin' /\ SkippedTextReported'
  BY <1>2, <1>3, Unformed
<1> QED BY <1>1, <1>3, <1>4, <1>5 DEF TInv

\* The kinds of tokens that are formed.
FormedKinds == Kinds \ {"none", "eof", "unknown"}

LEMMA FormStep ==
  ASSUME TInv, buffer' = buffer, UNCHANGED <<called, locals>>, pc' = "client",
         Blanks(from, CurPtr), CurPtr <= N,
         NEW p \in CurPtr + 1..N + 2, NEW k \in FormedKinds, formToken(p, k), NumErrors' \in Nat,
         p = N + 2 => k = "string_literal" /\ Unclosed(CurPtr, N + 1),
         k \in {"identifier", "keyword"} => Word(CurPtr, p) /\ ~isIdentifierBody(At(p))
  PROVE  TInv'
<1>1. /\ Clean' /\ N' = N /\ N \in Nat /\ \A q : At(q)' = At(q)
  BY SameBuffer DEF TInv
<1>2. /\ kind' = k /\ Ptr' = CurPtr /\ Length' = p - CurPtr /\ CurPtr' = p
      /\ from' = from /\ before' = before /\ End' = End /\ IsHex' = IsHex /\ Level' = Level
  BY DEF formToken, called, locals
<1>3. CurPtr \in 1..N /\ from \in 1..N + 2
  BY <1>1 DEF TInv, Numbers
<1>4. Numbers'
  BY <1>1, <1>2, <1>3 DEF TInv, Numbers
<1>5. Labels'
  <2>1. k \in Kinds
    BY DEF FormedKinds
  <2> QED BY <1>2, <2>1 DEF TInv, Labels
<1>6. Loops'
  BY DEF Loops
<1>7. OnlyStringsOverrun'
  <2>1. SUFFICES ASSUME p > N + 1
                 PROVE  /\ k = "string_literal" /\ CurPtr <= N /\ p = N + 2
                        /\ \A i \in CurPtr + 1..N :
                             buffer[i] # buffer[CurPtr] /\ ~isVerticalWhitespace(buffer[i])
    BY <1>1, <1>2 DEF OnlyStringsOverrun, N
  <2>2. p = N + 2
    BY <1>1, <1>3, <2>1
  <2>3. k = "string_literal" /\ Unclosed(CurPtr, N + 1)
    BY <2>2
  <2>4. \A i \in 1..N : At(i) = buffer[i]
    BY <1>1 DEF At, N
  <2>5. (N + 1) - 1 = N
    BY <1>1
  <2>6. ASSUME NEW i \in CurPtr + 1..N
        PROVE  buffer[i] # buffer[CurPtr] /\ ~isVerticalWhitespace(buffer[i])
    <3>1. At(i) # At(CurPtr) /\ ~isVerticalWhitespace(At(i))
      BY <2>3, <2>5 DEF Unclosed
    <3>2. i \in 1..N
      BY <1>1, <1>3
    <3> QED BY <1>3, <2>4, <3>1, <3>2
  <2> QED BY <2>2, <2>3, <2>6
<1>8. TokensAdjoin'
  <2>1. from <= CurPtr /\ \A i \in from..CurPtr - 1 : isWhitespace(At(i))
    BY DEF Blanks
  <2>2. p - CurPtr >= 1 /\ p = CurPtr + (p - CurPtr)
    BY <1>1, <1>3
  <2>3. k \in {"identifier", "keyword"} =>
          /\ \A i \in CurPtr..p - 1 : isIdentifierBody(At(i))
          /\ ~isIdentifierBody(At(p))
    BY DEF Word
  <2>4. \A i : At(i)' = At(i) /\ (isWhitespace(At(i))' <=> isWhitespace(At(i)))
               /\ (isIdentifierBody(At(i))' <=> isIdentifierBody(At(i)))
    BY <1>1
  <2> QED BY <1>2, <2>1, <2>2, <2>3, <2>4 DEF TokensAdjoin
<1>9. SkippedTextReported'
  <2>1. k # "eof"
    BY DEF FormedKinds
  <2> QED BY <1>2, <2>1 DEF SkippedTextReported
<1> QED BY <1>1, <1>4, <1>5, <1>6, <1>7, <1>8, <1>9 DEF TInv

----------------------------------------------------------------------------
(* The steps.                                                              *)

\* What is known where next() finds a character at CurPtr.
LEMMA FindsFacts ==
  ASSUME TInv, pc = "next", CurPtr <= Len(buffer) + 1
  PROVE  /\ CurPtr \in 1..N + 1 /\ N \in Nat
         /\ At(CurPtr) = NUL <=> CurPtr = N + 1
         /\ At(CurPtr) # NUL => /\ CurPtr <= N /\ CurPtr + 1 \in 1..N + 1
                                /\ Blanks(from, CurPtr) /\ before = NumErrors
<1>1. N \in Nat /\ CurPtr \in 1..N + 1
  BY NIsNat DEF TInv, Numbers, N
<1>2. (At(CurPtr) = NUL <=> CurPtr = N + 1) /\ (At(CurPtr) # NUL => CurPtr <= N)
  BY <1>1, OneNUL DEF TInv
<1>3. CurPtr # N + 1 => Blanks(from, CurPtr) /\ before = NumErrors
  BY DEF TInv, Loops
<1>4. CurPtr <= N => CurPtr + 1 \in 1..N + 1
  BY <1>1
<1> QED BY <1>1, <1>2, <1>3, <1>4

LEMMA CallStep == ASSUME TInv, Call PROVE TInv'
<1>1. /\ pc = "client" /\ pc' = "next" /\ from' = CurPtr /\ before' = NumErrors
      /\ buffer' = buffer /\ CurPtr' = CurPtr /\ NumErrors' = NumErrors
      /\ UNCHANGED token /\ UNCHANGED locals
  BY DEF Call
<1>2. kind' = kind /\ Ptr' = Ptr /\ Length' = Length /\ End' = End /\ IsHex' = IsHex /\ Level' = Level
  BY <1>1 DEF token, locals
<1>3. Clean' /\ N' = N /\ CurPtr \in Nat
  BY <1>1, SameBuffer DEF TInv, Numbers
<1>4. Numbers'
  BY <1>1, <1>2, <1>3 DEF TInv, Numbers
<1>5. Labels'
  BY <1>1, <1>2 DEF TInv, Labels
<1>6. Blanks(CurPtr, CurPtr)'
  BY <1>1, <1>3 DEF Blanks
<1>7. Loops'
  BY <1>1, <1>6 DEF Loops, Blanks
<1>8. OnlyStringsOverrun' /\ TokensAdjoin' /\ SkippedTextReported'
  BY <1>1, <1>2, <1>3, Unformed
<1> QED BY <1>3, <1>4, <1>5, <1>7, <1>8 DEF TInv

LEMMA OutsideStep == ASSUME TInv, Outside PROVE TInv'
<1>1. /\ pc' = "outside" /\ buffer' = buffer /\ CurPtr' = CurPtr /\ NumErrors' = NumErrors
      /\ UNCHANGED token /\ UNCHANGED locals /\ UNCHANGED called
  BY DEF Outside
<1>2. /\ kind' = kind /\ Ptr' = Ptr /\ Length' = Length /\ End' = End /\ IsHex' = IsHex
      /\ Level' = Level /\ from' = from /\ before' = before
  BY <1>1 DEF token, locals, called
<1>3. Clean' /\ N' = N /\ CurPtr \in Nat
  BY <1>1, SameBuffer DEF TInv, Numbers
<1>4. Numbers'
  BY <1>1, <1>2, <1>3 DEF TInv, Numbers
<1>5. Labels'
  BY <1>1, <1>2 DEF TInv, Labels
<1>6. Loops'
  BY <1>1 DEF Loops
<1>7. OnlyStringsOverrun' /\ TokensAdjoin' /\ SkippedTextReported'
  BY <1>1, <1>2, <1>3, Unformed
<1> QED BY <1>3, <1>4, <1>5, <1>6, <1>7 DEF TInv

LEMMA SkipStep == ASSUME TInv, SkipWhitespace PROVE TInv'
<1>1. /\ pc = "next" /\ CurPtr <= Len(buffer) + 1 /\ isWhitespace(At(CurPtr))
      /\ CurPtr' = CurPtr + 1 /\ pc' = pc /\ buffer' = buffer /\ NumErrors' = NumErrors
      /\ UNCHANGED token /\ UNCHANGED locals /\ UNCHANGED called
  BY DEF SkipWhitespace, Finds
<1>2. /\ kind' = kind /\ Ptr' = Ptr /\ Length' = Length /\ End' = End /\ IsHex' = IsHex
      /\ Level' = Level /\ from' = from /\ before' = before
  BY <1>1 DEF token, locals, called
<1>3. /\ CurPtr <= N /\ CurPtr + 1 \in 1..N + 1 /\ Blanks(from, CurPtr) /\ before = NumErrors
      /\ CurPtr \in 1..N + 1 /\ N \in Nat /\ from \in 1..N + 2
  BY <1>1, FindsFacts, NULIsOther DEF TInv, Numbers
<1>4. Clean' /\ N' = N /\ (Blanks(from, CurPtr + 1)' <=> Blanks(from', (CurPtr + 1)'))
  BY <1>1, SameBuffer DEF TInv
<1>5. Numbers'
  BY <1>1, <1>2, <1>3, <1>4 DEF TInv, Numbers
<1>6. Labels'
  BY <1>1, <1>2 DEF TInv, Labels
<1>7. Blanks(from, CurPtr + 1)
  BY <1>1, <1>3 DEF Blanks
<1>8. Blanks(from, CurPtr)'
  BY <1>1, <1>2, <1>7 DEF Blanks, At
<1>9. Loops'
  BY <1>1, <1>2, <1>3, <1>8 DEF Loops
<1>10. OnlyStringsOverrun' /\ TokensAdjoin' /\ SkippedTextReported'
  BY <1>1, <1>2, <1>3, Unformed
<1> QED BY <1>4, <1>5, <1>6, <1>9, <1>10 DEF TInv

\* next() returns without having formed a token.
LEMMA NoTokenStep ==
  ASSUME TInv, pc = "next", CurPtr <= Len(buffer) + 1, pc' = "client",
         UNCHANGED <<buffer, CurPtr, Ptr, Length, NumErrors, locals, called>>,
         \/ kind' = "eof" /\ At(CurPtr) = NUL
         \/ kind' = "unknown"
  PROVE  TInv'
<1>1. /\ buffer' = buffer /\ CurPtr' = CurPtr /\ Ptr' = Ptr /\ Length' = Length
      /\ NumErrors' = NumErrors /\ End' = End /\ IsHex' = IsHex /\ Level' = Level
      /\ from' = from /\ before' = before
  BY DEF locals, called
<1>2. Clean' /\ N' = N /\ N \in Nat /\ CurPtr \in 1..N + 1 /\ \A p : At(p)' = At(p)
  BY <1>1, SameBuffer, FindsFacts DEF TInv
<1>3. Numbers'
  BY <1>1, <1>2 DEF TInv, Numbers
<1>4. Labels'
  BY <1>1 DEF TInv, Labels, Kinds
<1>5. Loops'
  BY DEF Loops
<1>6. OnlyStringsOverrun'
  <2>1. ~(CurPtr' > Len(buffer') + 1)
    BY <1>1, <1>2 DEF N
  <2> QED BY <2>1 DEF OnlyStringsOverrun
<1>7. TokensAdjoin'
  BY DEF TokensAdjoin, Formed
<1>8. SkippedTextReported'
  <2>1. SUFFICES ASSUME kind' = "eof", NumErrors' = before'
                 PROVE  \A i \in from..Len(buffer) : isWhitespace(buffer[i])
    BY <1>1 DEF SkippedTextReported
  <2>2. CurPtr = N + 1
    BY <2>1, FindsFacts
  <2>3. Blanks(from, N + 1)
    <3>1. ~(before < NumErrors)
      BY <1>1, <2>1 DEF TInv, Numbers
    <3> QED BY <2>2, <3>1 DEF TInv, Loops
  <2>4. (N + 1) - 1 = N /\ from \in 1..N + 2
    BY <1>2 DEF TInv, Numbers
  <2>5. ASSUME NEW i \in from..N PROVE isWhitespace(buffer[i])
    <3>1. isWhitespace(At(i))
      BY <2>3, <2>4 DEF Blanks
    <3>2. At(i) = buffer[i]
      BY <1>2, <2>4 DEF At, N
    <3> QED BY <3>1, <3>2
  <2> QED BY <2>5 DEF N
<1> QED BY <1>2, <1>3, <1>4, <1>5, <1>6, <1>7, <1>8 DEF TInv

LEMMA IdentifierStep == ASSUME TInv, Identifier PROVE TInv'
<1>1. /\ pc = "next" /\ CurPtr <= Len(buffer) + 1 /\ isIdentifierHead(At(CurPtr))
      /\ End' = CurPtr + 1 /\ pc' = "identifier" /\ buffer' = buffer /\ IsHex' = IsHex
      /\ UNCHANGED <<CurPtr, token, NumErrors, called>> /\ Level' = Level
  BY DEF Identifier, Finds, Begin
<1>2. /\ CurPtr <= N /\ CurPtr + 1 \in 1..N + 1 /\ Blanks(from, CurPtr) /\ before = NumErrors
      /\ CurPtr \in 1..N + 1 /\ N \in Nat
  BY <1>1, FindsFacts, NULIsOther
<1>3. N' = N /\ from' = from /\ before' = before /\ CurPtr' = CurPtr /\ NumErrors' = NumErrors
  BY <1>1, SameBuffer DEF TInv, called
<1>4. Running'
  <2>1. Blanks(from, CurPtr)'
    BY <1>1, <1>2, <1>3 DEF Blanks, At
  <2> QED BY <1>1, <1>2, <1>3, <2>1 DEF Running
<1>5. Word(CurPtr, End)'
  <2>1. isIdentifierBody(At(CurPtr)) /\ \A i \in CurPtr..(CurPtr + 1) - 1 : i = CurPtr
    BY <1>1, <1>2 DEF isIdentifierBody
  <2> QED BY <1>1, <1>3, <2>1 DEF Word, At
<1>6. Loops'
  BY <1>1, <1>4, <1>5 DEF Loops
<1>7. IsHex' \in BOOLEAN /\ Level' \in Nat
  BY <1>1 DEF TInv, Labels, Numbers
<1> QED BY <1>1, <1>2, <1>3, <1>6, <1>7, LoopStep

LEMMA NumberStep == ASSUME TInv, Number PROVE TInv'
<1>1. /\ pc = "next" /\ CurPtr <= Len(buffer) + 1 /\ isDigit(At(CurPtr))
      /\ End' = CurPtr + 1 /\ pc' = "number" /\ buffer' = buffer /\ IsHex' = FALSE
      /\ UNCHANGED <<CurPtr, token, NumErrors, called>> /\ Level' = Level
  BY DEF Number, Finds, Begin
<1>2. /\ CurPtr <= N /\ CurPtr + 1 \in 1..N + 1 /\ Blanks(from, CurPtr) /\ before = NumErrors
      /\ CurPtr \in 1..N + 1 /\ N \in Nat
  BY <1>1, FindsFacts, NULIsOther
<1>3. N' = N /\ from' = from /\ before' = before /\ CurPtr' = CurPtr /\ NumErrors' = NumErrors
  BY <1>1, SameBuffer DEF TInv, called
<1>4. Running'
  <2>1. Blanks(from, CurPtr)'
    BY <1>1, <1>2, <1>3 DEF Blanks, At
  <2> QED BY <1>1, <1>2, <1>3, <2>1 DEF Running
<1>5. Loops'
  BY <1>1, <1>4 DEF Loops
<1>6. IsHex' \in BOOLEAN /\ Level' \in Nat
  BY <1>1 DEF TInv, Numbers
<1> QED BY <1>1, <1>2, <1>3, <1>5, <1>6, LoopStep

LEMMA StringStep == ASSUME TInv, String PROVE TInv'
<1>1. /\ pc = "next" /\ CurPtr <= Len(buffer) + 1 /\ At(CurPtr) \in Quotes
      /\ End' = CurPtr + 1 /\ pc' = "string" /\ buffer' = buffer /\ IsHex' = IsHex
      /\ UNCHANGED <<CurPtr, token, NumErrors, called>> /\ Level' = Level
  BY DEF String, Finds, Begin
<1>2. /\ CurPtr <= N /\ CurPtr + 1 \in 1..N + 1 /\ Blanks(from, CurPtr) /\ before = NumErrors
      /\ CurPtr \in 1..N + 1 /\ N \in Nat
  BY <1>1, FindsFacts, NULIsOther
<1>3. N' = N /\ from' = from /\ before' = before /\ CurPtr' = CurPtr /\ NumErrors' = NumErrors
  BY <1>1, SameBuffer DEF TInv, called
<1>4. Running'
  <2>1. Blanks(from, CurPtr)'
    BY <1>1, <1>2, <1>3 DEF Blanks, At
  <2> QED BY <1>1, <1>2, <1>3, <2>1 DEF Running
<1>5. Unclosed(CurPtr, End)'
  BY <1>1, <1>2, <1>3 DEF Unclosed
<1>6. Loops'
  BY <1>1, <1>4, <1>5 DEF Loops
<1>7. IsHex' \in BOOLEAN /\ Level' \in Nat
  BY <1>1 DEF TInv, Labels, Numbers
<1> QED BY <1>1, <1>2, <1>3, <1>6, <1>7, LoopStep

LEMMA MoreOfIdentifierStep == ASSUME TInv, MoreOfIdentifier PROVE TInv'
<1>1. /\ pc = "identifier" /\ isIdentifierBody(At(End)) /\ pc' = "identifier" /\ End' = End + 1
      /\ buffer' = buffer /\ IsHex' = IsHex /\ Level' = Level
      /\ UNCHANGED <<CurPtr, token, NumErrors, called>>
  BY DEF MoreOfIdentifier
<1>2. Running /\ Word(CurPtr, End)
  BY <1>1 DEF TInv, Loops
<1>3. CurPtr \in 1..N + 2 /\ End \in 1..N + 1 /\ N \in Nat
  BY NIsNat DEF TInv, Numbers
<1>4. End <= N /\ End + 1 \in 1..N + 1
  <2>1. At(End) # NUL
    BY <1>1, NULIsOther
  <2>2. End <= N
    BY <1>3, <2>1, OneNUL DEF TInv
  <2> QED BY <1>3, <2>2
<1>5. /\ N' = N /\ from' = from /\ before' = before /\ CurPtr' = CurPtr /\ NumErrors' = NumErrors
      /\ \A p : At(p)' = At(p)
  BY <1>1, SameBuffer DEF TInv, called
<1>6. Running'
  <2>1. Blanks(from, CurPtr)'
    BY <1>1, <1>2, <1>5 DEF Running, Blanks, At
  <2> QED BY <1>1, <1>2, <1>3, <1>5, <2>1 DEF Running
<1>7. Word(CurPtr, End)'
  <2>1. \A i \in CurPtr..(End + 1) - 1 : i \in CurPtr..End - 1 \/ i = End
    BY <1>3
  <2> QED BY <1>1, <1>2, <1>5, <2>1 DEF Word, At
<1>8. Loops'
  BY <1>1, <1>6, <1>7 DEF Loops
<1>9. IsHex' \in BOOLEAN /\ Level' \in Nat
  BY <1>1 DEF TInv, Labels, Numbers
<1> QED BY <1>1, <1>3, <1>4, <1>5, <1>8, <1>9, LoopStep

LEMMA MoreOfNumberStep == ASSUME TInv, MoreOfNumber PROVE TInv'
<1>1. /\ pc = "number" /\ At(End) # NUL /\ pc' = "number" /\ End' = End + 1
      /\ buffer' = buffer /\ IsHex' = (IsHex \/ ~isHexDigit(At(End))) /\ Level' = Level
      /\ UNCHANGED <<CurPtr, token, NumErrors, called>>
  BY DEF MoreOfNumber
<1>2. Running
  BY <1>1 DEF TInv, Loops
<1>3. CurPtr \in 1..N + 2 /\ End \in 1..N + 1 /\ N \in Nat
  BY NIsNat DEF TInv, Numbers
<1>4. End <= N /\ End + 1 \in 1..N + 1
  <2>1. At(End) # NUL
    BY <1>1, NULIsOther
  <2>2. End <= N
    BY <1>3, <2>1, OneNUL DEF TInv
  <2> QED BY <1>3, <2>2
<1>5. /\ N' = N /\ from' = from /\ before' = before /\ CurPtr' = CurPtr /\ NumErrors' = NumErrors
      /\ \A p : At(p)' = At(p)
  BY <1>1, SameBuffer DEF TInv, called
<1>6. Running'
  <2>1. Blanks(from, CurPtr)'
    BY <1>1, <1>2, <1>5 DEF Running, Blanks, At
  <2> QED BY <1>1, <1>2, <1>3, <1>5, <2>1 DEF Running
<1>7. Loops'
  BY <1>1, <1>6 DEF Loops
<1>8. IsHex' \in BOOLEAN /\ Level' \in Nat
  BY <1>1 DEF TInv, Labels, Numbers
<1> QED BY <1>1, <1>3, <1>4, <1>5, <1>7, <1>8, LoopStep

LEMMA MoreOfStringStep == ASSUME TInv, MoreOfString PROVE TInv'
<1>1. /\ pc = "string" /\ ~EndsString(At(End)) /\ pc' = "string" /\ End' = End + 1
      /\ buffer' = buffer /\ IsHex' = IsHex /\ Level' = Level
      /\ UNCHANGED <<CurPtr, token, NumErrors, called>>
  BY DEF MoreOfString
<1>2. Running /\ Unclosed(CurPtr, End)
  BY <1>1 DEF TInv, Loops
<1>3. CurPtr \in 1..N + 2 /\ End \in 1..N + 1 /\ N \in Nat
  BY NIsNat DEF TInv, Numbers
<1>4. End <= N /\ End + 1 \in 1..N + 1
  <2>1. At(End) # NUL
    BY <1>1, NULIsOther DEF EndsString
  <2>2. End <= N
    BY <1>3, <2>1, OneNUL DEF TInv
  <2> QED BY <1>3, <2>2
<1>5. /\ N' = N /\ from' = from /\ before' = before /\ CurPtr' = CurPtr /\ NumErrors' = NumErrors
      /\ \A p : At(p)' = At(p)
  BY <1>1, SameBuffer DEF TInv, called
<1>6. Running'
  <2>1. Blanks(from, CurPtr)'
    BY <1>1, <1>2, <1>5 DEF Running, Blanks, At
  <2> QED BY <1>1, <1>2, <1>3, <1>5, <2>1 DEF Running
<1>7. Unclosed(CurPtr, End)'
  <2>1. \A i \in CurPtr + 1..(End + 1) - 1 : i \in CurPtr + 1..End - 1 \/ i = End
    BY <1>3
  <2>2. At(End) # At(CurPtr) /\ ~isVerticalWhitespace(At(End))
    BY <1>1 DEF EndsString
  <2> QED BY <1>1, <1>2, <1>5, <2>1, <2>2 DEF Unclosed, At
<1>8. Loops'
  BY <1>1, <1>6, <1>7 DEF Loops
<1>9. IsHex' \in BOOLEAN /\ Level' \in Nat
  BY <1>1 DEF TInv, Labels, Numbers
<1> QED BY <1>1, <1>3, <1>4, <1>5, <1>8, <1>9, LoopStep

\* Its token is formed when the loop ends.
LEMMA EndOfIdentifierStep == ASSUME TInv, EndOfIdentifier PROVE TInv'
<1>1. /\ pc = "identifier" /\ ~isIdentifierBody(At(End)) /\ pc' = "client" /\ buffer' = buffer
      /\ NumErrors' = NumErrors /\ UNCHANGED <<called, locals>>
  BY DEF EndOfIdentifier
<1>2. Running /\ Word(CurPtr, End)
  BY <1>1 DEF TInv, Loops
<1>3. /\ CurPtr \in 1..N + 2 /\ End \in 1..N + 1 /\ N \in Nat
      /\ Blanks(from, CurPtr) /\ CurPtr <= N /\ CurPtr < End /\ NumErrors \in Nat
      /\ before = NumErrors
  BY <1>2, NIsNat DEF TInv, Numbers, Running
<1> DEFINE k == getKeyword(SubSeq(buffer, CurPtr, End - 1))
<1>4. formToken(End, k)
  BY DEF EndOfIdentifier
<1>5. k \in {"identifier", "keyword"} /\ k \in FormedKinds
  BY DEF getKeyword, FormedKinds, Kinds
<1> HIDE DEF k
<1>6. End \in CurPtr + 1..N + 2 /\ End # N + 2
  BY <1>3
<1> QED BY <1>1, <1>2, <1>3, <1>4, <1>5, <1>6, FormStep

LEMMA EndOfNumberStep == ASSUME TInv, EndOfNumber PROVE TInv'
<1>1. /\ pc = "number" /\ At(End) = NUL /\ pc' = "client" /\ buffer' = buffer
      /\ ReportIf(IsHex) /\ formToken(End, "integer_literal") /\ UNCHANGED <<called, locals>>
  BY DEF EndOfNumber
<1>2. Running
  BY <1>1 DEF TInv, Loops
<1>3. /\ CurPtr \in 1..N + 2 /\ End \in 1..N + 1 /\ N \in Nat
      /\ Blanks(from, CurPtr) /\ CurPtr <= N /\ CurPtr < End /\ NumErrors \in Nat
      /\ before = NumErrors
  BY <1>2, NIsNat DEF TInv, Numbers, Running
<1>4. "integer_literal" \in FormedKinds
  BY DEF FormedKinds, Kinds
<1>5. End \in CurPtr + 1..N + 2 /\ End # N + 2
  BY <1>3
<1>6. NumErrors' \in Nat
  BY <1>1, <1>3 DEF ReportIf
<1> QED BY <1>1, <1>3, <1>4, <1>5, <1>6, FormStep

LEMMA EndOfStringStep == ASSUME TInv, EndOfString PROVE TInv'
<1>1. /\ pc = "string" /\ EndsString(At(End)) /\ pc' = "client" /\ buffer' = buffer
      /\ ReportIf(isVerticalWhitespace(At(End))) /\ formToken(End + 1, "string_literal") /\ UNCHANGED <<called, locals>>
  BY DEF EndOfString
<1>2. Running /\ Unclosed(CurPtr, End)
  BY <1>1 DEF TInv, Loops
<1>3. /\ CurPtr \in 1..N + 2 /\ End \in 1..N + 1 /\ N \in Nat
      /\ Blanks(from, CurPtr) /\ CurPtr <= N /\ CurPtr < End /\ NumErrors \in Nat
      /\ before = NumErrors
  BY <1>2, NIsNat DEF TInv, Numbers, Running
<1>4. "string_literal" \in FormedKinds
  BY DEF FormedKinds, Kinds
<1>5. End + 1 \in CurPtr + 1..N + 2 /\ (End + 1 = N + 2 => Unclosed(CurPtr, N + 1))
  <2>1. End + 1 = N + 2 => End = N + 1
    BY <1>3
  <2> QED BY <1>2, <1>3, <2>1
<1>6. NumErrors' \in Nat
  BY <1>1, <1>3 DEF ReportIf
<1> QED BY <1>1, <1>3, <1>4, <1>5, <1>6, FormStep

\* A comment begins; its loop has no part in what is returned.
LEMMA CommentStep == ASSUME TInv, Comment PROVE TInv'
<1>1. /\ pc = "next" /\ CurPtr <= Len(buffer) + 1 /\ At(CurPtr) = "(" /\ At(CurPtr + 1) = "*"
      /\ pc' = "comment" /\ End' = CurPtr + 2 /\ Level' = 1 /\ IsHex' = IsHex
      /\ buffer' = buffer /\ UNCHANGED <<CurPtr, token, NumErrors, called>>
  BY DEF Comment, Finds, OpensComment
<1>2. /\ CurPtr <= N /\ CurPtr + 1 \in 1..N + 1 /\ before = NumErrors
      /\ CurPtr \in 1..N + 1 /\ N \in Nat
  BY <1>1, FindsFacts, NULIsOther
<1>3. CurPtr + 1 <= N
  BY <1>1, <1>2, OneNUL, NULIsOther DEF TInv
<1>4. N' = N /\ before' = before /\ CurPtr' = CurPtr /\ NumErrors' = NumErrors
  BY <1>1, SameBuffer DEF TInv, called
<1>5. End' \in 1..N + 1 /\ Level' \in Nat /\ Level' > 0
  BY <1>1, <1>2, <1>3
<1>6. Loops'
  BY <1>1, <1>2, <1>4, <1>5 DEF Loops
<1>7. IsHex' \in BOOLEAN
  BY <1>1 DEF TInv, Labels
<1> QED BY <1>1, <1>5, <1>6, <1>7, LoopStep

LEMMA InCommentStep == ASSUME TInv, Delimiter \/ MoreOfComment PROVE TInv'
<1>1. /\ pc = "comment" /\ At(End) # NUL /\ pc' = "comment" /\ IsHex' = IsHex
      /\ \/ End' = End + 2 /\ Level' = Level + 1 /\ Delimits(At(End), At(End + 1))
         \/ End' = End + 1 /\ Level' = Level
      /\ buffer' = buffer /\ UNCHANGED <<CurPtr, token, NumErrors, called>>
  BY DEF Delimiter, MoreOfComment
<1>2. CurPtr <= N /\ Level > 0 /\ before = NumErrors
  BY <1>1 DEF TInv, Loops
<1>3. End \in 1..N + 1 /\ N \in Nat /\ Level \in Nat
  BY NIsNat DEF TInv, Numbers
<1>4. End <= N /\ End + 1 \in 1..N + 1
  <2>1. End <= N
    BY <1>1, <1>3, OneNUL DEF TInv
  <2> QED BY <1>3, <2>1
<1>5. Delimits(At(End), At(End + 1)) => End + 1 <= N
  <2>1. Delimits(At(End), At(End + 1)) => At(End + 1) # NUL
    BY NULIsOther DEF Delimits
  <2> QED BY <1>4, <2>1, OneNUL DEF TInv
<1>6. End' \in 1..N + 1 /\ Level' \in Nat /\ Level' > 0
  BY <1>1, <1>2, <1>3, <1>4, <1>5
<1>7. N' = N /\ before' = before /\ CurPtr' = CurPtr /\ NumErrors' = NumErrors
  BY <1>1, SameBuffer DEF TInv, called
<1>8. Loops'
  BY <1>1, <1>2, <1>6, <1>7 DEF Loops
<1>9. IsHex' \in BOOLEAN
  BY <1>1 DEF TInv, Labels
<1> QED BY <1>1, <1>6, <1>8, <1>9, LoopStep

\* A comment ends at the NUL only, and with an error.
LEMMA EndOfCommentStep == ASSUME TInv, EndOfComment PROVE TInv'
<1>1. pc = "comment"
  BY DEF EndOfComment
<1>2. pc = "comment" /\ CurPtr <= N /\ Level > 0 /\ before = NumErrors
  BY <1>1 DEF TInv, Loops
<1>3. End \in 1..N + 1 /\ N \in Nat /\ Level \in Nat /\ NumErrors \in Nat
  BY NIsNat DEF TInv, Numbers
<1>4. At(End) = NUL /\ End = N + 1
  <2>1. At(End) = NUL
    BY <1>2, <1>3 DEF EndOfComment
  <2> QED BY <1>3, <2>1, OneNUL DEF TInv
<1>5. /\ NumErrors' = NumErrors + 1 /\ CurPtr' = End /\ pc' = "next" /\ buffer' = buffer
      /\ UNCHANGED token /\ UNCHANGED locals /\ UNCHANGED called
  BY <1>4 DEF EndOfComment, ReportIf
<1>6. /\ kind' = kind /\ Ptr' = Ptr /\ Length' = Length /\ End' = End /\ IsHex' = IsHex
      /\ Level' = Level /\ from' = from /\ before' = before
  BY <1>5 DEF token, locals, called
<1>7. Clean' /\ N' = N
  BY <1>5, SameBuffer DEF TInv
<1>8. Numbers'
  BY <1>3, <1>4, <1>5, <1>6, <1>7 DEF TInv, Numbers
<1>9. Labels'
  BY <1>5, <1>6 DEF TInv, Labels
<1>10. CurPtr' = N' + 1 /\ before' < NumErrors'
  BY <1>2, <1>3, <1>4, <1>5, <1>6, <1>7
<1>11. Loops'
  BY <1>5, <1>10 DEF Loops
<1>12. OnlyStringsOverrun' /\ TokensAdjoin' /\ SkippedTextReported'
  BY <1>3, <1>4, <1>5, <1>6, Unformed
<1> QED BY <1>7, <1>8, <1>9, <1>11, <1>12 DEF TInv

\* Punctuators have kinds of their own.
LEMMA PunctuatorKinds ==
  \A c \in Singles :
    /\ Single(c) \in FormedKinds
    /\ Single(c) \notin {"identifier", "keyword"}
    /\ c \in Doubles => /\ Double(c) \in FormedKinds
                        /\ Double(c) \notin {"identifier", "keyword"}
<1>1. SUFFICES ASSUME NEW c \in Singles
               PROVE  /\ Single(c) \in FormedKinds
                      /\ Single(c) \notin {"identifier", "keyword"}
                      /\ c \in Doubles => /\ Double(c) \in FormedKinds
                                          /\ Double(c) \notin {"identifier", "keyword"}
  OBVIOUS
<1>2. Single(c) \in {"equal", "hash", "plus", "minus", "star", "slash", "comma", "period", "semi",
                     "r_paren", "l_paren", "less", "greater"}
  BY DEF Single, Singles
<1>3. Single(c) \in Kinds /\ (c \in Doubles => Double(c) \in Kinds)
  BY DEF Kinds
<1>4. Single(c) \notin {"none", "eof", "unknown", "identifier", "keyword"}
  BY <1>2
<1>5. Double(c) \notin {"none", "eof", "unknown", "identifier", "keyword"}
  BY DEF Double
<1> QED BY <1>3, <1>4, <1>5 DEF FormedKinds

LEMMA PunctuatorStep == ASSUME TInv, Punctuator PROVE TInv'
<1>1. /\ pc = "next" /\ CurPtr <= Len(buffer) + 1 /\ At(CurPtr) \in Singles
      /\ pc' = "client" /\ buffer' = buffer /\ NumErrors' = NumErrors
      /\ UNCHANGED <<called, locals>>
      /\ \/ /\ At(CurPtr) \in Doubles /\ At(CurPtr + 1) = "="
            /\ formToken(CurPtr + 2, Double(At(CurPtr)))
         \/ formToken(CurPtr + 1, Single(At(CurPtr)))
  BY DEF Punctuator, Finds
<1>2. /\ CurPtr <= N /\ CurPtr + 1 \in 1..N + 1 /\ Blanks(from, CurPtr)
      /\ CurPtr \in 1..N + 1 /\ N \in Nat
  BY <1>1, FindsFacts, NULIsOther
<1>3. NumErrors' \in Nat
  BY <1>1 DEF TInv, Numbers
<1>4. CASE formToken(CurPtr + 1, Single(At(CurPtr)))
  <2>1. CurPtr + 1 \in CurPtr + 1..N + 2 /\ CurPtr + 1 # N + 2
    BY <1>2
  <2>2. /\ Single(At(CurPtr)) \in FormedKinds
        /\ Single(At(CurPtr)) \notin {"identifier", "keyword"}
    BY <1>1, PunctuatorKinds
  <2> QED BY <1>1, <1>2, <1>3, <1>4, <2>1, <2>2, FormStep
<1>5. CASE /\ At(CurPtr) \in Doubles /\ At(CurPtr + 1) = "="
           /\ formToken(CurPtr + 2, Double(At(CurPtr)))
  <2>1. CurPtr + 1 <= N
    BY <1>2, <1>5, OneNUL, NULIsOther DEF TInv
  <2>2. CurPtr + 2 \in CurPtr + 1..N + 2 /\ CurPtr + 2 # N + 2
    BY <1>2, <2>1
  <2>3. /\ Double(At(CurPtr)) \in FormedKinds
        /\ Double(At(CurPtr)) \notin {"identifier", "keyword"}
    BY <1>1, <1>5, PunctuatorKinds
  <2> QED BY <1>1, <1>2, <1>3, <1>5, <2>2, <2>3, FormStep
<1> QED BY <1>1, <1>4, <1>5

LEMMA EndOfBufferStep == ASSUME TInv, EndOfBuffer PROVE TInv'
BY NoTokenStep DEF EndOfBuffer, Finds

LEMMA UnknownStep == ASSUME TInv, Unknown PROVE TInv'
BY NoTokenStep DEF Unknown, Finds

LEMMA StutterStep == ASSUME TInv, UNCHANGED vars PROVE TInv'
<1>1. /\ buffer' = buffer /\ CurPtr' = CurPtr /\ NumErrors' = NumErrors /\ pc' = pc
      /\ kind' = kind /\ Ptr' = Ptr /\ Length' = Length /\ End' = End /\ IsHex' = IsHex
      /\ Level' = Level /\ from' = from /\ before' = before
  BY DEF vars, token, locals, called
<1>2. Clean' /\ N' = N /\ \A p : At(p)' = At(p)
  BY <1>1, SameBuffer DEF TInv
<1>3. Numbers' /\ Labels'
  BY <1>1, <1>2 DEF TInv, Numbers, Labels
<1>4. Loops'
  BY <1>1, <1>2 DEF TInv, Loops, Running, Blanks, Word, Unclosed, At
<1>5. OnlyStringsOverrun' /\ TokensAdjoin' /\ SkippedTextReported'
  BY <1>1, <1>2 DEF TInv, OnlyStringsOverrun, TokensAdjoin, SkippedTextReported, Formed, At
<1> QED BY <1>2, <1>3, <1>4, <1>5 DEF TInv

----------------------------------------------------------------------------
(* The theorems.                                                           *)

LEMMA InitInvariant == Init => TInv
<1> SUFFICES ASSUME Init PROVE TInv
  OBVIOUS
<1>1. Clean /\ N \in Nat
  <2>1. Clean
    BY BuffersAssumption DEF Init, Clean, N
  <2> QED BY <2>1, NIsNat
<1>2. /\ CurPtr = 1 /\ NumErrors = 0 /\ from = 1 /\ before = 0 /\ Ptr = 1 /\ Length = 0
      /\ End = 1 /\ Level = 0
  BY DEF Init
<1>3. pc = "client" /\ kind = "none" /\ IsHex = FALSE
  BY DEF Init
<1>4. Numbers
  BY <1>1, <1>2 DEF Numbers
<1>5. Labels
  BY <1>3 DEF Labels, Kinds
<1>6. Loops
  BY <1>3 DEF Loops
<1>7. OnlyStringsOverrun
  BY <1>1, <1>2 DEF OnlyStringsOverrun, N
<1>8. TokensAdjoin /\ SkippedTextReported
  BY <1>3 DEF TokensAdjoin, SkippedTextReported, Formed
<1> QED BY <1>1, <1>4, <1>5, <1>6, <1>7, <1>8 DEF TInv

LEMMA TinyLexerInvariant == Spec => []TInv
<1>1. TInv /\ [Next]_vars => TInv'
  BY CallStep, OutsideStep, SkipStep, EndOfBufferStep, IdentifierStep, MoreOfIdentifierStep,
     EndOfIdentifierStep, NumberStep, MoreOfNumberStep, EndOfNumberStep, StringStep,
     MoreOfStringStep, EndOfStringStep, CommentStep, InCommentStep, EndOfCommentStep,
     PunctuatorStep, UnknownStep, StutterStep
  DEF Next, Lex
<1> QED BY <1>1, InitInvariant, PTL DEF Spec

\* For every buffer: the type invariant, no pointer further than one
\* position behind the NUL.
THEOREM TinyLexerTypeCorrect == Spec => []TypeOK
BY TInvType, TinyLexerInvariant, PTL

\* For every buffer: between tokens there is white space only, and words are
\* as long as they can be.
THEOREM TokensAlwaysAdjoin == Spec => []TokensAdjoin
<1>1. TInv => TokensAdjoin
  BY DEF TInv
<1> QED BY <1>1, TinyLexerInvariant, PTL

\* For every buffer: the lexer leaves it only by a string that is not closed.
THEOREM OnlyStringsLeaveTheBuffer == Spec => []OnlyStringsOverrun
<1>1. TInv => OnlyStringsOverrun
  BY DEF TInv
<1> QED BY <1>1, TinyLexerInvariant, PTL

\* For every buffer: a call that finds the end and reports no error has
\* skipped white space only, so what a comment swallows is reported.
THEOREM SkippedTextIsReported == Spec => []SkippedTextReported
<1>1. TInv => SkippedTextReported
  BY DEF TInv
<1> QED BY <1>1, TinyLexerInvariant, PTL

----------------------------------------------------------------------------
(* The client gets on: every step of next() and of the client comes nearer *)
(* to the end of the buffer.                                               *)

\* How far next() has looked.
Reached == IF pc \in {"identifier", "number", "string", "comment"} THEN End ELSE CurPtr

\* How much of a call the client has yet to make before the next character.
Phase ==
  IF pc \in {"identifier", "number", "string", "comment"} THEN 3
  ELSE IF pc = "next" THEN 1
  ELSE IF pc = "client" /\ kind \notin {"eof", "unknown"} THEN 2
  ELSE 0

StepsLeft == 4 * (N + 2 - Reached) + Phase

\* Only a client that asks again for an unknown character makes no progress.
ClientAdvances ==
  [][Next => (pc = "client" /\ kind = "unknown") \/ StepsLeft' < StepsLeft]_vars

\* Looking further by a character pays for any change of phase; without it the
\* phase has to go down.
LEMMA FewerLeft ==
  ASSUME N \in Nat, N' = N, Reached \in Int, Reached' \in Int,
         Reached' > Reached \/ (Reached' = Reached /\ Phase' < Phase)
  PROVE  StepsLeft' < StepsLeft
<1>1. Phase \in 0..3 /\ Phase' \in 0..3
  BY DEF Phase
<1> DEFINE n == N r == Reached s == Reached' p == Phase q == Phase'
<1>2. StepsLeft = 4 * (n + 2 - r) + p /\ StepsLeft' = 4 * (n + 2 - s) + q
  BY DEF StepsLeft
<1>3. p \in 0..3 /\ q \in 0..3 /\ n \in Nat /\ r \in Int /\ s \in Int
  BY <1>1
<1>4. s > r \/ (s = r /\ q < p)
  OBVIOUS
<1> HIDE DEF n, r, s, p, q
<1> QED BY <1>2, <1>3, <1>4

\* For every buffer: a client that reads on gets to the end of it, to an
\* unknown character or behind the buffer within four steps for each character:
\* no loop of next() runs for ever and no token is empty.  With the fairness of
\* the client this is why StopsAdvancing holds.
THEOREM ClientsGetOn == Spec => [](StepsLeft \in Nat) /\ ClientAdvances
<1>1. TInv => StepsLeft \in Nat
  <2> SUFFICES ASSUME TInv PROVE StepsLeft \in Nat
    OBVIOUS
  <2>1. N \in Nat /\ Phase \in 0..3
    BY NIsNat DEF TInv, Phase
  <2>2. Reached \in 1..N + 2
    BY <2>1 DEF TInv, Numbers, Reached
  <2> DEFINE n == N r == Reached p == Phase
  <2>3. StepsLeft = 4 * (n + 2 - r) + p /\ n \in Nat /\ p \in 0..3 /\ r \in 1..n + 2
    BY <2>1, <2>2 DEF StepsLeft
  <2> HIDE DEF n, r, p
  <2> QED BY <2>3
<1>2. TInv /\ TInv' /\ [Next]_vars => [Next => (pc = "client" /\ kind = "unknown") \/ StepsLeft' < StepsLeft]_vars
  <2> SUFFICES ASSUME TInv, TInv', Next, ~(pc = "client" /\ kind = "unknown")
               PROVE  StepsLeft' < StepsLeft
    OBVIOUS
  <2>1. buffer' = buffer
    BY DEF Next, Lex, Call, Outside, SkipWhitespace, EndOfBuffer, Identifier, MoreOfIdentifier,
           EndOfIdentifier, Number, MoreOfNumber, EndOfNumber, String, MoreOfString, EndOfString,
           Comment, Delimiter, MoreOfComment, EndOfComment, Punctuator, Unknown
  <2>2. N \in Nat /\ N' = N
    BY <2>1, NIsNat DEF TInv, N
  <2>3. CurPtr \in Int /\ CurPtr' \in Int /\ End \in Int /\ End' \in Int
    BY DEF TInv, Numbers
  <2>4. Reached \in Int /\ Reached' \in Int
    BY <2>3 DEF Reached
  <2>fewer. ASSUME Reached' > Reached \/ (Reached' = Reached /\ Phase' < Phase)
            PROVE  StepsLeft' < StepsLeft
    BY <2>fewer, <2>2, <2>4, FewerLeft
  \* next() goes into a loop, goes on in it, and leaves it.
  <2>5. ASSUME pc = "next", pc' \in {"identifier", "number", "string", "comment"},
               End' = CurPtr + 1 \/ End' = CurPtr + 2
        PROVE  StepsLeft' < StepsLeft
    BY <2>5, <2>3, <2>fewer DEF Reached, Phase
  <2>6. ASSUME pc \in {"identifier", "number", "string", "comment"}, pc' = pc,
               End' = End + 1 \/ End' = End + 2
        PROVE  StepsLeft' < StepsLeft
    BY <2>6, <2>3, <2>fewer DEF Reached, Phase
  <2>7. ASSUME pc \in {"identifier", "number", "string", "comment"}, pc' \in {"client", "next"},
               CurPtr' = End \/ CurPtr' = End + 1
        PROVE  StepsLeft' < StepsLeft
    BY <2>7, <2>3, <2>fewer DEF Reached, Phase
  <2>8. CASE Call
    BY <2>8, <2>fewer DEF Call, Reached, Phase
  <2>9. CASE Outside
    BY <2>9, <2>fewer DEF Outside, Reached, Phase
  <2>10. CASE SkipWhitespace
    BY <2>10, <2>3, <2>fewer DEF SkipWhitespace, Finds, Reached, Phase
  <2>11. CASE EndOfBuffer
    BY <2>11, <2>fewer DEF EndOfBuffer, Finds, Reached, Phase
  <2>12. CASE Identifier
    BY <2>12, <2>5 DEF Identifier, Finds, Begin
  <2>13. CASE MoreOfIdentifier
    BY <2>13, <2>6 DEF MoreOfIdentifier
  <2>14. CASE EndOfIdentifier
    BY <2>14, <2>7 DEF EndOfIdentifier, formToken
  <2>15. CASE Number
    BY <2>15, <2>5 DEF Number, Finds, Begin
  <2>16. CASE MoreOfNumber
    BY <2>16, <2>6 DEF MoreOfNumber
  <2>17. CASE EndOfNumber
    BY <2>17, <2>7 DEF EndOfNumber, formToken
  <2>18. CASE String
    BY <2>18, <2>5 DEF String, Finds, Begin
  <2>19. CASE MoreOfString
    BY <2>19, <2>6 DEF MoreOfString
  <2>20. CASE EndOfString
    BY <2>20, <2>7 DEF EndOfString, formToken
  <2>21. CASE Comment
    BY <2>21, <2>5 DEF Comment, Finds
  <2>22. CASE Delimiter
    BY <2>22, <2>6 DEF Delimiter
  <2>23. CASE MoreOfComment
    BY <2>23, <2>6 DEF MoreOfComment
  <2>24. CASE EndOfComment
    BY <2>24, <2>7 DEF EndOfComment
  <2>25. CASE Punctuator
    <3>1. pc = "next" /\ pc' = "client" /\ (CurPtr' = CurPtr + 1 \/ CurPtr' = CurPtr + 2)
      BY <2>25 DEF Punctuator, Finds, formToken
    <3> QED BY <3>1, <2>3, <2>fewer DEF Reached, Phase
  <2>26. CASE Unknown
    BY <2>26, <2>fewer DEF Unknown, Finds, Reached, Phase
  <2> QED BY <2>8, <2>9, <2>10, <2>11, <2>12, <2>13, <2>14, <2>15, <2>16, <2>17, <2>18, <2>19,
             <2>20, <2>21, <2>22, <2>23, <2>24, <2>25, <2>26 DEF Next, Lex
<1> QED BY <1>1, <1>2, TinyLexerInvariant, PTL DEF Spec, ClientAdvances
=============================================================================

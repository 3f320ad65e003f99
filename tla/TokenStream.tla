---------------------------- MODULE TokenStream ----------------------------
(***************************************************************************)
(* What a lexer promises: each call returns the longest token that begins  *)
(* at the first character that is neither blank nor in a comment, and goes *)
(* on behind it.  At the end of the text it stays there.                   *)
(***************************************************************************)
EXTENDS LexicalGrammar

VARIABLES
  text,   \* the text, which does not change
  at,     \* the character behind the last token
  tok     \* the last token

Init == at = 0 /\ tok = 0

NextToken ==
  \E s \in at..Len(text)+1 : \E e \in s..Len(text)+1 :
    /\ \A i \in at..s-1 : Skipped(text, i)
    /\ ~Skipped(text, s)
    /\ IsToken(text, s, e)
    /\ at' = e
    /\ tok' = TokenOf(text, s, e)
    /\ UNCHANGED text

Spec == Init /\ [][NextToken]_<<text, at, tok>>
=============================================================================

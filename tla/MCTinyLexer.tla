---------------------------- MODULE MCTinyLexer ----------------------------
(***************************************************************************)
(* Every buffer of three characters, and longer ones of comments, strings, *)
(* numbers and punctuators.                                                *)
(***************************************************************************)
EXTENDS TinyLexer

Texts(n, chars) == UNION {[1..k -> chars] : k \in 0..n}

MCBuffers ==
  Texts(3, {" ", "\n", "A", "g", "1", "\"", "'", "(", "*", ")", ":", "<", ">", "=", "+", "?"})
  \cup Texts(6, {"(", "*", ")", "g"})
  \cup Texts(5, {"\"", "'", "\n", "g"})
  \cup Texts(5, {"A", "1", "g", " "})
  \cup Texts(5, {":", ">", "=", " "})

MCKeywords == {<<"A", "g">>}
=============================================================================

------------------------------ MODULE MCLexer ------------------------------
(***************************************************************************)
(* Texts over blank, newline, carriage return, "i", "n", "1", ".", "#" and *)
(* "+", some with bytes that are negative as a char.  "in" is a keyword.   *)
(***************************************************************************)
EXTENDS Lexer

MCKeyword == [w \in {<<105, 110>>} |-> -10]

Texts(n, bytes) == UNION {[1..k -> bytes] : k \in 0..n}

Ascii == {32, 10, 13, 105, 110, 49, 46, 35, 43}

MCSetups ==
  [opened : {TRUE}, file : Texts(4, Ascii) \cup Texts(3, Ascii \cup {128, 254, 255}), stdin : {<<105>>}]
  \cup [opened : {TRUE}, file : Texts(6, {105, 110, 35, 13}), stdin : {<<105>>}]
  \cup [opened : {FALSE}, file : {<<>>}, stdin : Texts(3, Ascii \cup {254, 255})]
=============================================================================

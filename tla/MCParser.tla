------------------------------ MODULE MCParser ------------------------------
(***************************************************************************)
(* Inputs with two operators.  Short ones may hold every token; longer     *)
(* ones are expressions with operators, control flow, calls, and a         *)
(* definition of an operator followed by an expression that may use it.    *)
(***************************************************************************)
EXTENDS Parser

Repeat(n, tokens) == [k \in 1..n |-> tokens]

Arithmetic  == {"identifier", "(", ")", "+", "*", "=", "eof"}
ControlFlow == {"identifier", "=", ",", "if", "then", "else", "for", "in", "var", "eof"}
Calling     == {"identifier", "(", ")", ",", "+", "eof"}
Defining    ==
  <<{"def"}, {"binary"}, {"+", "=", ")"}, {"number", "("}, {"(", "identifier"},
    {"identifier", ","}, {",", "identifier"}, {"identifier", ")"}, {")", "identifier"}>>

Using == <<{"identifier"}>> \o Repeat(6, {"identifier", "+", "*", ")"})

MCInputs ==
  <<Repeat(6, Tokens), Repeat(8, Arithmetic), Repeat(8, Calling),
    <<{"if", "for", "var"}>> \o Repeat(9, ControlFlow), Defining \o Using>>
=============================================================================

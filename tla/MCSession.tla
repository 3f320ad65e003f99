----------------------------- MODULE MCSession -----------------------------
(***************************************************************************)
(* Sessions over one function name beside "main", one unary and three      *)
(* binary operators: one with a case in the code generator, the installed  *)
(* one without, and one that programs define.                              *)
(***************************************************************************)
EXTENDS Session
=============================================================================

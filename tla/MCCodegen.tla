----------------------------- MODULE MCCodegen -----------------------------
(***************************************************************************)
(* Code generation on small instances: two variable names, a known         *)
(* function of two arguments, an unknown one, one user-defined unary       *)
(* operator, a user-defined binary operator and an installed operator      *)
(* ('>') that no definition backs.                                         *)
(***************************************************************************)
EXTENDS Codegen

CONSTANTS x, y, fn, ghost, neg, bang, pipe, gt

MCProtos == [f \in FnNames |-> CASE f = fn   -> 2
                                 [] f = neg  -> 1
                                 [] f = pipe -> 2
                                 [] OTHER    -> NoProto]
=============================================================================

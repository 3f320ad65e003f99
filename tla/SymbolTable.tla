---------------------------- MODULE SymbolTable ----------------------------
(***************************************************************************)
(* What a Kaleidoscope session promises about function names, whatever it  *)
(* does with modules, prototypes and errors: a name that was ever declared *)
(* stays known, and a name gets at most one definition, which is final.    *)
(***************************************************************************)
EXTENDS Integers

CONSTANTS Names, Arity   \* the arities that a name may have: Arity[name]

VARIABLES
  known,    \* names that have been declared
  defined   \* arity of each defined name, a function on those names

Init == known = {} /\ defined = [n \in {} |-> 0]

Declare(n) == known' = known \cup {n} /\ UNCHANGED defined

Define(n, k) ==
  /\ n \in known /\ n \notin DOMAIN defined
  /\ defined' = [m \in DOMAIN defined \cup {n} |-> IF m = n THEN k ELSE defined[m]]
  /\ UNCHANGED known

Next == \E n \in Names : Declare(n) \/ \E k \in Arity[n] : Define(n, k)

Spec == Init /\ [][Next]_<<known, defined>>
=============================================================================

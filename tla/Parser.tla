------------------------------- MODULE Parser -------------------------------
(***************************************************************************)
(* The recursive-descent parser of src/main2.cpp (467-885) and the main    *)
(* loop that calls it (1453-1538), over every sequence of tokens.          *)
(*                                                                         *)
(* A parse function that waits for another one is a frame of stack; pc is  *)
(* the point at which the innermost one goes on.  Of an expression only    *)
(* the precedence of its topmost operator is kept, which is what tells a   *)
(* right grouping of operators from a wrong one.                           *)
(***************************************************************************)
EXTENDS Integers, Sequences

CONSTANTS
  Ops,       \* characters that programs use as operators, '=' excepted
  NumVals,   \* values of number tokens, in tenths
  Inputs     \* bound: sequences of sets, the k-th token is in the k-th set

Chars == Ops \cup {"(", ")", ",", ";", "="}
Words == {"def", "extern", "unary", "binary", "if", "then", "else", "for", "in", "var"}
\* "other" is a byte that is neither ASCII nor a token of the lexer's.
Tokens == Chars \cup Words \cup {"identifier", "number", "eof", "other"}

ASSUME ParserBounds ==
  /\ Inputs \in Seq(Seq((SUBSET Tokens) \ {{}}) \ {<<>>})
  /\ NumVals \subseteq Nat
  \* The codes of all other tokens are negative.
  /\ Ops \cap (Words \cup {"identifier", "number", "eof", "other"}) = {}

VARIABLES
  source,           \* which of Inputs it reads
  CurTok,           \* the token being looked at
  read,             \* tokens read so far
  BinopPrecedence,  \* precedence of every character, 0 if it has none
  pc,               \* where the innermost parse function is
  stack,            \* the parse functions that wait for it, innermost last
  val,              \* precedence of the expression being returned, or Null
  item,             \* which handler is running
  proto,            \* the prototype of the item
  start,            \* history: tokens read when the main loop saw the item
  rejected          \* history: did a parse function of the item return nullptr?

input == <<source, CurTok, read>>
vars  == <<input, BinopPrecedence, pc, stack, val, item, proto, start, rejected>>

Null == 0    \* nullptr
Atom == 101  \* an expression that is not a BinaryExprAST: no operator splits it

\* names counts the identifiers between the parentheses, args those kept.
NoProto == [kind |-> 0, op |-> ";", prec |-> 30, args |-> 0, names |-> 0]

----------------------------------------------------------------------------
(* Helpers.                                                                *)

\* The lexer does not eat the end of input.
getNextToken ==
  IF CurTok = "eof" THEN UNCHANGED input
  ELSE /\ read' = read + 1
       /\ CurTok' \in IF read < Len(Inputs[source]) THEN Inputs[source][read + 1] ELSE {"eof"}
       /\ UNCHANGED source

Precedence(c)    == IF BinopPrecedence[c] <= 0 THEN -1 ELSE BinopPrecedence[c]
GetTokPrecedence == IF CurTok \in Chars THEN Precedence(CurTok) ELSE -1

\* A frame: where the function goes on and, in ParseBinOpRHS, its ExprPrec,
\* the precedence of LHS and that of the operator it has read.
Frame(at, min, lhs, op) == [at |-> at, min |-> min, lhs |-> lhs, op |-> op]

Top         == stack[Len(stack)]
Popped      == SubSeq(stack, 1, Len(stack) - 1)
Replaced(f) == [stack EXCEPT ![Len(stack)] = f]

\* ParseExpression calls ParseUnary first; its own caller goes on at point p.
ParseExpression(p) ==
  /\ stack' = Append(Append(stack, Frame(p, 0, 0, 0)), Frame("LHS", 0, 0, 0))
  /\ pc' = "unary"

Return(v) ==
  /\ val' = v
  /\ pc' = "return"
  /\ rejected' = (rejected \/ v = Null)

----------------------------------------------------------------------------
(* Primary expressions.  <<p, t, q>>: at point p the function takes token  *)
(* t, and goes on at point q.                                              *)

Takes ==
  {<<"unary", "number", "complete">>, <<"unary", "identifier", "callee">>,
   <<"unary", "for", "for name">>, <<"unary", "var", "var name">>,
   <<"parenthesis", ")", "complete">>,
   <<"callee", "(", "first argument">>, <<"first argument", ")", "complete">>,
   <<"next argument", ")", "complete">>,
   <<"for name", "identifier", "for =">>,
   <<"var name", "identifier", "initializer">>, <<"next var", ",", "var name">>}

\* <<p, t, q>>: it takes t and calls ParseExpression, to go on at point q.
Calls ==
  {<<"unary", "(", "parenthesis">>, <<"next argument", ",", "next argument">>,
   <<"unary", "if", "then">>, <<"then", "then", "else">>, <<"else", "else", "complete">>,
   <<"for =", "=", "start">>, <<"start", ",", "end">>, <<"end", ",", "step">>,
   <<"end", "in", "complete">>, <<"step", "in", "complete">>,
   <<"initializer", "=", "next var">>, <<"next var", "in", "complete">>}

\* Where it can go on without taking a token.
Optional == {"callee", "first argument", "initializer"}

Points == {r[1] : r \in Takes \cup Calls}

\* ParseUnary takes every character but these two for a unary operator.
IsUnary(t) == t \in Chars \ {"(", ","}

Expected == {<<r[1], r[2]>> : r \in Takes \cup Calls} \cup {<<"unary", t>> : t \in {c \in Chars : IsUnary(c)}}

Take ==
  /\ \E r \in Takes : pc = r[1] /\ CurTok = r[2] /\ pc' = r[3]
  /\ getNextToken
  /\ UNCHANGED <<BinopPrecedence, stack, val, item, proto, start, rejected>>

TakeAndParse ==
  /\ \E r \in Calls : pc = r[1] /\ CurTok = r[2] /\ ParseExpression(r[3])
  /\ getNextToken
  /\ UNCHANGED <<BinopPrecedence, val, item, proto, start, rejected>>

\* A variable, the first argument of a call, a var without initializer.
GoOn ==
  /\ pc \in Optional /\ <<pc, CurTok>> \notin Expected
  /\ \/ pc = "callee" /\ pc' = "complete" /\ UNCHANGED stack
     \/ pc = "first argument" /\ ParseExpression("next argument")
     \/ pc = "initializer" /\ pc' = "next var" /\ UNCHANGED stack
  /\ UNCHANGED <<input, BinopPrecedence, val, item, proto, start, rejected>>

LogError ==
  /\ pc \in Points \ Optional /\ <<pc, CurTok>> \notin Expected
  /\ Return(Null)
  /\ UNCHANGED <<input, BinopPrecedence, stack, item, proto, start>>

Complete ==
  /\ pc = "complete"
  /\ Return(Atom)
  /\ UNCHANGED <<input, BinopPrecedence, stack, item, proto, start>>

----------------------------------------------------------------------------
(* Operators.                                                              *)

ParseUnary ==
  /\ pc = "unary" /\ IsUnary(CurTok)
  /\ getNextToken
  /\ stack' = Append(stack, Frame("operand", 0, 0, 0))
  /\ UNCHANGED <<BinopPrecedence, pc, val, item, proto, start, rejected>>

\* The head of the loop of ParseBinOpRHS: is there an operator to take?
BinOpLoop ==
  /\ pc = "operator"
  /\ \/ /\ GetTokPrecedence < Top.min
        /\ Return(Top.lhs)
        /\ stack' = Popped
        /\ UNCHANGED input
     \/ /\ GetTokPrecedence >= Top.min
        /\ stack' = Replaced(Frame("RHS", Top.min, Top.lhs, GetTokPrecedence))
        /\ pc' = "unary"
        /\ getNextToken
        /\ UNCHANGED <<val, rejected>>
  /\ UNCHANGED <<BinopPrecedence, item, proto, start>>

Returning(at) == pc = "return" /\ stack # <<>> /\ Top.at = at

\* Every caller returns nullptr when it gets nullptr.
ReturnNull_UnaryIgnores ==
  /\ pc = "return" /\ stack # <<>> /\ val = Null
  /\ stack' = Popped
  /\ val' = IF Top.at = "operand" THEN Atom ELSE Null
  /\ UNCHANGED <<input, BinopPrecedence, pc, item, proto, start, rejected>>
ReturnNull ==
  /\ pc = "return" /\ stack # <<>> /\ val = Null
  /\ stack' = Popped
  /\ UNCHANGED <<input, BinopPrecedence, pc, val, item, proto, start, rejected>>

ReturnToPrimary ==
  /\ pc = "return" /\ stack # <<>> /\ val # Null
  /\ Top.at \in Points \cup {"complete"}
  /\ pc' = Top.at
  /\ stack' = Popped
  /\ UNCHANGED <<input, BinopPrecedence, val, item, proto, start, rejected>>

ReturnToUnary ==
  /\ Returning("operand") /\ val # Null
  /\ val' = Atom
  /\ stack' = Popped
  /\ UNCHANGED <<input, BinopPrecedence, pc, item, proto, start, rejected>>

\* ParseExpression calls ParseBinOpRHS with ExprPrec 0, in its own place.
ReturnToExpression ==
  /\ Returning("LHS") /\ val # Null
  /\ stack' = Replaced(Frame("operator", 0, val, 0))
  /\ pc' = "operator"
  /\ UNCHANGED <<input, BinopPrecedence, val, item, proto, start, rejected>>

\* The next operator binds tighter: it gets the operand first.
ParsePending_NoIncrement ==
  /\ Returning("RHS") /\ val # Null /\ Top.op < GetTokPrecedence
  /\ stack' = Append(Replaced([Top EXCEPT !.at = "pending RHS"]), Frame("operator", Top.op, val, 0))
  /\ pc' = "operator"
  /\ UNCHANGED <<input, BinopPrecedence, val, item, proto, start, rejected>>
ParsePending ==
  /\ Returning("RHS") /\ val # Null /\ Top.op < GetTokPrecedence
  /\ stack' = Append(Replaced([Top EXCEPT !.at = "pending RHS"]), Frame("operator", Top.op + 1, val, 0))
  /\ pc' = "operator"
  /\ UNCHANGED <<input, BinopPrecedence, val, item, proto, start, rejected>>

\* LHS becomes the BinaryExprAST of LHS and RHS.
Merging ==
  /\ val # Null
  /\ Returning("pending RHS") \/ (Returning("RHS") /\ Top.op >= GetTokPrecedence)
Merge_NoLoop ==
  /\ Merging
  /\ Return(Top.op)
  /\ stack' = Popped
  /\ UNCHANGED <<input, BinopPrecedence, item, proto, start>>
Merge ==
  /\ Merging
  /\ stack' = Replaced(Frame("operator", Top.min, Top.op, 0))
  /\ pc' = "operator"
  /\ UNCHANGED <<input, BinopPrecedence, val, item, proto, start, rejected>>

----------------------------------------------------------------------------
(* Prototypes.                                                             *)

InPrototype(p) == pc = p /\ UNCHANGED <<BinopPrecedence, stack, item, start>>
Keep           == UNCHANGED <<val, rejected>>

FunctionName ==
  /\ InPrototype("prototype") /\ CurTok = "identifier"
  /\ getNextToken /\ pc' = "open" /\ UNCHANGED proto /\ Keep
OperatorKind ==
  /\ InPrototype("prototype") /\ CurTok \in {"unary", "binary"}
  /\ proto' = [proto EXCEPT !.kind = IF CurTok = "unary" THEN 1 ELSE 2]
  /\ getNextToken /\ pc' = "letter" /\ Keep
OperatorLetter ==
  /\ InPrototype("letter") /\ CurTok \in Chars
  /\ proto' = [proto EXCEPT !.op = CurTok]
  /\ pc' = IF proto.kind = 2 THEN "precedence" ELSE "open"
  /\ getNextToken /\ Keep

\* NumVal is compared as a double and then truncated.
ReadPrecedence_Unchecked ==
  /\ InPrototype("precedence")
  /\ \/ CurTok # "number" /\ UNCHANGED <<input, proto>>
     \/ \E v \in NumVals :
          /\ CurTok = "number"
          /\ proto' = [proto EXCEPT !.prec = v \div 10]
          /\ getNextToken
  /\ pc' = "open" /\ Keep
ReadPrecedence ==
  /\ InPrototype("precedence")
  /\ \/ CurTok # "number" /\ UNCHANGED <<input, proto>>
     \/ \E v \in NumVals :
          /\ CurTok = "number" /\ v >= 10 /\ v <= 1000
          /\ proto' = [proto EXCEPT !.prec = v \div 10]
          /\ getNextToken
  /\ pc' = "open" /\ Keep

OpenParameters ==
  /\ InPrototype("open") /\ CurTok = "("
  /\ getNextToken /\ pc' = "parameter" /\ UNCHANGED proto /\ Keep
Parameter ==
  /\ InPrototype("parameter") /\ CurTok = "identifier"
  /\ proto' = [proto EXCEPT !.args = @ + 1, !.names = @ + 1]
  /\ getNextToken /\ pc' = "comma" /\ Keep

\* A token other than a comma is reported, and taken all the same.
AfterParameter ==
  /\ InPrototype("comma") /\ CurTok # ")"
  /\ proto' = IF CurTok = "identifier" THEN [proto EXCEPT !.names = @ + 1] ELSE proto
  /\ getNextToken /\ pc' = "parameter" /\ Keep

Prototype ==
  /\ InPrototype("comma") \/ InPrototype("parameter")
  /\ CurTok = ")" /\ proto.kind \in {0, proto.args}
  /\ getNextToken /\ pc' = "prototype read" /\ UNCHANGED proto /\ Keep

\* The operands of an operator are counted after the ')' has been taken.
WrongOperands ==
  /\ InPrototype("comma") \/ InPrototype("parameter")
  /\ CurTok = ")" /\ proto.kind \notin {0, proto.args}
  /\ getNextToken /\ Return(Null) /\ UNCHANGED proto

LogErrorP ==
  /\ \/ InPrototype("prototype") /\ CurTok \notin {"identifier", "unary", "binary"}
     \/ InPrototype("letter") /\ CurTok \notin Chars
     \/ InPrototype("precedence") /\ CurTok = "number" /\ \E v \in NumVals : v < 10 \/ v > 1000
     \/ InPrototype("open") /\ CurTok # "("
     \/ InPrototype("parameter") /\ CurTok \notin {"identifier", ")"}
  /\ Return(Null)
  /\ UNCHANGED <<input, proto>>

ParsePrototype ==
  \/ FunctionName \/ OperatorKind \/ OperatorLetter \/ ReadPrecedence
  \/ OpenParameters \/ Parameter \/ AfterParameter \/ Prototype
  \/ WrongOperands \/ LogErrorP

\* A definition goes on with its body, an extern is complete.
PrototypeRead ==
  /\ pc = "prototype read"
  /\ \/ /\ item = "definition"
        /\ stack' = <<Frame("LHS", 0, 0, 0)>> /\ pc' = "unary"
        /\ UNCHANGED <<val, rejected>>
     \/ /\ item = "extern"
        /\ Return(Atom) /\ UNCHANGED stack
  /\ UNCHANGED <<input, BinopPrecedence, item, proto, start>>

----------------------------------------------------------------------------
(* The main loop.                                                          *)

Begin(i, p, s) ==
  /\ pc = "main loop"
  /\ item' = i /\ pc' = p /\ stack' = s
  /\ proto' = NoProto /\ start' = read /\ rejected' = FALSE
  /\ UNCHANGED <<BinopPrecedence, val>>

IgnoreSemicolon          == CurTok = ";" /\ Begin("semicolon", "main loop", <<>>) /\ getNextToken
HandleDefinition         == CurTok = "def" /\ Begin("definition", "prototype", <<>>) /\ getNextToken
HandleExtern             == CurTok = "extern" /\ Begin("extern", "prototype", <<>>) /\ getNextToken
HandleTopLevelExpression ==
  /\ CurTok \notin {"eof", ";", "def", "extern"}
  /\ Begin("expression", "unary", <<Frame("LHS", 0, 0, 0)>>)
  /\ UNCHANGED input

Returned == pc = "return" /\ stack = <<>>
BackToMainLoop == pc' = "main loop" /\ val' = Null /\ proto' = NoProto /\ UNCHANGED <<stack, item, start, rejected>>

\* Skip a token for error recovery.
Recover_NoSkip ==
  /\ Returned /\ val = Null
  /\ BackToMainLoop
  /\ UNCHANGED <<input, BinopPrecedence>>
Recover ==
  /\ Returned /\ val = Null
  /\ getNextToken
  /\ BackToMainLoop
  /\ UNCHANGED BinopPrecedence

\* Generating code installs a binary operator, and takes it out again when
\* the body fails.  Session shows when it ends the process.
Accept ==
  /\ Returned /\ val # Null
  /\ \/ BackToMainLoop
     \/ pc' = "ended" /\ UNCHANGED <<stack, val, item, proto, start, rejected>>
  /\ IF item = "definition" /\ proto.kind = 2
     THEN \E p \in {proto.prec, 0} : BinopPrecedence' = [BinopPrecedence EXCEPT ![proto.op] = p]
     ELSE UNCHANGED BinopPrecedence
  /\ UNCHANGED input

EndOfInput ==
  /\ pc = "main loop" /\ CurTok = "eof"
  /\ pc' = "ended"
  /\ UNCHANGED <<input, BinopPrecedence, stack, val, item, proto, start, rejected>>

Ended == pc = "ended" /\ UNCHANGED vars

\* main() installs the standard operators and primes the first token.
Init ==
  /\ source \in DOMAIN Inputs /\ CurTok \in Inputs[source][1] /\ read = 1
  /\ BinopPrecedence = [c \in Chars |-> CASE c = "="              -> 2
                                          [] c \in {"<", ">"}      -> 10
                                          [] c \in {"+", "-", "/"} -> 20
                                          [] c = "*"               -> 40
                                          [] OTHER                 -> 0]
  /\ pc = "main loop" /\ stack = <<>> /\ val = Null
  /\ item = "none" /\ proto = NoProto /\ start = 0 /\ rejected = FALSE

ParsePrimary == Take \/ TakeAndParse \/ GoOn \/ LogError \/ Complete
ParseBinOpRHS == BinOpLoop \/ ParsePending \/ Merge
ReturnToCaller == ReturnNull \/ ReturnToPrimary \/ ReturnToUnary \/ ReturnToExpression
MainLoop ==
  \/ IgnoreSemicolon \/ HandleDefinition \/ HandleExtern \/ HandleTopLevelExpression
  \/ PrototypeRead \/ Recover \/ Accept \/ EndOfInput

Next == ParsePrimary \/ ParseUnary \/ ParseBinOpRHS \/ ReturnToCaller \/ ParsePrototype \/ MainLoop \/ Ended

Spec == Init /\ [][Next]_vars

\* The parser is sequential, and a token is there whenever it asks for one.
FairSpec == Spec /\ WF_vars(Next)

----------------------------------------------------------------------------
(* Properties that hold.                                                   *)

Ats == Points \cup {"complete", "LHS", "operator", "RHS", "pending RHS", "operand"}
Frames == [at : Ats, min : 0..101, lhs : 0..101, op : 0..101]

\* The type invariant.  Precedences stay between 1 and 100, 0 is none.
TypeOK ==
  /\ source \in DOMAIN Inputs /\ CurTok \in Tokens
  /\ read \in Nat \ {0} /\ start \in 0..read
  /\ BinopPrecedence \in [Chars -> 0..100]
  /\ pc \in Points \cup {"complete", "operator", "return", "prototype", "letter", "precedence", "open",
                         "parameter", "comma", "prototype read", "main loop", "ended"}
  /\ stack \in Seq(Frames)
  /\ val \in 0..101
  /\ item \in {"none", "semicolon", "definition", "extern", "expression"}
  /\ proto \in [kind : 0..2, op : Chars, prec : 1..100, args : Nat, names : Nat]
  /\ rejected \in BOOLEAN

\* Operators are grouped by their precedence, those of equal precedence to
\* the left: the left operand of a BinaryExprAST that is being built binds at
\* least as tightly as its operator, and the right one tighter.
GroupedByPrecedence ==
  /\ \A i \in 1..Len(stack) : stack[i].at \in {"RHS", "pending RHS"} => stack[i].lhs >= stack[i].op
  /\ Merging => val > Top.op

\* An expression extends as far as it can: no operator that is installed
\* follows a complete item, where it would be taken for a unary operator of
\* the next one.
ItemsAreMaximal ==
  Returned /\ val # Null /\ item # "extern" => GetTokPrecedence = -1

\* A parse function that returned nullptr, however deep, fails the item.
ErrorsReject == Returned /\ rejected => val = Null

\* Every round of the main loop takes a token of the input, also one that
\* fails at the token it starts with, or at the end of the input.
ItemsAdvance == pc = "main loop" => read > start

\* The parser gets through every finite input.
Terminates == <>(pc = "ended")

----------------------------------------------------------------------------
(* A property that the code's comments state and the code does not have.   *)

\* "prototype -> id '(' id* (',' id)* ')'": the identifiers between the
\* parentheses of a prototype that is read are its parameters.
ParametersAreKept == pc = "prototype read" => proto.args = proto.names
=============================================================================

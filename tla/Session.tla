------------------------------ MODULE Session ------------------------------
(***************************************************************************)
(* A compiler session: the main loop of src/main2.cpp (1410-1539), main()  *)
(* (1565-1698), FunctionAST::codegen() around the body (1104-1194) and     *)
(* what KaleidoscopeJIT.h does with the modules it is given.               *)
(*                                                                         *)
(* Four tables outlive an item of the input: the prototypes seen so far,   *)
(* the functions of the open module, the precedences of the installed      *)
(* operators and, in JIT mode, the symbols of the main JITDylib.  Each     *)
(* handler changes several of them, partly before it knows whether the     *)
(* body generates, and undoes only some of it when the body does not.      *)
(*                                                                         *)
(* A body is abstracted to what it asks of these tables: the functions and *)
(* operators that it uses, one after the other, and whether it names an    *)
(* unknown variable.  Codegen is the model of the rest.                    *)
(***************************************************************************)
EXTENDS Integers, FiniteSets

CONSTANTS
  Fns,         \* identifiers that programs use for functions
  UnaryOps,    \* characters used as unary operators
  BinaryOps,   \* characters used as binary operators, '=' excepted
  MaxArity,    \* bound: parameters of a function
  MaxItems,    \* bound: definitions, externs and expressions of the input
  MaxUses      \* bound: functions, operators and unknown variables of a body

\* A function is named by an identifier or by "unary" or "binary" + c.
Fn(f)     == <<"fn", f>>
Unary(o)  == <<"unary", o>>
Binary(o) == <<"binary", o>>
Names == {Fn(f) : f \in Fns} \cup {Unary(o) : o \in UnaryOps} \cup {Binary(o) : o \in BinaryOps}

Main     == Fn("main")         \* the function around a top-level expression
AnonExpr == Fn("__anon_expr")  \* the symbol the driver looks up afterwards

HasCase  == {"+", "-", "*", "/", "<"}  \* the cases of BinaryExprAST::codegen
Standard == HasCase \cup {">"}         \* installed by main()

\* "main" may be any identifier; '_' never occurs in one.
ASSUME NamesAssumption == "main" \in Fns /\ "__anon_expr" \notin Fns
ASSUME SessionBounds == MaxArity \in Nat /\ MaxItems \in Nat /\ MaxUses \in Nat

\* ParsePrototype checks the number of operands of an operator.
Arity == [n \in Names |-> CASE n[1] = "unary"  -> {1}
                            [] n[1] = "binary" -> {2}
                            [] OTHER           -> 0..MaxArity]

VARIABLES
  jit,              \* was the program started with -jit?
  phase,            \* what the program is doing, see TypeOK
  FunctionProtos,   \* arity of every prototype seen so far
  TheModule,        \* arity of every function of the open module
  bodies,           \* functions of the open module that have a body
  BinopPrecedence,  \* operators with a precedence
  dylib,            \* arity of every function defined in the main JITDylib
  calls,            \* <<callee, arguments>> in functions of the JITDylib
  fn,               \* the function whose body is being generated
  items             \* items of the input handled so far

tables == <<FunctionProtos, TheModule, bodies, BinopPrecedence, dylib, calls>>
vars == <<jit, phase, tables, fn, items>>

\* Maps from names to arities.
Empty        == [n \in {} |-> 0]
Put(m, n, k) == [x \in DOMAIN m \cup {n} |-> IF x = n THEN k ELSE m[x]]
Drop(m, n)   == [x \in DOMAIN m \ {n} |-> m[x]]

\* Between two items no body is being generated.
NoBody == [name |-> Main, expr |-> FALSE, ops |-> {}, calls |-> {}, failed |-> FALSE, uses |-> 0]

----------------------------------------------------------------------------
(* Declarations.                                                           *)

\* Function::Create with a name that the module already has adds the new
\* declaration under another name, which no program can spell.
Create(n, k) == IF n \in DOMAIN TheModule THEN TheModule ELSE Put(TheModule, n, k)

Found(n) == n \in DOMAIN TheModule \cup DOMAIN FunctionProtos

\* getFunction: the open module, then the prototypes.
ArityOf(n)     == IF n \in DOMAIN TheModule THEN TheModule[n] ELSE FunctionProtos[n]
getFunction(n) == IF Found(n) THEN Create(n, ArityOf(n)) ELSE TheModule

NextItem == phase = "main loop" /\ items < MaxItems /\ items' = items + 1

HandleExtern_NoProto(n, k) ==
  /\ NextItem
  /\ TheModule' = Create(n, k)
  /\ UNCHANGED <<jit, phase, FunctionProtos, bodies, BinopPrecedence, dylib, calls, fn>>
HandleExtern(n, k) ==
  /\ NextItem
  /\ TheModule' = Create(n, k)
  /\ FunctionProtos' = Put(FunctionProtos, n, k)
  /\ UNCHANGED <<jit, phase, bodies, BinopPrecedence, dylib, calls, fn>>

----------------------------------------------------------------------------
(* FunctionAST::codegen() up to the body.  The parser has read the body    *)
(* before, so it can use the operators that are installed now.             *)

Install_AnyOperator(n) == IF n[1] # "fn" THEN BinopPrecedence \cup {n[2]} ELSE BinopPrecedence
Install(n) == IF n[1] = "binary" THEN BinopPrecedence \cup {n[2]} ELSE BinopPrecedence

BeginFunction_NoProto(n, k, expr) ==
  /\ NextItem
  /\ TheModule' = Create(n, k)
  /\ BinopPrecedence' = Install(n)
  /\ bodies' = bodies \cup {n}
  /\ \/ jit /\ phase' = "body" /\ fn' = [NoBody EXCEPT !.name = n, !.expr = expr, !.ops = BinopPrecedence]
     \/ ~jit /\ phase' = "crashed" /\ UNCHANGED fn
  /\ UNCHANGED <<jit, FunctionProtos, dylib, calls>>

\* A function that the module declares keeps the arity of that declaration.
\* There is a DIBuilder in JIT mode only.
BeginFunction(n, k, expr) ==
  /\ NextItem
  /\ FunctionProtos' = Put(FunctionProtos, n, k)
  /\ TheModule' = Create(n, k)
  /\ BinopPrecedence' = Install(n)
  /\ bodies' = bodies \cup {n}
  /\ \/ jit /\ phase' = "body" /\ fn' = [NoBody EXCEPT !.name = n, !.expr = expr, !.ops = BinopPrecedence]
     \/ ~jit /\ phase' = "crashed" /\ UNCHANGED fn
  /\ UNCHANGED <<jit, dylib, calls>>

HandleDefinition(n, k)   == BeginFunction(n, k, FALSE)
HandleTopLevelExpression == BeginFunction(Main, 0, TRUE)

----------------------------------------------------------------------------
(* The body.  After an error the right operand of an operator may still be *)
(* generated, so a body that has failed can still declare functions.       *)

Using == phase = "body" /\ fn.uses < MaxUses

UnknownVariable ==
  /\ Using
  /\ fn' = [fn EXCEPT !.failed = TRUE, !.uses = @ + 1]
  /\ UNCHANGED <<jit, phase, tables, items>>

\* A call, or a unary operator: these are checked when they are defined.
UseFunction(n, nargs) ==
  /\ Using
  /\ LET ok == Found(n) /\ ArityOf(n) = nargs
     IN  fn' = [fn EXCEPT !.failed = @ \/ ~ok, !.uses = @ + 1,
                          !.calls = IF ok THEN @ \cup {<<n, nargs>>} ELSE @]
  /\ TheModule' = getFunction(n)
  /\ UNCHANGED <<jit, phase, FunctionProtos, bodies, BinopPrecedence, dylib, calls, items>>

\* An operator that has no case of its own.
UseOperator(o) ==
  /\ Using /\ o \in fn.ops \ HasCase
  /\ \/ /\ Found(Binary(o))
        /\ fn' = [fn EXCEPT !.uses = @ + 1, !.calls = @ \cup {<<Binary(o), 2>>}]
        /\ UNCHANGED phase
     \/ /\ ~Found(Binary(o))
        /\ phase' = "aborted"
        /\ UNCHANGED fn
  /\ TheModule' = getFunction(Binary(o))
  /\ UNCHANGED <<jit, FunctionProtos, bodies, BinopPrecedence, dylib, calls, items>>

----------------------------------------------------------------------------
(* After the body.                                                         *)

\* eraseFromParent; the precedence goes, whoever installed it.
RejectFunction_KeepBody ==
  /\ phase = "body" /\ fn.failed
  /\ BinopPrecedence' = IF fn.name[1] = "binary" THEN BinopPrecedence \ {fn.name[2]} ELSE BinopPrecedence
  /\ phase' = "main loop" /\ fn' = NoBody
  /\ UNCHANGED <<jit, FunctionProtos, TheModule, bodies, dylib, calls, items>>
RejectFunction ==
  /\ phase = "body" /\ fn.failed
  /\ TheModule' = Drop(TheModule, fn.name)
  /\ bodies' = bodies \ {fn.name}
  /\ BinopPrecedence' = IF fn.name[1] = "binary" THEN BinopPrecedence \ {fn.name[2]} ELSE BinopPrecedence
  /\ phase' = "main loop" /\ fn' = NoBody
  /\ UNCHANGED <<jit, FunctionProtos, dylib, calls, items>>

\* addModule: the definitions of a module become symbols of the JITDylib,
\* unless one of them is a symbol already.
AddModule_Replace ==
  /\ dylib' = Put(dylib, fn.name, TheModule[fn.name])
  /\ calls' = calls \cup fn.calls
AddModule ==
  /\ fn.name \notin DOMAIN dylib
  /\ dylib' = Put(dylib, fn.name, TheModule[fn.name])
  /\ calls' = calls \cup fn.calls

Accepted == phase = "body" /\ ~fn.failed

\* InitializeModuleAndManagers opens the next module.
AcceptDefinition ==
  /\ Accepted /\ ~fn.expr
  /\ AddModule
  /\ TheModule' = Empty /\ bodies' = {}
  /\ phase' = "main loop" /\ fn' = NoBody
  /\ UNCHANGED <<jit, FunctionProtos, BinopPrecedence, items>>

\* ExitOnErr ends the process when a definition is added a second time.
DuplicateDefinition ==
  /\ Accepted
  /\ fn.name \in DOMAIN dylib
  /\ phase' = "exited"
  /\ UNCHANGED <<jit, tables, fn, items>>

\* Then the driver looks up AnonExpr, and ExitOnErr ends the process when the
\* JITDylib has no such symbol.
AcceptExpression ==
  /\ Accepted /\ fn.expr
  /\ AddModule
  /\ phase' = IF AnonExpr \in DOMAIN dylib' THEN "main loop" ELSE "exited"
  /\ TheModule' = Empty /\ bodies' = {} /\ fn' = NoBody
  /\ UNCHANGED <<jit, FunctionProtos, BinopPrecedence, items>>

\* End of input.  Without -jit the object file is written, which may fail.
Finish ==
  /\ phase = "main loop"
  /\ \/ phase' = "done"
     \/ ~jit /\ phase' = "exited"
  /\ UNCHANGED <<jit, tables, fn, items>>

Stopped == phase \in {"exited", "aborted", "crashed", "done"} /\ UNCHANGED vars

Init ==
  /\ jit \in BOOLEAN /\ phase = "main loop" /\ fn = NoBody /\ items = 0
  /\ FunctionProtos = Empty /\ TheModule = Empty /\ bodies = {}
  /\ BinopPrecedence = BinaryOps \cap Standard
  /\ dylib = Empty /\ calls = {}

Item ==
  \/ \E n \in Names : \E k \in Arity[n] : HandleExtern(n, k) \/ HandleDefinition(n, k)
  \/ HandleTopLevelExpression

Body ==
  \/ UnknownVariable
  \/ \E f \in Fns, nargs \in 0..MaxArity : UseFunction(Fn(f), nargs)
  \/ \E o \in UnaryOps : UseFunction(Unary(o), 1)
  \/ \E o \in BinaryOps : UseOperator(o)

EndOfBody ==
  RejectFunction \/ AcceptDefinition \/ DuplicateDefinition \/ AcceptExpression

Next == Item \/ Body \/ EndOfBody \/ Finish \/ Stopped

Spec == Init /\ [][Next]_vars

----------------------------------------------------------------------------
(* Properties that hold.                                                   *)

IsTable(m) ==
  /\ DOMAIN m \subseteq Names
  /\ m = [n \in DOMAIN m |-> m[n]]
  /\ \A n \in DOMAIN m : m[n] \in Arity[n]

Calls == {c \in Names \X Nat : c[2] \in Arity[c[1]]}

\* The type invariant.  A table gives every operator the number of operands
\* that its expressions pass, which no code checks when they are generated.
TypeOK ==
  /\ jit \in BOOLEAN
  /\ phase \in {"main loop", "body", "exited", "aborted", "crashed", "done"}
  /\ IsTable(FunctionProtos) /\ IsTable(TheModule) /\ IsTable(dylib)
  /\ bodies \subseteq Names /\ BinopPrecedence \subseteq BinaryOps
  /\ calls \subseteq Calls
  /\ fn \in [name : Names, expr : BOOLEAN, ops : SUBSET BinaryOps, calls : SUBSET Calls,
             failed : BOOLEAN, uses : Nat]
  /\ items \in Nat

\* A name that the open module declares, that the JITDylib defines or that
\* code in it calls has a prototype, so that getFunction finds it again in
\* every later module, however many modules have been handed over and
\* however many items have failed since it was first seen.
NamesStayKnown ==
  /\ DOMAIN TheModule \cup DOMAIN dylib \subseteq DOMAIN FunctionProtos
  /\ \A c \in calls \cup fn.calls : c[1] \in DOMAIN FunctionProtos

\* The only body in the open module is the one being generated: what an
\* accepted or a failed definition leaves behind there are declarations.
OneBodyInModule ==
  /\ phase = "main loop" => bodies = {}
  /\ phase = "body" => bodies = {fn.name} /\ fn.name \in DOMAIN TheModule

\* Every installed operator but '>' can be generated, and so can those of
\* the body at hand, which was parsed before its own operator was installed.
InstalledOperatorsResolve ==
  \A o \in (BinopPrecedence \cup fn.ops) \ {">"} : o \in HasCase \/ Found(Binary(o))

\* The session implements the abstract symbol table.
Table == INSTANCE SymbolTable WITH known <- DOMAIN FunctionProtos, defined <- dylib
ImplementsSymbolTable == Table!Spec

----------------------------------------------------------------------------
(* Properties that the code's comments state and the code does not have.   *)

\* BinopPrecedence "holds the precedence for each binary operator that is
\* defined".
DefinedOperatorsInstalled ==
  phase = "main loop" => \A o \in BinaryOps : Binary(o) \in DOMAIN dylib => o \in BinopPrecedence

\* "Evaluate a top-level expression": the process does not exit over an
\* expression that was generated and added to the JIT.
ExpressionsAreEvaluated ==
  [][phase = "body" /\ fn.expr /\ phase' = "exited" => Main \in DOMAIN dylib]_vars

\* "If argument mismatch error": a call has as many arguments as the function
\* that it will be linked to has parameters.
CallsMatchDefinitions ==
  \A c \in calls : c[1] \in DOMAIN dylib => dylib[c[1]] = c[2]
=============================================================================

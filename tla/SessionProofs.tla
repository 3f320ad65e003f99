--------------------------- MODULE SessionProofs ---------------------------
(***************************************************************************)
(* The tables of a session, for every set of names and every bound.        *)
(*                                                                         *)
(* The four invariants need each other: the arity that a definition takes  *)
(* into the JITDylib is read from the open module, so the module must hold *)
(* the function (OneBodyInModule), and an operator resolves after the      *)
(* module is handed over because its prototype does (NamesStayKnown).      *)
(* SInv, their conjunction, is inductive.                                  *)
(***************************************************************************)
EXTENDS Session, TLAPS

SInv == TypeOK /\ NamesStayKnown /\ OneBodyInModule /\ InstalledOperatorsResolve

\* Names are pairs, and the second component spells the operator.
LEMMA NameShape ==
  /\ \A f \in Fns : Fn(f) \in Names /\ Arity[Fn(f)] = 0..MaxArity
  /\ \A o \in UnaryOps : Unary(o) \in Names /\ Arity[Unary(o)] = {1}
  /\ \A o \in BinaryOps : Binary(o) \in Names /\ Arity[Binary(o)] = {2}
  /\ \A n \in Names : n[1] = "binary" => n[2] \in BinaryOps /\ n = Binary(n[2])
  /\ Main \in Names /\ 0 \in Arity[Main]
  /\ \A n \in Names : Arity[n] \subseteq Nat
<1>1. \A f \in Fns : Fn(f) \in Names /\ Fn(f)[1] = "fn"
  BY DEF Names, Fn
<1>2. \A o \in UnaryOps : Unary(o) \in Names /\ Unary(o)[1] = "unary"
  BY DEF Names, Unary
<1>3. \A o \in BinaryOps : Binary(o) \in Names /\ Binary(o)[1] = "binary"
  BY DEF Names, Binary
<1>4. \A n \in Names : Arity[n] = CASE n[1] = "unary" -> {1} [] n[1] = "binary" -> {2} [] OTHER -> 0..MaxArity
  BY DEF Arity
<1>5. \A n \in Names : n[1] = "binary" => n[2] \in BinaryOps /\ n = Binary(n[2])
  BY DEF Names, Fn, Unary, Binary
<1>6. \A n \in Names : n[1] \in {"fn", "unary", "binary"}
  BY DEF Names, Fn, Unary, Binary
<1>7. \A f \in Fns : Arity[Fn(f)] = 0..MaxArity
  BY <1>1, <1>4
<1>8. \A o \in UnaryOps : Arity[Unary(o)] = {1}
  BY <1>2, <1>4
<1>9. \A o \in BinaryOps : Arity[Binary(o)] = {2}
  BY <1>3, <1>4
<1>10. Main \in Names /\ 0 \in Arity[Main]
  BY <1>1, <1>7, NamesAssumption, SessionBounds DEF Main
<1>11. \A n \in Names : Arity[n] \subseteq Nat
  BY <1>4, <1>6, SessionBounds
<1> QED
  BY <1>1, <1>2, <1>3, <1>5, <1>7, <1>8, <1>9, <1>10, <1>11

\* Writing an entry of a table, and erasing one.
LEMMA TableOps ==
  ASSUME NEW m, IsTable(m), NEW n \in Names
  PROVE  /\ \A k \in Arity[n] : IsTable(Put(m, n, k))
         /\ \A k : DOMAIN Put(m, n, k) = DOMAIN m \cup {n}
         /\ \A k : \A x \in DOMAIN m : x # n => Put(m, n, k)[x] = m[x]
         /\ IsTable(Drop(m, n)) /\ DOMAIN Drop(m, n) = DOMAIN m \ {n}
<1>1. ASSUME NEW k \in Arity[n] PROVE IsTable(Put(m, n, k))
  BY DEF IsTable, Put
<1>2. IsTable(Drop(m, n))
  BY DEF IsTable, Drop
<1> QED
  BY <1>1, <1>2 DEF Put, Drop

LEMMA EmptyTable == IsTable(Empty) /\ DOMAIN Empty = {}
BY DEF IsTable, Empty

\* What getFunction and Function::Create leave in the open module.
LEMMA ModuleOps ==
  ASSUME TypeOK, NEW n \in Names
  PROVE  /\ \A k \in Arity[n] : IsTable(Create(n, k)) /\ DOMAIN Create(n, k) = DOMAIN TheModule \cup {n}
         /\ Found(n) => ArityOf(n) \in Arity[n]
         /\ IsTable(getFunction(n))
         /\ DOMAIN getFunction(n) = IF Found(n) THEN DOMAIN TheModule \cup {n} ELSE DOMAIN TheModule
<1>1. IsTable(TheModule) /\ IsTable(FunctionProtos)
  BY DEF TypeOK
<1>2. ASSUME NEW k \in Arity[n]
      PROVE  IsTable(Create(n, k)) /\ DOMAIN Create(n, k) = DOMAIN TheModule \cup {n}
  BY <1>1, TableOps DEF Create
<1>3. Found(n) => ArityOf(n) \in Arity[n]
  BY <1>1 DEF Found, ArityOf, IsTable
<1> QED
  BY <1>1, <1>2, <1>3 DEF getFunction

\* The rest of a session, for a step that touches no table.
LEMMA SameTables ==
  ASSUME SInv, UNCHANGED tables, jit' = jit, items' \in Nat,
         \/ phase' \in {"exited", "aborted", "crashed", "done"} /\ fn' = fn
         \/ phase' = phase /\ fn' = fn
  PROVE  SInv'
BY DEF SInv, TypeOK, NamesStayKnown, OneBodyInModule, InstalledOperatorsResolve, tables, Found, IsTable

\* A step of the body: the open module may get a declaration of n.
LEMMA BodyStep ==
  ASSUME SInv, NEW n \in Names, TheModule' = getFunction(n), phase' \in {phase, "aborted"},
         UNCHANGED <<jit, FunctionProtos, bodies, BinopPrecedence, dylib, calls, items>>,
         fn' \in [name : Names, expr : BOOLEAN, ops : SUBSET BinaryOps, calls : SUBSET Calls,
                  failed : BOOLEAN, uses : Nat],
         fn'.name = fn.name, fn'.ops = fn.ops,
         \A c \in fn'.calls : c \in fn.calls \/ (c[1] = n /\ Found(n))
  PROVE  SInv'
<1>1. DOMAIN TheModule' \subseteq DOMAIN TheModule \cup DOMAIN FunctionProtos /\ DOMAIN TheModule \subseteq DOMAIN TheModule'
  BY ModuleOps DEF SInv, Found
<1>2. TypeOK'
  BY ModuleOps DEF SInv, TypeOK, IsTable
<1>3. NamesStayKnown'
  BY <1>1 DEF SInv, NamesStayKnown, Found
<1>4. OneBodyInModule'
  BY <1>1 DEF SInv, OneBodyInModule
<1>5. InstalledOperatorsResolve'
  BY <1>1 DEF SInv, InstalledOperatorsResolve, Found
<1> QED
  BY <1>2, <1>3, <1>4, <1>5 DEF SInv

\* What FunctionAST::codegen() does before the body.
LEMMA BeginStep ==
  ASSUME SInv, NEW n \in Names, NEW k \in Arity[n], NEW e \in BOOLEAN, BeginFunction(n, k, e)
  PROVE  SInv'
<1>typ. /\ TypeOK /\ IsTable(FunctionProtos) /\ IsTable(TheModule)
        /\ phase = "main loop" /\ items' \in Nat
  <2>1. TypeOK /\ IsTable(FunctionProtos) /\ IsTable(TheModule) /\ items \in Nat
    BY DEF SInv, TypeOK
  <2>2. phase = "main loop" /\ items' = items + 1
    BY DEF BeginFunction, NextItem
  <2>3. items \in Nat /\ items' = items + 1
    BY <2>1, <2>2
  <2>4. items' \in Nat
    BY <2>3
  <2> QED BY <2>1, <2>2, <2>4
<1>1. /\ IsTable(FunctionProtos') /\ DOMAIN FunctionProtos' = DOMAIN FunctionProtos \cup {n}
      /\ IsTable(TheModule') /\ DOMAIN TheModule' = DOMAIN TheModule \cup {n}
  <2>1. FunctionProtos' = Put(FunctionProtos, n, k) /\ TheModule' = Create(n, k)
    BY DEF BeginFunction
  <2>2. IsTable(Put(FunctionProtos, n, k)) /\ DOMAIN Put(FunctionProtos, n, k) = DOMAIN FunctionProtos \cup {n}
    BY <1>typ, TableOps
  <2>3. IsTable(Create(n, k)) /\ DOMAIN Create(n, k) = DOMAIN TheModule \cup {n}
    BY <1>typ, ModuleOps
  <2> QED BY <2>1, <2>2, <2>3
<1>2. /\ BinopPrecedence' \subseteq BinaryOps
      /\ \A o \in BinopPrecedence' : o \in BinopPrecedence \/ n = Binary(o)
  BY NameShape DEF BeginFunction, Install, SInv, TypeOK
<1>3. \/ fn' = fn /\ phase' = "crashed"
      \/ /\ phase' = "body"
         /\ fn' = [name |-> n, expr |-> e, ops |-> BinopPrecedence, calls |-> {}, failed |-> FALSE, uses |-> 0]
  BY DEF BeginFunction, NoBody
<1>4. bodies' = {n} /\ UNCHANGED <<jit, dylib, calls>>
  BY <1>typ DEF BeginFunction, SInv, OneBodyInModule
<1>5. TypeOK'
  <2>1. fn' \in [name : Names, expr : BOOLEAN, ops : SUBSET BinaryOps, calls : SUBSET Calls,
                 failed : BOOLEAN, uses : Nat]
    <3>1. /\ BinopPrecedence \subseteq BinaryOps
          /\ fn \in [name : Names, expr : BOOLEAN, ops : SUBSET BinaryOps, calls : SUBSET Calls,
                     failed : BOOLEAN, uses : Nat]
      BY <1>typ DEF TypeOK
    <3>2. e \in BOOLEAN /\ n \in Names
      OBVIOUS
    <3>3. CASE fn' = fn
      BY <3>1, <3>3
    <3>4. CASE fn' = [name |-> n, expr |-> e, ops |-> BinopPrecedence, calls |-> {}, failed |-> FALSE, uses |-> 0]
      BY <3>1, <3>2, <3>4
    <3> QED BY <1>3, <3>3, <3>4
  <2>4. phase' \in {"body", "crashed"}
    BY <1>3
  <2>2. IsTable(dylib')
    BY <1>typ, <1>4 DEF TypeOK, IsTable
  <2>3. jit' \in BOOLEAN /\ bodies' \subseteq Names /\ calls' \subseteq Calls
    BY <1>typ, <1>4 DEF TypeOK
  <2> QED BY <1>typ, <1>1, <1>2, <2>1, <2>2, <2>3, <2>4 DEF TypeOK
<1>6. NamesStayKnown'
  BY <1>1, <1>3, <1>4 DEF SInv, NamesStayKnown
<1>7. OneBodyInModule'
  <2>1. phase' \in {"body", "crashed"} /\ (phase' = "body" => fn'.name = n)
    BY <1>3
  <2> QED BY <1>1, <1>4, <2>1 DEF OneBodyInModule
<1>8. InstalledOperatorsResolve'
  <2>1. \A o \in (BinopPrecedence \cup fn.ops) \ {">"} : o \in HasCase \/ Found(Binary(o))
    BY DEF SInv, InstalledOperatorsResolve
  <2>2. \A x : Found(x) \/ x = n => Found(x)'
    BY <1>1 DEF Found
  <2>3. fn'.ops \subseteq BinopPrecedence \cup fn.ops
    BY <1>3
  <2> QED BY <1>2, <2>1, <2>2, <2>3 DEF InstalledOperatorsResolve, Binary
<1> QED
  BY <1>5, <1>6, <1>7, <1>8 DEF SInv

\* The handling of an item that leaves no body behind.
LEMMA BackInLoop ==
  ASSUME SInv, NEW m, IsTable(m), DOMAIN m \subseteq DOMAIN TheModule, TheModule' = m,
         bodies' = {}, phase' \in {"main loop", "exited"}, fn' = NoBody,
         BinopPrecedence' \subseteq BinopPrecedence,
         UNCHANGED <<jit, FunctionProtos, items>>,
         IsTable(dylib'), DOMAIN dylib' \subseteq DOMAIN dylib \cup {fn.name},
         phase = "body", calls' \subseteq calls \cup fn.calls
  PROVE  SInv'
<1>1. DOMAIN TheModule \subseteq DOMAIN FunctionProtos /\ fn.name \in DOMAIN FunctionProtos
  BY DEF SInv, NamesStayKnown, OneBodyInModule
<1>2. TypeOK'
  BY NameShape DEF SInv, TypeOK, NoBody, IsTable
<1>3. NamesStayKnown'
  BY <1>1 DEF SInv, NamesStayKnown, NoBody
<1>4. OneBodyInModule'
  BY DEF OneBodyInModule
<1>5. InstalledOperatorsResolve'
  BY <1>1 DEF SInv, InstalledOperatorsResolve, Found, NoBody
<1> QED
  BY <1>2, <1>3, <1>4, <1>5 DEF SInv

\* Handing the module over: the function takes the arity that the module
\* declares for it.
LEMMA AddModuleTable ==
  ASSUME SInv, phase = "body", AddModule
  PROVE  IsTable(dylib') /\ DOMAIN dylib' = DOMAIN dylib \cup {fn.name}
<1>1. fn.name \in DOMAIN TheModule /\ fn.name \in Names
  BY DEF SInv, OneBodyInModule, TypeOK
<1>2. TheModule[fn.name] \in Arity[fn.name]
  BY <1>1 DEF SInv, TypeOK, IsTable
<1> QED
  BY <1>1, <1>2, TableOps DEF SInv, TypeOK, AddModule

\* SInv is inductive.
LEMMA SessionInvariant == Spec => []SInv
<1>1. Init => SInv
  <2> SUFFICES ASSUME Init PROVE SInv
    OBVIOUS
  <2>1. TypeOK
    BY EmptyTable, NameShape DEF Init, TypeOK, NoBody
  <2>2. NamesStayKnown /\ OneBodyInModule /\ InstalledOperatorsResolve
    BY EmptyTable DEF Init, NamesStayKnown, OneBodyInModule, InstalledOperatorsResolve, NoBody, Standard
  <2> QED BY <2>1, <2>2 DEF SInv
<1>2. SInv /\ [Next]_vars => SInv'
  <2> SUFFICES ASSUME SInv, [Next]_vars PROVE SInv'
    OBVIOUS
  <2>fn. /\ TypeOK
         /\ fn \in [name : Names, expr : BOOLEAN, ops : SUBSET BinaryOps, calls : SUBSET Calls,
                    failed : BOOLEAN, uses : Nat]
    BY DEF SInv, TypeOK
  <2>1. ASSUME NEW n \in Names, NEW k \in Arity[n], HandleExtern(n, k) PROVE SInv'
    <3>1. /\ IsTable(FunctionProtos') /\ DOMAIN FunctionProtos' = DOMAIN FunctionProtos \cup {n}
          /\ IsTable(TheModule') /\ DOMAIN TheModule' = DOMAIN TheModule \cup {n}
      <4>1. FunctionProtos' = Put(FunctionProtos, n, k) /\ TheModule' = Create(n, k)
        BY <2>1 DEF HandleExtern
      <4>2. IsTable(Put(FunctionProtos, n, k)) /\ DOMAIN Put(FunctionProtos, n, k) = DOMAIN FunctionProtos \cup {n}
        BY <2>fn, TableOps DEF TypeOK
      <4>3. IsTable(Create(n, k)) /\ DOMAIN Create(n, k) = DOMAIN TheModule \cup {n}
        BY <2>fn, ModuleOps
      <4> QED BY <4>1, <4>2, <4>3
    <3>2. TypeOK'
      <4>1. phase = "main loop" /\ items' = items + 1 /\ UNCHANGED <<jit, phase, bodies, BinopPrecedence, dylib, calls, fn>>
        BY <2>1 DEF HandleExtern, NextItem
      <4>2. items' \in Nat
        <5>1. items \in Nat
          BY <2>fn DEF TypeOK
        <5>2. items' = items + 1
          BY <4>1
        <5> QED BY <5>1, <5>2
      <4>3. IsTable(dylib')
        BY <2>fn, <4>1 DEF TypeOK, IsTable
      <4> QED BY <2>fn, <3>1, <4>1, <4>2, <4>3 DEF TypeOK
    <3>3. NamesStayKnown' /\ InstalledOperatorsResolve'
      BY <2>1, <3>1 DEF HandleExtern, SInv, NamesStayKnown, InstalledOperatorsResolve, Found
    <3>4. OneBodyInModule'
      BY <2>1, <3>1 DEF HandleExtern, NextItem, SInv, OneBodyInModule
    <3> QED BY <3>2, <3>3, <3>4 DEF SInv
  <2>2. ASSUME NEW n \in Names, NEW k \in Arity[n], HandleDefinition(n, k) PROVE SInv'
    BY <2>2, BeginStep DEF HandleDefinition
  <2>3. CASE HandleTopLevelExpression
    BY <2>3, BeginStep, NameShape DEF HandleTopLevelExpression
  <2>4. CASE UnknownVariable
    <3>1. fn' = [name |-> fn.name, expr |-> fn.expr, ops |-> fn.ops, calls |-> fn.calls,
                 failed |-> TRUE, uses |-> fn.uses + 1]
      BY <2>4, <2>fn DEF UnknownVariable
    <3>2. fn' \in [name : Names, expr : BOOLEAN, ops : SUBSET BinaryOps, calls : SUBSET Calls,
                   failed : BOOLEAN, uses : Nat]
      BY <2>fn, <3>1
    <3>3. fn'.name = fn.name /\ fn'.ops = fn.ops /\ fn'.calls = fn.calls
      BY <3>1
    <3>4. UNCHANGED <<jit, phase, tables, items>>
      BY <2>4 DEF UnknownVariable
    <3>5. TypeOK'
      BY <2>fn, <3>2, <3>4 DEF TypeOK, IsTable, tables
    <3>6. NamesStayKnown' /\ OneBodyInModule' /\ InstalledOperatorsResolve'
      BY <3>3, <3>4 DEF SInv, NamesStayKnown, OneBodyInModule, InstalledOperatorsResolve, Found, tables
    <3> QED BY <3>5, <3>6 DEF SInv
  <2>5. ASSUME NEW n \in Names, NEW nargs \in Arity[n], UseFunction(n, nargs) PROVE SInv'
    <3> DEFINE ok == Found(n) /\ ArityOf(n) = nargs
    <3>1. fn' = [name |-> fn.name, expr |-> fn.expr, ops |-> fn.ops,
                 calls |-> IF ok THEN fn.calls \cup {<<n, nargs>>} ELSE fn.calls,
                 failed |-> fn.failed \/ ~ok, uses |-> fn.uses + 1]
      BY <2>5, <2>fn DEF UseFunction
    <3>2. <<n, nargs>> \in Calls
      BY NameShape DEF Calls
    <3>3. fn'.calls \subseteq Calls /\ \A c \in fn'.calls : c \in fn.calls \/ (c[1] = n /\ Found(n))
      BY <2>fn, <3>1, <3>2
    <3>4. fn' \in [name : Names, expr : BOOLEAN, ops : SUBSET BinaryOps, calls : SUBSET Calls,
                   failed : BOOLEAN, uses : Nat]
      BY <2>fn, <3>1, <3>3
    <3>5. fn'.name = fn.name /\ fn'.ops = fn.ops
      BY <3>1
    <3> QED BY <2>5, <3>3, <3>4, <3>5, BodyStep DEF UseFunction
  <2>6. ASSUME NEW o \in BinaryOps, UseOperator(o) PROVE SInv'
    <3>1. CASE fn' = fn /\ phase' = "aborted"
      BY <2>6, <2>fn, <3>1, NameShape, BodyStep DEF UseOperator
    <3>2. CASE Found(Binary(o)) /\ phase' = phase
                 /\ fn' = [fn EXCEPT !.uses = @ + 1, !.calls = @ \cup {<<Binary(o), 2>>}]
      <4>1. fn' = [name |-> fn.name, expr |-> fn.expr, ops |-> fn.ops,
                   calls |-> fn.calls \cup {<<Binary(o), 2>>}, failed |-> fn.failed, uses |-> fn.uses + 1]
        BY <2>fn, <3>2
      <4>2. <<Binary(o), 2>> \in Calls
        BY NameShape DEF Calls
      <4>3. fn' \in [name : Names, expr : BOOLEAN, ops : SUBSET BinaryOps, calls : SUBSET Calls,
                     failed : BOOLEAN, uses : Nat]
        BY <2>fn, <4>1, <4>2
      <4>4. \A c \in fn'.calls : c \in fn.calls \/ (c[1] = Binary(o) /\ Found(Binary(o)))
        BY <3>2, <4>1
      <4>5. fn'.name = fn.name /\ fn'.ops = fn.ops
        BY <4>1
      <4> QED BY <2>6, <3>2, <4>3, <4>4, <4>5, NameShape, BodyStep DEF UseOperator
    <3> QED BY <2>6, <3>1, <3>2 DEF UseOperator
  <2>7. CASE RejectFunction
    <3>1. IsTable(Drop(TheModule, fn.name)) /\ DOMAIN Drop(TheModule, fn.name) \subseteq DOMAIN TheModule
      <4>1. IsTable(TheModule) /\ fn.name \in Names
        BY <2>fn DEF TypeOK
      <4>2. IsTable(Drop(TheModule, fn.name)) /\ DOMAIN Drop(TheModule, fn.name) = DOMAIN TheModule \ {fn.name}
        BY <4>1, TableOps
      <4> QED BY <4>2
    <3>2. bodies' = {}
      BY <2>7 DEF RejectFunction, SInv, OneBodyInModule
    <3>3. IsTable(dylib') /\ dylib' = dylib
      BY <2>7, <2>fn DEF RejectFunction, TypeOK, IsTable
    <3> QED BY <2>7, <3>1, <3>2, <3>3, BackInLoop DEF RejectFunction
  <2>8. CASE AcceptDefinition
    <3>1. IsTable(dylib') /\ DOMAIN dylib' = DOMAIN dylib \cup {fn.name}
      BY <2>8, AddModuleTable DEF AcceptDefinition, Accepted
    <3> QED BY <2>8, <3>1, EmptyTable, BackInLoop DEF AcceptDefinition, Accepted, AddModule
  <2>9. CASE DuplicateDefinition
    BY <2>9, <2>fn, SameTables DEF DuplicateDefinition, TypeOK
  <2>10. CASE AcceptExpression
    <3>1. IsTable(dylib') /\ DOMAIN dylib' = DOMAIN dylib \cup {fn.name}
      BY <2>10, AddModuleTable DEF AcceptExpression, Accepted
    <3> QED BY <2>10, <3>1, EmptyTable, BackInLoop DEF AcceptExpression, Accepted, AddModule
  <2>11. CASE Finish
    BY <2>11, <2>fn, SameTables DEF Finish, TypeOK
  <2>12. CASE UNCHANGED vars
    BY <2>12, <2>fn, SameTables DEF vars, TypeOK
  <2>13. CASE Stopped
    BY <2>13, <2>12 DEF Stopped
  <2>14. CASE Item
    BY <2>14, <2>1, <2>2, <2>3 DEF Item
  <2>15. CASE Body
    BY <2>15, <2>4, <2>5, <2>6, NameShape DEF Body
  <2>16. CASE EndOfBody
    BY <2>16, <2>7, <2>8, <2>9, <2>10 DEF EndOfBody
  <2> QED
    BY <2>11, <2>12, <2>13, <2>14, <2>15, <2>16 DEF Next
<1> QED
  BY <1>1, <1>2, PTL DEF Spec

\* For every set of names and any number of items: the tables are well-typed;
\* every prototype, declaration and definition of an operator has the number
\* of operands that the expressions using it pass unchecked.
THEOREM SessionTypeCorrect == Spec => []TypeOK
<1>1. SInv => TypeOK
  BY DEF SInv
<1> QED
  BY <1>1, SessionInvariant, PTL

\* For every session: no name that a module declares, the JITDylib defines or
\* accepted code calls ever loses its prototype.
THEOREM NamesAreNeverForgotten == Spec => []NamesStayKnown
<1>1. SInv => NamesStayKnown
  BY DEF SInv
<1> QED
  BY <1>1, SessionInvariant, PTL

\* For every session: no body is left behind in the open module.
THEOREM NoBodyIsLeftBehind == Spec => []OneBodyInModule
<1>1. SInv => OneBodyInModule
  BY DEF SInv
<1> QED
  BY <1>1, SessionInvariant, PTL

\* For every session: the assertion on binary operators can fail for '>' only.
THEOREM OperatorsResolve == Spec => []InstalledOperatorsResolve
<1>1. SInv => InstalledOperatorsResolve
  BY DEF SInv
<1> QED
  BY <1>1, SessionInvariant, PTL

\* For every session: it implements the abstract symbol table, in which names
\* stay known and definitions are final.
THEOREM SymbolTableImplemented == Spec => ImplementsSymbolTable
<1>1. Init => Table!Init
  BY DEF Init, Table!Init, Empty
<1>2. SInv /\ [Next]_vars => [Table!Next]_<<DOMAIN FunctionProtos, dylib>>
  <2> SUFFICES ASSUME SInv, [Next]_vars
               PROVE  Table!Next \/ UNCHANGED <<DOMAIN FunctionProtos, dylib>>
    OBVIOUS
  <2>typ. IsTable(FunctionProtos) /\ IsTable(dylib) /\ fn.name \in Names
    BY DEF SInv, TypeOK
  <2>declare. ASSUME NEW n \in Names, NEW k \in Arity[n], FunctionProtos' = Put(FunctionProtos, n, k),
                     dylib' = dylib
              PROVE  Table!Next
    <3>1. Table!Declare(n)
      BY <2>declare, <2>typ, TableOps DEF Table!Declare
    <3> QED BY <3>1 DEF Table!Next
  <2>define. ASSUME phase = "body", AddModule, UNCHANGED FunctionProtos
             PROVE  Table!Next
    <3>1. fn.name \in DOMAIN TheModule /\ fn.name \in DOMAIN FunctionProtos
      BY <2>define DEF SInv, OneBodyInModule, NamesStayKnown
    <3>2. TheModule[fn.name] \in Arity[fn.name]
      BY <3>1 DEF SInv, TypeOK, IsTable
    <3>3. Table!Define(fn.name, TheModule[fn.name])
      BY <2>define, <3>1 DEF Table!Define, AddModule, Put
    <3> QED BY <2>typ, <3>2, <3>3 DEF Table!Next
  <2>1. CASE Item
    BY <2>1, <2>declare, NameShape
       DEF Item, HandleExtern, HandleDefinition, HandleTopLevelExpression, BeginFunction
  <2>2. CASE Body
    BY <2>2 DEF Body, UnknownVariable, UseFunction, UseOperator, tables
  <2>3. CASE EndOfBody
    BY <2>3, <2>define
       DEF EndOfBody, RejectFunction, AcceptDefinition, DuplicateDefinition, AcceptExpression,
           Accepted, tables
  <2>4. CASE Finish \/ Stopped \/ UNCHANGED vars
    BY <2>4 DEF Finish, Stopped, vars, tables
  <2> QED
    BY <2>1, <2>2, <2>3, <2>4 DEF Next
<1> QED
  BY <1>1, <1>2, SessionInvariant, PTL DEF Spec, ImplementsSymbolTable, Table!Spec
=============================================================================

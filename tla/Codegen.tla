------------------------------ MODULE Codegen ------------------------------
(***************************************************************************)
(* Code generation of function bodies in src/main2.cpp (941-1405).         *)
(*                                                                         *)
(* ExprAST::codegen() is a recursive descent over the AST.  Every call     *)
(* shares four pieces of global state: the insertion point of the          *)
(* IRBuilder, the control flow graph of the function being built, the      *)
(* symbol table NamedValues and the open module.  A node's code runs       *)
(* partly before, partly between and partly after the codegen() calls of   *)
(* its children, so what a node read before a child may be stale after it. *)
(* This module makes the C++ call stack explicit: a frame is one codegen() *)
(* activation that waits for a child, and each action is the stretch of    *)
(* code between two such calls.                                            *)
(*                                                                         *)
(* The AST is not built first: when a child has to be generated, the next  *)
(* action chooses which node it is.  So a behaviour is the code generation *)
(* of any sequence of functions whose bodies have at most MaxNodes         *)
(* compound nodes.                                                         *)
(***************************************************************************)
EXTENDS Integers, Sequences, FiniteSets

CONSTANTS
  VarNames,        \* identifiers that programs use for variables
  Callees,         \* names of ordinary functions
  UnaryOps,        \* the functions "unary" + c of ASCII characters c
  UserOps,         \* the functions "binary" + c, c without a case of its own
  FunctionProtos,  \* arity of each known prototype, NoProto when unknown
  Kinds,           \* node kinds the bodies are built from
  MaxNodes,        \* bound: compound nodes of a body
  MaxParams,       \* bound: parameters of a function
  MaxArgs,         \* bound: arguments of a call expression
  MaxVars,         \* bound: variables of one var/in expression
  DuplicateVars    \* may one var/in expression bind a name twice?

FnNames == Callees \cup UnaryOps \cup UserOps
NoProto == -1

\* A Value* is represented by the block that defines it.
Fail  == -1     \* nullptr
Const == 0      \* a constant: available everywhere
Value == Nat \cup {Fail}

\* An AllocaInst* is represented by its creation number in the function.
Null  == 0      \* nullptr, also the value of an absent map entry
Stale == -1     \* an alloca of a function that is no longer being built
Alloca == Nat \cup {Stale}

Entry  == 1               \* the block "entry"
NotVar == "not a variable" \* LHS of '=' that is no VariableExprAST
Arith  == "arith"          \* the operators with a case of their own: + - * / <

NodeKinds == {"Unary", "Binary", "Assign", "Call", "If", "For", "Var"}

ASSUME ArityAssumption ==
  /\ FunctionProtos \in [FnNames -> Nat \cup {NoProto}]
  /\ \A f \in UnaryOps : FunctionProtos[f] \in {1, NoProto}
  /\ \A f \in UserOps  : FunctionProtos[f] \in {2, NoProto}

ASSUME BoundsAssumption ==
  /\ MaxNodes \in Nat /\ MaxParams \in Nat /\ MaxArgs \in Nat /\ MaxVars \in Nat \ {0}
  /\ Kinds \subseteq NodeKinds /\ DuplicateVars \in BOOLEAN

VARIABLES
  ctl,          \* what the compiler does next, see TypeOK
  ret,          \* value returned by the codegen() call that just ended
  stack,        \* activations of codegen(), the innermost last
  nodes,        \* compound nodes of this body so far
  insertBlock,  \* Builder->GetInsertBlock()
  nblocks,      \* blocks created in this function: 1 .. nblocks
  placed,       \* blocks that are part of the function
  terminated,   \* blocks that end in a terminator
  edges,        \* <<from, to>>: targets of the terminators
  phis,         \* PHI nodes, [block, incoming]
  uses,         \* <<def, use>>: a value of block def used in block use
  NamedValues,  \* the symbol table: the alloca of each variable in scope
  nallocas,     \* allocas created in this function
  params,       \* argument names of this function, in order
  TheModule,    \* functions the open module declares
  errorLogged   \* did LogError print something for this function?

ctlVars   == <<ctl, ret, stack>>
cfgVars   == <<insertBlock, nblocks, placed, terminated, edges, phis, uses>>
scopeVars == <<NamedValues, nallocas, params>>
vars == <<ctlVars, nodes, cfgVars, scopeVars, TheModule, errorLogged>>

----------------------------------------------------------------------------
(* Activations.  A frame holds the C++ locals that are live across the     *)
(* call of a child, and its kind says which child that is.                 *)

Binding == [name : VarNames, alloca : Alloca, old : Alloca]

Frame ==
       [kind : {"Unary"},     op : UnaryOps]
  \cup [kind : {"BinaryLHS"}, op : UserOps \cup {Arith}]
  \cup [kind : {"BinaryRHS"}, op : UserOps \cup {Arith}, L : Value]
  \cup [kind : {"Assign"},    lhs : VarNames \cup {NotVar}]
  \cup [kind : {"CallArg"},   todo : Nat, argsV : SUBSET Nat]
  \cup [kind : {"IfCond"}]
  \cup [kind : {"IfThen"},    ElseBB : Nat, MergeBB : Nat]
  \cup [kind : {"IfElse"},    ThenV : Nat, ThenBB : Nat, MergeBB : Nat]
  \cup [kind : {"ForStart"},  name : VarNames, alloca : Nat]
  \cup [kind : {"ForBody", "ForStep"}, bind : Binding, LoopBB : Nat]
  \cup [kind : {"ForEnd"},    bind : Binding, LoopBB : Nat, StepVal : Nat]
  \cup [kind : {"VarInit"},   todo : Seq(VarNames) \ {<<>>}, binds : Seq(Binding)]
  \cup [kind : {"VarBody"},   binds : Seq(Binding)]

Live  == ctl \in {"call", "return"}   \* a body is being generated
Top   == stack[Len(stack)]
Below == SubSeq(stack, 1, Len(stack) - 1)
Push(f)       == Append(stack, f)
ReplaceTop(f) == [stack EXCEPT ![Len(stack)] = f]

\* The next thing to run is the codegen() of some child, over activations s.
GenChild(s) == ctl' = "call" /\ ret' = Const /\ stack' = s

\* The running codegen() returns v to the activations s.
Return(v, s) == ctl' = "return" /\ ret' = v /\ stack' = s

\* A child of a frame of kind k has returned a value.
Resumes(k) == ctl = "return" /\ stack # <<>> /\ Top.kind = k /\ ret # Fail

\* return LogErrorV(...)
Reject(s) == errorLogged' = TRUE /\ Return(Fail, s)

\* The process is gone: a failed assertion or a wild pointer.
Abort == ctl' = "aborted" /\ UNCHANGED <<ret, stack, nodes, cfgVars, scopeVars, TheModule, errorLogged>>

\* The instruction emitted now uses the values vs.
UsedHere(vs) == {<<v, insertBlock>> : v \in vs \ {Const, insertBlock}}

\* A compound node of kind k is generated next.
Enters(k) == ctl = "call" /\ k \in Kinds /\ nodes < MaxNodes /\ nodes' = nodes + 1

\* getFunction: found in the module, or declared in it from a prototype.
Resolved(f)    == f \in TheModule \/ FunctionProtos[f] # NoProto
getFunction(f) == TheModule' = IF Resolved(f) THEN TheModule \cup {f} ELSE TheModule

----------------------------------------------------------------------------
(* Leaves, and the way a failure travels.                                  *)

NumberExpr ==
  /\ ctl = "call"
  /\ Return(Const, stack)
  /\ UNCHANGED <<nodes, cfgVars, scopeVars, TheModule, errorLogged>>

\* A load from the alloca that the symbol table holds for n.
VariableExpr(n) ==
  /\ ctl = "call"
  /\ \/ /\ NamedValues[n] = Null
        /\ Reject(stack)
     \/ /\ NamedValues[n] # Null
        /\ Return(insertBlock, stack)
        /\ UNCHANGED errorLogged
  /\ UNCHANGED <<nodes, cfgVars, scopeVars, TheModule>>

\* Every caller but BinaryExprAST returns nullptr as soon as a child does,
\* and restores nothing on the way out.
Propagate ==
  /\ ctl = "return" /\ ret = Fail
  /\ stack # <<>> /\ Top.kind # "BinaryLHS"
  /\ Return(Fail, Below)
  /\ UNCHANGED <<nodes, cfgVars, scopeVars, TheModule, errorLogged>>

----------------------------------------------------------------------------
(* Operators, assignments and calls.                                       *)

UnaryEnter(op) ==
  /\ Enters("Unary")
  /\ GenChild(Push([kind |-> "Unary", op |-> op]))
  /\ UNCHANGED <<cfgVars, scopeVars, TheModule, errorLogged>>

UnaryApply ==
  /\ Resumes("Unary")
  /\ getFunction(Top.op)
  /\ \/ /\ Resolved(Top.op)
        /\ uses' = uses \cup UsedHere({ret})
        /\ Return(insertBlock, Below)
        /\ UNCHANGED errorLogged
     \/ /\ ~Resolved(Top.op)
        /\ Reject(Below)
        /\ UNCHANGED uses
  /\ UNCHANGED <<nodes, insertBlock, nblocks, placed, terminated, edges, phis, scopeVars>>

BinaryEnter(op) ==
  /\ Enters("Binary")
  /\ GenChild(Push([kind |-> "BinaryLHS", op |-> op]))
  /\ UNCHANGED <<cfgVars, scopeVars, TheModule, errorLogged>>

\* The right operand is generated even when the left one has failed.
BinaryLHS ==
  /\ ctl = "return" /\ stack # <<>> /\ Top.kind = "BinaryLHS"
  /\ GenChild(ReplaceTop([kind |-> "BinaryRHS", op |-> Top.op, L |-> ret]))
  /\ UNCHANGED <<nodes, cfgVars, scopeVars, TheModule, errorLogged>>

BinaryLeftFailed_Ignored ==
  /\ Resumes("BinaryRHS") /\ Top.L = Fail
  /\ Return(ret, Below)
  /\ UNCHANGED <<nodes, cfgVars, scopeVars, TheModule, errorLogged>>

BinaryLeftFailed ==
  /\ Resumes("BinaryRHS") /\ Top.L = Fail
  /\ Return(Fail, Below)
  /\ UNCHANGED <<nodes, cfgVars, scopeVars, TheModule, errorLogged>>

Applicable(op) == IF op = Arith THEN TRUE ELSE Resolved(op)

\* An operator without a case of its own is a call of "binary" + c, and the
\* compiler asserts that this function exists.
BinaryApply ==
  /\ Resumes("BinaryRHS") /\ Top.L # Fail
  /\ Applicable(Top.op)
  /\ IF Top.op = Arith THEN UNCHANGED TheModule ELSE getFunction(Top.op)
  /\ uses' = uses \cup UsedHere({Top.L, ret})
  /\ Return(insertBlock, Below)
  /\ UNCHANGED <<nodes, insertBlock, nblocks, placed, terminated, edges, phis, scopeVars, errorLogged>>

BinaryUnresolved ==
  /\ Resumes("BinaryRHS") /\ Top.L # Fail
  /\ ~Applicable(Top.op)
  /\ Abort

\* The left side of '=' is not generated.
AssignEnter(lhs) ==
  /\ Enters("Assign")
  /\ GenChild(Push([kind |-> "Assign", lhs |-> lhs]))
  /\ UNCHANGED <<cfgVars, scopeVars, TheModule, errorLogged>>

StoreTo(n) ==
  /\ \/ /\ NamedValues[n] = Null
        /\ Reject(Below)
        /\ UNCHANGED uses
     \/ /\ NamedValues[n] # Null
        /\ uses' = uses \cup UsedHere({ret})
        /\ Return(ret, Below)
        /\ UNCHANGED errorLogged
  /\ UNCHANGED <<nodes, insertBlock, nblocks, placed, terminated, edges, phis, scopeVars, TheModule>>

AssignStore ==
  /\ Resumes("Assign") /\ Top.lhs # NotVar
  /\ StoreTo(Top.lhs)

\* The static_cast of a node that is no variable is undefined: what is read
\* as its name may be another node's name (a call's callee, a loop's
\* variable), no name in the table, or no string at all.
AssignWild ==
  /\ Resumes("Assign") /\ Top.lhs = NotVar
  /\ \/ \E n \in VarNames : StoreTo(n)
     \/ /\ Reject(Below)
        /\ UNCHANGED <<nodes, cfgVars, scopeVars, TheModule>>
     \/ Abort

\* The callee is resolved, and its arity checked, before any argument.
CallEnter(f, nargs) ==
  /\ Enters("Call")
  /\ getFunction(f)
  /\ \/ /\ ~Resolved(f) \/ FunctionProtos[f] # nargs
        /\ Reject(stack)
     \/ /\ Resolved(f) /\ FunctionProtos[f] = nargs
        /\ IF nargs = 0
             THEN Return(insertBlock, stack)
             ELSE GenChild(Push([kind |-> "CallArg", todo |-> nargs, argsV |-> {}]))
        /\ UNCHANGED errorLogged
  /\ UNCHANGED <<cfgVars, scopeVars>>

CallArg_NoBound ==
  /\ Resumes("CallArg")
  /\ GenChild(ReplaceTop([kind |-> "CallArg", todo |-> Top.todo - 1, argsV |-> Top.argsV \cup {ret}]))
  /\ UNCHANGED <<nodes, cfgVars, scopeVars, TheModule, errorLogged>>

CallArg ==
  /\ Resumes("CallArg") /\ Top.todo > 1
  /\ GenChild(ReplaceTop([kind |-> "CallArg", todo |-> Top.todo - 1, argsV |-> Top.argsV \cup {ret}]))
  /\ UNCHANGED <<nodes, cfgVars, scopeVars, TheModule, errorLogged>>

CallApply ==
  /\ Resumes("CallArg") /\ Top.todo = 1
  /\ uses' = uses \cup UsedHere(Top.argsV \cup {ret})
  /\ Return(insertBlock, Below)
  /\ UNCHANGED <<nodes, insertBlock, nblocks, placed, terminated, edges, phis, scopeVars, TheModule, errorLogged>>

----------------------------------------------------------------------------
(* if/then/else.  "then" joins the function at once, "else" and "ifcont"   *)
(* only when their turn comes.                                             *)

IfEnter ==
  /\ Enters("If")
  /\ GenChild(Push([kind |-> "IfCond"]))
  /\ UNCHANGED <<cfgVars, scopeVars, TheModule, errorLogged>>

IfBranch ==
  /\ Resumes("IfCond")
  /\ LET ThenBB == nblocks + 1
         ElseBB == nblocks + 2
     IN  /\ nblocks' = nblocks + 3
         /\ placed' = placed \cup {ThenBB}
         /\ terminated' = terminated \cup {insertBlock}
         /\ edges' = edges \cup {<<insertBlock, ThenBB>>, <<insertBlock, ElseBB>>}
         /\ insertBlock' = ThenBB
         /\ uses' = uses \cup UsedHere({ret})
         /\ GenChild(ReplaceTop([kind |-> "IfThen", ElseBB |-> ElseBB, MergeBB |-> nblocks + 3]))
  /\ UNCHANGED <<phis, nodes, scopeVars, TheModule, errorLogged>>

\* The end of a branch: jump to MergeBB and go on in the block next.
JumpAndPlace_NoSetInsertPoint(target, next) ==
  /\ terminated' = terminated \cup {insertBlock}
  /\ edges' = edges \cup {<<insertBlock, target>>}
  /\ placed' = placed \cup {next}
  /\ UNCHANGED <<nblocks, insertBlock>>
JumpAndPlace_NoInsert(target, next) ==
  /\ terminated' = terminated \cup {insertBlock}
  /\ edges' = edges \cup {<<insertBlock, target>>}
  /\ insertBlock' = next
  /\ UNCHANGED <<nblocks, placed>>
JumpAndPlace(target, next) ==
  /\ terminated' = terminated \cup {insertBlock}
  /\ edges' = edges \cup {<<insertBlock, target>>}
  /\ placed' = placed \cup {next}
  /\ insertBlock' = next
  /\ UNCHANGED nblocks

\* ThenBB is read again: generating the branch may have moved the builder.
IfElse ==
  /\ Resumes("IfThen")
  /\ JumpAndPlace(Top.MergeBB, Top.ElseBB)
  /\ GenChild(ReplaceTop([kind |-> "IfElse", ThenV |-> ret,
                          ThenBB |-> insertBlock, MergeBB |-> Top.MergeBB]))
  /\ UNCHANGED <<phis, uses, nodes, scopeVars, TheModule, errorLogged>>

\* ElseBB is read again, too: the builder is where the else branch ended.
PhiNode_FirstElseBlock ==
  [block |-> Top.MergeBB, incoming |-> {Top.ThenBB, Top.MergeBB - 1}]
PhiNode == [block |-> Top.MergeBB, incoming |-> {Top.ThenBB, insertBlock}]

\* The value of the whole expression is the PHI node, defined in MergeBB.
IfValue_Then == Top.ThenV
IfValue == Top.MergeBB

\* The PHI node uses each value at the end of its incoming block.
IfMerge ==
  /\ Resumes("IfElse")
  /\ JumpAndPlace(Top.MergeBB, Top.MergeBB)
  /\ phis' = phis \cup {PhiNode}
  /\ uses' = uses \cup UsedHere({ret})
                  \cup {<<v, Top.ThenBB>> : v \in {Top.ThenV} \ {Const, Top.ThenBB}}
  /\ Return(IfValue, Below)
  /\ UNCHANGED <<nodes, scopeVars, TheModule, errorLogged>>

----------------------------------------------------------------------------
(* for.  A missing step is the constant 1.0, which is a NumberExpr here.   *)

ForEnter(n) ==
  /\ Enters("For")
  /\ nallocas' = nallocas + 1
  /\ GenChild(Push([kind |-> "ForStart", name |-> n, alloca |-> nallocas + 1]))
  /\ UNCHANGED <<NamedValues, params, cfgVars, TheModule, errorLogged>>

\* Store the start value, fall through into "loop", shadow the variable.
ForLoop ==
  /\ Resumes("ForStart")
  /\ LET LoopBB == nblocks + 1
         b == [name |-> Top.name, alloca |-> Top.alloca, old |-> NamedValues[Top.name]]
     IN  /\ uses' = uses \cup UsedHere({ret})
         /\ nblocks' = LoopBB
         /\ placed' = placed \cup {LoopBB}
         /\ terminated' = terminated \cup {insertBlock}
         /\ edges' = edges \cup {<<insertBlock, LoopBB>>}
         /\ insertBlock' = LoopBB
         /\ NamedValues' = [NamedValues EXCEPT ![Top.name] = Top.alloca]
         /\ GenChild(ReplaceTop([kind |-> "ForBody", bind |-> b, LoopBB |-> LoopBB]))
  /\ UNCHANGED <<phis, nodes, nallocas, params, TheModule, errorLogged>>

\* The value of the body is ignored.
ForStep ==
  /\ Resumes("ForBody")
  /\ GenChild(ReplaceTop([Top EXCEPT !.kind = "ForStep"]))
  /\ UNCHANGED <<nodes, cfgVars, scopeVars, TheModule, errorLogged>>

ForEnd ==
  /\ Resumes("ForStep")
  /\ GenChild(ReplaceTop([kind |-> "ForEnd", bind |-> Top.bind, LoopBB |-> Top.LoopBB, StepVal |-> ret]))
  /\ UNCHANGED <<nodes, cfgVars, scopeVars, TheModule, errorLogged>>

\* Increment, branch back or on to "afterloop", restore the variable.
ForExit ==
  /\ Resumes("ForEnd")
  /\ LET AfterBB == nblocks + 1
     IN  /\ uses' = uses \cup UsedHere({Top.StepVal, ret})
         /\ nblocks' = AfterBB
         /\ placed' = placed \cup {AfterBB}
         /\ terminated' = terminated \cup {insertBlock}
         /\ edges' = edges \cup {<<insertBlock, Top.LoopBB>>, <<insertBlock, AfterBB>>}
         /\ insertBlock' = AfterBB
  /\ NamedValues' = [NamedValues EXCEPT ![Top.bind.name] = Top.bind.old]
  /\ Return(Const, Below)
  /\ UNCHANGED <<phis, nodes, nallocas, params, TheModule, errorLogged>>

----------------------------------------------------------------------------
(* var/in.  A missing initializer is the constant 0.0.                     *)

Distinct(names) == \A i, j \in 1..Len(names) : names[i] = names[j] => i = j

VarLists == {names \in UNION {[1..k -> VarNames] : k \in 1..MaxVars} :
               DuplicateVars \/ Distinct(names)}

VarEnter(names) ==
  /\ Enters("Var")
  /\ GenChild(Push([kind |-> "VarInit", todo |-> names, binds |-> <<>>]))
  /\ UNCHANGED <<cfgVars, scopeVars, TheModule, errorLogged>>

\* The initializer is done: bind the variable, remember the old binding.
VarBind ==
  /\ Resumes("VarInit")
  /\ LET n == Head(Top.todo)
         b == [name |-> n, alloca |-> nallocas + 1, old |-> NamedValues[n]]
     IN  /\ NamedValues' = [NamedValues EXCEPT ![n] = nallocas + 1]
         /\ GenChild(ReplaceTop(
              IF Len(Top.todo) > 1
                THEN [kind |-> "VarInit", todo |-> Tail(Top.todo), binds |-> Append(Top.binds, b)]
                ELSE [kind |-> "VarBody", binds |-> Append(Top.binds, b)]))
  /\ nallocas' = nallocas + 1
  /\ uses' = uses \cup UsedHere({ret})
  /\ UNCHANGED <<insertBlock, nblocks, placed, terminated, edges, phis, params, nodes, TheModule, errorLogged>>

Restore_Erase(table, binds) ==
  [n \in VarNames |-> IF \E i \in 1..Len(binds) : binds[i].name = n THEN Null ELSE table[n]]

\* NamedValues[VarNames[i].first] = OldBindings[i] for i = 0, 1, ...: of the
\* bindings of a name, the last one decides.
IsLast(binds, i, n) ==
  binds[i].name = n /\ \A j \in i+1..Len(binds) : binds[j].name # n
Restore(table, binds) ==
  [n \in VarNames |->
     IF \E i \in 1..Len(binds) : IsLast(binds, i, n)
       THEN binds[CHOOSE i \in 1..Len(binds) : IsLast(binds, i, n)].old
       ELSE table[n]]

VarExit ==
  /\ Resumes("VarBody")
  /\ NamedValues' = Restore(NamedValues, Top.binds)
  /\ Return(ret, Below)
  /\ UNCHANGED <<nodes, cfgVars, nallocas, params, TheModule, errorLogged>>

----------------------------------------------------------------------------
(* The function around the body.                                           *)

\* The names of the arguments of an llvm::Function are distinct.
ParamLists == {<<>>} \cup {ps \in UNION {[1..k -> VarNames] : k \in 1..MaxParams} : Distinct(ps)}

\* NamedValues.clear(), then one alloca for each argument, in order.
ArgAlloca(ps, n) ==
  IF \E i \in 1..Len(ps) : ps[i] = n THEN CHOOSE i \in 1..Len(ps) : ps[i] = n ELSE Null
ArgTable_NoClear(ps) ==
  [n \in VarNames |-> IF \E i \in 1..Len(ps) : ps[i] = n THEN ArgAlloca(ps, n) ELSE NamedValues[n]]
ArgTable(ps) == [n \in VarNames |-> ArgAlloca(ps, n)]

FunctionEnter(ps) ==
  /\ ctl \in {"start", "accepted", "erased"}
  /\ GenChild(<<>>)
  /\ nodes' = 0
  /\ insertBlock' = Entry /\ nblocks' = Entry /\ placed' = {Entry}
  /\ terminated' = {} /\ edges' = {} /\ phis' = {} /\ uses' = {}
  /\ NamedValues' = ArgTable(ps)
  /\ nallocas' = Len(ps)
  /\ params' = ps
  /\ errorLogged' = FALSE
  /\ UNCHANGED TheModule

\* What the symbol table still points to when the function is left.
Leftover == [n \in VarNames |-> IF NamedValues[n] = Null THEN Null ELSE Stale]

\* CreateRet; HandleDefinition then hands the module to the JIT and opens an
\* empty one.
FunctionAccept ==
  /\ ctl = "return" /\ stack = <<>> /\ ret # Fail
  /\ ctl' = "accepted" /\ ret' = Const
  /\ terminated' = terminated \cup {insertBlock}
  /\ uses' = uses \cup UsedHere({ret})
  /\ NamedValues' = Leftover
  /\ TheModule' = {}
  /\ UNCHANGED <<stack, nodes, insertBlock, nblocks, placed, edges, phis, nallocas, params, errorLogged>>

\* eraseFromParent takes every block along; the declarations the body made
\* stay in the open module.
FunctionErase ==
  /\ ctl = "return" /\ stack = <<>> /\ ret = Fail
  /\ ctl' = "erased" /\ ret' = Const
  /\ insertBlock' = 0 /\ nblocks' = 0
  /\ placed' = {} /\ terminated' = {} /\ edges' = {} /\ phis' = {} /\ uses' = {}
  /\ NamedValues' = Leftover
  /\ UNCHANGED <<stack, nodes, nallocas, params, TheModule, errorLogged>>

\* Nothing runs after the process is gone.
Gone == ctl = "aborted" /\ UNCHANGED vars

Init ==
  /\ ctl = "start" /\ ret = Const /\ stack = <<>> /\ nodes = 0
  /\ insertBlock = 0 /\ nblocks = 0
  /\ placed = {} /\ terminated = {} /\ edges = {} /\ phis = {} /\ uses = {}
  /\ NamedValues = [n \in VarNames |-> Null] /\ nallocas = 0 /\ params = <<>>
  /\ TheModule = {} /\ errorLogged = FALSE

Expr ==
  \/ NumberExpr
  \/ \E n \in VarNames : VariableExpr(n) \/ AssignEnter(n) \/ ForEnter(n)
  \/ AssignEnter(NotVar)
  \/ \E op \in UnaryOps : UnaryEnter(op)
  \/ \E op \in UserOps \cup {Arith} : BinaryEnter(op)
  \/ \E f \in Callees, nargs \in 0..MaxArgs : CallEnter(f, nargs)
  \/ IfEnter
  \/ \E names \in VarLists : VarEnter(names)

Resume ==
  \/ Propagate
  \/ UnaryApply
  \/ BinaryLHS \/ BinaryLeftFailed \/ BinaryApply \/ BinaryUnresolved
  \/ AssignStore \/ AssignWild
  \/ CallArg \/ CallApply
  \/ IfBranch \/ IfElse \/ IfMerge
  \/ ForLoop \/ ForStep \/ ForEnd \/ ForExit
  \/ VarBind \/ VarExit

Next ==
  \/ \E ps \in ParamLists : FunctionEnter(ps)
  \/ FunctionAccept
  \/ FunctionErase
  \/ Expr
  \/ Resume
  \/ Gone

Spec == Init /\ [][Next]_vars

----------------------------------------------------------------------------
(* Properties.                                                             *)

CtlTypeOK ==
  /\ ctl \in {"start", "call", "return", "accepted", "erased", "aborted"}
  /\ ret \in Value /\ nodes \in Nat
  /\ stack \in Seq(Frame)

CfgTypeOK ==
  /\ insertBlock \in Nat /\ nblocks \in Nat
  /\ placed \subseteq Nat /\ terminated \subseteq Nat
  /\ edges \subseteq Nat \X Nat /\ uses \subseteq Nat \X Nat
  /\ phis \subseteq [block : Nat, incoming : SUBSET Nat]

ScopeTypeOK ==
  /\ NamedValues \in [VarNames -> Alloca] /\ nallocas \in Nat
  /\ params \in Seq(VarNames)
  /\ TheModule \subseteq FnNames /\ errorLogged \in BOOLEAN

\* The type invariant: every activation holds values of the right sort, so
\* that no codegen() hands a failure where a value or a block is expected.
TypeOK == CtlTypeOK /\ CfgTypeOK /\ ScopeTypeOK

\* Whatever nests in whatever, the builder's block is the only block of the
\* function that still lacks a terminator: no instruction is ever emitted
\* behind a terminator and no branch is left open.
OneOpenBlock ==
  Live => /\ terminated \subseteq placed
          /\ placed \ terminated = {insertBlock}

Preds(b) == {e[1] : e \in {e \in edges : e[2] = b}}

\* A PHI node has one incoming value for each predecessor of its block and
\* for no other block, although generating a branch moves the builder.
PhiMatchesPreds == \A p \in phis : p.incoming = Preds(p.block)

\* A function that codegen() returns has no loose ends: every block that was
\* created is part of it, and every block ends in a terminator.
AcceptedComplete ==
  ctl = "accepted" => placed = 1..nblocks /\ terminated = placed

\* Blocks reached from the entry without passing through avoid.
ReachableAvoiding(avoid) ==
  LET R[k \in 0..nblocks] ==
        IF k = 0 THEN {Entry} \ {avoid}
        ELSE LET seen == R[k-1]
             IN  seen \cup ({e[2] : e \in {e \in edges : e[1] \in seen}} \ {avoid})
  IN  R[nblocks]

\* In a function that codegen() returns, a value is used only in blocks that
\* its own block dominates (a PHI operand: only where it arrives from), so
\* verifyFunction, whose result the code throws away, has nothing to report.
DefsDominateUses ==
  ctl = "accepted" => \A u \in uses : u[2] \notin ReachableAvoiding(u[1])

\* The variables that one activation has put into scope, outermost first.
BindsOf(f) ==
  IF f.kind \in {"ForBody", "ForStep", "ForEnd"} THEN <<f.bind>>
  ELSE IF f.kind \in {"VarInit", "VarBody"} THEN f.binds
  ELSE <<>>

InScope(n) == {p \in (1..Len(stack)) \X (1..MaxVars) :
                 LET bs == BindsOf(stack[p[1]])
                 IN  p[2] <= Len(bs) /\ bs[p[2]].name = n}

\* The alloca a name means by the nesting of for and var/in around it.
Innermost(n) ==
  IF InScope(n) = {} THEN ArgAlloca(params, n)
  ELSE LET p == CHOOSE p \in InScope(n) : \A q \in InScope(n) :
                  q[1] < p[1] \/ (q[1] = p[1] /\ q[2] <= p[2])
       IN  BindsOf(stack[p[1]])[p[2]].alloca

\* Saving and restoring single entries of the one global NamedValues gives
\* lexical scoping: while no error has been met, a name means the innermost
\* for or var/in around it, else the argument, else nothing.
LexicalScoping ==
  Live /\ ~errorLogged => \A n \in VarNames : NamedValues[n] = Innermost(n)

\* The symbol table never leads to an alloca of an earlier function, not
\* even after an error left its bindings behind.
NoStaleAlloca ==
  Live => \A n \in VarNames : NamedValues[n] \in 0..nallocas

\* An error anywhere in the body, the left operand whose right sibling is
\* still generated included, makes the function fail, and only an error does.
FailureNeverAccepted ==
  /\ ctl = "accepted" => ~errorLogged
  /\ ctl = "erased" => errorLogged
=============================================================================

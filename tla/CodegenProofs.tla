--------------------------- MODULE CodegenProofs ---------------------------
(***************************************************************************)
(* Code generation, for every program: types, and the way errors travel.   *)
(*                                                                         *)
(* TypeOK is inductive.  FailureNeverAccepted is not: between the error    *)
(* and the end of the function the evidence is the value being returned or *)
(* the failed left operand that an activation of BinaryExprAST remembers.  *)
(* FailureInv says so, and is inductive together with TypeOK.              *)
(***************************************************************************)
EXTENDS Codegen, SequenceTheorems, TLAPS

\* An activation holds values of the right sort for the child it waits for.
LEMMA FrameFields ==
  ASSUME NEW f \in Frame
  PROVE  /\ f.kind = "Unary" => f.op \in UnaryOps
         /\ f.kind = "BinaryLHS" => f.op \in UserOps \cup {Arith}
         /\ f.kind = "BinaryRHS" => f.op \in UserOps \cup {Arith} /\ f.L \in Value
         /\ f.kind = "Assign" => f.lhs \in VarNames \cup {NotVar}
         /\ f.kind = "CallArg" => f.todo \in Nat /\ f.argsV \in SUBSET Nat
         /\ f.kind = "IfThen" => f.ElseBB \in Nat /\ f.MergeBB \in Nat
         /\ f.kind = "IfElse" => f.ThenV \in Nat /\ f.ThenBB \in Nat /\ f.MergeBB \in Nat
         /\ f.kind = "ForStart" => f.name \in VarNames /\ f.alloca \in Nat
         /\ f.kind \in {"ForBody", "ForStep"} => f.bind \in Binding /\ f.LoopBB \in Nat /\ f = [kind |-> f.kind, bind |-> f.bind, LoopBB |-> f.LoopBB]
         /\ f.kind = "ForEnd" => f.bind \in Binding /\ f.LoopBB \in Nat /\ f.StepVal \in Nat
         /\ f.kind = "VarInit" => f.todo \in Seq(VarNames) \ {<<>>} /\ f.binds \in Seq(Binding)
         /\ f.kind = "VarBody" => f.binds \in Seq(Binding)
BY DEF Frame

\* The arithmetic of dropping the last element of a sequence.
LEMMA FrontLength ==
  ASSUME NEW n \in Nat \ {0}
  PROVE  /\ 1..n - 1 - 1 + 1 = 1..n - 1
         /\ (IF 1 <= n - 1 THEN n - 1 - 1 + 1 ELSE 0) = n - 1
         /\ \A i \in 1..n - 1 : 1 + i - 1 = i /\ i \in 1..n
<1>1. 1..n - 1 - 1 + 1 = 1..n - 1
  <2>1. n - 1 - 1 + 1 = n - 1
    OBVIOUS
  <2>. QED
    BY <2>1
<1>2. (IF 1 <= n - 1 THEN n - 1 - 1 + 1 ELSE 0) = n - 1
  OBVIOUS
<1>3. \A i \in 1..n - 1 : 1 + i - 1 = i /\ i \in 1..n
  OBVIOUS
<1>. QED
  BY <1>1, <1>2, <1>3

\* Calling, resuming and leaving a codegen() keep the activations well-typed.
LEMMA StackOps ==
  ASSUME stack \in Seq(Frame)
  PROVE  /\ \A f \in Frame : /\ Push(f) \in Seq(Frame)
                             /\ Len(Push(f)) = Len(stack) + 1
                             /\ \A i \in 1..Len(stack) : Push(f)[i] = stack[i]
                             /\ Push(f)[Len(stack) + 1] = f
         /\ stack # <<>> =>
              /\ Len(stack) \in Nat \ {0} /\ Top \in Frame
              /\ Below \in Seq(Frame) /\ Len(Below) = Len(stack) - 1
              /\ \A i \in 1..Len(stack) - 1 : Below[i] = stack[i]
              /\ \A f \in Frame : /\ ReplaceTop(f) \in Seq(Frame)
                                  /\ Len(ReplaceTop(f)) = Len(stack)
                                  /\ ReplaceTop(f)[Len(stack)] = f
                                  /\ \A i \in 1..Len(stack) - 1 : ReplaceTop(f)[i] = stack[i]
<1>1. ASSUME NEW f \in Frame
      PROVE  /\ Push(f) \in Seq(Frame)
             /\ Len(Push(f)) = Len(stack) + 1
             /\ \A i \in 1..Len(stack) : Push(f)[i] = stack[i]
             /\ Push(f)[Len(stack) + 1] = f
  BY AppendProperties DEF Push
<1>2. ASSUME stack # <<>>
      PROVE  Len(stack) \in Nat \ {0} /\ Top \in Frame
  BY <1>2, EmptySeq, LenProperties, ElementOfSeq DEF Top
<1>3. ASSUME stack # <<>>
      PROVE  /\ Below \in Seq(Frame) /\ Len(Below) = Len(stack) - 1
             /\ \A i \in 1..Len(stack) - 1 : Below[i] = stack[i]
  <2>1. \A i \in 1..Len(stack) - 1 : stack[i] \in Frame
    BY <1>2, <1>3, ElementOfSeq
  <2>2. Len(stack) - 1 \in Int /\ Len(stack) - 1 >= 0
    BY <1>2, <1>3
  <2>3. /\ Below \in Seq(Frame)
        /\ Len(Below) = IF 1 <= Len(stack) - 1 THEN Len(stack) - 1 - 1 + 1 ELSE 0
        /\ \A i \in 1..Len(stack) - 1 - 1 + 1 : Below[i] = stack[1 + i - 1]
    BY <2>1, <2>2, SubSeqProperties DEF Below
  <2>. QED
    BY <2>3, <1>2, <1>3, FrontLength
<1>4. ASSUME stack # <<>>, NEW f \in Frame
      PROVE  /\ ReplaceTop(f) \in Seq(Frame)
             /\ Len(ReplaceTop(f)) = Len(stack)
             /\ ReplaceTop(f)[Len(stack)] = f
             /\ \A i \in 1..Len(stack) - 1 : ReplaceTop(f)[i] = stack[i]
  BY <1>2, <1>4, ExceptSeq DEF ReplaceTop
<1>. QED
  BY <1>1, <1>2, <1>3, <1>4

\* Recording the uses of an instruction keeps the set of uses well-typed.
LEMMA UsedHereType ==
  ASSUME CfgTypeOK, NEW vs, vs \subseteq Nat
  PROVE  uses \cup UsedHere(vs) \subseteq Nat \X Nat
BY DEF CfgTypeOK, UsedHere, Const

\* A codegen() that returns a value or a failure keeps the control state typed.
LEMMA ReturnType ==
  ASSUME CtlTypeOK, nodes' = nodes, NEW v \in Value, NEW s \in Seq(Frame), Return(v, s)
  PROVE  CtlTypeOK'
BY DEF CtlTypeOK, Return

\* So does the call of a child's codegen().
LEMMA GenChildType ==
  ASSUME CtlTypeOK, nodes' \in Nat, NEW s \in Seq(Frame), GenChild(s)
  PROVE  CtlTypeOK'
BY DEF CtlTypeOK, GenChild, Const, Value

\* What an action that touches neither the graph nor the scopes must show.
LEMMA SameCfgScope ==
  ASSUME TypeOK, CtlTypeOK', UNCHANGED cfgVars, UNCHANGED scopeVars,
         TheModule' \subseteq FnNames, errorLogged' \in BOOLEAN
  PROVE  TypeOK'
<1>1. CfgTypeOK'
  BY DEF TypeOK, CfgTypeOK, cfgVars
<1>2. ScopeTypeOK'
  BY DEF TypeOK, ScopeTypeOK, scopeVars
<1> QED
  BY <1>1, <1>2 DEF TypeOK

\* The end of an if branch keeps the control flow graph well-typed.
LEMMA JumpType ==
  ASSUME CfgTypeOK, NEW target \in Nat, NEW next \in Nat, JumpAndPlace(target, next),
         uses' \subseteq Nat \X Nat, phis' \subseteq [block : Nat, incoming : SUBSET Nat]
  PROVE  CfgTypeOK'
<1>1. edges' \subseteq Nat \X Nat
  BY DEF JumpAndPlace, CfgTypeOK
<1> QED
  BY <1>1 DEF JumpAndPlace, CfgTypeOK

\* A parameter list is a sequence of names.
LEMMA ParamListsType ==
  ASSUME NEW ps \in ParamLists
  PROVE  ps \in Seq(VarNames)
<1>1. CASE ps = <<>>
  BY <1>1, EmptySeq
<1>2. CASE \E k \in 1..MaxParams : ps \in [1..k -> VarNames]
  <2>1. PICK k \in 1..MaxParams : ps \in [1..k -> VarNames]
    BY <1>2
  <2>2. k \in Nat
    BY <2>1, BoundsAssumption
  <2> QED BY <2>1, <2>2, SeqDef
<1> QED
  BY <1>1, <1>2 DEF ParamLists

\* Popping the variables of a var/in leaves a symbol table.
LEMMA RestoreType ==
  ASSUME NEW table \in [VarNames -> Alloca], NEW binds \in Seq(Binding)
  PROVE  Restore(table, binds) \in [VarNames -> Alloca]
<1> SUFFICES ASSUME NEW n \in VarNames PROVE Restore(table, binds)[n] \in Alloca
  BY DEF Restore
<1> DEFINE last == CHOOSE i \in 1..Len(binds) : IsLast(binds, i, n)
<1>1. CASE \E i \in 1..Len(binds) : IsLast(binds, i, n)
  <2>1. last \in 1..Len(binds)
    BY <1>1
  <2>2. binds[last] \in Binding
    BY <2>1, ElementOfSeq
  <2> QED BY <1>1, <2>2 DEF Restore, Binding
<1>2. CASE ~ \E i \in 1..Len(binds) : IsLast(binds, i, n)
  BY <1>2 DEF Restore
<1> QED
  BY <1>1, <1>2

\* For every set of names, prototypes and node kinds and every bound: the state
\* of code generation is always well-typed; in particular no activation ever
\* takes a child's failure for a value.
THEOREM TypeCorrect == Spec => []TypeOK
<1>1. Init => TypeOK
  <2> SUFFICES ASSUME Init PROVE TypeOK
    OBVIOUS
  <2>1. <<>> \in Seq(Frame) /\ <<>> \in Seq(VarNames)
    BY EmptySeq
  <2> QED
    BY <2>1 DEF Init, TypeOK, CtlTypeOK, CfgTypeOK, ScopeTypeOK, Const, Null, Value, Alloca
<1>2. TypeOK /\ [Next]_vars => TypeOK'
  <2> SUFFICES ASSUME TypeOK, [Next]_vars PROVE TypeOK'
    OBVIOUS
  <2>ctl. CtlTypeOK BY DEF TypeOK
  <2>cfg. CfgTypeOK BY DEF TypeOK
  <2>scp. ScopeTypeOK BY DEF TypeOK
  <2>stk. stack \in Seq(Frame) /\ ret \in Value /\ nodes \in Nat /\ nodes + 1 \in Nat
    BY DEF TypeOK, CtlTypeOK
  <2>mod. TheModule \subseteq FnNames /\ errorLogged \in BOOLEAN
    BY DEF TypeOK, ScopeTypeOK
  <2>val. Fail \in Value /\ Const \in Value /\ insertBlock \in Value
    BY <2>cfg DEF CfgTypeOK, Fail, Const, Value
  <2>sub. ASSUME stack # <<>> PROVE Below \in Seq(Frame) /\ Top \in Frame
    BY <2>sub, <2>stk, StackOps
  <2>res. ASSUME NEW k, Resumes(k)
          PROVE  stack # <<>> /\ ret \in Nat /\ Top.kind = k /\ Top \in Frame /\ Below \in Seq(Frame)
    BY <2>res, <2>sub, <2>stk DEF Resumes, Value, Fail
  <2>get. ASSUME NEW f \in FnNames, getFunction(f) PROVE TheModule' \subseteq FnNames
    BY <2>get, <2>mod DEF getFunction
  <2>1. CASE NumberExpr
    <3>1. CtlTypeOK'
      BY <2>1, <2>ctl, <2>val, <2>stk, ReturnType DEF NumberExpr
    <3> QED BY <2>1, <3>1, <2>mod, SameCfgScope DEF NumberExpr
  <2>2. ASSUME NEW n \in VarNames, VariableExpr(n) PROVE TypeOK'
    <3>1. CtlTypeOK'
      BY <2>2, <2>ctl, <2>val, <2>stk, ReturnType DEF VariableExpr, Reject
    <3> QED BY <2>2, <3>1, <2>mod, SameCfgScope DEF VariableExpr, Reject
  <2>3. CASE Propagate
    <3>1. CtlTypeOK'
      BY <2>3, <2>ctl, <2>val, <2>sub, ReturnType DEF Propagate
    <3> QED BY <2>3, <3>1, <2>mod, SameCfgScope DEF Propagate
  <2>4. ASSUME NEW op \in UnaryOps, UnaryEnter(op) PROVE TypeOK'
    <3>1. [kind |-> "Unary", op |-> op] \in Frame
      BY DEF Frame
    <3>2. CtlTypeOK'
      BY <2>4, <3>1, <2>ctl, <2>stk, StackOps, GenChildType DEF UnaryEnter, Enters
    <3> QED BY <2>4, <3>2, <2>mod, SameCfgScope DEF UnaryEnter
  <2>5. CASE UnaryApply
    <3>1. stack # <<>> /\ ret \in Nat /\ Top.kind = "Unary" /\ Top \in Frame /\ Below \in Seq(Frame)
      BY <2>5, <2>res DEF UnaryApply
    <3>2. CtlTypeOK'
      BY <2>5, <3>1, <2>ctl, <2>val, ReturnType DEF UnaryApply, Reject
    <3>3. CfgTypeOK'
      BY <2>5, <3>1, <2>cfg, UsedHereType DEF UnaryApply, CfgTypeOK
    <3>4. TheModule' \subseteq FnNames
      BY <2>5, <3>1, <2>get, FrameFields DEF UnaryApply, FnNames
    <3>5. ScopeTypeOK'
      BY <2>5, <3>4, <2>scp DEF UnaryApply, ScopeTypeOK, scopeVars, Reject
    <3> QED BY <3>2, <3>3, <3>5 DEF TypeOK
  <2>6. ASSUME NEW op \in UserOps \cup {Arith}, BinaryEnter(op) PROVE TypeOK'
    <3>1. [kind |-> "BinaryLHS", op |-> op] \in Frame
      BY DEF Frame
    <3>2. CtlTypeOK'
      BY <2>6, <3>1, <2>ctl, <2>stk, StackOps, GenChildType DEF BinaryEnter, Enters
    <3> QED BY <2>6, <3>2, <2>mod, SameCfgScope DEF BinaryEnter
  <2>7. CASE BinaryLHS
    <3>1. stack # <<>> /\ Top \in Frame /\ Top.kind = "BinaryLHS"
      BY <2>7, <2>sub DEF BinaryLHS
    <3>2. Top.op \in UserOps \cup {Arith}
      BY <3>1, FrameFields
    <3>3. [kind |-> "BinaryRHS", op |-> Top.op, L |-> ret] \in Frame
      BY <3>2, <2>stk DEF Frame
    <3>4. CtlTypeOK'
      BY <2>7, <3>1, <3>3, <2>ctl, <2>stk, StackOps, GenChildType DEF BinaryLHS
    <3> QED BY <2>7, <3>4, <2>mod, SameCfgScope DEF BinaryLHS
  <2>8. CASE BinaryLeftFailed
    <3>1. CtlTypeOK'
      BY <2>8, <2>ctl, <2>val, <2>res, ReturnType DEF BinaryLeftFailed
    <3> QED BY <2>8, <3>1, <2>mod, SameCfgScope DEF BinaryLeftFailed
  <2>9. CASE BinaryApply
    <3>1. stack # <<>> /\ ret \in Nat /\ Top.kind = "BinaryRHS" /\ Top \in Frame /\ Below \in Seq(Frame)
      BY <2>9, <2>res DEF BinaryApply
    <3>2. Top.op \in UserOps \cup {Arith} /\ Top.L \in Nat
      BY <2>9, <3>1, FrameFields DEF BinaryApply, Value, Fail
    <3>3. CtlTypeOK'
      BY <2>9, <3>1, <2>ctl, <2>val, ReturnType DEF BinaryApply
    <3>4. CfgTypeOK'
      BY <2>9, <3>1, <3>2, <2>cfg, UsedHereType DEF BinaryApply, CfgTypeOK
    <3>5. TheModule' \subseteq FnNames
      BY <2>9, <3>2, <2>get, <2>mod DEF BinaryApply, FnNames
    <3>6. ScopeTypeOK'
      BY <2>9, <3>5, <2>scp DEF BinaryApply, ScopeTypeOK, scopeVars
    <3> QED BY <3>3, <3>4, <3>6 DEF TypeOK
  <2>abt. ASSUME Abort PROVE TypeOK'
    BY <2>abt, <2>ctl, <2>mod, SameCfgScope DEF Abort, CtlTypeOK
  <2>10. CASE BinaryUnresolved
    BY <2>10, <2>abt DEF BinaryUnresolved
  <2>11. ASSUME NEW lhs \in VarNames \cup {NotVar}, AssignEnter(lhs) PROVE TypeOK'
    <3>1. [kind |-> "Assign", lhs |-> lhs] \in Frame
      BY DEF Frame
    <3>2. CtlTypeOK'
      BY <2>11, <3>1, <2>ctl, <2>stk, StackOps, GenChildType DEF AssignEnter, Enters
    <3> QED BY <2>11, <3>2, <2>mod, SameCfgScope DEF AssignEnter
  <2>sto. ASSUME NEW n \in VarNames, Resumes("Assign"), StoreTo(n) PROVE TypeOK'
    <3>1. CtlTypeOK'
      BY <2>sto, <2>res, <2>ctl, <2>val, <2>stk, ReturnType DEF StoreTo, Reject
    <3>2. CfgTypeOK'
      BY <2>sto, <2>res, <2>cfg, UsedHereType DEF StoreTo, CfgTypeOK
    <3>3. ScopeTypeOK'
      BY <2>sto, <2>scp DEF StoreTo, ScopeTypeOK, scopeVars, Reject
    <3> QED BY <3>1, <3>2, <3>3 DEF TypeOK
  <2>12. CASE AssignStore
    <3>1. Top.lhs \in VarNames
      BY <2>12, <2>res, FrameFields DEF AssignStore
    <3> QED BY <2>12, <3>1, <2>sto DEF AssignStore
  <2>13. CASE AssignWild
    <3>1. CASE \E n \in VarNames : StoreTo(n)
      BY <2>13, <3>1, <2>sto DEF AssignWild
    <3>2. CASE Reject(Below) /\ UNCHANGED <<nodes, cfgVars, scopeVars, TheModule>>
      <4>1. CtlTypeOK'
        BY <2>13, <3>2, <2>res, <2>ctl, <2>val, ReturnType DEF AssignWild, Reject
      <4> QED BY <3>2, <4>1, <2>mod, SameCfgScope DEF Reject
    <3> QED BY <2>13, <3>1, <3>2, <2>abt DEF AssignWild
  <2>14. ASSUME NEW f \in Callees, NEW nargs \in 0..MaxArgs, CallEnter(f, nargs) PROVE TypeOK'
    <3>1. nargs \in Nat
      BY BoundsAssumption
    <3>2. [kind |-> "CallArg", todo |-> nargs, argsV |-> {}] \in Frame
      BY <3>1 DEF Frame
    <3>3. CtlTypeOK'
      <4>1. Push([kind |-> "CallArg", todo |-> nargs, argsV |-> {}]) \in Seq(Frame)
        BY <3>2, <2>stk, StackOps
      <4>2. \/ ret' = Fail /\ ctl' = "return" /\ stack' = stack
            \/ ret' = insertBlock /\ ctl' = "return" /\ stack' = stack
            \/ /\ ret' = Const /\ ctl' = "call"
               /\ stack' = Push([kind |-> "CallArg", todo |-> nargs, argsV |-> {}])
        BY <2>14 DEF CallEnter, Reject, Return, GenChild
      <4>3. nodes' = nodes + 1
        BY <2>14 DEF CallEnter, Enters
      <4> QED BY <4>1, <4>2, <4>3, <2>stk, <2>val DEF CtlTypeOK
    <3>4. TheModule' \subseteq FnNames
      BY <2>14, <2>get DEF CallEnter, FnNames
    <3> QED BY <2>14, <3>3, <3>4, <2>mod, SameCfgScope DEF CallEnter, Reject
  <2>15. CASE CallArg
    <3>1. stack # <<>> /\ ret \in Nat /\ Top.kind = "CallArg" /\ Top \in Frame
      BY <2>15, <2>res DEF CallArg
    <3>2. [kind |-> "CallArg", todo |-> Top.todo - 1, argsV |-> Top.argsV \cup {ret}] \in Frame
      <4>1. Top.todo \in Nat /\ Top.argsV \subseteq Nat
        BY <3>1, FrameFields
      <4>2. Top.todo - 1 \in Nat
        BY <2>15, <4>1 DEF CallArg
      <4> QED BY <3>1, <4>1, <4>2 DEF Frame
    <3>3. CtlTypeOK'
      BY <2>15, <3>1, <3>2, <2>ctl, <2>stk, StackOps, GenChildType DEF CallArg
    <3> QED BY <2>15, <3>3, <2>mod, SameCfgScope DEF CallArg
  <2>16. CASE CallApply
    <3>1. stack # <<>> /\ ret \in Nat /\ Top.kind = "CallArg" /\ Top \in Frame /\ Below \in Seq(Frame)
      BY <2>16, <2>res DEF CallApply
    <3>2. Top.argsV \subseteq Nat
      BY <3>1, FrameFields
    <3>3. CtlTypeOK'
      BY <2>16, <3>1, <2>ctl, <2>val, ReturnType DEF CallApply
    <3>4. CfgTypeOK'
      BY <2>16, <3>1, <3>2, <2>cfg, UsedHereType DEF CallApply, CfgTypeOK
    <3>5. ScopeTypeOK'
      BY <2>16, <2>scp DEF CallApply, ScopeTypeOK, scopeVars
    <3> QED BY <3>3, <3>4, <3>5 DEF TypeOK
  <2>17. CASE IfEnter
    <3>1. [kind |-> "IfCond"] \in Frame
      BY DEF Frame
    <3>2. CtlTypeOK'
      BY <2>17, <3>1, <2>ctl, <2>stk, StackOps, GenChildType DEF IfEnter, Enters
    <3> QED BY <2>17, <3>2, <2>mod, SameCfgScope DEF IfEnter
  <2>18. CASE IfBranch
    <3>1. stack # <<>> /\ ret \in Nat
      BY <2>18, <2>res DEF IfBranch
    <3>2. CtlTypeOK'
      <4>1. [kind |-> "IfThen", ElseBB |-> nblocks + 2, MergeBB |-> nblocks + 3] \in Frame
        BY <2>cfg DEF CfgTypeOK, Frame
      <4> QED BY <2>18, <3>1, <4>1, <2>stk, <2>ctl, StackOps, GenChildType DEF IfBranch, CtlTypeOK
    <3>3. CfgTypeOK'
      BY <2>18, <3>1, <2>cfg, UsedHereType DEF IfBranch, CfgTypeOK
    <3>4. ScopeTypeOK'
      BY <2>18, <2>scp DEF IfBranch, ScopeTypeOK, scopeVars
    <3> QED BY <3>2, <3>3, <3>4 DEF TypeOK
  <2>19. CASE IfElse
    <3>1. stack # <<>> /\ ret \in Nat /\ Top.kind = "IfThen" /\ Top \in Frame
      BY <2>19, <2>res DEF IfElse
    <3>2. Top.ElseBB \in Nat /\ Top.MergeBB \in Nat
      BY <3>1, FrameFields
    <3>3. [kind |-> "IfElse", ThenV |-> ret, ThenBB |-> insertBlock, MergeBB |-> Top.MergeBB] \in Frame
      BY <3>1, <3>2, <2>cfg DEF CfgTypeOK, Frame
    <3>4. CtlTypeOK'
      BY <2>19, <3>1, <3>3, <2>stk, <2>ctl, StackOps, GenChildType DEF IfElse
    <3>5. CfgTypeOK'
      <4>1. uses' \subseteq Nat \X Nat /\ phis' \subseteq [block : Nat, incoming : SUBSET Nat]
        BY <2>19, <2>cfg DEF IfElse, CfgTypeOK
      <4> QED BY <2>19, <3>2, <4>1, <2>cfg, JumpType DEF IfElse
    <3>6. ScopeTypeOK'
      BY <2>19, <2>scp DEF IfElse, ScopeTypeOK, scopeVars
    <3> QED BY <3>4, <3>5, <3>6 DEF TypeOK
  <2>20. CASE IfMerge
    <3>1. stack # <<>> /\ ret \in Nat /\ Top.kind = "IfElse" /\ Top \in Frame /\ Below \in Seq(Frame)
      BY <2>20, <2>res DEF IfMerge
    <3>2. Top.ThenV \in Nat /\ Top.ThenBB \in Nat /\ Top.MergeBB \in Nat
      BY <3>1, FrameFields
    <3>3. CtlTypeOK'
      BY <2>20, <3>1, <3>2, <2>ctl, ReturnType DEF IfMerge, IfValue, Value
    <3>4. CfgTypeOK'
      <4>1. uses' \subseteq Nat \X Nat
        <5>1. {<<v, Top.ThenBB>> : v \in {Top.ThenV} \ {Const, Top.ThenBB}} \subseteq Nat \X Nat
          BY <3>2
        <5> QED BY <2>20, <3>1, <5>1, UsedHereType, <2>cfg DEF IfMerge
      <4>2. phis' \subseteq [block : Nat, incoming : SUBSET Nat]
        <5>1. PhiNode \in [block : Nat, incoming : SUBSET Nat]
          BY <3>2, <2>cfg DEF PhiNode, CfgTypeOK
        <5> QED BY <2>20, <5>1, <2>cfg DEF IfMerge, CfgTypeOK
      <4> QED BY <2>20, <3>2, <4>1, <4>2, <2>cfg, JumpType DEF IfMerge
    <3>5. ScopeTypeOK'
      BY <2>20, <2>scp DEF IfMerge, ScopeTypeOK, scopeVars
    <3> QED BY <3>3, <3>4, <3>5 DEF TypeOK
  <2>21. ASSUME NEW n \in VarNames, ForEnter(n) PROVE TypeOK'
    <3>1. [kind |-> "ForStart", name |-> n, alloca |-> nallocas + 1] \in Frame
      BY <2>scp DEF Frame, ScopeTypeOK
    <3>2. CtlTypeOK'
      BY <2>21, <3>1, <2>ctl, <2>stk, StackOps, GenChildType DEF ForEnter, Enters
    <3>3. CfgTypeOK'
      BY <2>21, <2>cfg DEF ForEnter, CfgTypeOK, cfgVars
    <3>4. ScopeTypeOK'
      BY <2>21, <2>scp DEF ForEnter, ScopeTypeOK
    <3> QED BY <3>2, <3>3, <3>4 DEF TypeOK
  <2>22. CASE ForLoop
    <3>1. stack # <<>> /\ ret \in Nat /\ Top.kind = "ForStart" /\ Top \in Frame
      BY <2>22, <2>res DEF ForLoop
    <3>2. Top.name \in VarNames /\ Top.alloca \in Nat
      BY <3>1, FrameFields
    <3> DEFINE b == [name |-> Top.name, alloca |-> Top.alloca, old |-> NamedValues[Top.name]]
    <3>3. b \in Binding
      BY <3>2, <2>scp DEF Binding, Alloca, ScopeTypeOK
    <3>4. [kind |-> "ForBody", bind |-> b, LoopBB |-> nblocks + 1] \in Frame
      BY <3>3, <2>cfg DEF Frame, CfgTypeOK
    <3>5. CtlTypeOK'
      BY <2>22, <3>1, <3>4, <2>stk, <2>ctl, StackOps, GenChildType DEF ForLoop
    <3>6. CfgTypeOK'
      BY <2>22, <3>1, <2>cfg, UsedHereType DEF ForLoop, CfgTypeOK
    <3>7. ScopeTypeOK'
      BY <2>22, <3>2, <2>scp DEF ForLoop, ScopeTypeOK, Alloca
    <3> QED BY <3>5, <3>6, <3>7 DEF TypeOK
  <2>23. CASE ForStep
    <3>1. stack # <<>> /\ Top.kind = "ForBody" /\ Top \in Frame
      BY <2>23, <2>res DEF ForStep
    <3>2. [Top EXCEPT !.kind = "ForStep"] \in Frame
      <4>1. /\ Top = [kind |-> "ForBody", bind |-> Top.bind, LoopBB |-> Top.LoopBB]
            /\ Top.bind \in Binding /\ Top.LoopBB \in Nat
        BY <3>1, FrameFields
      <4>2. [Top EXCEPT !.kind = "ForStep"] = [kind |-> "ForStep", bind |-> Top.bind, LoopBB |-> Top.LoopBB]
        BY <4>1
      <4> QED BY <4>1, <4>2 DEF Frame
    <3>3. CtlTypeOK'
      BY <2>23, <3>1, <3>2, <2>ctl, <2>stk, StackOps, GenChildType DEF ForStep
    <3> QED BY <2>23, <3>3, <2>mod, SameCfgScope DEF ForStep
  <2>24. CASE ForEnd
    <3>1. stack # <<>> /\ ret \in Nat /\ Top.kind = "ForStep" /\ Top \in Frame
      BY <2>24, <2>res DEF ForEnd
    <3>2. [kind |-> "ForEnd", bind |-> Top.bind, LoopBB |-> Top.LoopBB, StepVal |-> ret] \in Frame
      <4>1. Top.bind \in Binding /\ Top.LoopBB \in Nat
        BY <3>1, FrameFields
      <4> QED BY <3>1, <4>1 DEF Frame
    <3>3. CtlTypeOK'
      BY <2>24, <3>1, <3>2, <2>ctl, <2>stk, StackOps, GenChildType DEF ForEnd
    <3> QED BY <2>24, <3>3, <2>mod, SameCfgScope DEF ForEnd
  <2>25. CASE ForExit
    <3>1. stack # <<>> /\ ret \in Nat /\ Top.kind = "ForEnd" /\ Top \in Frame /\ Below \in Seq(Frame)
      BY <2>25, <2>res DEF ForExit
    <3>2. Top.bind \in Binding /\ Top.LoopBB \in Nat /\ Top.StepVal \in Nat
      BY <3>1, FrameFields
    <3>3. CtlTypeOK'
      BY <2>25, <3>1, <2>ctl, <2>val, ReturnType DEF ForExit
    <3>4. CfgTypeOK'
      <4>1. edges' \subseteq Nat \X Nat
        BY <2>25, <3>2, <2>cfg DEF ForExit, CfgTypeOK
      <4>2. uses' \subseteq Nat \X Nat
        BY <2>25, <3>1, <3>2, <2>cfg, UsedHereType DEF ForExit
      <4> QED BY <2>25, <4>1, <4>2, <2>cfg DEF ForExit, CfgTypeOK
    <3>5. ScopeTypeOK'
      <4>1. Top.bind.old \in Alloca
        BY <3>2 DEF Binding
      <4> QED BY <2>25, <4>1, <2>scp DEF ForExit, ScopeTypeOK
    <3> QED BY <3>3, <3>4, <3>5 DEF TypeOK
  <2>26. ASSUME NEW names \in VarLists, VarEnter(names) PROVE TypeOK'
    <3>1. names \in Seq(VarNames) \ {<<>>}
      <4>1. PICK k \in 1..MaxVars : names \in [1..k -> VarNames]
        BY DEF VarLists
      <4>2. k \in Nat
        BY <4>1, BoundsAssumption
      <4>3. names \in Seq(VarNames)
        BY <4>1, <4>2, SeqDef
      <4>4. names # <<>>
        <5>1. DOMAIN names = 1..k /\ 1 \in 1..k
          BY <4>1, <4>2
        <5>2. DOMAIN <<>> = 1..0
          OBVIOUS
        <5> QED BY <5>1, <5>2
      <4> QED BY <4>3, <4>4
    <3>2. [kind |-> "VarInit", todo |-> names, binds |-> <<>>] \in Frame
      <4>1. <<>> \in Seq(Binding)
        BY EmptySeq
      <4> QED BY <3>1, <4>1 DEF Frame
    <3>3. CtlTypeOK'
      BY <2>26, <3>2, <2>ctl, <2>stk, StackOps, GenChildType DEF VarEnter, Enters
    <3> QED BY <2>26, <3>3, <2>mod, SameCfgScope DEF VarEnter
  <2>27. CASE VarBind
    <3>1. stack # <<>> /\ ret \in Nat /\ Top.kind = "VarInit" /\ Top \in Frame
      BY <2>27, <2>res DEF VarBind
    <3>2. Top.todo \in Seq(VarNames) \ {<<>>} /\ Top.binds \in Seq(Binding)
      BY <3>1, FrameFields
    <3> DEFINE b == [name |-> Head(Top.todo), alloca |-> nallocas + 1, old |-> NamedValues[Head(Top.todo)]]
               f == IF Len(Top.todo) > 1
                      THEN [kind |-> "VarInit", todo |-> Tail(Top.todo), binds |-> Append(Top.binds, b)]
                      ELSE [kind |-> "VarBody", binds |-> Append(Top.binds, b)]
    <3>3. Top.todo # <<>> /\ Head(Top.todo) \in VarNames
      BY <3>2, HeadTailProperties
    <3>4. b \in Binding
      BY <3>3, <2>scp DEF Binding, Alloca, ScopeTypeOK
    <3>5. f \in Frame
      <4>1. Append(Top.binds, b) \in Seq(Binding)
        BY <3>2, <3>4, AppendProperties
      <4>2. Len(Top.todo) > 1 => Tail(Top.todo) \in Seq(VarNames) \ {<<>>}
        <5>1. Tail(Top.todo) \in Seq(VarNames) /\ Len(Tail(Top.todo)) = Len(Top.todo) - 1
          BY <3>2, HeadTailProperties
        <5>2. Len(Top.todo) > 1 => Len(Tail(Top.todo)) # 0
          <6> DEFINE m == Len(Top.todo)
          <6>1. m \in Nat /\ Len(Tail(Top.todo)) = m - 1
            BY <3>2, <5>1, LenProperties
          <6> HIDE DEF m
          <6>2. m > 1 => m - 1 # 0
            BY <6>1
          <6> QED BY <6>1, <6>2 DEF m
        <5>3. Len(<<>>) = 0
          OBVIOUS
        <5> QED BY <5>1, <5>2, <5>3
      <4> QED BY <4>1, <4>2 DEF Frame
    <3>6. CtlTypeOK'
      <4>1. GenChild(ReplaceTop(f))
        BY <2>27 DEF VarBind
      <4> QED BY <2>27, <4>1, <3>1, <3>5, <2>ctl, <2>stk, StackOps, GenChildType DEF VarBind
    <3>7. CfgTypeOK'
      BY <2>27, <3>1, <2>cfg, UsedHereType DEF VarBind, CfgTypeOK
    <3>8. ScopeTypeOK'
      BY <2>27, <3>3, <2>scp DEF VarBind, ScopeTypeOK, Alloca
    <3> QED BY <3>6, <3>7, <3>8 DEF TypeOK
  <2>28. CASE VarExit
    <3>1. stack # <<>> /\ ret \in Nat /\ Top.kind = "VarBody" /\ Top \in Frame /\ Below \in Seq(Frame)
      BY <2>28, <2>res DEF VarExit
    <3>2. CtlTypeOK'
      BY <2>28, <3>1, <2>ctl, <2>stk, ReturnType DEF VarExit
    <3>3. CfgTypeOK'
      BY <2>28, <2>cfg DEF VarExit, CfgTypeOK, cfgVars
    <3>4. ScopeTypeOK'
      <4>1. Restore(NamedValues, Top.binds) \in [VarNames -> Alloca]
        BY <3>1, <2>scp, FrameFields, RestoreType DEF ScopeTypeOK
      <4> QED BY <2>28, <4>1, <2>scp DEF VarExit, ScopeTypeOK
    <3> QED BY <3>2, <3>3, <3>4 DEF TypeOK
  <2>29. ASSUME NEW ps \in ParamLists, FunctionEnter(ps) PROVE TypeOK'
    <3>1. ps \in Seq(VarNames)
      BY ParamListsType
    <3>2. CtlTypeOK'
      <4>1. <<>> \in Seq(Frame)
        BY EmptySeq
      <4> QED BY <2>29, <4>1, <2>ctl, GenChildType DEF FunctionEnter
    <3>3. CfgTypeOK'
      BY <2>29 DEF FunctionEnter, CfgTypeOK, Entry
    <3>4. ScopeTypeOK'
      <4>1. ArgTable(ps) \in [VarNames -> Alloca]
        BY <3>1, LenProperties DEF ArgTable, ArgAlloca, Alloca, Null
      <4>2. Len(ps) \in Nat
        BY <3>1, LenProperties
      <4> QED BY <2>29, <3>1, <4>1, <4>2, <2>mod DEF FunctionEnter, ScopeTypeOK
    <3> QED BY <3>2, <3>3, <3>4 DEF TypeOK
  <2>lft. Leftover \in [VarNames -> Alloca]
    BY DEF Leftover, Null, Stale, Alloca
  <2>30. CASE FunctionAccept
    <3>1. ret \in Nat
      BY <2>30, <2>stk DEF FunctionAccept, Value, Fail
    <3>2. CtlTypeOK'
      BY <2>30, <2>stk, <2>val DEF FunctionAccept, CtlTypeOK
    <3>3. CfgTypeOK'
      BY <2>30, <3>1, <2>cfg, UsedHereType DEF FunctionAccept, CfgTypeOK
    <3>4. ScopeTypeOK'
      BY <2>30, <2>lft, <2>scp DEF FunctionAccept, ScopeTypeOK
    <3> QED BY <3>2, <3>3, <3>4 DEF TypeOK
  <2>31. CASE FunctionErase
    <3>1. CtlTypeOK'
      BY <2>31, <2>stk, <2>val DEF FunctionErase, CtlTypeOK
    <3>2. CfgTypeOK'
      BY <2>31 DEF FunctionErase, CfgTypeOK
    <3>3. ScopeTypeOK'
      BY <2>31, <2>lft, <2>scp DEF FunctionErase, ScopeTypeOK
    <3> QED BY <3>1, <3>2, <3>3 DEF TypeOK
  <2>32. CASE UNCHANGED vars
    <3>1. CtlTypeOK'
      BY <2>32, <2>ctl DEF vars, ctlVars, CtlTypeOK
    <3> QED BY <2>32, <3>1, <2>mod, SameCfgScope DEF vars
  <2>33. CASE Gone
    BY <2>33, <2>32 DEF Gone
  <2>34. CASE Expr
    BY <2>34, <2>1, <2>2, <2>4, <2>6, <2>11, <2>14, <2>17, <2>21, <2>26 DEF Expr
  <2>35. CASE Resume
    BY <2>35, <2>3, <2>5, <2>7, <2>8, <2>9, <2>10, <2>12, <2>13, <2>15, <2>16, <2>18, <2>19,
       <2>20, <2>22, <2>23, <2>24, <2>25, <2>27, <2>28 DEF Resume
  <2> QED
    BY <2>29, <2>30, <2>31, <2>32, <2>33, <2>34, <2>35 DEF Next
<1> QED
  BY <1>1, <1>2, PTL DEF Spec

----------------------------------------------------------------------------
(* A failure is never lost.  While it is under way it is either the value  *)
(* just returned or the left operand kept by some waiting BinaryExprAST;   *)
(* FailureInv says that there is no third place.                           *)

FailedFrame(f) == f.kind = "BinaryRHS" /\ f.L = Fail
HasFailed(s) == \E i \in 1..Len(s) : FailedFrame(s[i])

FailureInv ==
  /\ ctl = "call" => ret = Const
  /\ Live => (errorLogged <=> ret = Fail \/ HasFailed(stack))
  /\ FailureNeverAccepted

\* What Push and ReplaceTop do to the activations, whatever the new frame is.
LEMMA StackShape ==
  ASSUME stack \in Seq(Frame), NEW f
  PROVE  /\ Len(stack) \in Nat /\ Len(Push(f)) = Len(stack) + 1
         /\ \A i \in 1..Len(stack) : Push(f)[i] = stack[i]
         /\ Push(f)[Len(stack) + 1] = f
         /\ stack # <<>> => /\ Len(ReplaceTop(f)) = Len(stack)
                            /\ ReplaceTop(f)[Len(stack)] = f
                            /\ \A i \in 1..Len(stack) - 1 : ReplaceTop(f)[i] = stack[i]
<1> DEFINE S == Frame \cup {f}
<1>1. stack \in Seq(S) /\ f \in S
  BY SeqMonotonic
<1> HIDE DEF S
<1>2. /\ Len(Push(f)) = Len(stack) + 1 /\ Push(f)[Len(stack) + 1] = f
      /\ \A i \in 1..Len(stack) : Push(f)[i] = stack[i]
  BY <1>1, AppendProperties DEF Push
<1>3. Len(stack) \in Nat /\ (stack # <<>> => Len(stack) \in 1..Len(stack))
  BY <1>1, LenProperties, EmptySeq
<1>4. ASSUME stack # <<>>
      PROVE  /\ Len(ReplaceTop(f)) = Len(stack)
             /\ ReplaceTop(f)[Len(stack)] = f
             /\ \A i \in 1..Len(stack) - 1 : ReplaceTop(f)[i] = stack[i]
  BY <1>1, <1>3, <1>4, ExceptSeq DEF ReplaceTop
<1> QED
  BY <1>2, <1>3, <1>4

\* Which activations remember a failed left operand, as the stack changes.
LEMMA HasFailedOps ==
  ASSUME stack \in Seq(Frame)
  PROVE  /\ ~HasFailed(<<>>)
         /\ \A f : HasFailed(Push(f)) <=> FailedFrame(f) \/ HasFailed(stack)
         /\ stack # <<>> =>
              /\ HasFailed(stack) <=> FailedFrame(Top) \/ HasFailed(Below)
              /\ \A f : HasFailed(ReplaceTop(f)) <=> FailedFrame(f) \/ HasFailed(Below)
<1>1. ~HasFailed(<<>>)
  BY DEF HasFailed
<1>2. ASSUME NEW f
      PROVE  HasFailed(Push(f)) <=> FailedFrame(f) \/ HasFailed(stack)
  <2>1. /\ Len(stack) \in Nat /\ Len(Push(f)) = Len(stack) + 1
        /\ \A i \in 1..Len(stack) : Push(f)[i] = stack[i]
        /\ Push(f)[Len(stack) + 1] = f
    BY StackShape
  <2>2. \A i \in 1..Len(Push(f)) : i \in 1..Len(stack) \/ i = Len(stack) + 1
    BY <2>1
  <2>3. 1..Len(stack) \subseteq 1..Len(Push(f)) /\ Len(stack) + 1 \in 1..Len(Push(f))
    BY <2>1
  <2> QED BY <2>1, <2>2, <2>3 DEF HasFailed
<1>3. ASSUME stack # <<>>
      PROVE  /\ HasFailed(stack) <=> FailedFrame(Top) \/ HasFailed(Below)
             /\ \A f : HasFailed(ReplaceTop(f)) <=> FailedFrame(f) \/ HasFailed(Below)
  <2>1. /\ Len(stack) \in Nat \ {0} /\ Len(Below) = Len(stack) - 1
        /\ \A i \in 1..Len(stack) - 1 : Below[i] = stack[i]
        /\ \A f : /\ Len(ReplaceTop(f)) = Len(stack)
                            /\ ReplaceTop(f)[Len(stack)] = f
                            /\ \A i \in 1..Len(stack) - 1 : ReplaceTop(f)[i] = stack[i]
    BY <1>3, StackOps, StackShape
  <2>2. /\ \A i \in 1..Len(stack) : i \in 1..Len(stack) - 1 \/ i = Len(stack)
        /\ 1..Len(stack) - 1 \subseteq 1..Len(stack) /\ Len(stack) \in 1..Len(stack)
    BY <2>1
  <2>3. HasFailed(stack) <=> FailedFrame(Top) \/ HasFailed(Below)
    BY <2>1, <2>2 DEF HasFailed, Top
  <2>4. ASSUME NEW f
        PROVE  HasFailed(ReplaceTop(f)) <=> FailedFrame(f) \/ HasFailed(Below)
    BY <2>1, <2>2 DEF HasFailed
  <2> QED BY <2>3, <2>4
<1> QED
  BY <1>1, <1>2, <1>3

\* FailureInv is an invariant: a step per action, each an instance of one of
\* the few ways in which an action changes the activations.
LEMMA FailureInvariant == Spec => []FailureInv
<1>1. Init => FailureInv
  BY DEF Init, FailureInv, FailureNeverAccepted, Live
<1>2. TypeOK /\ FailureInv /\ [Next]_vars => FailureInv'
  <2> SUFFICES ASSUME TypeOK, FailureInv, [Next]_vars PROVE FailureInv'
    OBVIOUS
  <2>typ. stack \in Seq(Frame) /\ ret \in Value /\ insertBlock \in Nat /\ errorLogged \in BOOLEAN
    BY DEF TypeOK, CtlTypeOK, CfgTypeOK, ScopeTypeOK
  <2>inv. /\ ctl = "call" => ret = Const
          /\ Live => (errorLogged <=> ret = Fail \/ HasFailed(stack))
    BY DEF FailureInv
  \* A child is generated next, below a new frame that keeps no failure.
  <2>push. ASSUME NEW f, ~FailedFrame(f), ctl = "call", GenChild(Push(f)), UNCHANGED errorLogged
           PROVE  FailureInv'
    <3>1. HasFailed(Push(f)) <=> HasFailed(stack)
      BY <2>push, <2>typ, HasFailedOps
    <3> QED BY <3>1, <2>push, <2>inv DEF GenChild, FailureInv, FailureNeverAccepted, Live, Const, Fail
  \* A leaf returns a value.
  <2>leaf. ASSUME NEW v \in Nat, ctl = "call", Return(v, stack), UNCHANGED errorLogged
           PROVE  FailureInv'
    BY <2>leaf, <2>inv DEF Return, FailureInv, FailureNeverAccepted, Live, Const, Fail
  \* Something is rejected.
  <2>rej. ASSUME NEW s, Reject(s) PROVE FailureInv'
    BY <2>rej DEF Reject, Return, FailureInv, FailureNeverAccepted, Live, Fail
  \* An activation that keeps no failure goes on to its next child.
  <2>next. ASSUME NEW k, Resumes(k), ~FailedFrame(Top), NEW f, ~FailedFrame(f),
                  GenChild(ReplaceTop(f)), UNCHANGED errorLogged
           PROVE  FailureInv'
    <3>1. HasFailed(ReplaceTop(f)) <=> HasFailed(stack)
      BY <2>next, <2>typ, HasFailedOps DEF Resumes
    <3> QED BY <3>1, <2>next, <2>inv
            DEF Resumes, GenChild, FailureInv, FailureNeverAccepted, Live, Const, Fail
  \* An activation that keeps no failure returns a value.
  <2>done. ASSUME NEW k, Resumes(k), ~FailedFrame(Top), NEW v \in Nat,
                  Return(v, Below), UNCHANGED errorLogged
           PROVE  FailureInv'
    <3>1. HasFailed(Below) <=> HasFailed(stack)
      BY <2>done, <2>typ, HasFailedOps DEF Resumes
    <3> QED BY <3>1, <2>done, <2>inv
            DEF Resumes, Return, FailureInv, FailureNeverAccepted, Live, Fail
  <2>kind. ASSUME NEW k, Resumes(k), k # "BinaryRHS" PROVE ~FailedFrame(Top)
    BY <2>kind DEF Resumes, FailedFrame
  <2>val. ASSUME NEW k, Resumes(k) PROVE ret \in Nat
    BY <2>val, <2>typ DEF Resumes, Value, Fail
  <2>abt. ASSUME Abort PROVE FailureInv'
    BY <2>abt, <2>inv DEF Abort, FailureInv, FailureNeverAccepted, Live
  <2>1. CASE NumberExpr
    BY <2>1, <2>leaf DEF NumberExpr, Const
  <2>2. ASSUME NEW n \in VarNames, VariableExpr(n) PROVE FailureInv'
    BY <2>2, <2>leaf, <2>rej, <2>typ DEF VariableExpr
  <2>3. CASE Propagate
    <3>1. Live /\ errorLogged
      BY <2>3, <2>inv DEF Propagate, Live
    <3> QED BY <3>1, <2>3 DEF Propagate, Return, FailureInv, FailureNeverAccepted, Live
  <2>4. ASSUME NEW op \in UnaryOps, UnaryEnter(op) PROVE FailureInv'
    BY <2>4, <2>push DEF UnaryEnter, Enters, FailedFrame
  <2>5. CASE UnaryApply
    BY <2>5, <2>done, <2>rej, <2>kind, <2>typ DEF UnaryApply
  <2>6. ASSUME NEW op \in UserOps \cup {Arith}, BinaryEnter(op) PROVE FailureInv'
    BY <2>6, <2>push DEF BinaryEnter, Enters, FailedFrame
  <2>7. CASE BinaryLHS
    <3> DEFINE f == [kind |-> "BinaryRHS", op |-> Top.op, L |-> ret]
    <3>1. FailedFrame(f) <=> ret = Fail
      BY DEF FailedFrame
    <3>2. ~FailedFrame(Top)
      BY <2>7 DEF BinaryLHS, FailedFrame
    <3>3. HasFailed(ReplaceTop(f)) <=> ret = Fail \/ HasFailed(stack)
      BY <2>7, <3>1, <3>2, <2>typ, HasFailedOps DEF BinaryLHS
    <3> QED BY <3>3, <2>7, <2>inv
            DEF BinaryLHS, GenChild, FailureInv, FailureNeverAccepted, Live, Const, Fail
  <2>8. CASE BinaryLeftFailed
    <3>1. FailedFrame(Top) /\ stack # <<>> /\ Live
      BY <2>8 DEF BinaryLeftFailed, Resumes, FailedFrame, Live
    <3>2. errorLogged
      BY <3>1, <2>typ, <2>inv, HasFailedOps
    <3> QED BY <3>2, <2>8 DEF BinaryLeftFailed, Return, FailureInv, FailureNeverAccepted, Live
  <2>9. CASE BinaryApply
    <3>1. ~FailedFrame(Top)
      BY <2>9 DEF BinaryApply, FailedFrame
    <3> QED BY <2>9, <3>1, <2>done, <2>typ DEF BinaryApply
  <2>10. CASE BinaryUnresolved
    BY <2>10, <2>abt DEF BinaryUnresolved
  <2>11. ASSUME NEW lhs \in VarNames \cup {NotVar}, AssignEnter(lhs) PROVE FailureInv'
    BY <2>11, <2>push DEF AssignEnter, Enters, FailedFrame
  <2>sto. ASSUME NEW n \in VarNames, Resumes("Assign"), StoreTo(n) PROVE FailureInv'
    BY <2>sto, <2>done, <2>rej, <2>kind, <2>val DEF StoreTo
  <2>12. CASE AssignStore
    BY <2>12, <2>sto, <2>rej, <2>typ, FrameFields, StackOps DEF AssignStore, Resumes
  <2>13. CASE AssignWild
    BY <2>13, <2>sto, <2>rej, <2>abt DEF AssignWild
  <2>14. ASSUME NEW f \in Callees, NEW nargs \in 0..MaxArgs, CallEnter(f, nargs) PROVE FailureInv'
    BY <2>14, <2>push, <2>leaf, <2>rej, <2>typ DEF CallEnter, Enters, FailedFrame
  <2>15. CASE CallArg
    BY <2>15, <2>next, <2>kind DEF CallArg, FailedFrame
  <2>16. CASE CallApply
    BY <2>16, <2>done, <2>kind, <2>typ DEF CallApply
  <2>17. CASE IfEnter
    BY <2>17, <2>push DEF IfEnter, Enters, FailedFrame
  <2>18. CASE IfBranch
    BY <2>18, <2>next, <2>kind DEF IfBranch, FailedFrame
  <2>19. CASE IfElse
    BY <2>19, <2>next, <2>kind DEF IfElse, FailedFrame
  <2>20. CASE IfMerge
    <3>1. Top.MergeBB \in Nat
      BY <2>20, <2>typ, FrameFields, StackOps DEF IfMerge, Resumes
    <3> QED BY <2>20, <3>1, <2>done, <2>kind DEF IfMerge, IfValue
  <2>21. ASSUME NEW n \in VarNames, ForEnter(n) PROVE FailureInv'
    BY <2>21, <2>push DEF ForEnter, Enters, FailedFrame
  <2>22. CASE ForLoop
    BY <2>22, <2>next, <2>kind DEF ForLoop, FailedFrame
  <2>23. CASE ForStep
    <3>1. ~FailedFrame([Top EXCEPT !.kind = "ForStep"])
      <4>1. Top = [kind |-> "ForBody", bind |-> Top.bind, LoopBB |-> Top.LoopBB]
        BY <2>23, <2>typ, FrameFields, StackOps DEF ForStep, Resumes
      <4> QED BY <4>1 DEF FailedFrame
    <3> QED BY <2>23, <3>1, <2>next, <2>kind DEF ForStep
  <2>24. CASE ForEnd
    BY <2>24, <2>next, <2>kind DEF ForEnd, FailedFrame
  <2>25. CASE ForExit
    BY <2>25, <2>done, <2>kind DEF ForExit, Const
  <2>26. ASSUME NEW names \in VarLists, VarEnter(names) PROVE FailureInv'
    BY <2>26, <2>push DEF VarEnter, Enters, FailedFrame
  <2>27. CASE VarBind
    BY <2>27, <2>next, <2>kind DEF VarBind, FailedFrame
  <2>28. CASE VarExit
    BY <2>28, <2>done, <2>kind, <2>val DEF VarExit
  <2>29. ASSUME NEW ps \in ParamLists, FunctionEnter(ps) PROVE FailureInv'
    <3>1. ~HasFailed(<<>>)
      BY <2>typ, HasFailedOps
    <3> QED BY <2>29, <3>1 DEF FunctionEnter, GenChild, FailureInv, FailureNeverAccepted, Live, Const, Fail
  <2>30. CASE FunctionAccept
    <3>1. ~errorLogged
      BY <2>30, <2>inv, <2>typ, HasFailedOps DEF FunctionAccept, Live
    <3> QED BY <2>30, <3>1 DEF FunctionAccept, FailureInv, FailureNeverAccepted, Live
  <2>31. CASE FunctionErase
    BY <2>31, <2>inv DEF FunctionErase, FailureInv, FailureNeverAccepted, Live
  <2>32. CASE UNCHANGED vars
    <3>1. UNCHANGED <<ctl, ret, stack, errorLogged>>
      BY <2>32 DEF vars, ctlVars
    <3> QED BY <3>1 DEF FailureInv, FailureNeverAccepted, Live, HasFailed, FailedFrame
  <2>33. CASE Gone
    BY <2>33, <2>32 DEF Gone
  <2>34. CASE Expr
    BY <2>34, <2>1, <2>2, <2>4, <2>6, <2>11, <2>14, <2>17, <2>21, <2>26 DEF Expr
  <2>35. CASE Resume
    BY <2>35, <2>3, <2>5, <2>7, <2>8, <2>9, <2>10, <2>12, <2>13, <2>15, <2>16, <2>18, <2>19,
       <2>20, <2>22, <2>23, <2>24, <2>25, <2>27, <2>28 DEF Resume
  <2> QED
    BY <2>29, <2>30, <2>31, <2>32, <2>33, <2>34, <2>35 DEF Next
<1> QED
  BY <1>1, <1>2, TypeCorrect, PTL DEF Spec

\* For every set of names and prototypes and every body: a function is
\* accepted only if no error was reported while its body was generated, and
\* erased only if one was.
THEOREM FailuresPropagate == Spec => []FailureNeverAccepted
<1>1. FailureInv => FailureNeverAccepted
  BY DEF FailureInv
<1> QED
  BY <1>1, FailureInvariant, PTL
=============================================================================

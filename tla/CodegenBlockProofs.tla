------------------------- MODULE CodegenBlockProofs -------------------------
(***************************************************************************)
(* The control flow graph that code generation builds, for every program.  *)
(*                                                                         *)
(* The argument is about the blocks that wait on the call stack: the       *)
(* "else" and "ifcont" blocks that an IfExprAST has created and not yet    *)
(* placed.  They are new, they belong to one activation each, and nothing  *)
(* jumps to them but the branches of their own if.                         *)
(***************************************************************************)
EXTENDS CodegenProofs

\* The blocks that an activation has created and not yet placed.
Pending(f) ==
  CASE f.kind = "IfThen" -> {f.ElseBB, f.MergeBB}
    [] f.kind = "IfElse" -> {f.MergeBB}
    [] OTHER             -> {}

PredsIn(ed, b) == {e[1] : e \in {e \in ed : e[2] = b}}

IsFor(f) == f.kind \in {"ForBody", "ForStep", "ForEnd"}

\* An activation and the graph (placed blocks pl, n blocks created, edges ed,
\* PHI nodes ph): pending blocks are new, the PHI node of an if will find as
\* many predecessors as branches done, and a loop's back edge reaches no PHI.
FrameOK(f, pl, n, ed, ph) ==
  /\ Pending(f) \subseteq 1..n /\ Pending(f) \cap pl = {}
  /\ f.kind = "IfThen" => f.ElseBB # f.MergeBB /\ PredsIn(ed, f.MergeBB) = {}
  /\ f.kind = "IfElse" => PredsIn(ed, f.MergeBB) = {f.ThenBB}
  /\ IsFor(f) => f.LoopBB \in pl /\ \A p \in ph : p.block # f.LoopBB

Disjoint(s) ==
  \A i, j \in 1..Len(s) : i # j => Pending(s[i]) \cap Pending(s[j]) = {}

\* The activations of a stack are all in order.
AllOK(s, pl, n, ed, ph) == \A i \in 1..Len(s) : FrameOK(s[i], pl, n, ed, ph)

BlockInv ==
  /\ OneOpenBlock
  /\ PhiMatchesPreds
  /\ placed \subseteq 1..nblocks
  /\ \A e \in edges : e[2] \in 1..nblocks
  /\ \A p \in phis : p.block \in placed
  /\ AllOK(stack, placed, nblocks, edges, phis)
  /\ Disjoint(stack)

----------------------------------------------------------------------------

\* An activation stays in order when the graph grows by blocks, edges and PHI
\* nodes that have nothing to do with the blocks it waits for.
LEMMA FrameGrows ==
  ASSUME NEW f, NEW pl, NEW n \in Nat, NEW ed, NEW ph, FrameOK(f, pl, n, ed, ph),
         NEW m \in Nat, n <= m, NEW b, b \notin Pending(f),
         NEW E, \A e \in E : e[2] \notin Pending(f),
         NEW P, \A p \in P : p.block \notin pl
  PROVE  FrameOK(f, pl \cup {b}, m, ed \cup E, ph \cup P)
<1>1. \A c \in Pending(f) : PredsIn(ed \cup E, c) = PredsIn(ed, c)
  BY DEF PredsIn
<1>2. Pending(f) \subseteq 1..m /\ Pending(f) \cap (pl \cup {b}) = {}
  BY DEF FrameOK
<1>3. f.kind = "IfThen" => f.ElseBB # f.MergeBB /\ PredsIn(ed \cup E, f.MergeBB) = {}
  BY <1>1 DEF FrameOK, Pending
<1>4. f.kind = "IfElse" => PredsIn(ed \cup E, f.MergeBB) = {f.ThenBB}
  BY <1>1 DEF FrameOK, Pending
<1>5. IsFor(f) => f.LoopBB \in pl \cup {b} /\ \A p \in ph \cup P : p.block # f.LoopBB
  BY DEF FrameOK
<1> QED
  BY <1>2, <1>3, <1>4, <1>5 DEF FrameOK

\* Pending blocks stay apart when an activation starts, goes on or ends.
LEMMA DisjointOps ==
  ASSUME stack \in Seq(Frame), Disjoint(stack)
  PROVE  /\ \A f : Pending(f) = {} => Disjoint(Push(f))
         /\ stack # <<>> =>
              /\ Disjoint(Below)
              /\ \A f : (\A i \in 1..Len(stack) - 1 : Pending(stack[i]) \cap Pending(f) = {})
                          => Disjoint(ReplaceTop(f))
<1>1. ASSUME NEW f, Pending(f) = {} PROVE Disjoint(Push(f))
  <2>1. /\ Len(stack) \in Nat /\ Len(Push(f)) = Len(stack) + 1
        /\ \A i \in 1..Len(stack) : Push(f)[i] = stack[i]
        /\ Push(f)[Len(stack) + 1] = f
    BY StackShape
  <2>2. \A i \in 1..Len(Push(f)) : i \in 1..Len(stack) \/ i = Len(stack) + 1
    BY <2>1
  <2> QED BY <1>1, <2>1, <2>2 DEF Disjoint
<1>2. ASSUME stack # <<>> PROVE Disjoint(Below)
  <2>1. /\ Len(stack) \in Nat \ {0} /\ Len(Below) = Len(stack) - 1
        /\ \A i \in 1..Len(stack) - 1 : Below[i] = stack[i]
    BY <1>2, StackOps
  <2>2. 1..Len(Below) = 1..Len(stack) - 1 /\ 1..Len(stack) - 1 \subseteq 1..Len(stack)
    BY <2>1
  <2>3. ASSUME NEW i \in 1..Len(Below), NEW j \in 1..Len(Below), i # j
        PROVE  Pending(Below[i]) \cap Pending(Below[j]) = {}
    BY <2>1, <2>2, <2>3 DEF Disjoint
  <2> QED BY <2>3 DEF Disjoint
<1>3. ASSUME stack # <<>>, NEW f,
             \A i \in 1..Len(stack) - 1 : Pending(stack[i]) \cap Pending(f) = {}
      PROVE  Disjoint(ReplaceTop(f))
  <2>1. /\ Len(stack) \in Nat \ {0} /\ Len(ReplaceTop(f)) = Len(stack)
        /\ ReplaceTop(f)[Len(stack)] = f
        /\ \A i \in 1..Len(stack) - 1 : ReplaceTop(f)[i] = stack[i]
    BY <1>3, StackOps, StackShape
  <2>2. \A i \in 1..Len(stack) : i \in 1..Len(stack) - 1 \/ i = Len(stack)
    BY <2>1
  <2>3. 1..Len(stack) - 1 \subseteq 1..Len(stack)
    BY <2>1
  <2> QED BY <1>3, <2>1, <2>2, <2>3 DEF Disjoint
<1> QED
  BY <1>1, <1>2, <1>3

\* The activations stay in order when one starts, goes on or ends.
LEMMA AllOKOps ==
  ASSUME stack \in Seq(Frame), NEW pl, NEW n, NEW ed, NEW ph
  PROVE  /\ AllOK(<<>>, pl, n, ed, ph)
         /\ \A f : AllOK(stack, pl, n, ed, ph) /\ FrameOK(f, pl, n, ed, ph)
                     => AllOK(Push(f), pl, n, ed, ph)
         /\ stack # <<>> =>
              /\ AllOK(stack, pl, n, ed, ph) <=> AllOK(Below, pl, n, ed, ph) /\ FrameOK(Top, pl, n, ed, ph)
              /\ \A f : AllOK(Below, pl, n, ed, ph) /\ FrameOK(f, pl, n, ed, ph)
                          => AllOK(ReplaceTop(f), pl, n, ed, ph)
<1>1. AllOK(<<>>, pl, n, ed, ph)
  BY DEF AllOK
<1>2. ASSUME NEW f, AllOK(stack, pl, n, ed, ph), FrameOK(f, pl, n, ed, ph)
      PROVE  AllOK(Push(f), pl, n, ed, ph)
  <2>1. /\ Len(stack) \in Nat /\ Len(Push(f)) = Len(stack) + 1
        /\ \A i \in 1..Len(stack) : Push(f)[i] = stack[i]
        /\ Push(f)[Len(stack) + 1] = f
    BY StackShape
  <2>2. \A i \in 1..Len(Push(f)) : i \in 1..Len(stack) \/ i = Len(stack) + 1
    BY <2>1
  <2> QED BY <1>2, <2>1, <2>2 DEF AllOK
<1>3. ASSUME stack # <<>>
      PROVE  /\ AllOK(stack, pl, n, ed, ph) <=> AllOK(Below, pl, n, ed, ph) /\ FrameOK(Top, pl, n, ed, ph)
             /\ \A f : AllOK(Below, pl, n, ed, ph) /\ FrameOK(f, pl, n, ed, ph)
                         => AllOK(ReplaceTop(f), pl, n, ed, ph)
  <2>1. /\ Len(stack) \in Nat \ {0} /\ Len(Below) = Len(stack) - 1
        /\ \A i \in 1..Len(stack) - 1 : Below[i] = stack[i]
        /\ \A f : /\ Len(ReplaceTop(f)) = Len(stack)
                  /\ ReplaceTop(f)[Len(stack)] = f
                  /\ \A i \in 1..Len(stack) - 1 : ReplaceTop(f)[i] = stack[i]
    BY <1>3, StackOps, StackShape
  <2>2. /\ \A i \in 1..Len(stack) : i \in 1..Len(stack) - 1 \/ i = Len(stack)
        /\ 1..Len(stack) - 1 \subseteq 1..Len(stack) /\ Len(stack) \in 1..Len(stack)
    BY <2>1
  <2>3. AllOK(stack, pl, n, ed, ph) <=> AllOK(Below, pl, n, ed, ph) /\ FrameOK(Top, pl, n, ed, ph)
    BY <2>1, <2>2 DEF AllOK, Top
  <2>4. ASSUME NEW f, AllOK(Below, pl, n, ed, ph), FrameOK(f, pl, n, ed, ph)
        PROVE  AllOK(ReplaceTop(f), pl, n, ed, ph)
    BY <2>1, <2>2, <2>4 DEF AllOK
  <2> QED BY <2>3, <2>4
<1> QED
  BY <1>1, <1>2, <1>3

\* What BlockInv says of the graph, apart from the activations.
GraphInv ==
  /\ Live => terminated \subseteq placed /\ placed \ terminated = {insertBlock}
  /\ placed \subseteq 1..nblocks
  /\ \A e \in edges : e[2] \in 1..nblocks
  /\ \A p \in phis : p.block \in placed /\ p.incoming = PredsIn(edges, p.block)

\* BlockInv is a part about the graph and two about the activations.
LEMMA BlockInvParts ==
  BlockInv <=> GraphInv /\ AllOK(stack, placed, nblocks, edges, phis) /\ Disjoint(stack)
BY DEF BlockInv, GraphInv, OneOpenBlock, PhiMatchesPreds, Preds, PredsIn

\* FrameGrows, for all activations of a stack at once.
LEMMA AllOKGrows ==
  ASSUME NEW s, NEW pl, NEW n \in Nat, NEW ed, NEW ph, AllOK(s, pl, n, ed, ph),
         NEW m \in Nat, n <= m, NEW b, NEW E, NEW P, \A p \in P : p.block \notin pl,
         \A i \in 1..Len(s) : b \notin Pending(s[i]) /\ \A e \in E : e[2] \notin Pending(s[i])
  PROVE  AllOK(s, pl \cup {b}, m, ed \cup E, ph \cup P)
<1> SUFFICES ASSUME NEW i \in 1..Len(s)
             PROVE  FrameOK(s[i], pl \cup {b}, m, ed \cup E, ph \cup P)
  BY DEF AllOK
<1>1. FrameOK(s[i], pl, n, ed, ph)
  BY DEF AllOK
<1> QED
  BY <1>1, FrameGrows

\* The graph takes in block b: the builder's block gets its terminator, with
\* the edges E, and b becomes the builder's block.
LEMMA GraphGrows ==
  ASSUME GraphInv, Live, NEW m, nblocks' = m, nblocks \in Nat, m \in Nat, nblocks <= m,
         NEW b \in 1..m, b \notin placed, NEW E, \A e \in E : e[2] \in 1..m,
         NEW P, \A p \in P : p.block = b /\ p.incoming = PredsIn(edges \cup E, b),
         \A e \in E : \A p \in phis : e[2] # p.block,
         placed' = placed \cup {b}, terminated' = terminated \cup {insertBlock},
         insertBlock' = b, edges' = edges \cup E, phis' = phis \cup P
  PROVE  GraphInv'
<1>1. terminated' \subseteq placed' /\ placed' \ terminated' = {insertBlock'}
  BY DEF GraphInv
<1>2. placed' \subseteq 1..nblocks'
  BY DEF GraphInv
<1>3. \A e \in edges' : e[2] \in 1..nblocks'
  BY DEF GraphInv
<1>4. ASSUME NEW p \in phis'
      PROVE  p.block \in placed' /\ p.incoming = PredsIn(edges', p.block)
  <2>1. CASE p \in phis
    <3>1. PredsIn(edges \cup E, p.block) = PredsIn(edges, p.block)
      BY <2>1 DEF PredsIn
    <3> QED BY <2>1, <3>1 DEF GraphInv
  <2>2. CASE p \in P
    BY <2>2
  <2> QED BY <1>4, <2>1, <2>2
<1> QED
  BY <1>1, <1>2, <1>3, <1>4 DEF GraphInv

\* Activations that wait for no block and own no loop are always in order.
Quiet(f) == f.kind \notin {"IfThen", "IfElse", "ForBody", "ForStep", "ForEnd"}

\* Such an activation waits for no block, whatever the graph.
LEMMA QuietFrame ==
  ASSUME NEW f, Quiet(f), NEW pl, NEW n, NEW ed, NEW ph
  PROVE  Pending(f) = {} /\ FrameOK(f, pl, n, ed, ph)
BY DEF Quiet, Pending, FrameOK, IsFor

\* BlockInv is an invariant: most actions leave the graph alone, and the five
\* that extend it use fresh blocks or blocks only their own activation waits for.
LEMMA BlockInvariant == Spec => []BlockInv
<1>1. Init => BlockInv
  BY BlockInvParts DEF Init, GraphInv, AllOK, Disjoint, Live
<1>2. TypeOK /\ BlockInv /\ [Next]_vars => BlockInv'
  <2> SUFFICES ASSUME TypeOK, BlockInv, [Next]_vars PROVE BlockInv'
    OBVIOUS
  <2>typ. /\ stack \in Seq(Frame) /\ ret \in Value
          /\ nblocks \in Nat /\ insertBlock \in Nat
    BY DEF TypeOK, CtlTypeOK, CfgTypeOK
  <2>gr. GraphInv
    BY BlockInvParts
  <2>all. AllOK(stack, placed, nblocks, edges, phis)
    BY BlockInvParts
  <2>dis. Disjoint(stack)
    BY BlockInvParts
  <2>glue. ASSUME GraphInv', AllOK(stack', placed', nblocks', edges', phis'), Disjoint(stack')
           PROVE  BlockInv'
    <3>1. (BlockInv <=> GraphInv /\ AllOK(stack, placed, nblocks, edges, phis) /\ Disjoint(stack))'
      BY BlockInvParts, PTL
    <3> QED BY <3>1, <2>glue DEF AllOK, Disjoint
  <2>top. ASSUME stack # <<>>
          PROVE  /\ Top \in Frame /\ FrameOK(Top, placed, nblocks, edges, phis)
                 /\ AllOK(Below, placed, nblocks, edges, phis) /\ Disjoint(Below)
                 /\ \A i \in 1..Len(Below) :
                      /\ Pending(Below[i]) \subseteq 1..nblocks
                      /\ Pending(Below[i]) \cap placed = {}
                      /\ Pending(Below[i]) \cap Pending(Top) = {}
    <3>1. /\ Top \in Frame /\ FrameOK(Top, placed, nblocks, edges, phis)
          /\ AllOK(Below, placed, nblocks, edges, phis) /\ Disjoint(Below)
      BY <2>top, <2>typ, <2>all, <2>dis, StackOps, AllOKOps, DisjointOps
    <3>2. ASSUME NEW i \in 1..Len(Below)
          PROVE  /\ Pending(Below[i]) \subseteq 1..nblocks
                 /\ Pending(Below[i]) \cap placed = {}
                 /\ Pending(Below[i]) \cap Pending(Top) = {}
      <4>1. /\ Len(stack) \in Nat \ {0} /\ Len(Below) = Len(stack) - 1
            /\ \A j \in 1..Len(stack) - 1 : Below[j] = stack[j]
        BY <2>top, <2>typ, StackOps
      <4>2. i \in 1..Len(stack) /\ Len(stack) \in 1..Len(stack) /\ i # Len(stack) /\ Below[i] = stack[i]
        BY <4>1
      <4>3. Pending(Below[i]) \cap Pending(Top) = {}
        BY <4>2, <2>dis DEF Disjoint, Top
      <4> QED BY <3>1, <4>3 DEF AllOK, FrameOK
    <3> QED BY <3>1, <3>2
  <2>still. ASSUME UNCHANGED <<insertBlock, nblocks, placed, terminated, edges, phis>>, Live' => Live
            PROVE  GraphInv'
    BY <2>still, <2>gr DEF GraphInv
  \* A child is generated next, below a new activation.
  <2>push. ASSUME NEW f, Quiet(f), ctl = "call", GenChild(Push(f)),
                  UNCHANGED <<insertBlock, nblocks, placed, terminated, edges, phis>>
           PROVE  BlockInv'
    <3>1. Pending(f) = {} /\ FrameOK(f, placed, nblocks, edges, phis)
      BY <2>push, QuietFrame
    <3>2. AllOK(Push(f), placed, nblocks, edges, phis) /\ Disjoint(Push(f))
      BY <3>1, <2>typ, <2>all, <2>dis, AllOKOps, DisjointOps
    <3> QED BY <3>2, <2>push, <2>still, <2>glue DEF GenChild, Live
  \* A leaf returns.
  <2>leaf. ASSUME NEW v, ctl = "call", Return(v, stack),
                  UNCHANGED <<insertBlock, nblocks, placed, terminated, edges, phis>>
           PROVE  BlockInv'
    BY <2>leaf, <2>still, <2>glue, <2>all, <2>dis DEF Return, Live
  \* An activation goes on to its next child.
  <2>next. ASSUME NEW f, Pending(f) = {}, FrameOK(f, placed, nblocks, edges, phis),
                  ctl = "return", stack # <<>>, GenChild(ReplaceTop(f)),
                  UNCHANGED <<insertBlock, nblocks, placed, terminated, edges, phis>>
           PROVE  BlockInv'
    <3>1. AllOK(ReplaceTop(f), placed, nblocks, edges, phis)
      BY <2>next, <2>top, <2>typ, AllOKOps
    <3>2. Disjoint(ReplaceTop(f))
      BY <2>next, <2>typ, <2>dis, DisjointOps
    <3> QED BY <3>1, <3>2, <2>next, <2>still, <2>glue DEF GenChild, Live
  \* An activation returns, with a value or without.
  <2>done. ASSUME NEW v, ctl = "return", stack # <<>>, Return(v, Below),
                  UNCHANGED <<insertBlock, nblocks, placed, terminated, edges, phis>>
           PROVE  BlockInv'
    BY <2>done, <2>top, <2>still, <2>glue DEF Return, Live
  <2>abt. ASSUME Abort PROVE BlockInv'
    BY <2>abt, <2>still, <2>glue, <2>all, <2>dis DEF Abort, Live, cfgVars
  <2>1. CASE NumberExpr
    BY <2>1, <2>leaf DEF NumberExpr, cfgVars
  <2>2. ASSUME NEW n \in VarNames, VariableExpr(n) PROVE BlockInv'
    BY <2>2, <2>leaf DEF VariableExpr, Reject, cfgVars
  <2>3. CASE Propagate
    BY <2>3, <2>done DEF Propagate, cfgVars
  <2>4. ASSUME NEW op \in UnaryOps, UnaryEnter(op) PROVE BlockInv'
    BY <2>4, <2>push DEF UnaryEnter, Enters, Quiet, cfgVars
  <2>5. CASE UnaryApply
    BY <2>5, <2>done DEF UnaryApply, Resumes, Reject
  <2>6. ASSUME NEW op \in UserOps \cup {Arith}, BinaryEnter(op) PROVE BlockInv'
    BY <2>6, <2>push DEF BinaryEnter, Enters, Quiet, cfgVars
  <2>7. CASE BinaryLHS
    BY <2>7, <2>next, QuietFrame DEF BinaryLHS, Quiet, cfgVars
  <2>8. CASE BinaryLeftFailed
    BY <2>8, <2>done DEF BinaryLeftFailed, Resumes, cfgVars
  <2>9. CASE BinaryApply
    BY <2>9, <2>done DEF BinaryApply, Resumes
  <2>10. CASE BinaryUnresolved
    BY <2>10, <2>abt DEF BinaryUnresolved
  <2>11. ASSUME NEW lhs \in VarNames \cup {NotVar}, AssignEnter(lhs) PROVE BlockInv'
    BY <2>11, <2>push DEF AssignEnter, Enters, Quiet, cfgVars
  <2>sto. ASSUME NEW n \in VarNames, Resumes("Assign"), StoreTo(n) PROVE BlockInv'
    BY <2>sto, <2>done DEF StoreTo, Resumes, Reject
  <2>12. CASE AssignStore
    BY <2>12, <2>sto, <2>top, FrameFields DEF AssignStore, Resumes
  <2>13. CASE AssignWild
    BY <2>13, <2>sto, <2>done, <2>abt DEF AssignWild, Reject, Resumes, cfgVars
  <2>14. ASSUME NEW f \in Callees, NEW nargs \in 0..MaxArgs, CallEnter(f, nargs) PROVE BlockInv'
    BY <2>14, <2>push, <2>leaf DEF CallEnter, Enters, Reject, Quiet, cfgVars
  <2>15. CASE CallArg
    BY <2>15, <2>next, QuietFrame DEF CallArg, Resumes, Quiet, cfgVars
  <2>16. CASE CallApply
    BY <2>16, <2>done DEF CallApply, Resumes
  <2>17. CASE IfEnter
    BY <2>17, <2>push DEF IfEnter, Enters, Quiet, cfgVars
  <2>18. CASE IfBranch
    <3> DEFINE b == nblocks + 1
               E == {<<insertBlock, nblocks + 1>>, <<insertBlock, nblocks + 2>>}
               f == [kind |-> "IfThen", ElseBB |-> nblocks + 2, MergeBB |-> nblocks + 3]
    <3>1. /\ stack # <<>> /\ Live /\ nblocks' = nblocks + 3 /\ nblocks + 3 \in Nat
          /\ placed' = placed \cup {b} /\ terminated' = terminated \cup {insertBlock}
          /\ insertBlock' = b /\ edges' = edges \cup E /\ phis' = phis \cup {}
          /\ GenChild(ReplaceTop(f))
      BY <2>18, <2>typ DEF IfBranch, Resumes, Live
    <3>2. \A e \in E : e[2] \in {nblocks + 1, nblocks + 2}
      OBVIOUS
    <3>3. placed \subseteq 1..nblocks /\ \A p \in phis : p.block \in placed
      BY <2>gr DEF GraphInv
    <3>new. /\ \A c \in {nblocks + 1, nblocks + 2, nblocks + 3} : c \in 1..(nblocks + 3) /\ c \notin 1..nblocks
            /\ nblocks + 1 # nblocks + 2 /\ nblocks + 1 # nblocks + 3 /\ nblocks + 2 # nblocks + 3
            /\ nblocks <= nblocks + 3
      BY <2>typ
    <3>E. /\ b \in 1..(nblocks + 3) /\ b \notin placed
          /\ \A e \in E : e[2] \in 1..(nblocks + 3) /\ e[2] \notin 1..nblocks /\ e[2] # nblocks + 3
      BY <3>2, <3>3, <3>new
    <3>f. f.kind = "IfThen" /\ f.ElseBB = nblocks + 2 /\ f.MergeBB = nblocks + 3
          /\ Pending(f) = {nblocks + 2, nblocks + 3} /\ ~IsFor(f)
      BY DEF Pending, IsFor
    <3> HIDE DEF b, E, f
    <3>4. GraphInv'
      <4>1. \A e \in E : \A p \in phis : e[2] # p.block
        BY <3>3, <3>E
      <4> DEFINE m == nblocks + 3
      <4>2. nblocks' = m /\ m \in Nat /\ nblocks <= m /\ b \in 1..m /\ \A e \in E : e[2] \in 1..m
        BY <3>1, <3>E, <3>new
      <4> DEFINE P == {}
      <4>3. phis' = phis \cup P /\ \A p \in P : p.block = b /\ p.incoming = PredsIn(edges \cup E, b)
        BY <3>1
      <4> HIDE DEF m, P
      <4> QED BY <3>1, <3>E, <4>1, <4>2, <4>3, <2>gr, <2>typ, GraphGrows
    <3>5. AllOK(Below, placed \cup {b}, nblocks + 3, edges \cup E, phis \cup {})
      <4>1. \A i \in 1..Len(Below) : b \notin Pending(Below[i]) /\ \A e \in E : e[2] \notin Pending(Below[i])
        BY <3>1, <3>E, <3>new, <2>top DEF b
      <4> QED BY <4>1, <3>1, <3>new, <2>top, <2>typ, AllOKGrows
    <3>6. FrameOK(f, placed \cup {b}, nblocks + 3, edges \cup E, phis \cup {})
      <4>1. PredsIn(edges \cup E, nblocks + 3) = {}
        BY <3>E, <3>new, <2>gr DEF PredsIn, GraphInv
      <4>2. Pending(f) \subseteq 1..(nblocks + 3) /\ Pending(f) \cap (placed \cup {b}) = {}
        BY <3>3, <3>f, <3>new DEF b
      <4> QED BY <4>1, <4>2, <3>f, <3>new DEF FrameOK
    <3>7. AllOK(ReplaceTop(f), placed', nblocks', edges', phis')
      BY <3>1, <3>5, <3>6, <2>typ, AllOKOps
    <3>8. Disjoint(ReplaceTop(f))
      <4>1. \A i \in 1..Len(Below) : Pending(Below[i]) \cap Pending(f) = {}
        BY <3>1, <3>f, <3>new, <2>top
      <4>2. Len(Below) = Len(stack) - 1 /\ \A i \in 1..Len(stack) - 1 : Below[i] = stack[i]
        BY <3>1, <2>typ, StackOps
      <4> QED BY <3>1, <4>1, <4>2, <2>typ, <2>dis, DisjointOps
    <3> QED BY <3>1, <3>4, <3>7, <3>8, <2>glue DEF GenChild
  <2>19. CASE IfElse
    <3> DEFINE b == Top.ElseBB
               E == {<<insertBlock, Top.MergeBB>>}
               P == {}
               f == [kind |-> "IfElse", ThenV |-> ret, ThenBB |-> insertBlock, MergeBB |-> Top.MergeBB]
    <3>1. /\ stack # <<>> /\ Live /\ nblocks' = nblocks
          /\ placed' = placed \cup {b} /\ terminated' = terminated \cup {insertBlock}
          /\ insertBlock' = b /\ edges' = edges \cup E /\ phis' = phis \cup P
          /\ GenChild(ReplaceTop(f))
      BY <2>19 DEF IfElse, JumpAndPlace, Resumes, Live
    <3>2. /\ Pending(Top) = {b, Top.MergeBB} /\ b # Top.MergeBB
          /\ Pending(Top) \subseteq 1..nblocks /\ Pending(Top) \cap placed = {}
          /\ PredsIn(edges, Top.MergeBB) = {}
      BY <2>19, <3>1, <2>top DEF IfElse, Resumes, FrameOK, Pending
    <3>E. /\ \A e \in E : e[1] = insertBlock /\ e[2] = Top.MergeBB
          /\ \A p \in P : p.block = b /\ p.incoming = PredsIn(edges \cup E, b)
          /\ \A p \in P : p.block \notin placed
      OBVIOUS
    <3>I. <<insertBlock, Top.MergeBB>> \in E
      OBVIOUS
    <3>f. f.kind = "IfElse" /\ f.ThenBB = insertBlock /\ f.MergeBB = Top.MergeBB
          /\ Pending(f) = {Top.MergeBB} /\ ~IsFor(f)
      BY DEF Pending, IsFor
    <3> HIDE DEF b, E, P, f
    <3>3. placed \subseteq 1..nblocks /\ \A p \in phis : p.block \in placed
      BY <2>gr DEF GraphInv
    <3>4. GraphInv'
      <4>1. \A e \in E : \A p \in phis : e[2] # p.block
        BY <3>2, <3>3, <3>E
      <4>2. b \in 1..nblocks /\ b \notin placed /\ nblocks <= nblocks /\ \A e \in E : e[2] \in 1..nblocks
        BY <3>2, <3>E, <2>typ
      <4> QED BY <3>1, <3>E, <4>1, <4>2, <2>gr, <2>typ, GraphGrows
    <3>5. AllOK(Below, placed \cup {b}, nblocks, edges \cup E, phis \cup P)
      <4>1. \A i \in 1..Len(Below) : b \notin Pending(Below[i]) /\ \A e \in E : e[2] \notin Pending(Below[i])
        BY <3>1, <3>2, <3>E, <2>top
      <4>2. nblocks <= nblocks
        BY <2>typ
      <4> QED BY <4>1, <4>2, <3>1, <3>E, <2>top, <2>typ, AllOKGrows
    <3>6. FrameOK(f, placed \cup {b}, nblocks, edges \cup E, phis \cup P)
      <4>1. PredsIn(edges \cup E, Top.MergeBB) = {insertBlock}
        BY <3>2, <3>E, <3>I DEF PredsIn
      <4>2. Pending(f) \subseteq 1..nblocks /\ Pending(f) \cap (placed \cup {b}) = {}
        BY <3>2, <3>f
      <4> QED BY <4>1, <4>2, <3>f DEF FrameOK
    <3>7. AllOK(ReplaceTop(f), placed', nblocks', edges', phis')
      BY <3>1, <3>5, <3>6, <2>typ, AllOKOps
    <3>8. Disjoint(ReplaceTop(f))
      <4>1. \A i \in 1..Len(Below) : Pending(Below[i]) \cap Pending(f) = {}
        BY <3>1, <3>2, <3>f, <2>top
      <4>2. Len(Below) = Len(stack) - 1 /\ \A i \in 1..Len(stack) - 1 : Below[i] = stack[i]
        BY <3>1, <2>typ, StackOps
      <4> QED BY <3>1, <4>1, <4>2, <2>typ, <2>dis, DisjointOps
    <3> QED BY <3>1, <3>4, <3>7, <3>8, <2>glue DEF GenChild
  <2>20. CASE IfMerge
    <3> DEFINE b == Top.MergeBB
               E == {<<insertBlock, Top.MergeBB>>}
               P == {PhiNode}
    <3>1. /\ stack # <<>> /\ Live /\ nblocks' = nblocks
          /\ placed' = placed \cup {b} /\ terminated' = terminated \cup {insertBlock}
          /\ insertBlock' = b /\ edges' = edges \cup E /\ phis' = phis \cup P
          /\ stack' = Below
      BY <2>20 DEF IfMerge, JumpAndPlace, Resumes, Live, Return
    <3>2. /\ Pending(Top) = {b} /\ b \in 1..nblocks /\ b \notin placed
          /\ PredsIn(edges, b) = {Top.ThenBB}
      BY <2>20, <3>1, <2>top DEF IfMerge, Resumes, FrameOK, Pending
    <3>E. \A e \in E : e[1] = insertBlock /\ e[2] = b
      OBVIOUS
    <3>I. <<insertBlock, b>> \in E
      OBVIOUS
    <3>P. /\ \A p \in P : p.block = b /\ p.incoming = {Top.ThenBB, insertBlock}
          /\ \A p \in P : p.block \notin placed
      BY <3>2 DEF PhiNode
    <3> HIDE DEF b, E, P
    <3>3. \A p \in phis : p.block \in placed
      BY <2>gr DEF GraphInv
    <3>4. GraphInv'
      <4>1. \A e \in E : \A p \in phis : e[2] # p.block
        BY <3>2, <3>3, <3>E
      <4>2. nblocks <= nblocks /\ \A e \in E : e[2] \in 1..nblocks
        BY <3>2, <3>E, <2>typ
      <4>3. PredsIn(edges \cup E, b) = {Top.ThenBB, insertBlock}
        BY <3>2, <3>E, <3>I DEF PredsIn
      <4>4. \A p \in P : p.block = b /\ p.incoming = PredsIn(edges \cup E, b)
        BY <3>P, <4>3
      <4>5. b \in 1..nblocks /\ b \notin placed
        BY <3>2
      <4> QED BY <3>1, <4>1, <4>2, <4>4, <4>5, <2>gr, <2>typ, GraphGrows
    <3>5. AllOK(Below, placed \cup {b}, nblocks, edges \cup E, phis \cup P)
      <4>1. \A i \in 1..Len(Below) : b \notin Pending(Below[i]) /\ \A e \in E : e[2] \notin Pending(Below[i])
        BY <3>1, <3>2, <3>E, <2>top
      <4>2. nblocks <= nblocks
        BY <2>typ
      <4> QED BY <4>1, <4>2, <3>1, <3>P, <2>top, <2>typ, AllOKGrows
    <3> QED BY <3>1, <3>4, <3>5, <2>top, <2>glue
  <2>22. CASE ForLoop
    <3> DEFINE b == nblocks + 1
               E == {<<insertBlock, b>>}
               P == {}
               g == [name |-> Top.name, alloca |-> Top.alloca, old |-> NamedValues[Top.name]]
               f == [kind |-> "ForBody", bind |-> g, LoopBB |-> b]
    <3>1. /\ stack # <<>> /\ Live /\ nblocks' = b
          /\ placed' = placed \cup {b} /\ terminated' = terminated \cup {insertBlock}
          /\ insertBlock' = b /\ edges' = edges \cup E /\ phis' = phis \cup P
          /\ GenChild(ReplaceTop(f))
      BY <2>22 DEF ForLoop, Resumes, Live
    <3>2. b \in Nat /\ nblocks <= b /\ b \in 1..b /\ b \notin 1..nblocks /\ 1..nblocks \subseteq 1..b
      BY <2>typ
    <3>E. /\ \A e \in E : e[2] = b
          /\ \A p \in P : p.block = b /\ p.incoming = PredsIn(edges \cup E, b)
          /\ \A p \in P : p.block \notin placed
      OBVIOUS
    <3>f. /\ f.kind = "ForBody" /\ f.LoopBB = b /\ Pending(f) = {}
      BY DEF Pending
    <3>P. P = {}
      OBVIOUS
    <3> HIDE DEF b, E, P, f
    <3>3. b \notin placed /\ \A p \in phis : p.block \in placed
      BY <2>gr, <3>2 DEF GraphInv
    <3>4. GraphInv'
      <4>1. \A e \in E : \A p \in phis : e[2] # p.block
        BY <3>3, <3>E
      <4>2. \A e \in E : e[2] \in 1..b
        BY <3>2, <3>E
      <4> QED BY <3>1, <3>2, <3>3, <3>E, <4>1, <4>2, <2>gr, <2>typ, GraphGrows
    <3>5. AllOK(Below, placed \cup {b}, b, edges \cup E, phis \cup P)
      <4>1. \A i \in 1..Len(Below) : b \notin Pending(Below[i]) /\ \A e \in E : e[2] \notin Pending(Below[i])
        BY <3>1, <3>2, <3>E, <2>top
      <4> QED BY <4>1, <3>1, <3>2, <3>E, <2>top, <2>typ, AllOKGrows
    <3>6. FrameOK(f, placed \cup {b}, b, edges \cup E, phis \cup P)
      BY <3>f, <3>3, <3>P DEF FrameOK
    <3>7. AllOK(ReplaceTop(f), placed', nblocks', edges', phis')
      BY <3>1, <3>5, <3>6, <2>typ, AllOKOps
    <3>8. Disjoint(ReplaceTop(f))
      BY <3>1, <3>f, <2>typ, <2>dis, DisjointOps
    <3> QED BY <3>1, <3>4, <3>7, <3>8, <2>glue DEF GenChild
  <2>loop. ASSUME stack # <<>>, IsFor(Top), NEW f, IsFor(f), f.LoopBB = Top.LoopBB
           PROVE  Pending(f) = {} /\ FrameOK(f, placed, nblocks, edges, phis)
    BY <2>loop, <2>top DEF IsFor, Pending, FrameOK
  <2>23. CASE ForStep
    <3> DEFINE f == [Top EXCEPT !.kind = "ForStep"]
    <3>1. stack # <<>> /\ Top.kind = "ForBody" /\ ctl = "return"
      BY <2>23 DEF ForStep, Resumes
    <3>2. f.kind = "ForStep" /\ f.LoopBB = Top.LoopBB
      <4>1. Top = [kind |-> "ForBody", bind |-> Top.bind, LoopBB |-> Top.LoopBB]
        BY <3>1, <2>top, FrameFields
      <4> QED BY <4>1
    <3>g. ForStep => GenChild(ReplaceTop(f)) /\ UNCHANGED cfgVars
      BY DEF ForStep
    <3> HIDE DEF f
    <3>3. Pending(f) = {} /\ FrameOK(f, placed, nblocks, edges, phis)
      <4>1. IsFor(Top) /\ IsFor(f)
        BY <3>1, <3>2 DEF IsFor
      <4> QED BY <3>1, <3>2, <4>1, <2>loop
    <3> QED BY <2>23, <3>1, <3>3, <3>g, <2>next DEF cfgVars
  <2>24. CASE ForEnd
    <3> DEFINE f == [kind |-> "ForEnd", bind |-> Top.bind, LoopBB |-> Top.LoopBB, StepVal |-> ret]
    <3>1. stack # <<>> /\ Top.kind = "ForStep" /\ ctl = "return"
      BY <2>24 DEF ForEnd, Resumes
    <3>2. f.kind = "ForEnd" /\ f.LoopBB = Top.LoopBB
      OBVIOUS
    <3>g. ForEnd => GenChild(ReplaceTop(f)) /\ UNCHANGED cfgVars
      BY DEF ForEnd
    <3> HIDE DEF f
    <3>3. Pending(f) = {} /\ FrameOK(f, placed, nblocks, edges, phis)
      <4>1. IsFor(Top) /\ IsFor(f)
        BY <3>1, <3>2 DEF IsFor
      <4> QED BY <3>1, <3>2, <4>1, <2>loop
    <3> QED BY <2>24, <3>1, <3>3, <3>g, <2>next DEF cfgVars
  <2>25. CASE ForExit
    <3> DEFINE b == nblocks + 1
               E == {<<insertBlock, Top.LoopBB>>, <<insertBlock, b>>}
               P == {}
    <3>1. /\ stack # <<>> /\ Live /\ nblocks' = b
          /\ placed' = placed \cup {b} /\ terminated' = terminated \cup {insertBlock}
          /\ insertBlock' = b /\ edges' = edges \cup E /\ phis' = phis \cup P
          /\ stack' = Below
      BY <2>25 DEF ForExit, Resumes, Live, Return
    <3>2. b \in Nat /\ nblocks <= b /\ b \in 1..b /\ b \notin 1..nblocks /\ 1..nblocks \subseteq 1..b
      BY <2>typ
    <3>L. Top.LoopBB \in placed /\ \A p \in phis : p.block # Top.LoopBB
      BY <2>25, <3>1, <2>top DEF ForExit, Resumes, FrameOK, IsFor
    <3>E. /\ \A e \in E : e[2] = b \/ e[2] = Top.LoopBB
          /\ \A p \in P : p.block = b /\ p.incoming = PredsIn(edges \cup E, b)
          /\ \A p \in P : p.block \notin placed
      OBVIOUS
    <3> HIDE DEF b, E, P
    <3>3. b \notin placed /\ placed \subseteq 1..nblocks /\ \A p \in phis : p.block \in placed
      BY <2>gr, <3>2 DEF GraphInv
    <3>4. GraphInv'
      <4>1. \A e \in E : \A p \in phis : e[2] # p.block
        BY <3>3, <3>E, <3>L
      <4>2. \A e \in E : e[2] \in 1..b
        BY <3>2, <3>3, <3>E, <3>L
      <4> QED BY <3>1, <3>2, <3>3, <3>E, <4>1, <4>2, <2>gr, <2>typ, GraphGrows
    <3>5. AllOK(Below, placed \cup {b}, b, edges \cup E, phis \cup P)
      <4>1. \A i \in 1..Len(Below) : b \notin Pending(Below[i]) /\ \A e \in E : e[2] \notin Pending(Below[i])
        BY <3>1, <3>2, <3>E, <3>L, <2>top
      <4> QED BY <4>1, <3>1, <3>2, <3>E, <2>top, <2>typ, AllOKGrows
    <3> QED BY <3>1, <3>4, <3>5, <2>top, <2>glue
  <2>21. ASSUME NEW n \in VarNames, ForEnter(n) PROVE BlockInv'
    BY <2>21, <2>push DEF ForEnter, Enters, Quiet, cfgVars
  <2>26. ASSUME NEW names \in VarLists, VarEnter(names) PROVE BlockInv'
    BY <2>26, <2>push DEF VarEnter, Enters, Quiet, cfgVars
  <2>27. CASE VarBind
    <3> DEFINE g == [name |-> Head(Top.todo), alloca |-> nallocas + 1, old |-> NamedValues[Head(Top.todo)]]
               f == IF Len(Top.todo) > 1
                      THEN [kind |-> "VarInit", todo |-> Tail(Top.todo), binds |-> Append(Top.binds, g)]
                      ELSE [kind |-> "VarBody", binds |-> Append(Top.binds, g)]
    <3>1. GenChild(ReplaceTop(f)) /\ ctl = "return" /\ stack # <<>>
          /\ UNCHANGED <<insertBlock, nblocks, placed, terminated, edges, phis>>
      BY <2>27 DEF VarBind, Resumes
    <3>2. Quiet(f)
      BY DEF Quiet
    <3> HIDE DEF f
    <3> QED BY <3>1, <3>2, <2>next, QuietFrame
  <2>28. CASE VarExit
    BY <2>28, <2>done DEF VarExit, Resumes, cfgVars
  <2>29. ASSUME NEW ps \in ParamLists, FunctionEnter(ps) PROVE BlockInv'
    <3>1. GraphInv'
      BY <2>29 DEF FunctionEnter, GenChild, GraphInv, Live, Entry
    <3>2. stack' = <<>>
      BY <2>29 DEF FunctionEnter, GenChild
    <3>3. AllOK(stack', placed', nblocks', edges', phis') /\ Disjoint(stack')
      BY <3>2 DEF AllOK, Disjoint
    <3> QED BY <3>1, <3>3, <2>glue
  <2>30. CASE FunctionAccept
    <3>1. GraphInv'
      BY <2>30, <2>gr DEF FunctionAccept, GraphInv, Live
    <3> QED BY <2>30, <3>1, <2>all, <2>dis, <2>glue DEF FunctionAccept
  <2>31. CASE FunctionErase
    <3>1. GraphInv'
      BY <2>31 DEF FunctionErase, GraphInv, Live
    <3>2. AllOK(stack', placed', nblocks', edges', phis') /\ Disjoint(stack')
      BY <2>31 DEF FunctionErase, AllOK, Disjoint
    <3> QED BY <3>1, <3>2, <2>glue
  <2>32. CASE UNCHANGED vars
    BY <2>32, <2>still, <2>glue, <2>all, <2>dis DEF vars, ctlVars, cfgVars, Live
  <2>33. CASE Gone
    BY <2>33, <2>32 DEF Gone
  <2>34. CASE Expr
    BY <2>34, <2>1, <2>2, <2>4, <2>6, <2>11, <2>14, <2>17, <2>21, <2>26 DEF Expr
  <2>35. CASE Resume
    BY <2>35, <2>3, <2>5, <2>7, <2>8, <2>9, <2>10, <2>12, <2>13, <2>15, <2>16, <2>18, <2>19,
       <2>20, <2>22, <2>23, <2>24, <2>25, <2>27, <2>28 DEF Resume
  <2> QED
    BY <2>29, <2>30, <2>31, <2>32, <2>33, <2>34, <2>35 DEF Next
<1> QED
  BY <1>1, <1>2, TypeCorrect, PTL DEF Spec

\* For every set of names and prototypes and every body: while a body is
\* generated, the builder's block is the only block without a terminator, so
\* nothing is emitted behind a terminator and no branch stays open.
THEOREM BuilderBlockIsOpen == Spec => []OneOpenBlock
<1>1. BlockInv => OneOpenBlock
  BY DEF BlockInv
<1> QED
  BY <1>1, BlockInvariant, PTL

\* For every body: a PHI node names exactly the predecessors of its block,
\* however the branches of the if have moved the builder.
THEOREM PhiNodesAreComplete == Spec => []PhiMatchesPreds
<1>1. BlockInv => PhiMatchesPreds
  BY DEF BlockInv
<1> QED
  BY <1>1, BlockInvariant, PTL

----------------------------------------------------------------------------
(* No block gets lost: as long as no error is under way, a block that is   *)
(* not yet part of the function is waited for by some activation, and at   *)
(* the end nothing waits.                                                  *)

IsPending(s, b) == \E i \in 1..Len(s) : b \in Pending(s[i])

AccountInv ==
  /\ Live /\ ~errorLogged => \A b \in 1..nblocks : b \in placed \/ IsPending(stack, b)
  /\ AcceptedComplete

\* Which blocks are waited for, as activations start, go on or end.
LEMMA IsPendingOps ==
  ASSUME stack \in Seq(Frame), NEW b
  PROVE  /\ \A f : IsPending(stack, b) => IsPending(Push(f), b)
         /\ stack # <<>> =>
              /\ IsPending(stack, b) => b \in Pending(Top) \/ IsPending(Below, b)
              /\ \A f : b \in Pending(f) \/ IsPending(Below, b) => IsPending(ReplaceTop(f), b)
<1>1. ASSUME NEW f, IsPending(stack, b) PROVE IsPending(Push(f), b)
  <2>1. /\ Len(stack) \in Nat /\ Len(Push(f)) = Len(stack) + 1
        /\ \A i \in 1..Len(stack) : Push(f)[i] = stack[i]
    BY StackShape
  <2>2. 1..Len(stack) \subseteq 1..Len(Push(f))
    BY <2>1
  <2> QED BY <1>1, <2>1, <2>2 DEF IsPending
<1>2. ASSUME stack # <<>>
      PROVE  /\ IsPending(stack, b) => b \in Pending(Top) \/ IsPending(Below, b)
             /\ \A f : b \in Pending(f) \/ IsPending(Below, b) => IsPending(ReplaceTop(f), b)
  <2>1. /\ Len(stack) \in Nat \ {0} /\ Len(Below) = Len(stack) - 1
        /\ \A i \in 1..Len(stack) - 1 : Below[i] = stack[i]
        /\ \A f : /\ Len(ReplaceTop(f)) = Len(stack)
                  /\ ReplaceTop(f)[Len(stack)] = f
                  /\ \A i \in 1..Len(stack) - 1 : ReplaceTop(f)[i] = stack[i]
    BY <1>2, StackOps, StackShape
  <2>2. /\ \A i \in 1..Len(stack) : i \in 1..Len(stack) - 1 \/ i = Len(stack)
        /\ 1..Len(Below) = 1..Len(stack) - 1
        /\ 1..Len(stack) - 1 \subseteq 1..Len(stack) /\ Len(stack) \in 1..Len(stack)
    BY <2>1
  <2>3. IsPending(stack, b) => b \in Pending(Top) \/ IsPending(Below, b)
    BY <2>1, <2>2 DEF IsPending, Top
  <2>4. ASSUME NEW f, b \in Pending(f) \/ IsPending(Below, b) PROVE IsPending(ReplaceTop(f), b)
    BY <2>1, <2>2, <2>4 DEF IsPending
  <2> QED BY <2>3, <2>4
<1> QED
  BY <1>1, <1>2

\* For every body: a function that codegen() returns consists of exactly the
\* blocks that were created for it, and each of them ends in a terminator.
THEOREM AcceptedFunctionsComplete == Spec => []AcceptedComplete
<1>1. Init => AccountInv
  BY DEF Init, AccountInv, AcceptedComplete, Live
<1>2. TypeOK /\ FailureInv /\ BlockInv /\ AccountInv /\ [Next]_vars => AccountInv'
  <2> SUFFICES ASSUME TypeOK, FailureInv, BlockInv, AccountInv, [Next]_vars PROVE AccountInv'
    OBVIOUS
  <2>typ. stack \in Seq(Frame) /\ nblocks \in Nat
    BY DEF TypeOK, CtlTypeOK, CfgTypeOK
  <2>acc. Live /\ ~errorLogged => \A b \in 1..nblocks : b \in placed \/ IsPending(stack, b)
    BY DEF AccountInv
  \* While the function is live, only the first part matters.
  <2>glue. ASSUME ctl' \in {"call", "return"}, ~errorLogged' => \A b \in 1..nblocks' : b \in placed' \/ IsPending(stack', b)
           PROVE  AccountInv'
    BY <2>glue DEF AccountInv, AcceptedComplete, Live, IsPending
  <2>push. ASSUME NEW f, ctl = "call", GenChild(Push(f)), UNCHANGED <<nblocks, placed, errorLogged>>
           PROVE  AccountInv'
    BY <2>push, <2>typ, <2>acc, <2>glue, IsPendingOps DEF GenChild, Live
  <2>leaf. ASSUME NEW v, ctl = "call", Return(v, stack), UNCHANGED <<nblocks, placed, errorLogged>>
           PROVE  AccountInv'
    BY <2>leaf, <2>acc, <2>glue DEF Return, Live
  <2>rej. ASSUME NEW s, Reject(s) PROVE AccountInv'
    BY <2>rej, <2>glue DEF Reject, Return
  <2>next. ASSUME NEW f, ctl = "return", stack # <<>>, Pending(Top) = {}, GenChild(ReplaceTop(f)),
                  UNCHANGED <<nblocks, placed, errorLogged>>
           PROVE  AccountInv'
    BY <2>next, <2>typ, <2>acc, <2>glue, IsPendingOps DEF GenChild, Live
  <2>done. ASSUME NEW v, ctl = "return", stack # <<>>, Pending(Top) = {}, Return(v, Below),
                  UNCHANGED <<nblocks, placed, errorLogged>>
           PROVE  AccountInv'
    BY <2>done, <2>typ, <2>acc, <2>glue, IsPendingOps DEF Return, Live
  <2>res. ASSUME NEW k, Resumes(k), k \notin {"IfThen", "IfElse"}
          PROVE  ctl = "return" /\ stack # <<>> /\ Pending(Top) = {}
    BY <2>res DEF Resumes, Pending
  <2>abt. ASSUME Abort PROVE AccountInv'
    BY <2>abt DEF Abort, AccountInv, AcceptedComplete, Live
  <2>1. CASE NumberExpr
    BY <2>1, <2>leaf DEF NumberExpr, cfgVars
  <2>2. ASSUME NEW n \in VarNames, VariableExpr(n) PROVE AccountInv'
    BY <2>2, <2>leaf, <2>rej DEF VariableExpr, cfgVars
  <2>3. CASE Propagate
    <3>1. errorLogged'
      BY <2>3 DEF Propagate, FailureInv, Live
    <3> QED BY <2>3, <3>1, <2>glue DEF Propagate, Return
  <2>4. ASSUME NEW op \in UnaryOps, UnaryEnter(op) PROVE AccountInv'
    BY <2>4, <2>push DEF UnaryEnter, Enters, cfgVars
  <2>5. CASE UnaryApply
    BY <2>5, <2>res, <2>done, <2>rej DEF UnaryApply
  <2>6. ASSUME NEW op \in UserOps \cup {Arith}, BinaryEnter(op) PROVE AccountInv'
    BY <2>6, <2>push DEF BinaryEnter, Enters, cfgVars
  <2>7. CASE BinaryLHS
    BY <2>7, <2>next DEF BinaryLHS, Pending, cfgVars
  <2>8. CASE BinaryLeftFailed
    BY <2>8, <2>res, <2>done DEF BinaryLeftFailed, cfgVars
  <2>9. CASE BinaryApply
    BY <2>9, <2>res, <2>done DEF BinaryApply
  <2>10. CASE BinaryUnresolved
    BY <2>10, <2>abt DEF BinaryUnresolved
  <2>11. ASSUME NEW lhs \in VarNames \cup {NotVar}, AssignEnter(lhs) PROVE AccountInv'
    BY <2>11, <2>push DEF AssignEnter, Enters, cfgVars
  <2>sto. ASSUME NEW n, Resumes("Assign"), StoreTo(n) PROVE AccountInv'
    BY <2>sto, <2>res, <2>done, <2>rej DEF StoreTo
  <2>12. CASE AssignStore
    BY <2>12, <2>sto DEF AssignStore
  <2>13. CASE AssignWild
    BY <2>13, <2>sto, <2>rej, <2>abt DEF AssignWild
  <2>14. ASSUME NEW f \in Callees, NEW nargs \in 0..MaxArgs, CallEnter(f, nargs) PROVE AccountInv'
    BY <2>14, <2>push, <2>leaf, <2>rej DEF CallEnter, Enters, cfgVars
  <2>15. CASE CallArg
    BY <2>15, <2>res, <2>next DEF CallArg, cfgVars
  <2>16. CASE CallApply
    BY <2>16, <2>res, <2>done DEF CallApply
  <2>17. CASE IfEnter
    BY <2>17, <2>push DEF IfEnter, Enters, cfgVars
  <2>18. CASE IfBranch
    <3> DEFINE f == [kind |-> "IfThen", ElseBB |-> nblocks + 2, MergeBB |-> nblocks + 3]
    <3>1. /\ ctl = "return" /\ stack # <<>> /\ Pending(Top) = {}
          /\ nblocks' = nblocks + 3 /\ placed' = placed \cup {nblocks + 1}
          /\ GenChild(ReplaceTop(f)) /\ UNCHANGED errorLogged
      BY <2>18, <2>res DEF IfBranch
    <3>2. Pending(f) = {nblocks + 2, nblocks + 3}
      BY DEF Pending
    <3>3. \A b \in 1..nblocks' : b \in 1..nblocks \/ b \in {nblocks + 1, nblocks + 2, nblocks + 3}
      BY <3>1, <2>typ
    <3> HIDE DEF f
    <3> QED BY <3>1, <3>2, <3>3, <2>typ, <2>acc, <2>glue, IsPendingOps DEF GenChild, Live
  <2>19. CASE IfElse
    <3> DEFINE f == [kind |-> "IfElse", ThenV |-> ret, ThenBB |-> insertBlock, MergeBB |-> Top.MergeBB]
    <3>1. /\ ctl = "return" /\ stack # <<>> /\ Pending(Top) = {Top.ElseBB, Top.MergeBB}
          /\ nblocks' = nblocks /\ placed' = placed \cup {Top.ElseBB}
          /\ GenChild(ReplaceTop(f)) /\ UNCHANGED errorLogged
      BY <2>19 DEF IfElse, JumpAndPlace, Resumes, Pending
    <3>2. Pending(f) = {Top.MergeBB}
      BY DEF Pending
    <3> HIDE DEF f
    <3> QED BY <3>1, <3>2, <2>typ, <2>acc, <2>glue, IsPendingOps DEF GenChild, Live
  <2>20. CASE IfMerge
    <3>1. /\ ctl = "return" /\ stack # <<>> /\ Pending(Top) = {Top.MergeBB}
          /\ nblocks' = nblocks /\ placed' = placed \cup {Top.MergeBB}
          /\ stack' = Below /\ ctl' = "return" /\ UNCHANGED errorLogged
      BY <2>20 DEF IfMerge, JumpAndPlace, Resumes, Pending, Return
    <3> QED BY <3>1, <2>typ, <2>acc, <2>glue, IsPendingOps DEF Live
  <2>21. ASSUME NEW n \in VarNames, ForEnter(n) PROVE AccountInv'
    BY <2>21, <2>push DEF ForEnter, Enters, cfgVars
  <2>22. CASE ForLoop
    <3>1. PICK f : /\ ctl = "return" /\ stack # <<>> /\ Pending(Top) = {}
                   /\ nblocks' = nblocks + 1 /\ placed' = placed \cup {nblocks + 1}
                   /\ GenChild(ReplaceTop(f)) /\ UNCHANGED errorLogged
      BY <2>22, <2>res DEF ForLoop
    <3>2. \A b \in 1..nblocks' : b \in 1..nblocks \/ b = nblocks + 1
      BY <3>1, <2>typ
    <3> QED BY <3>1, <3>2, <2>typ, <2>acc, <2>glue, IsPendingOps DEF GenChild, Live
  <2>23. CASE ForStep
    BY <2>23, <2>res, <2>next DEF ForStep, cfgVars
  <2>24. CASE ForEnd
    BY <2>24, <2>res, <2>next DEF ForEnd, cfgVars
  <2>25. CASE ForExit
    <3>1. /\ ctl = "return" /\ stack # <<>> /\ Pending(Top) = {}
          /\ nblocks' = nblocks + 1 /\ placed' = placed \cup {nblocks + 1}
          /\ stack' = Below /\ ctl' = "return" /\ UNCHANGED errorLogged
      BY <2>25, <2>res DEF ForExit, Return
    <3>2. \A b \in 1..nblocks' : b \in 1..nblocks \/ b = nblocks + 1
      BY <3>1, <2>typ
    <3> QED BY <3>1, <3>2, <2>typ, <2>acc, <2>glue, IsPendingOps DEF Live
  <2>26. ASSUME NEW names \in VarLists, VarEnter(names) PROVE AccountInv'
    BY <2>26, <2>push DEF VarEnter, Enters, cfgVars
  <2>27. CASE VarBind
    BY <2>27, <2>res, <2>next DEF VarBind
  <2>28. CASE VarExit
    BY <2>28, <2>res, <2>done DEF VarExit, cfgVars
  <2>29. ASSUME NEW ps \in ParamLists, FunctionEnter(ps) PROVE AccountInv'
    <3>1. ctl' = "call" /\ nblocks' = 1 /\ placed' = {1}
      BY <2>29 DEF FunctionEnter, GenChild, Entry
    <3>2. \A b \in 1..nblocks' : b \in placed'
      BY <3>1
    <3> QED BY <3>1, <3>2, <2>glue
  <2>30. CASE FunctionAccept
    <3>1. stack = <<>> /\ Live /\ ~errorLogged
      BY <2>30, <2>typ, HasFailedOps DEF FunctionAccept, FailureInv, Live
    <3>2. placed = 1..nblocks
      <4>1. \A b \in 1..nblocks : ~IsPending(stack, b)
        BY <3>1 DEF IsPending
      <4>2. 1..nblocks \subseteq placed
        BY <3>1, <2>acc, <4>1
      <4>3. placed \subseteq 1..nblocks
        BY <3>1, BlockInvParts DEF GraphInv
      <4> QED BY <4>2, <4>3
    <3>3. terminated \cup {insertBlock} = placed
      BY <3>1, BlockInvParts DEF GraphInv
    <3> QED BY <2>30, <3>2, <3>3 DEF FunctionAccept, AccountInv, AcceptedComplete, Live
  <2>31. CASE FunctionErase
    BY <2>31 DEF FunctionErase, AccountInv, AcceptedComplete, Live
  <2>32. CASE UNCHANGED vars
    BY <2>32 DEF vars, ctlVars, cfgVars, AccountInv, AcceptedComplete, Live, IsPending
  <2>33. CASE Gone
    BY <2>33, <2>32 DEF Gone
  <2>34. CASE Expr
    BY <2>34, <2>1, <2>2, <2>4, <2>6, <2>11, <2>14, <2>17, <2>21, <2>26 DEF Expr
  <2>35. CASE Resume
    BY <2>35, <2>3, <2>5, <2>7, <2>8, <2>9, <2>10, <2>12, <2>13, <2>15, <2>16, <2>18, <2>19,
       <2>20, <2>22, <2>23, <2>24, <2>25, <2>27, <2>28 DEF Resume
  <2> QED
    BY <2>29, <2>30, <2>31, <2>32, <2>33, <2>34, <2>35 DEF Next
<1>3. AccountInv => AcceptedComplete
  BY DEF AccountInv
<1> QED
  BY <1>1, <1>2, <1>3, TypeCorrect, FailureInvariant, BlockInvariant, PTL DEF Spec
=============================================================================

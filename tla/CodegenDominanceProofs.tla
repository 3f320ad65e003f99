----------------------- MODULE CodegenDominanceProofs -----------------------
(***************************************************************************)
(* Values dominate their uses, for every program.                          *)
(*                                                                         *)
(* Block d dominates block b if a set of blocks leads away from the entry, *)
(* is left through d only, and does not hold b.  Such a set is a           *)
(* certificate that DefsDominateUses can be read from, and the growth of   *)
(* the graph can be followed with it: certificates may be intersected, and *)
(* new blocks may be put into them.                                        *)
(*                                                                         *)
(* The invariant is about the values that activations hold: they dominate  *)
(* the builder's block, however generating a child has moved it, and those *)
(* of the activations around an if also dominate the blocks that the if    *)
(* has still to place.                                                     *)
(***************************************************************************)
EXTENDS CodegenBlockProofs, WellFoundedInduction

----------------------------------------------------------------------------
(* Induction on numbers: a set of naturals that is not empty has a least   *)
(* element.                                                                *)

Less == {pair \in Nat \X Nat : pair[1] < pair[2]}

LEMMA LessIsWellFounded == IsWellFoundedOn(Less, Nat)
BY NatLessThanWellFounded, Zenon DEF OpToRel, Less

LEMMA LeastElement ==
  ASSUME NEW S, S \subseteq Nat, S # {}
  PROVE  \E m \in S : \A k \in S : m <= k
<1>1. PICK m \in S : \A k \in S : ~(<<k, m>> \in Less)
  BY LessIsWellFounded, WFMin
<1>2. ASSUME NEW k \in S PROVE m <= k
  <2>1. m \in Nat /\ k \in Nat
    OBVIOUS
  <2>2. ~(k < m)
    BY <1>1, <2>1 DEF Less
  <2> QED BY <2>1, <2>2
<1> QED BY <1>2

\* Induction, for a property that is the membership in a set.
LEMMA Induction ==
  ASSUME NEW n \in Nat, NEW S, 0 \in S,
         \A k \in 1..n : k-1 \in S => k \in S
  PROVE  \A k \in 0..n : k \in S
<1> DEFINE T == {k \in 0..n : k \notin S}
<1>1. SUFFICES ASSUME T # {} PROVE FALSE
  OBVIOUS
<1>2. PICK m \in T : \A k \in T : m <= k
  <2>1. T \subseteq Nat
    OBVIOUS
  <2> HIDE DEF T
  <2> QED BY <1>1, <2>1, LeastElement
<1>3. m \in 0..n /\ m \notin S
  OBVIOUS
<1>4. m # 0 /\ m \in 1..n /\ m-1 \in 0..n
  BY <1>3
<1>5. m-1 \notin S
  BY <1>3, <1>4
<1>6. m-1 \in T
  BY <1>4, <1>5
<1>7. m <= m-1
  BY <1>2, <1>6
<1> QED BY <1>4, <1>7

----------------------------------------------------------------------------
(* What ReachableAvoiding computes.                                        *)

Step(S, ed, d) == S \cup ({e[2] : e \in {e \in ed : e[1] \in S}} \ {d})

\* r is the table of the blocks reached within k steps, for k in 0..n.
IsReach(r, n, ed, d) ==
  r = [k \in 0..n |-> IF k = 0 THEN {Entry} \ {d} ELSE Step(r[k-1], ed, d)]

\* There is one: the recursion is well-defined.
LEMMA ReachExists ==
  ASSUME NEW n \in Nat, NEW ed, NEW d
  PROVE  \E r : IsReach(r, n, ed, d)
<1> DEFINE S == {k \in Nat : \E r : IsReach(r, k, ed, d)}
<1>1. 0 \in S
  <2> DEFINE r == [k \in 0..0 |-> {Entry} \ {d}]
  <2>1. IsReach(r, 0, ed, d)
    BY DEF IsReach
  <2> QED BY <2>1
<1>2. ASSUME NEW m \in 1..n, m-1 \in S
      PROVE  m \in S
  <2>1. PICK g : IsReach(g, m-1, ed, d)
    BY <1>2
  <2> DEFINE f == [k \in 0..m |-> IF k < m THEN g[k] ELSE Step(g[m-1], ed, d)]
  <2>2. ASSUME NEW k \in 0..m
        PROVE  f[k] = IF k = 0 THEN {Entry} \ {d} ELSE Step(f[k-1], ed, d)
    <3>1. CASE k = m
      <4>1. k # 0 /\ f[k] = Step(g[m-1], ed, d) /\ m-1 \in 0..m /\ m-1 < m
        BY <3>1
      <4>2. f[k-1] = g[m-1]
        BY <3>1, <4>1
      <4> QED BY <4>1, <4>2
    <3>2. CASE k # m
      <4>1. k \in 0..m-1 /\ k < m /\ f[k] = g[k]
        BY <3>2
      <4>2. g[k] = IF k = 0 THEN {Entry} \ {d} ELSE Step(g[k-1], ed, d)
        BY <2>1, <4>1 DEF IsReach
      <4>3. k # 0 => f[k-1] = g[k-1]
        BY <4>1
      <4> HIDE DEF f
      <4> QED BY <4>1, <4>2, <4>3
    <3> QED BY <3>1, <3>2
  <2>3. f = [k \in 0..m |-> f[k]]
    OBVIOUS
  <2> HIDE DEF f
  <2>4. IsReach(f, m, ed, d)
    BY <2>2, <2>3 DEF IsReach
  <2> QED BY <2>4
<1> HIDE DEF S
<1>3. n \in S
  BY <1>1, <1>2, Induction
<1> QED BY <1>3 DEF S

\* The blocks reached stay in every set that leads away from the entry and is
\* left through d only.
LEMMA ReachStays ==
  ASSUME NEW n \in Nat, NEW ed, NEW d, NEW r, IsReach(r, n, ed, d),
         NEW C, Entry \in C \cup {d}, \A e \in ed : e[1] \in C => e[2] \in C \cup {d}
  PROVE  r[n] \subseteq C
<1> DEFINE S == {k \in 0..n : r[k] \subseteq C}
<1>1. 0 \in S
  BY DEF IsReach
<1>2. ASSUME NEW k \in 1..n, k-1 \in S PROVE k \in S
  <2>1. r[k] = Step(r[k-1], ed, d) /\ r[k-1] \subseteq C
    <3>1. k \in 0..n /\ k # 0
      OBVIOUS
    <3>2. r[k] = Step(r[k-1], ed, d)
      BY <3>1, Zenon DEF IsReach
    <3> QED BY <1>2, <3>2
  <2>2. Step(r[k-1], ed, d) \subseteq C
    BY <2>1 DEF Step
  <2> QED BY <2>1, <2>2
<1> HIDE DEF S
<1>3. n \in S
  BY <1>1, <1>2, Induction
<1> QED BY <1>3 DEF S

\* The function of the property is that table.
LEMMA ReachableIs ==
  ASSUME NEW d
  PROVE  ReachableAvoiding(d) = (CHOOSE r : IsReach(r, nblocks, edges, d))[nblocks]
BY DEF ReachableAvoiding, IsReach, Step

\* So such a set shows what is not reachable.
LEMMA ReachableWithin ==
  ASSUME nblocks \in Nat, NEW d, NEW C, Entry \in C \cup {d},
         \A e \in edges : e[1] \in C => e[2] \in C \cup {d}
  PROVE  ReachableAvoiding(d) \subseteq C
<1> DEFINE r == CHOOSE r : IsReach(r, nblocks, edges, d)
<1>1. IsReach(r, nblocks, edges, d)
  BY ReachExists
<1>2. ReachableAvoiding(d) = r[nblocks]
  BY ReachableIs
<1> HIDE DEF r
<1> QED BY <1>1, <1>2, ReachStays

----------------------------------------------------------------------------
(* Dominance, and the growth of a graph.                                   *)

\* C leads away from the entry, and edges leave it for d only.
Cut(C, ed, d) == Entry \in C \cup {d} /\ \A e \in ed : e[1] \in C => e[2] \in C \cup {d}

\* Along the edges ed, b can only be reached through d.
Dom(ed, d, b) == \E C \in SUBSET Nat : Cut(C, ed, d) /\ b \notin C

\* Every edge has block targets.
Targets(ed) == \A e \in ed : e[2] \in Nat

\* Every block dominates itself.
LEMMA DomSelf ==
  ASSUME NEW ed, Targets(ed), NEW d
  PROVE  Dom(ed, d, d)
<1>1. Cut(Nat \ {d}, ed, d)
  BY DEF Cut, Targets, Entry
<1> QED BY <1>1 DEF Dom

\* A block that nothing jumps to is reached through everything.
LEMMA DomUnreached ==
  ASSUME NEW ed, Targets(ed), NEW b, b # Entry, \A e \in ed : e[2] # b, NEW d
  PROVE  Dom(ed, d, b)
<1>1. Cut(Nat \ {b}, ed, d)
  BY DEF Cut, Targets, Entry
<1> QED BY <1>1 DEF Dom

\* Jumps out of a block that d dominates add no way around d.
LEMMA DomFrom ==
  ASSUME NEW ed, NEW d, NEW a, Dom(ed, d, a), NEW b, Dom(ed, d, b),
         NEW E, \A e \in E : e[1] = a
  PROVE  Dom(ed \cup E, d, b)
<1>1. PICK C \in SUBSET Nat : Cut(C, ed, d) /\ a \notin C
  BY DEF Dom
<1>2. PICK D \in SUBSET Nat : Cut(D, ed, d) /\ b \notin D
  BY DEF Dom
<1>3. Entry \in (C \cap D) \cup {d}
  BY <1>1, <1>2 DEF Cut
<1>4. ASSUME NEW e \in ed \cup E, e[1] \in C \cap D PROVE e[2] \in (C \cap D) \cup {d}
  <2>1. e \in ed
    BY <1>1, <1>4
  <2> QED BY <1>1, <1>2, <1>4, <2>1 DEF Cut
<1>5. Cut(C \cap D, ed \cup E, d) /\ b \notin C \cap D /\ C \cap D \in SUBSET Nat
  BY <1>2, <1>3, <1>4 DEF Cut
<1> QED BY <1>5 DEF Dom

\* Jumps to blocks that have no terminator yet change nothing for the others.
LEMMA DomInto ==
  ASSUME NEW ed, NEW d, NEW b, Dom(ed, d, b), NEW T \in SUBSET Nat, b \notin T,
         \A e \in ed : e[1] \notin T, NEW E, \A e \in E : e[1] \notin T /\ e[2] \in T
  PROVE  Dom(ed \cup E, d, b)
<1>1. PICK C \in SUBSET Nat : Cut(C, ed, d) /\ b \notin C
  BY DEF Dom
<1>2. Cut(C \cup T, ed \cup E, d)
  BY <1>1 DEF Cut
<1> QED BY <1>1, <1>2 DEF Dom

\* A jump back to a block that dominates the one it leaves changes nothing.
LEMMA DomBack ==
  ASSUME NEW ed, NEW d, NEW b, Dom(ed, d, b), NEW l, l # Entry, NEW a, Dom(ed, l, a)
  PROVE  Dom(ed \cup {<<a, l>>}, d, b)
<1>1. PICK C \in SUBSET Nat : Cut(C, ed, d) /\ b \notin C
  BY DEF Dom
<1>2. PICK L \in SUBSET Nat : Cut(L, ed, l) /\ a \notin L
  BY DEF Dom
<1>3. CASE l \in C \cup {d}
  <2>1. Cut(C, ed \cup {<<a, l>>}, d)
    BY <1>1, <1>3 DEF Cut
  <2> QED BY <1>1, <2>1 DEF Dom
<1>4. CASE l \notin C \cup {d}
  <2>1. Entry \in (C \cap L) \cup {d}
    BY <1>1, <1>2 DEF Cut
  <2>2. ASSUME NEW e \in ed \cup {<<a, l>>}, e[1] \in C \cap L
        PROVE  e[2] \in (C \cap L) \cup {d}
    <3>1. e \in ed
      BY <1>2, <2>2
    <3>2. e[2] \in C \cup {d} /\ e[2] \in L \cup {l}
      BY <1>1, <1>2, <2>2, <3>1 DEF Cut
    <3> QED BY <1>4, <3>2
  <2>3. Cut(C \cap L, ed \cup {<<a, l>>}, d) /\ b \notin C \cap L /\ C \cap L \in SUBSET Nat
    BY <1>1, <2>1, <2>2 DEF Cut
  <2> QED BY <2>3 DEF Dom
<1> QED BY <1>3, <1>4

\* What dominates a block also dominates a new one that only it jumps to.
LEMMA DomNew ==
  ASSUME NEW ed, Targets(ed), NEW d, NEW a, Dom(ed, d, a), NEW b, b # Entry,
         \A e \in ed : e[2] # b, NEW E, \A e \in E : e[1] = a
  PROVE  Dom(ed \cup E, d, b)
<1>1. Dom(ed, d, b)
  BY DomUnreached
<1> QED BY <1>1, DomFrom

\* Dominance is what the property checks.
LEMMA DomIsUnreachable ==
  ASSUME nblocks \in Nat, NEW d, NEW b, Dom(edges, d, b)
  PROVE  b \notin ReachableAvoiding(d)
<1>1. PICK C \in SUBSET Nat : Cut(C, edges, d) /\ b \notin C
  BY DEF Dom
<1>2. ReachableAvoiding(d) \subseteq C
  BY <1>1, ReachableWithin DEF Cut
<1> QED BY <1>1, <1>2

----------------------------------------------------------------------------
(* The values that activations hold.                                       *)

\* The blocks of the values that an activation will still use, its loop's
\* first block included: the back edge has to lead to a dominator.
Held(f) ==
  CASE f.kind = "BinaryRHS"            -> {f.L} \ {Const, Fail}
    [] f.kind = "CallArg"              -> f.argsV \ {Const}
    [] f.kind \in {"ForBody", "ForStep"} -> {f.LoopBB}
    [] f.kind = "ForEnd"               -> {f.LoopBB} \cup ({f.StepVal} \ {Const})
    [] OTHER                           -> {}

\* The values held in the activations s dominate block b.
Holds(s, ed, b) == \A i \in 1..Len(s) : \A v \in Held(s[i]) : Dom(ed, v, b)

\* The values held around an if dominate the blocks that it has yet to place.
Guarded(s, ed) ==
  \A j \in 1..Len(s) : \A i \in 1..(j-1) :
    \A v \in Held(s[i]) : \A w \in Pending(s[j]) : Dom(ed, v, w)

\* The value of a "then" branch dominates the end of it, and no loop starts at
\* the entry.
Branch(f, ed, pl) ==
  /\ f.kind = "IfElse" => f.ThenBB \in pl /\ (f.ThenV # Const => Dom(ed, f.ThenV, f.ThenBB))
  /\ IsFor(f) => f.LoopBB # Entry

Branches(s, ed, pl) == \A i \in 1..Len(s) : Branch(s[i], ed, pl)

Flow ==
  /\ Holds(stack, edges, insertBlock)
  /\ ret \notin {Const, Fail} => Dom(edges, ret, insertBlock)
  /\ Guarded(stack, edges)
  /\ Branches(stack, edges, placed)
  /\ \A e \in edges : e[1] \in terminated
  /\ Entry \in placed

UsesOK(us, ed, pl) == \A u \in us : u[2] \in pl /\ Dom(ed, u[1], u[2])

DomInv ==
  /\ Live => Flow
  /\ UsesOK(uses, edges, placed)

\* Values stay where they dominate when an activation starts, goes on or ends.
LEMMA HoldsOps ==
  ASSUME stack \in Seq(Frame), NEW ed, NEW b
  PROVE  /\ Holds(<<>>, ed, b)
         /\ \A f : Holds(stack, ed, b) /\ Held(f) = {} => Holds(Push(f), ed, b)
         /\ stack # <<>> =>
              /\ Holds(stack, ed, b) <=> Holds(Below, ed, b) /\ \A v \in Held(Top) : Dom(ed, v, b)
              /\ \A f : Holds(Below, ed, b) /\ (\A v \in Held(f) : Dom(ed, v, b))
                          => Holds(ReplaceTop(f), ed, b)
<1>1. Holds(<<>>, ed, b)
  BY DEF Holds
<1>2. ASSUME NEW f, Holds(stack, ed, b), Held(f) = {}
      PROVE  Holds(Push(f), ed, b)
  <2>1. /\ Len(stack) \in Nat /\ Len(Push(f)) = Len(stack) + 1
        /\ \A i \in 1..Len(stack) : Push(f)[i] = stack[i]
        /\ Push(f)[Len(stack) + 1] = f
    BY StackShape
  <2>2. \A i \in 1..Len(Push(f)) : i \in 1..Len(stack) \/ i = Len(stack) + 1
    BY <2>1
  <2> QED BY <1>2, <2>1, <2>2 DEF Holds
<1>3. ASSUME stack # <<>>
      PROVE  /\ Holds(stack, ed, b) <=> Holds(Below, ed, b) /\ \A v \in Held(Top) : Dom(ed, v, b)
             /\ \A f : Holds(Below, ed, b) /\ (\A v \in Held(f) : Dom(ed, v, b))
                         => Holds(ReplaceTop(f), ed, b)
  <2>1. /\ Len(stack) \in Nat \ {0} /\ Len(Below) = Len(stack) - 1
        /\ \A i \in 1..Len(stack) - 1 : Below[i] = stack[i]
        /\ \A f : /\ Len(ReplaceTop(f)) = Len(stack)
                  /\ ReplaceTop(f)[Len(stack)] = f
                  /\ \A i \in 1..Len(stack) - 1 : ReplaceTop(f)[i] = stack[i]
    BY <1>3, StackOps, StackShape
  <2>2. /\ \A i \in 1..Len(stack) : i \in 1..Len(stack) - 1 \/ i = Len(stack)
        /\ 1..Len(stack) - 1 \subseteq 1..Len(stack) /\ Len(stack) \in 1..Len(stack)
    BY <2>1
  <2>3. Holds(stack, ed, b) <=> Holds(Below, ed, b) /\ \A v \in Held(Top) : Dom(ed, v, b)
    BY <2>1, <2>2 DEF Holds, Top
  <2>4. ASSUME NEW f, Holds(Below, ed, b), \A v \in Held(f) : Dom(ed, v, b)
        PROVE  Holds(ReplaceTop(f), ed, b)
    BY <2>1, <2>2, <2>4 DEF Holds
  <2> QED BY <2>3, <2>4
<1> QED
  BY <1>1, <1>2, <1>3

\* The same for what each activation says of its own branches and loop.
LEMMA BranchesOps ==
  ASSUME stack \in Seq(Frame), NEW ed, NEW pl
  PROVE  /\ Branches(<<>>, ed, pl)
         /\ \A f : Branches(stack, ed, pl) /\ Branch(f, ed, pl) => Branches(Push(f), ed, pl)
         /\ stack # <<>> =>
              /\ Branches(stack, ed, pl) <=> Branches(Below, ed, pl) /\ Branch(Top, ed, pl)
              /\ \A f : Branches(Below, ed, pl) /\ Branch(f, ed, pl)
                          => Branches(ReplaceTop(f), ed, pl)
<1>1. Branches(<<>>, ed, pl)
  BY DEF Branches
<1>2. ASSUME NEW f, Branches(stack, ed, pl), Branch(f, ed, pl)
      PROVE  Branches(Push(f), ed, pl)
  <2>1. /\ Len(stack) \in Nat /\ Len(Push(f)) = Len(stack) + 1
        /\ \A i \in 1..Len(stack) : Push(f)[i] = stack[i]
        /\ Push(f)[Len(stack) + 1] = f
    BY StackShape
  <2>2. \A i \in 1..Len(Push(f)) : i \in 1..Len(stack) \/ i = Len(stack) + 1
    BY <2>1
  <2> QED BY <1>2, <2>1, <2>2 DEF Branches
<1>3. ASSUME stack # <<>>
      PROVE  /\ Branches(stack, ed, pl) <=> Branches(Below, ed, pl) /\ Branch(Top, ed, pl)
             /\ \A f : Branches(Below, ed, pl) /\ Branch(f, ed, pl)
                         => Branches(ReplaceTop(f), ed, pl)
  <2>1. /\ Len(stack) \in Nat \ {0} /\ Len(Below) = Len(stack) - 1
        /\ \A i \in 1..Len(stack) - 1 : Below[i] = stack[i]
        /\ \A f : /\ Len(ReplaceTop(f)) = Len(stack)
                  /\ ReplaceTop(f)[Len(stack)] = f
                  /\ \A i \in 1..Len(stack) - 1 : ReplaceTop(f)[i] = stack[i]
    BY <1>3, StackOps, StackShape
  <2>2. /\ \A i \in 1..Len(stack) : i \in 1..Len(stack) - 1 \/ i = Len(stack)
        /\ 1..Len(stack) - 1 \subseteq 1..Len(stack) /\ Len(stack) \in 1..Len(stack)
    BY <2>1
  <2>3. Branches(stack, ed, pl) <=> Branches(Below, ed, pl) /\ Branch(Top, ed, pl)
    BY <2>1, <2>2 DEF Branches, Top
  <2>4. ASSUME NEW f, Branches(Below, ed, pl), Branch(f, ed, pl)
        PROVE  Branches(ReplaceTop(f), ed, pl)
    BY <2>1, <2>2, <2>4 DEF Branches
  <2> QED BY <2>3, <2>4
<1> QED
  BY <1>1, <1>2, <1>3

\* The same for the blocks that are still to be placed.
LEMMA GuardedOps ==
  ASSUME stack \in Seq(Frame), NEW ed
  PROVE  /\ Guarded(<<>>, ed)
         /\ \A f : Guarded(stack, ed) /\ Pending(f) = {} => Guarded(Push(f), ed)
         /\ stack # <<>> =>
              /\ Guarded(stack, ed) => Guarded(Below, ed) /\ \A w \in Pending(Top) : Holds(Below, ed, w)
              /\ \A f : Guarded(Below, ed) /\ (\A w \in Pending(f) : Holds(Below, ed, w))
                          => Guarded(ReplaceTop(f), ed)
<1>1. Guarded(<<>>, ed)
  BY DEF Guarded
<1>2. ASSUME NEW f, Guarded(stack, ed), Pending(f) = {}
      PROVE  Guarded(Push(f), ed)
  <2>1. /\ Len(stack) \in Nat /\ Len(Push(f)) = Len(stack) + 1
        /\ \A i \in 1..Len(stack) : Push(f)[i] = stack[i]
        /\ Push(f)[Len(stack) + 1] = f
    BY StackShape
  <2>2. /\ \A j \in 1..Len(Push(f)) : j \in 1..Len(stack) \/ j = Len(stack) + 1
        /\ \A j \in 1..Len(stack) : 1..(j-1) \subseteq 1..Len(stack)
    BY <2>1
  <2>3. ASSUME NEW j \in 1..Len(stack), NEW i \in 1..(j-1), NEW v \in Held(Push(f)[i]),
               NEW w \in Pending(Push(f)[j])
        PROVE  Dom(ed, v, w)
    <3>1. Push(f)[i] = stack[i] /\ Push(f)[j] = stack[j]
      BY <2>1, <2>2
    <3> QED BY <1>2, <3>1 DEF Guarded
  <2> QED BY <1>2, <2>1, <2>2, <2>3 DEF Guarded
<1>3. ASSUME stack # <<>>
      PROVE  /\ Guarded(stack, ed) => Guarded(Below, ed) /\ \A w \in Pending(Top) : Holds(Below, ed, w)
             /\ \A f : Guarded(Below, ed) /\ (\A w \in Pending(f) : Holds(Below, ed, w))
                         => Guarded(ReplaceTop(f), ed)
  <2>1. /\ Len(stack) \in Nat \ {0} /\ Len(Below) = Len(stack) - 1
        /\ \A i \in 1..Len(stack) - 1 : Below[i] = stack[i]
        /\ \A f : /\ Len(ReplaceTop(f)) = Len(stack)
                  /\ ReplaceTop(f)[Len(stack)] = f
                  /\ \A i \in 1..Len(stack) - 1 : ReplaceTop(f)[i] = stack[i]
    BY <1>3, StackOps, StackShape
  <2>2. /\ \A i \in 1..Len(stack) : i \in 1..Len(stack) - 1 \/ i = Len(stack)
        /\ \A j \in 1..Len(stack) : 1..(j-1) \subseteq 1..Len(stack) - 1
        /\ 1..Len(stack) - 1 \subseteq 1..Len(stack) /\ Len(stack) \in 1..Len(stack)
    BY <2>1
  <2>3. ASSUME Guarded(stack, ed)
        PROVE  Guarded(Below, ed) /\ \A w \in Pending(Top) : Holds(Below, ed, w)
    <3>1. ASSUME NEW j \in 1..Len(Below), NEW i \in 1..(j-1), NEW v \in Held(Below[i]),
                 NEW w \in Pending(Below[j])
          PROVE  Dom(ed, v, w)
      <4>1. j \in 1..Len(stack) /\ Below[j] = stack[j] /\ Below[i] = stack[i]
        BY <2>1, <2>2
      <4> QED BY <2>3, <4>1 DEF Guarded
    <3>2. ASSUME NEW w \in Pending(Top), NEW i \in 1..Len(Below), NEW v \in Held(Below[i])
          PROVE  Dom(ed, v, w)
      <4>1. Below[i] = stack[i] /\ i \in 1..(Len(stack) - 1)
        BY <2>1
      <4> QED BY <2>2, <2>3, <4>1 DEF Guarded, Top
    <3> QED BY <3>1, <3>2 DEF Guarded, Holds
  <2>4. ASSUME NEW f, Guarded(Below, ed), \A w \in Pending(f) : Holds(Below, ed, w)
        PROVE  Guarded(ReplaceTop(f), ed)
    <3>1. ASSUME NEW j \in 1..Len(stack), NEW i \in 1..(j-1), NEW v \in Held(ReplaceTop(f)[i]),
                 NEW w \in Pending(ReplaceTop(f)[j])
          PROVE  Dom(ed, v, w)
      <4>1. i \in 1..Len(Below) /\ ReplaceTop(f)[i] = Below[i]
        BY <2>1, <2>2
      <4>2. CASE j = Len(stack)
        BY <2>1, <2>4, <4>1, <4>2 DEF Holds
      <4>3. CASE j # Len(stack)
        <5>1. j \in 1..Len(Below) /\ ReplaceTop(f)[j] = Below[j]
          BY <2>1, <2>2, <4>3
        <5> QED BY <2>4, <4>1, <5>1 DEF Guarded
      <4> QED BY <4>2, <4>3
    <3>2. Len(ReplaceTop(f)) = Len(stack)
      BY <2>1
    <3> QED BY <3>1, <3>2 DEF Guarded
  <2> QED BY <2>3, <2>4
<1> QED
  BY <1>1, <1>2, <1>3

\* The blocks X are dominated along ed2 by whatever dominates them along ed.
Keeps(ed, ed2, X) == \A d : \A x \in X : Dom(ed, d, x) => Dom(ed2, d, x)

\* What is said of activations and uses goes over to a graph that keeps the
\* placed blocks and those that the activations wait for.
LEMMA KeepsAll ==
  ASSUME NEW ed, NEW ed2, NEW X, Keeps(ed, ed2, X), NEW pl, NEW pl2, pl \subseteq X, pl \subseteq pl2,
         NEW s, Branches(s, ed, pl), Guarded(s, ed), \A i \in 1..Len(s) : Pending(s[i]) \subseteq X,
         NEW us, UsesOK(us, ed, pl)
  PROVE  Branches(s, ed2, pl2) /\ Guarded(s, ed2) /\ UsesOK(us, ed2, pl2)
<1>1. Branches(s, ed2, pl2)
  BY DEF Branches, Branch, Keeps
<1>2. Guarded(s, ed2)
  BY DEF Guarded, Keeps
<1>3. UsesOK(us, ed2, pl2)
  BY DEF UsesOK, Keeps
<1> QED
  BY <1>1, <1>2, <1>3

\* DomInv is an invariant: between two jumps the builder stays in its block,
\* and the five actions that extend the graph keep what dominated before.
LEMMA DomInvariant == Spec => []DomInv
<1>1. Init => DomInv
  BY DEF Init, DomInv, Live, UsesOK
<1>2. TypeOK /\ BlockInv /\ DomInv /\ [Next]_vars => DomInv'
  <2> SUFFICES ASSUME TypeOK, BlockInv, DomInv, [Next]_vars PROVE DomInv'
    OBVIOUS
  <2>typ. /\ stack \in Seq(Frame) /\ ret \in Value
          /\ nblocks \in Nat /\ insertBlock \in Nat
          /\ edges \subseteq Nat \X Nat
    BY DEF TypeOK, CtlTypeOK, CfgTypeOK
  <2>tgt. Targets(edges)
    BY <2>typ DEF Targets
  <2>gr. GraphInv
    BY BlockInvParts
  <2>use. UsesOK(uses, edges, placed)
    BY DEF DomInv
  <2>flow. ASSUME Live
           PROVE  /\ Holds(stack, edges, insertBlock)
                  /\ ret \notin {Const, Fail} => Dom(edges, ret, insertBlock)
                  /\ Guarded(stack, edges) /\ Branches(stack, edges, placed)
                  /\ \A e \in edges : e[1] \in terminated
                  /\ Entry \in placed /\ nblocks >= 1
                  /\ insertBlock \in placed /\ placed \subseteq 1..nblocks
                  /\ terminated \subseteq placed
    <3>1. /\ Entry \in placed /\ placed \subseteq 1..nblocks
          /\ insertBlock \in placed /\ terminated \subseteq placed
      BY <2>flow, <2>gr DEF DomInv, Flow, GraphInv
    <3>2. nblocks >= 1
      BY <3>1, <2>typ DEF Entry
    <3> QED BY <2>flow, <3>1, <3>2 DEF DomInv, Flow
  <2>glue. ASSUME Holds(stack', edges', insertBlock'),
                  ret' \notin {Const, Fail} => Dom(edges', ret', insertBlock'),
                  Guarded(stack', edges'), Branches(stack', edges', placed'),
                  \A e \in edges' : e[1] \in terminated',
                  Entry \in placed', UsesOK(uses', edges', placed')
           PROVE  DomInv'
    <3>1. Flow'
      BY <2>glue DEF Flow, Holds, Guarded, Branches
    <3>2. UsesOK(uses, edges, placed)'
      BY <2>glue DEF UsesOK
    <3> QED BY <3>1, <3>2 DEF DomInv
  \* What is used at the builder's block is dominated there.
  <2>here. ASSUME Live, NEW vs, \A v \in vs : v # Const => Dom(edges, v, insertBlock)
           PROVE  UsesOK(UsedHere(vs), edges, placed)
    <3>1. insertBlock \in placed
      BY <2>here, <2>flow
    <3> QED BY <2>here, <3>1 DEF UsesOK, UsedHere
  <2>both. ASSUME NEW us, NEW ed, NEW pl, UsesOK(us, ed, pl), NEW us2, UsesOK(us2, ed, pl)
           PROVE  UsesOK(us \cup us2, ed, pl)
    BY <2>both DEF UsesOK
  <2>top. ASSUME Live, stack # <<>>
          PROVE  /\ Top \in Frame /\ Branch(Top, edges, placed)
                 /\ FrameOK(Top, placed, nblocks, edges, phis)
                 /\ Branches(Below, edges, placed) /\ Guarded(Below, edges)
                 /\ Holds(Below, edges, insertBlock)
                 /\ \A v \in Held(Top) : Dom(edges, v, insertBlock)
                 /\ \A w \in Pending(Top) : Holds(Below, edges, w)
                 /\ \A i \in 1..Len(Below) :
                      Pending(Below[i]) \subseteq 1..nblocks /\ Pending(Below[i]) \cap Pending(Top) = {}
    <3>1. /\ Top \in Frame /\ Branch(Top, edges, placed)
          /\ FrameOK(Top, placed, nblocks, edges, phis)
          /\ AllOK(Below, placed, nblocks, edges, phis)
          /\ Branches(Below, edges, placed) /\ Guarded(Below, edges)
          /\ Holds(Below, edges, insertBlock)
          /\ \A v \in Held(Top) : Dom(edges, v, insertBlock)
          /\ \A w \in Pending(Top) : Holds(Below, edges, w)
      <4>1. AllOK(stack, placed, nblocks, edges, phis)
        BY BlockInvParts
      <4>2. Top \in Frame /\ FrameOK(Top, placed, nblocks, edges, phis)
            /\ AllOK(Below, placed, nblocks, edges, phis)
        BY <2>top, <2>typ, <4>1, StackOps, AllOKOps
      <4>3. Branch(Top, edges, placed) /\ Branches(Below, edges, placed)
        BY <2>top, <2>typ, <2>flow, BranchesOps
      <4>4. Guarded(Below, edges) /\ \A w \in Pending(Top) : Holds(Below, edges, w)
        BY <2>top, <2>typ, <2>flow, GuardedOps
      <4>5. Holds(Below, edges, insertBlock) /\ \A v \in Held(Top) : Dom(edges, v, insertBlock)
        BY <2>top, <2>typ, <2>flow, HoldsOps
      <4> QED BY <4>2, <4>3, <4>4, <4>5
    <3>2. ASSUME NEW i \in 1..Len(Below)
          PROVE  Pending(Below[i]) \subseteq 1..nblocks /\ Pending(Below[i]) \cap Pending(Top) = {}
      <4>1. /\ Len(stack) \in Nat \ {0} /\ Len(Below) = Len(stack) - 1
            /\ \A j \in 1..Len(stack) - 1 : Below[j] = stack[j]
        BY <2>top, <2>typ, StackOps
      <4>2. i \in 1..Len(stack) /\ Len(stack) \in 1..Len(stack) /\ i # Len(stack) /\ Below[i] = stack[i]
        BY <4>1
      <4>3. Pending(Below[i]) \cap Pending(Top) = {}
        BY <4>2, BlockInvParts DEF Disjoint, Top
      <4> QED BY <3>1, <4>3 DEF AllOK, FrameOK
    <3> QED BY <3>1, <3>2
  \* A child is generated next, below a new activation that holds nothing.
  <2>push. ASSUME NEW f, Quiet(f), Held(f) = {}, ctl = "call", GenChild(Push(f)), UNCHANGED cfgVars
           PROVE  DomInv'
    <3>1. Live /\ Pending(f) = {} /\ Branch(f, edges, placed)
      BY <2>push DEF Live, Quiet, Pending, Branch, IsFor
    <3>2. /\ Holds(Push(f), edges, insertBlock) /\ Guarded(Push(f), edges)
          /\ Branches(Push(f), edges, placed)
      BY <2>push, <2>typ, <2>flow, <3>1, HoldsOps, GuardedOps, BranchesOps
    <3>3. UNCHANGED <<insertBlock, placed, terminated, edges, uses>> /\ stack' = Push(f) /\ ret' = Const
      BY <2>push DEF cfgVars, GenChild
    <3> QED BY <3>1, <3>2, <3>3, <2>flow, <2>use, <2>glue
  \* A leaf returns.
  <2>leaf. ASSUME NEW v \in {Fail, Const, insertBlock}, ctl = "call", Return(v, stack), UNCHANGED cfgVars
           PROVE  DomInv'
    <3>1. Live /\ UNCHANGED <<insertBlock, placed, terminated, edges, uses>> /\ stack' = stack /\ ret' = v
      BY <2>leaf DEF Live, cfgVars, Return
    <3>2. v \notin {Const, Fail} => Dom(edges, v, insertBlock)
      BY <2>tgt, DomSelf
    <3> QED BY <3>1, <3>2, <2>flow, <2>use, <2>glue
  \* An activation goes on to its next child.
  <2>next. ASSUME NEW f, \A v \in Held(f) : v \in Held(Top) \/ (v = ret /\ v \notin {Const, Fail}),
                  Pending(f) = {}, f.kind # "IfElse",
                  IsFor(f) => IsFor(Top) /\ f.LoopBB = Top.LoopBB,
                  ctl = "return", stack # <<>>, GenChild(ReplaceTop(f)),
                  UNCHANGED <<insertBlock, placed, terminated, edges>>,
                  UsesOK(uses', edges, placed)
           PROVE  DomInv'
    <3>1. Live
      BY <2>next DEF Live
    <3>2. Branch(f, edges, placed) /\ \A v \in Held(f) : Dom(edges, v, insertBlock)
      BY <3>1, <2>next, <2>flow, <2>top DEF Branch
    <3>3. /\ Holds(ReplaceTop(f), edges, insertBlock) /\ Guarded(ReplaceTop(f), edges)
          /\ Branches(ReplaceTop(f), edges, placed)
      BY <2>next, <2>typ, <2>top, <3>1, <3>2, HoldsOps, GuardedOps, BranchesOps
    <3> QED BY <3>1, <3>3, <2>next, <2>flow, <2>glue DEF GenChild
  \* An activation returns, with a value or without.
  <2>done. ASSUME NEW v \in {Fail, Const, insertBlock, ret}, ctl = "return", stack # <<>>, Return(v, Below),
                  UNCHANGED <<insertBlock, placed, terminated, edges>>,
                  UsesOK(uses', edges, placed)
           PROVE  DomInv'
    <3>1. Live
      BY <2>done DEF Live
    <3>2. v \notin {Const, Fail} => Dom(edges, v, insertBlock)
      BY <2>tgt, <2>flow, <3>1, DomSelf
    <3> QED BY <3>1, <3>2, <2>done, <2>top, <2>flow, <2>glue DEF Return
  <2>same. ASSUME UNCHANGED <<ret, stack, cfgVars>>, Live' => Live PROVE DomInv'
    <3>1. UNCHANGED <<ret, stack, insertBlock, placed, terminated, edges, uses>>
      BY <2>same DEF cfgVars
    <3>2. Flow => Flow'
      BY <3>1 DEF Flow
    <3> QED BY <3>1, <3>2, <2>same DEF DomInv
  <2>abt. ASSUME Abort PROVE DomInv'
    BY <2>abt, <2>same DEF Abort, Live
  \* The use of the value that the child returned, and of those held.
  <2>ret. ASSUME NEW k, Resumes(k)
          PROVE  /\ ctl = "return" /\ stack # <<>> /\ Live /\ Top.kind = k /\ ret # Fail
                 /\ ret # Const => Dom(edges, ret, insertBlock)
    <3>1. ctl = "return" /\ stack # <<>> /\ Live /\ Top.kind = k /\ ret # Fail
      BY <2>ret DEF Resumes, Live
    <3> QED BY <3>1, <2>flow
  <2>1. CASE NumberExpr
    BY <2>1, <2>leaf DEF NumberExpr
  <2>2. ASSUME NEW n \in VarNames, VariableExpr(n) PROVE DomInv'
    BY <2>2, <2>leaf DEF VariableExpr, Reject
  <2>3. CASE Propagate
    BY <2>3, <2>done, <2>use DEF Propagate, cfgVars
  <2>4. ASSUME NEW op \in UnaryOps, UnaryEnter(op) PROVE DomInv'
    BY <2>4, <2>push DEF UnaryEnter, Enters, Quiet, Held
  <2>5. CASE UnaryApply
    <3>1. Resumes("Unary")
      BY <2>5 DEF UnaryApply
    <3>2. UsesOK(uses \cup UsedHere({ret}), edges, placed)
      BY <3>1, <2>ret, <2>here, <2>use, <2>both
    <3>3. UsesOK(uses', edges, placed)
      BY <2>5, <3>2, <2>use DEF UnaryApply
    <3> QED BY <2>5, <3>1, <3>3, <2>ret, <2>done DEF UnaryApply, Reject
  <2>6. ASSUME NEW op \in UserOps \cup {Arith}, BinaryEnter(op) PROVE DomInv'
    BY <2>6, <2>push DEF BinaryEnter, Enters, Quiet, Held
  <2>7. CASE BinaryLHS
    <3> DEFINE f == [kind |-> "BinaryRHS", op |-> Top.op, L |-> ret]
    <3>1. /\ ctl = "return" /\ stack # <<>> /\ GenChild(ReplaceTop(f))
          /\ UNCHANGED <<insertBlock, placed, terminated, edges>> /\ uses' = uses
      BY <2>7 DEF BinaryLHS, cfgVars
    <3>2. /\ Held(f) = {ret} \ {Const, Fail} /\ Pending(f) = {}
          /\ f.kind # "IfElse" /\ ~IsFor(f)
      BY DEF Held, Pending, IsFor
    <3> HIDE DEF f
    <3> QED BY <3>1, <3>2, <2>next, <2>use
  <2>8. CASE BinaryLeftFailed
    BY <2>8, <2>done, <2>use DEF BinaryLeftFailed, Resumes, cfgVars
  <2>9. CASE BinaryApply
    <3>1. Resumes("BinaryRHS") /\ Top.L # Fail
      BY <2>9 DEF BinaryApply
    <3>2. Top.L # Const => Top.L \in Held(Top)
      BY <3>1, <2>ret DEF Held
    <3>3. UsesOK(uses \cup UsedHere({Top.L, ret}), edges, placed)
      BY <3>1, <3>2, <2>ret, <2>top, <2>here, <2>use, <2>both
    <3> QED BY <2>9, <3>1, <3>3, <2>ret, <2>done DEF BinaryApply
  <2>10. CASE BinaryUnresolved
    BY <2>10, <2>abt DEF BinaryUnresolved
  <2>11. ASSUME NEW lhs \in VarNames \cup {NotVar}, AssignEnter(lhs) PROVE DomInv'
    BY <2>11, <2>push DEF AssignEnter, Enters, Quiet, Held
  <2>sto. ASSUME NEW n, Resumes("Assign"), StoreTo(n) PROVE DomInv'
    <3>1. UsesOK(uses \cup UsedHere({ret}), edges, placed)
      BY <2>sto, <2>ret, <2>here, <2>use, <2>both
    <3>2. UsesOK(uses', edges, placed)
      BY <2>sto, <3>1, <2>use DEF StoreTo
    <3> QED BY <2>sto, <3>2, <2>ret, <2>done DEF StoreTo, Reject
  <2>12. CASE AssignStore
    BY <2>12, <2>sto DEF AssignStore
  <2>13. CASE AssignWild
    BY <2>13, <2>sto, <2>done, <2>abt, <2>use DEF AssignWild, Reject, Resumes, cfgVars
  <2>14. ASSUME NEW f \in Callees, NEW nargs \in 0..MaxArgs, CallEnter(f, nargs) PROVE DomInv'
    <3> DEFINE g == [kind |-> "CallArg", todo |-> nargs, argsV |-> {}]
    <3>1. ctl = "call" /\ UNCHANGED cfgVars
      BY <2>14 DEF CallEnter, Enters
    <3>2. Return(Fail, stack) \/ Return(insertBlock, stack) \/ GenChild(Push(g))
      BY <2>14 DEF CallEnter, Reject
    <3>3. Quiet(g) /\ Held(g) = {}
      BY DEF Quiet, Held
    <3> HIDE DEF g
    <3> QED BY <3>1, <3>2, <3>3, <2>push, <2>leaf
  <2>15. CASE CallArg
    <3> DEFINE f == [kind |-> "CallArg", todo |-> Top.todo - 1, argsV |-> Top.argsV \cup {ret}]
    <3>1. /\ Resumes("CallArg") /\ GenChild(ReplaceTop(f))
          /\ UNCHANGED <<insertBlock, placed, terminated, edges>> /\ uses' = uses
      BY <2>15 DEF CallArg, cfgVars
    <3>2. /\ Held(f) = (Top.argsV \cup {ret}) \ {Const} /\ Pending(f) = {}
          /\ f.kind # "IfElse" /\ ~IsFor(f)
      BY DEF Held, Pending, IsFor
    <3>3. Held(Top) = Top.argsV \ {Const}
      BY <3>1, <2>ret DEF Held
    <3> HIDE DEF f
    <3> QED BY <3>1, <3>2, <3>3, <2>ret, <2>next, <2>use
  <2>16. CASE CallApply
    <3>1. Resumes("CallArg")
      BY <2>16 DEF CallApply
    <3>2. \A v \in Top.argsV : v # Const => v \in Held(Top)
      BY <3>1, <2>ret DEF Held
    <3>3. UsesOK(uses \cup UsedHere(Top.argsV \cup {ret}), edges, placed)
      BY <3>1, <3>2, <2>ret, <2>top, <2>here, <2>use, <2>both
    <3> QED BY <2>16, <3>1, <3>3, <2>ret, <2>done DEF CallApply
  <2>17. CASE IfEnter
    BY <2>17, <2>push DEF IfEnter, Enters, Quiet, Held
  \* The graph grows, and keeps the blocks X.
  <2>grow. ASSUME Live, stack # <<>>, NEW ed, NEW X, Keeps(edges, ed, X),
                  placed \subseteq X, \A i \in 1..Len(Below) : Pending(Below[i]) \subseteq X,
                  NEW pl, placed \subseteq pl, NEW us, UsesOK(us, edges, placed)
           PROVE  Branches(Below, ed, pl) /\ Guarded(Below, ed) /\ UsesOK(uses \cup us, ed, pl)
    <3>1. UsesOK(uses \cup us, edges, placed)
      BY <2>grow, <2>use, <2>both
    <3>2. Branches(Below, edges, placed) /\ Guarded(Below, edges)
      BY <2>grow, <2>top
    <3> QED BY <3>1, <3>2, <2>grow, KeepsAll
  \* What held at b holds at c, if all that dominates b then dominates c.
  <2>move. ASSUME NEW s, NEW ed, NEW b, Holds(s, ed, b), NEW ed2, NEW c,
                  \A d : Dom(ed, d, b) => Dom(ed2, d, c)
           PROVE  Holds(s, ed2, c)
    BY <2>move DEF Holds
  <2>18. CASE IfBranch
    <3> DEFINE a == insertBlock
               T == {nblocks + 1, nblocks + 2}
               E == {<<a, nblocks + 1>>, <<a, nblocks + 2>>}
               ed == edges \cup E
               f == [kind |-> "IfThen", ElseBB |-> nblocks + 2, MergeBB |-> nblocks + 3]
    <3>1. /\ Resumes("IfCond") /\ GenChild(ReplaceTop(f))
          /\ placed' = placed \cup {nblocks + 1} /\ terminated' = terminated \cup {a}
          /\ insertBlock' = nblocks + 1 /\ edges' = ed /\ uses' = uses \cup UsedHere({ret})
      BY <2>18 DEF IfBranch
    <3>2. stack # <<>> /\ Live /\ UsesOK(UsedHere({ret}), edges, placed)
      BY <3>1, <2>ret, <2>here
    <3>E. \A e \in E : e[1] = a /\ e[2] \in T
      OBVIOUS
    <3>f. Pending(f) = {nblocks + 2, nblocks + 3} /\ Held(f) = {} /\ Branch(f, ed, placed')
      BY DEF Pending, Held, Branch, IsFor
    <3>3. /\ T \subseteq Nat /\ a \in 1..nblocks
          /\ \A c \in T \cup {nblocks + 3} : c \notin 1..nblocks /\ c # Entry
          /\ nblocks + 3 \notin T /\ nblocks + 3 \in Nat
      BY <3>2, <2>typ, <2>flow DEF Entry
    <3>4. \A e \in edges : e[1] \in 1..nblocks /\ e[2] \in 1..nblocks
      BY <3>2, <2>flow, <2>gr DEF GraphInv
    <3>t. nblocks + 1 \in T /\ nblocks + 2 \in T
      OBVIOUS
    <3>ed. ed = edges \cup E
      OBVIOUS
    <3> HIDE DEF a, E, T, ed, f
    <3>5. Keeps(edges, ed, 1..nblocks)
      <4>1. ASSUME NEW d, NEW x \in 1..nblocks, Dom(edges, d, x) PROVE Dom(ed, d, x)
        <5>1. x \notin T /\ (\A e \in edges : e[1] \notin T) /\ \A e \in E : e[1] \notin T /\ e[2] \in T
          BY <3>3, <3>4, <3>E
        <5> QED BY <4>1, <5>1, <3>3, <3>ed, DomInto
      <4> QED BY <4>1 DEF Keeps
    <3>6. Branches(Below, ed, placed') /\ Guarded(Below, ed) /\ UsesOK(uses', ed, placed')
      <4>1. placed \subseteq 1..nblocks /\ \A i \in 1..Len(Below) : Pending(Below[i]) \subseteq 1..nblocks
        BY <3>2, <2>flow, <2>top
      <4>2. placed \subseteq placed'
        BY <3>1
      <4> QED BY <3>1, <3>2, <3>5, <4>1, <4>2, <2>grow
    <3>7. ASSUME NEW w \in T \cup {nblocks + 3} PROVE Holds(Below, ed, w)
      <4>1. ASSUME NEW d, Dom(edges, d, a) PROVE Dom(ed, d, w)
        <5>1. CASE w \in T
          <6>1. w # Entry /\ \A e \in edges : e[2] # w
            BY <5>1, <3>3, <3>4
          <6> QED BY <4>1, <6>1, <3>E, <3>ed, <2>tgt, DomNew
        <5>2. CASE w = nblocks + 3
          <6>1. w # Entry /\ w \notin 1..nblocks /\ w \notin T
            BY <5>2, <3>3
          <6>2. \A e \in ed : e[2] # w
            BY <6>1, <3>4, <3>E, <3>ed
          <6>3. Targets(ed)
            BY <3>3, <3>E, <3>ed, <2>tgt DEF Targets
          <6> QED BY <6>1, <6>2, <6>3, DomUnreached
        <5> QED BY <5>1, <5>2
      <4> QED BY <4>1, <3>2, <2>top, <2>move DEF a
    <3>8. /\ Holds(ReplaceTop(f), ed, nblocks + 1) /\ Guarded(ReplaceTop(f), ed)
          /\ Branches(ReplaceTop(f), ed, placed')
      BY <3>2, <3>6, <3>7, <3>t, <3>f, <2>typ, HoldsOps, GuardedOps, BranchesOps
    <3>9. (\A e \in ed : e[1] \in terminated') /\ Entry \in placed'
      BY <3>1, <3>2, <3>E, <3>ed, <2>flow
    <3> QED BY <3>1, <3>6, <3>8, <3>9, <2>glue DEF GenChild
  <2>19. CASE IfElse
    <3> DEFINE a == insertBlock
               b == Top.ElseBB
               m == Top.MergeBB
               E == {<<a, m>>}
               ed == edges \cup E
               f == [kind |-> "IfElse", ThenV |-> ret, ThenBB |-> a, MergeBB |-> m]
               X == (1..nblocks) \ {m}
    <3>1. /\ Resumes("IfThen") /\ GenChild(ReplaceTop(f))
          /\ placed' = placed \cup {b} /\ terminated' = terminated \cup {a}
          /\ insertBlock' = b /\ edges' = ed /\ uses' = uses \cup {}
      BY <2>19 DEF IfElse, JumpAndPlace
    <3>2. stack # <<>> /\ Live /\ UsesOK({}, edges, placed)
      BY <3>1, <2>ret DEF UsesOK
    <3>E. \A e \in E : e[1] = a /\ e[2] = m
      OBVIOUS
    <3>f. /\ Pending(f) = {m} /\ Held(f) = {}
          /\ f.kind = "IfElse" /\ f.ThenBB = a /\ f.ThenV = ret /\ ~IsFor(f)
      BY DEF Pending, Held, IsFor
    <3>3. /\ Pending(Top) = {b, m} /\ b # m /\ b \in 1..nblocks /\ m \in 1..nblocks
          /\ b \notin placed /\ m \notin placed
      BY <3>1, <3>2, <2>ret, <2>top DEF FrameOK, Pending
    <3>ed. ed = edges \cup E /\ X = (1..nblocks) \ {m}
      OBVIOUS
    <3> HIDE DEF a, b, m, E, ed, f, X
    <3>4. a \in X /\ b \in X /\ placed \subseteq X
      BY <3>2, <3>3, <3>ed, <2>flow DEF a
    <3>5. Keeps(edges, ed, X)
      <4>1. ASSUME NEW d, NEW x \in X, Dom(edges, d, x) PROVE Dom(ed, d, x)
        <5>1. x \notin {m} /\ {m} \in SUBSET Nat
          BY <3>3, <3>ed
        <5>2. (\A e \in edges : e[1] \notin {m}) /\ \A e \in E : e[1] \notin {m} /\ e[2] \in {m}
          BY <3>2, <3>3, <3>4, <3>E, <3>ed, <2>flow
        <5> QED BY <4>1, <5>1, <5>2, <3>ed, DomInto
      <4> QED BY <4>1 DEF Keeps
    <3>6. Branches(Below, ed, placed') /\ Guarded(Below, ed) /\ UsesOK(uses', ed, placed')
      <4>1. \A i \in 1..Len(Below) : Pending(Below[i]) \subseteq X
        BY <3>2, <3>3, <3>ed, <2>top
      <4>2. placed \subseteq placed'
        BY <3>1
      <4> QED BY <3>1, <3>2, <3>4, <3>5, <4>1, <4>2, <2>grow
    <3>7. Holds(Below, ed, b)
      <4>1. \A d : Dom(edges, d, b) => Dom(ed, d, b)
        BY <3>4, <3>5 DEF Keeps
      <4>2. Holds(Below, edges, b)
        BY <3>2, <3>3, <2>top
      <4> QED BY <4>1, <4>2, <2>move
    <3>8. Holds(Below, ed, m)
      <4>1. Holds(Below, edges, m) /\ Holds(Below, edges, a)
        BY <3>2, <3>3, <2>top DEF a
      <4>2. \A d : Dom(edges, d, a) /\ Dom(edges, d, m) => Dom(ed, d, m)
        BY <3>E, <3>ed, DomFrom
      <4> QED BY <4>1, <4>2 DEF Holds
    <3>9. Branch(f, ed, placed')
      <4>1. ret # Const => Dom(ed, ret, a)
        BY <3>1, <3>4, <3>5, <2>ret DEF Keeps, a
      <4>2. a \in placed'
        BY <3>1, <3>2, <2>flow DEF a
      <4> QED BY <3>f, <4>1, <4>2 DEF Branch
    <3>10. /\ Holds(ReplaceTop(f), ed, b) /\ Guarded(ReplaceTop(f), ed)
           /\ Branches(ReplaceTop(f), ed, placed')
      BY <3>2, <3>6, <3>7, <3>8, <3>9, <3>f, <2>typ, HoldsOps, GuardedOps, BranchesOps
    <3>11. (\A e \in ed : e[1] \in terminated') /\ Entry \in placed'
      BY <3>1, <3>2, <3>E, <3>ed, <2>flow
    <3> QED BY <3>1, <3>6, <3>10, <3>11, <2>glue DEF GenChild
  <2>20. CASE IfMerge
    <3> DEFINE a == insertBlock
               m == Top.MergeBB
               E == {<<a, m>>}
               ed == edges \cup E
               X == (1..nblocks) \ {m}
               us == UsedHere({ret}) \cup {<<v, Top.ThenBB>> : v \in {Top.ThenV} \ {Const, Top.ThenBB}}
    <3>1. /\ Resumes("IfElse") /\ Return(m, Below)
          /\ placed' = placed \cup {m} /\ terminated' = terminated \cup {a}
          /\ insertBlock' = m /\ edges' = ed
      BY <2>20 DEF IfMerge, JumpAndPlace, IfValue
    <3>2. stack # <<>> /\ Live
      BY <3>1, <2>ret
    <3>u. uses' = uses \cup us
      <4>1. uses' = uses \cup UsedHere({ret})
                         \cup {<<v, Top.ThenBB>> : v \in {Top.ThenV} \ {Const, Top.ThenBB}}
        BY <2>20 DEF IfMerge
      <4> QED BY <4>1
    <3>3. UsesOK(us, edges, placed)
      <4>1. UsesOK(UsedHere({ret}), edges, placed)
        BY <3>1, <2>ret, <2>here
      <4>2. Top.ThenBB \in placed /\ (Top.ThenV # Const => Dom(edges, Top.ThenV, Top.ThenBB))
        BY <3>1, <3>2, <2>ret, <2>top DEF Branch
      <4>3. UsesOK({<<v, Top.ThenBB>> : v \in {Top.ThenV} \ {Const, Top.ThenBB}}, edges, placed)
        BY <4>2 DEF UsesOK
      <4> QED BY <4>1, <4>3, <2>both
    <3>E. \A e \in E : e[1] = a /\ e[2] = m
      OBVIOUS
    <3>4. Pending(Top) = {m} /\ m \in 1..nblocks /\ m \notin placed
      BY <3>1, <3>2, <2>ret, <2>top DEF FrameOK, Pending
    <3>ed. ed = edges \cup E /\ X = (1..nblocks) \ {m}
      OBVIOUS
    <3> HIDE DEF a, m, E, ed, X, us
    <3>5. a \in X /\ placed \subseteq X
      BY <3>2, <3>4, <3>ed, <2>flow DEF a
    <3>6. Keeps(edges, ed, X)
      <4>1. ASSUME NEW d, NEW x \in X, Dom(edges, d, x) PROVE Dom(ed, d, x)
        <5>1. x \notin {m} /\ {m} \in SUBSET Nat
          BY <3>4, <3>ed
        <5>2. (\A e \in edges : e[1] \notin {m}) /\ \A e \in E : e[1] \notin {m} /\ e[2] \in {m}
          BY <3>2, <3>4, <3>5, <3>E, <3>ed, <2>flow
        <5> QED BY <4>1, <5>1, <5>2, <3>ed, DomInto
      <4> QED BY <4>1 DEF Keeps
    <3>7. Branches(Below, ed, placed') /\ Guarded(Below, ed) /\ UsesOK(uses', ed, placed')
      <4>1. \A i \in 1..Len(Below) : Pending(Below[i]) \subseteq X
        BY <3>2, <3>4, <3>ed, <2>top
      <4>2. placed \subseteq placed'
        BY <3>1
      <4> QED BY <3>1, <3>2, <3>3, <3>u, <3>5, <3>6, <4>1, <4>2, <2>grow
    <3>8. Holds(Below, ed, m)
      <4>1. Holds(Below, edges, m) /\ Holds(Below, edges, a)
        BY <3>2, <3>4, <2>top DEF a
      <4>2. \A d : Dom(edges, d, a) /\ Dom(edges, d, m) => Dom(ed, d, m)
        BY <3>E, <3>ed, DomFrom
      <4> QED BY <4>1, <4>2 DEF Holds
    <3>9. Dom(ed, m, m)
      <4>1. Targets(ed)
        BY <3>4, <3>E, <3>ed, <2>tgt DEF Targets
      <4> QED BY <4>1, DomSelf
    <3>10. (\A e \in ed : e[1] \in terminated') /\ Entry \in placed'
      BY <3>1, <3>2, <3>E, <3>ed, <2>flow
    <3> QED BY <3>1, <3>7, <3>8, <3>9, <3>10, <2>glue DEF Return
  <2>21. ASSUME NEW n \in VarNames, ForEnter(n) PROVE DomInv'
    BY <2>21, <2>push DEF ForEnter, Enters, Quiet, Held
  <2>22. CASE ForLoop
    <3> DEFINE a == insertBlock
               b == nblocks + 1
               E == {<<a, b>>}
               ed == edges \cup E
               g == [name |-> Top.name, alloca |-> Top.alloca, old |-> NamedValues[Top.name]]
               f == [kind |-> "ForBody", bind |-> g, LoopBB |-> b]
    <3>1. /\ Resumes("ForStart") /\ GenChild(ReplaceTop(f))
          /\ placed' = placed \cup {b} /\ terminated' = terminated \cup {a}
          /\ insertBlock' = b /\ edges' = ed /\ uses' = uses \cup UsedHere({ret})
      BY <2>22 DEF ForLoop
    <3>2. stack # <<>> /\ Live /\ UsesOK(UsedHere({ret}), edges, placed)
      BY <3>1, <2>ret, <2>here
    <3>E. \A e \in E : e[1] = a /\ e[2] = b
      OBVIOUS
    <3>3. b \in Nat /\ b \notin 1..nblocks /\ b # Entry /\ a \in 1..nblocks
      BY <3>2, <2>typ, <2>flow DEF Entry
    <3>4. \A e \in edges : e[1] \in 1..nblocks /\ e[2] \in 1..nblocks
      BY <3>2, <2>flow, <2>gr DEF GraphInv
    <3>ed. ed = edges \cup E
      OBVIOUS
    <3> HIDE DEF a, b, E, ed
    <3>f. Pending(f) = {} /\ Held(f) = {b} /\ Branch(f, ed, placed')
      BY <3>3 DEF Pending, Held, Branch
    <3> HIDE DEF f
    <3>5. Keeps(edges, ed, 1..nblocks)
      <4>1. ASSUME NEW d, NEW x \in 1..nblocks, Dom(edges, d, x) PROVE Dom(ed, d, x)
        <5>1. x \notin {b} /\ {b} \in SUBSET Nat
          BY <3>3
        <5>2. (\A e \in edges : e[1] \notin {b}) /\ \A e \in E : e[1] \notin {b} /\ e[2] \in {b}
          BY <3>3, <3>4, <3>E
        <5> QED BY <4>1, <5>1, <5>2, <3>ed, DomInto
      <4> QED BY <4>1 DEF Keeps
    <3>6. Branches(Below, ed, placed') /\ Guarded(Below, ed) /\ UsesOK(uses', ed, placed')
      <4>1. placed \subseteq 1..nblocks /\ \A i \in 1..Len(Below) : Pending(Below[i]) \subseteq 1..nblocks
        BY <3>2, <2>flow, <2>top
      <4>2. placed \subseteq placed'
        BY <3>1
      <4> QED BY <3>1, <3>2, <3>5, <4>1, <4>2, <2>grow
    <3>7. Holds(Below, ed, b)
      <4>1. ASSUME NEW d, Dom(edges, d, a) PROVE Dom(ed, d, b)
        <5>1. \A e \in edges : e[2] # b
          BY <3>3, <3>4
        <5> QED BY <4>1, <5>1, <3>3, <3>E, <3>ed, <2>tgt, DomNew
      <4> QED BY <4>1, <3>2, <2>top, <2>move DEF a
    <3>8. Dom(ed, b, b)
      <4>1. Targets(ed)
        BY <3>3, <3>E, <3>ed, <2>tgt DEF Targets
      <4> QED BY <4>1, DomSelf
    <3>9. /\ Holds(ReplaceTop(f), ed, b) /\ Guarded(ReplaceTop(f), ed)
          /\ Branches(ReplaceTop(f), ed, placed')
      BY <3>2, <3>6, <3>7, <3>8, <3>f, <2>typ, HoldsOps, GuardedOps, BranchesOps
    <3>10. (\A e \in ed : e[1] \in terminated') /\ Entry \in placed'
      BY <3>1, <3>2, <3>E, <3>ed, <2>flow
    <3> QED BY <3>1, <3>6, <3>9, <3>10, <2>glue DEF GenChild
  <2>23. CASE ForStep
    <3> DEFINE f == [Top EXCEPT !.kind = "ForStep"]
    <3>1. /\ Resumes("ForBody") /\ GenChild(ReplaceTop(f))
          /\ UNCHANGED <<insertBlock, placed, terminated, edges>> /\ uses' = uses
      BY <2>23 DEF ForStep, cfgVars
    <3>2. f.kind = "ForStep" /\ f.LoopBB = Top.LoopBB
      <4>1. Top = [kind |-> "ForBody", bind |-> Top.bind, LoopBB |-> Top.LoopBB]
        BY <3>1, <2>ret, <2>top, FrameFields
      <4> QED BY <4>1
    <3>3. /\ Held(f) = {Top.LoopBB} /\ Held(Top) = {Top.LoopBB} /\ Pending(f) = {}
          /\ f.kind # "IfElse" /\ IsFor(Top)
      BY <3>1, <3>2, <2>ret DEF Held, Pending, IsFor
    <3> HIDE DEF f
    <3> QED BY <3>1, <3>2, <3>3, <2>ret, <2>next, <2>use
  <2>24. CASE ForEnd
    <3> DEFINE f == [kind |-> "ForEnd", bind |-> Top.bind, LoopBB |-> Top.LoopBB, StepVal |-> ret]
    <3>1. /\ Resumes("ForStep") /\ GenChild(ReplaceTop(f))
          /\ UNCHANGED <<insertBlock, placed, terminated, edges>> /\ uses' = uses
      BY <2>24 DEF ForEnd, cfgVars
    <3>2. f.LoopBB = Top.LoopBB /\ f.kind # "IfElse"
      OBVIOUS
    <3>3. /\ Held(f) = {Top.LoopBB} \cup ({ret} \ {Const}) /\ Held(Top) = {Top.LoopBB}
          /\ Pending(f) = {} /\ IsFor(Top)
      BY <3>1, <2>ret DEF Held, Pending, IsFor
    <3> HIDE DEF f
    <3> QED BY <3>1, <3>2, <3>3, <2>ret, <2>next, <2>use
  <2>25. CASE ForExit
    <3> DEFINE a == insertBlock
               l == Top.LoopBB
               b == nblocks + 1
               back == edges \cup {<<a, l>>}
               E == {<<a, b>>}
               ed == back \cup E
    <3>1. /\ Resumes("ForEnd") /\ Return(Const, Below)
          /\ placed' = placed \cup {b} /\ terminated' = terminated \cup {a}
          /\ insertBlock' = b /\ uses' = uses \cup UsedHere({Top.StepVal, ret})
      BY <2>25 DEF ForExit
    <3>e. edges' = ed
      <4>1. edges' = edges \cup {<<a, l>>, <<a, b>>}
        BY <2>25 DEF ForExit
      <4> QED BY <4>1
    <3>2. stack # <<>> /\ Live
      BY <3>1, <2>ret
    <3>3. l # Entry /\ l \in placed /\ l \in Held(Top) /\ (Top.StepVal # Const => Top.StepVal \in Held(Top))
      <4>1. Top.kind = "ForEnd" /\ IsFor(Top)
        BY <3>1, <2>ret DEF IsFor
      <4>2. l # Entry /\ l \in placed
        BY <4>1, <3>2, <2>top DEF Branch, FrameOK
      <4> QED BY <4>1, <4>2 DEF Held
    <3>4. UsesOK(UsedHere({Top.StepVal, ret}), edges, placed)
      BY <3>1, <3>2, <3>3, <2>ret, <2>top, <2>here
    <3>E. (\A e \in E : e[1] = a /\ e[2] = b) /\ (\A e \in back : e \in edges \/ (e[1] = a /\ e[2] = l))
      OBVIOUS
    <3>5. b \in Nat /\ b \notin 1..nblocks /\ b # Entry /\ a \in 1..nblocks /\ l \in 1..nblocks
      BY <3>2, <3>3, <2>typ, <2>flow DEF Entry
    <3>6. \A e \in edges : e[1] \in 1..nblocks /\ e[2] \in 1..nblocks
      BY <3>2, <2>flow, <2>gr DEF GraphInv
    <3>ed. ed = back \cup E /\ back = edges \cup {<<a, l>>}
      OBVIOUS
    <3>l. Dom(edges, l, a)
      BY <3>2, <3>3, <2>top
    <3> HIDE DEF a, b, l, E, back, ed
    <3>7. \A e \in back : e[1] # b /\ e[2] # b
      BY <3>5, <3>6, <3>E
    <3>8. \A d, x : Dom(edges, d, x) => Dom(back, d, x)
      BY <3>3, <3>ed, <3>l, DomBack
    <3>9. Keeps(edges, ed, 1..nblocks)
      <4>1. ASSUME NEW d, NEW x \in 1..nblocks, Dom(edges, d, x) PROVE Dom(ed, d, x)
        <5>1. x \notin {b} /\ {b} \in SUBSET Nat
          BY <3>5
        <5>2. (\A e \in back : e[1] \notin {b}) /\ \A e \in E : e[1] \notin {b} /\ e[2] \in {b}
          BY <3>5, <3>7, <3>E
        <5>3. Dom(back, d, x)
          BY <4>1, <3>8
        <5> QED BY <5>1, <5>2, <5>3, <3>ed, DomInto
      <4> QED BY <4>1 DEF Keeps
    <3>10. Branches(Below, ed, placed') /\ Guarded(Below, ed) /\ UsesOK(uses', ed, placed')
      <4>1. placed \subseteq 1..nblocks /\ \A i \in 1..Len(Below) : Pending(Below[i]) \subseteq 1..nblocks
        BY <3>2, <2>flow, <2>top
      <4>2. placed \subseteq placed'
        BY <3>1
      <4> QED BY <3>1, <3>2, <3>4, <3>9, <4>1, <4>2, <2>grow
    <3>11. Holds(Below, ed, b)
      <4>1. ASSUME NEW d, Dom(edges, d, a) PROVE Dom(ed, d, b)
        <5>1. Targets(back)
          BY <3>5, <3>ed, <2>tgt DEF Targets
        <5>2. Dom(back, d, a)
          BY <4>1, <3>8
        <5> QED BY <5>1, <5>2, <3>5, <3>7, <3>E, <3>ed, DomNew
      <4> QED BY <4>1, <3>2, <2>top, <2>move DEF a
    <3>12. (\A e \in ed : e[1] \in terminated') /\ Entry \in placed'
      BY <3>1, <3>2, <3>E, <3>ed, <2>flow
    <3> QED BY <3>1, <3>e, <3>10, <3>11, <3>12, <2>glue DEF Return
  <2>26. ASSUME NEW names \in VarLists, VarEnter(names) PROVE DomInv'
    BY <2>26, <2>push DEF VarEnter, Enters, Quiet, Held
  <2>27. CASE VarBind
    <3> DEFINE g == [name |-> Head(Top.todo), alloca |-> nallocas + 1, old |-> NamedValues[Head(Top.todo)]]
               f == IF Len(Top.todo) > 1
                      THEN [kind |-> "VarInit", todo |-> Tail(Top.todo), binds |-> Append(Top.binds, g)]
                      ELSE [kind |-> "VarBody", binds |-> Append(Top.binds, g)]
    <3>1. /\ Resumes("VarInit") /\ GenChild(ReplaceTop(f)) /\ uses' = uses \cup UsedHere({ret})
          /\ UNCHANGED <<insertBlock, placed, terminated, edges>>
      BY <2>27 DEF VarBind
    <3>2. Held(f) = {} /\ Pending(f) = {} /\ f.kind # "IfElse" /\ ~IsFor(f)
      <4>1. f.kind \in {"VarInit", "VarBody"}
        OBVIOUS
      <4> HIDE DEF f
      <4> QED BY <4>1 DEF Held, Pending, IsFor
    <3> HIDE DEF f
    <3>3. UsesOK(uses \cup UsedHere({ret}), edges, placed)
      BY <3>1, <2>ret, <2>here, <2>use, <2>both
    <3> QED BY <3>1, <3>2, <3>3, <2>ret, <2>next
  <2>28. CASE VarExit
    BY <2>28, <2>done, <2>use DEF VarExit, Resumes, cfgVars
  <2>29. ASSUME NEW ps \in ParamLists, FunctionEnter(ps) PROVE DomInv'
    <3>1. /\ stack' = <<>> /\ ret' = Const /\ edges' = {} /\ uses' = {} /\ placed' = {Entry}
      BY <2>29 DEF FunctionEnter, GenChild
    <3>2. UsesOK(uses', edges', placed')
      BY <3>1 DEF UsesOK
    <3> QED BY <3>1, <3>2, <2>typ, <2>glue, HoldsOps, GuardedOps, BranchesOps
  <2>30. CASE FunctionAccept
    <3>1. Live /\ ctl = "return" /\ ret # Fail
      BY <2>30 DEF FunctionAccept, Live
    <3>2. UsesOK(uses \cup UsedHere({ret}), edges, placed)
      BY <3>1, <2>flow, <2>here, <2>use, <2>both
    <3> QED BY <2>30, <3>2 DEF FunctionAccept, DomInv, Live
  <2>31. CASE FunctionErase
    BY <2>31 DEF FunctionErase, DomInv, Live, UsesOK
  <2>32. CASE UNCHANGED vars
    BY <2>32, <2>same DEF vars, ctlVars, Live
  <2>33. CASE Gone
    BY <2>33, <2>32 DEF Gone
  <2>34. CASE Expr
    BY <2>34, <2>1, <2>2, <2>4, <2>6, <2>11, <2>14, <2>17, <2>21, <2>26 DEF Expr
  <2>35. CASE Resume
    BY <2>35, <2>3, <2>5, <2>7, <2>8, <2>9, <2>10, <2>12, <2>13, <2>15, <2>16, <2>18, <2>19,
       <2>20, <2>22, <2>23, <2>24, <2>25, <2>27, <2>28 DEF Resume
  <2> QED
    BY <2>29, <2>30, <2>31, <2>32, <2>33, <2>34, <2>35 DEF Next
<1> QED
  BY <1>1, <1>2, TypeCorrect, BlockInvariant, PTL DEF Spec

\* For every body: in a function that codegen() returns, each value is used
\* only in blocks that its own block dominates, however ifs, loops and operands
\* nest: the verifier, whose result nobody reads, would find nothing here.
THEOREM ValuesDominateUses == Spec => []DefsDominateUses
<1>1. TypeOK /\ DomInv => DefsDominateUses
  <2> SUFFICES ASSUME TypeOK, DomInv, NEW u \in uses PROVE u[2] \notin ReachableAvoiding(u[1])
    BY DEF DefsDominateUses
  <2>1. Dom(edges, u[1], u[2]) /\ nblocks \in Nat
    BY DEF DomInv, UsesOK, TypeOK, CfgTypeOK
  <2> QED BY <2>1, DomIsUnreachable
<1> QED
  BY <1>1, TypeCorrect, DomInvariant, PTL

----------------------------------------------------------------------------
(* The same, said of paths.                                                *)

\* p lists n blocks, each of which jumps to the next, from the entry on.
IsPath(p, n, ed) == p[1] = Entry /\ \A k \in 1..(n-1) : <<p[k], p[k+1]>> \in ed

\* Every path to a dominated block passes its dominator.
LEMMA PathsPassDominators ==
  ASSUME NEW ed, NEW d, NEW b, Dom(ed, d, b),
         NEW n \in Nat \ {0}, NEW p \in [1..n -> Nat], IsPath(p, n, ed), p[n] = b
  PROVE  \E k \in 1..n : p[k] = d
<1>1. SUFFICES ASSUME \A k \in 1..n : p[k] # d PROVE FALSE
  OBVIOUS
<1>2. PICK C \in SUBSET Nat : Cut(C, ed, d) /\ b \notin C
  BY DEF Dom
<1> DEFINE S == {k \in 0..(n-1) : p[k+1] \in C}
<1>3. 0 \in S
  <2>1. p[1] \in C
    BY <1>1, <1>2 DEF Cut, IsPath
  <2> QED BY <2>1
<1>4. ASSUME NEW k \in 1..(n-1), k-1 \in S PROVE k \in S
  <2>1. p[k] \in C
    <3>1. (k-1) + 1 = k
      OBVIOUS
    <3> QED BY <1>4, <3>1
  <2>2. <<p[k], p[k+1]>> \in ed
    BY DEF IsPath
  <2>3. p[k+1] \in C \cup {d}
    BY <1>2, <2>1, <2>2 DEF Cut
  <2>4. p[k+1] \in C
    BY <1>1, <2>3
  <2> QED BY <2>4
<1> HIDE DEF S
<1>5. n-1 \in Nat /\ n-1 \in 0..(n-1)
  OBVIOUS
<1>6. n-1 \in S
  BY <1>3, <1>4, <1>5, Induction
<1>7. p[n] \in C
  <2>1. (n-1) + 1 = n
    OBVIOUS
  <2> QED BY <1>6, <2>1 DEF S
<1> QED BY <1>2, <1>7

\* On every path from the entry, the block of a value comes before its uses.
PathsMeetDefs ==
  ctl = "accepted" =>
    \A u \in uses : \A n \in Nat \ {0} : \A p \in [1..n -> Nat] :
      IsPath(p, n, edges) /\ p[n] = u[2] => \E k \in 1..n : p[k] = u[1]

\* For every body: whichever way a function that codegen() returns is
\* executed, a value has been computed when an instruction uses it.
THEOREM ValuesComputedBeforeUse == Spec => []PathsMeetDefs
<1>1. DomInv => PathsMeetDefs
  BY PathsPassDominators DEF DomInv, UsesOK, PathsMeetDefs
<1> QED
  BY <1>1, DomInvariant, PTL
=============================================================================

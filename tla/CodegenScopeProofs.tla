------------------------ MODULE CodegenScopeProofs ------------------------
(***************************************************************************)
(* The one global symbol table, for every program.                         *)
(*                                                                         *)
(* Neither property is inductive: what a name will mean after a for or a   *)
(* var/in is kept in the activations, as the old binding that each of them *)
(* restores.  AllocaInv and NestingInv say of every old binding what       *)
(* NoStaleAlloca and LexicalScoping say of the table: it is an alloca of   *)
(* this function, and what the name means by the bindings around that one. *)
(***************************************************************************)
EXTENDS CodegenBlockProofs

----------------------------------------------------------------------------
(* Bindings and their places: <<activation, number in the activation>>.    *)

Place(s, p) == BindsOf(s[p[1]])[p[2]]

\* The places at which a stack of activations binds n.
Scope(s, n) ==
  {p \in Nat \X Nat : /\ p[1] \in 1..Len(s) /\ p[2] \in 1..Len(BindsOf(s[p[1]]))
                      /\ Place(s, p).name = n}

Under(p, q) == p[1] < q[1] \/ (p[1] = q[1] /\ p[2] < q[2])

Around(s, n, p) == {q \in Scope(s, n) : Under(q, p)}

\* Where the places P bind n, and no others do, n means the alloca v.
Means(s, ps, n, P, v) ==
  \/ \E p \in P : v = Place(s, p).alloca /\ \A q \in P : ~Under(p, q)
  \/ P = {} /\ v = ArgAlloca(ps, n)

\* The table and all old bindings are what the nesting says.
Nested(s, table, ps) ==
  \A n \in VarNames :
    /\ Means(s, ps, n, Scope(s, n), table[n])
    /\ \A p \in Scope(s, n) : Means(s, ps, n, Around(s, n, p), Place(s, p).old)

\* t is s and one activation on top of it.
Tops(s, t) == Len(s) \in Nat /\ Len(t) = Len(s) + 1 /\ \A i \in 1..Len(s) : t[i] = s[i]
TopBinds(t) == BindsOf(t[Len(t)])

\* The places of t are those of s and those of its topmost activation.
LEMMA ScopeParts ==
  ASSUME NEW s, NEW t, Tops(s, t), NEW n, NEW p \in Nat \X Nat
  PROVE  /\ p \in Scope(t, n) <=>
              \/ p \in Scope(s, n)
              \/ p[1] = Len(t) /\ p[2] \in 1..Len(TopBinds(t)) /\ TopBinds(t)[p[2]].name = n
         /\ p \in Scope(s, n) => p[1] < Len(t) /\ Place(t, p) = Place(s, p)
         /\ p[1] = Len(t) => Place(t, p) = TopBinds(t)[p[2]]
<1>1. /\ \A i \in 1..Len(t) : i \in 1..Len(s) \/ i = Len(t)
      /\ \A i \in 1..Len(s) : i \in 1..Len(t) /\ i < Len(t) /\ t[i] = s[i]
      /\ Len(t) \in 1..Len(t)
  BY DEF Tops
<1>2. p[1] \in 1..Len(s) => Place(t, p) = Place(s, p)
  BY <1>1 DEF Place
<1>3. p[1] = Len(t) => Place(t, p) = TopBinds(t)[p[2]]
  BY DEF Place, TopBinds
<1>4. p \in Scope(s, n) => p[1] \in 1..Len(s)
  BY DEF Scope
<1>5. p[1] \in 1..Len(s) => (p \in Scope(t, n) <=> p \in Scope(s, n))
  BY <1>1, <1>2 DEF Scope
<1>6. p[1] = Len(t) => (p \in Scope(t, n) <=> /\ p[2] \in 1..Len(TopBinds(t))
                                              /\ TopBinds(t)[p[2]].name = n)
  BY <1>1, <1>3 DEF Scope, TopBinds
<1>7. p \in Scope(t, n) => p[1] \in 1..Len(t)
  BY DEF Scope
<1> QED
  BY <1>1, <1>2, <1>3, <1>4, <1>5, <1>6, <1>7

\* Places are pairs.
LEMMA ScopePairs == \A s, n : Scope(s, n) \subseteq Nat \X Nat
BY DEF Scope

\* What n means depends only on where it is bound, and to what.
LEMMA SameNesting ==
  ASSUME NEW s, NEW t, NEW table, NEW ps, Nested(s, table, ps),
         \A n \in VarNames : /\ Scope(t, n) = Scope(s, n)
                             /\ \A p \in Scope(s, n) : Place(t, p) = Place(s, p)
  PROVE  Nested(t, table, ps)
<1> SUFFICES ASSUME NEW n \in VarNames
             PROVE  /\ Means(t, ps, n, Scope(t, n), table[n])
                    /\ \A p \in Scope(t, n) : Means(t, ps, n, Around(t, n, p), Place(t, p).old)
  BY DEF Nested
<1>1. /\ Scope(t, n) = Scope(s, n) /\ \A p : Around(t, n, p) = Around(s, n, p)
      /\ \A p : Around(s, n, p) \subseteq Scope(s, n)
      /\ \A p \in Scope(s, n) : Place(t, p) = Place(s, p)
  BY DEF Around
<1>2. /\ Means(s, ps, n, Scope(s, n), table[n])
      /\ \A p \in Scope(s, n) : Means(s, ps, n, Around(s, n, p), Place(s, p).old)
  BY DEF Nested
<1>3. ASSUME NEW P, P \subseteq Scope(s, n), NEW v, Means(s, ps, n, P, v)
      PROVE  Means(t, ps, n, P, v)
  BY <1>1, <1>3 DEF Means
<1> QED BY <1>1, <1>2, <1>3

\* What P means is the same where P is the same.
LEMMA SameMeaning ==
  ASSUME NEW s, NEW t, NEW ps, NEW n, NEW P, NEW v, \A p \in P : Place(t, p) = Place(s, p)
  PROVE  Means(s, ps, n, P, v) => Means(t, ps, n, P, v)
BY DEF Means

\* An activation that binds nothing changes no meaning, and neither does one
\* that takes the place of another with the same bindings.
LEMMA QuietTop ==
  ASSUME NEW s, NEW t, Tops(s, t), TopBinds(t) = <<>>, NEW table, NEW ps
  PROVE  Nested(s, table, ps) <=> Nested(t, table, ps)
<1>1. ASSUME NEW n
      PROVE  /\ Scope(t, n) = Scope(s, n)
             /\ \A p \in Scope(s, n) : Place(t, p) = Place(s, p)
  <2>1. Len(TopBinds(t)) = 0
    OBVIOUS
  <2>2. \A p \in Nat \X Nat : p \in Scope(t, n) <=> p \in Scope(s, n)
    BY <2>1, ScopeParts
  <2>3. \A p \in Scope(s, n) : Place(t, p) = Place(s, p)
    BY ScopeParts, ScopePairs
  <2>4. Scope(t, n) \subseteq Nat \X Nat /\ Scope(s, n) \subseteq Nat \X Nat
    BY ScopePairs
  <2>5. Scope(t, n) = Scope(s, n)
    BY <2>2, <2>4, Zenon
  <2> QED BY <2>3, <2>5
<1>2. ASSUME NEW n
      PROVE  /\ Scope(s, n) = Scope(t, n)
             /\ \A p \in Scope(t, n) : Place(s, p) = Place(t, p)
  BY <1>1
<1>3. Nested(s, table, ps) => Nested(t, table, ps)
  BY <1>1, SameNesting
<1>4. Nested(t, table, ps) => Nested(s, table, ps)
  BY <1>2, SameNesting
<1> QED BY <1>3, <1>4

LEMMA ReplacedTop ==
  ASSUME NEW s, NEW t, NEW u, Tops(s, t), Tops(s, u), TopBinds(u) = TopBinds(t),
         NEW table, NEW ps, Nested(t, table, ps)
  PROVE  Nested(u, table, ps)
<1>1. Len(u) = Len(t)
  BY DEF Tops
<1>2. ASSUME NEW n
      PROVE  /\ Scope(u, n) = Scope(t, n)
             /\ \A p \in Scope(t, n) : Place(u, p) = Place(t, p)
  <2>1. \A p \in Nat \X Nat : p \in Scope(u, n) <=> p \in Scope(t, n)
    BY <1>1, ScopeParts
  <2>2. \A p \in Scope(t, n) : Place(u, p) = Place(t, p)
    BY <1>1, ScopeParts, ScopePairs
  <2> QED BY <2>1, <2>2, ScopePairs
<1> QED BY <1>2, SameNesting

\* To bind a name and remember what it meant keeps the nesting: the new
\* binding is inside all others.
LEMMA Bind ==
  ASSUME NEW s, NEW t, NEW u, Tops(s, t), Tops(s, u), NEW b \in Binding,
         TopBinds(t) \in Seq(Binding), TopBinds(u) = Append(TopBinds(t), b),
         NEW table \in [VarNames -> Alloca], NEW ps, Nested(t, table, ps), b.old = table[b.name]
  PROVE  Nested(u, [table EXCEPT ![b.name] = b.alloca], ps)
<1> DEFINE bs == TopBinds(t)
           p0 == <<Len(u), Len(bs) + 1>>
<1>1. Len(u) = Len(t) /\ Len(t) \in Nat
  BY DEF Tops
<1>2. /\ Len(bs) \in Nat /\ Len(TopBinds(u)) = Len(bs) + 1
      /\ \A j \in 1..Len(bs) : TopBinds(u)[j] = bs[j]
      /\ TopBinds(u)[Len(bs) + 1] = b
  BY LenProperties, AppendProperties
<1>3. /\ p0 \in Nat \X Nat /\ p0[1] = Len(u) /\ p0[2] = Len(bs) + 1
      /\ Place(u, p0) = b
  <2>1. p0 \in Nat \X Nat /\ p0[1] = Len(u) /\ p0[2] = Len(bs) + 1
    BY <1>1, <1>2
  <2>2. Place(u, p0) = TopBinds(u)[Len(bs) + 1]
    BY <2>1 DEF Place, TopBinds
  <2> QED BY <2>1, <2>2, <1>2
<1>4. ASSUME NEW n
      PROVE  /\ \A p \in Scope(t, n) : p \in Scope(u, n) /\ Place(u, p) = Place(t, p)
             /\ \A p \in Scope(u, n) : p \in Scope(t, n) \/ (p = p0 /\ b.name = n)
             /\ b.name = n => p0 \in Scope(u, n)
             /\ \A p \in Scope(t, n) : Under(p, p0) /\ ~Under(p0, p)
  <2>1. ASSUME NEW p \in Scope(t, n)
        PROVE  p \in Scope(u, n) /\ Place(u, p) = Place(t, p) /\ Under(p, p0) /\ ~Under(p0, p)
    <3>1. p \in Nat \X Nat
      BY <2>1, ScopePairs
    <3>2. CASE p \in Scope(s, n)
      <4>1. p \in Scope(u, n) /\ Place(u, p) = Place(t, p) /\ p[1] < Len(u)
        BY <3>1, <3>2, ScopeParts
      <4> QED BY <4>1, <3>1, <1>3, <1>1 DEF Under
    <3>3. CASE p[1] = Len(t) /\ p[2] \in 1..Len(bs) /\ bs[p[2]].name = n
      <4>1. p[2] \in 1..Len(TopBinds(u)) /\ TopBinds(u)[p[2]] = bs[p[2]]
        BY <3>3, <1>2
      <4>2. p \in Scope(u, n)
        BY <3>1, <3>3, <4>1, <1>1, ScopeParts
      <4>3. Place(u, p) = TopBinds(u)[p[2]] /\ Place(t, p) = bs[p[2]]
        BY <3>3, <1>1 DEF Place, TopBinds
      <4> QED BY <4>1, <4>2, <4>3, <3>3, <1>1, <1>2, <1>3 DEF Under
    <3> QED BY <3>1, <3>2, <3>3, ScopeParts
  <2>2. ASSUME NEW p \in Scope(u, n) PROVE p \in Scope(t, n) \/ (p = p0 /\ b.name = n)
    <3>1. p \in Nat \X Nat
      BY <2>2, ScopePairs
    <3>2. CASE p \in Scope(s, n)
      BY <3>1, <3>2, ScopeParts
    <3>3. CASE p[1] = Len(u) /\ p[2] \in 1..Len(TopBinds(u)) /\ TopBinds(u)[p[2]].name = n
      <4>1. p[2] \in 1..Len(bs) \/ p[2] = Len(bs) + 1
        BY <3>3, <1>2
      <4>2. CASE p[2] \in 1..Len(bs)
        BY <3>1, <3>3, <4>2, <1>1, <1>2, ScopeParts
      <4>3. CASE p[2] = Len(bs) + 1
        <5>1. p = p0
          BY <3>1, <3>3, <4>3
        <5> QED BY <5>1, <3>3, <4>3, <1>2
      <4> QED BY <4>1, <4>2, <4>3
    <3> QED BY <3>1, <3>2, <3>3, ScopeParts
  <2>3. b.name = n => p0 \in Scope(u, n)
    BY <1>2, <1>3, ScopeParts
  <2> QED BY <2>1, <2>2, <2>3
<1> HIDE DEF p0, bs
<1>5. ~Under(p0, p0)
  BY <1>1, <1>2, <1>3 DEF Under
<1> DEFINE tab == [table EXCEPT ![b.name] = b.alloca]
<1> SUFFICES ASSUME NEW n \in VarNames
             PROVE  /\ Means(u, ps, n, Scope(u, n), tab[n])
                    /\ \A p \in Scope(u, n) : Means(u, ps, n, Around(u, n, p), Place(u, p).old)
  BY DEF Nested
<1>6. /\ Means(t, ps, n, Scope(t, n), table[n])
      /\ \A p \in Scope(t, n) : Means(t, ps, n, Around(t, n, p), Place(t, p).old)
  BY DEF Nested
<1>7. ASSUME NEW p \in Scope(t, n)
      PROVE  Means(u, ps, n, Around(u, n, p), Place(u, p).old)
  <2>1. Around(u, n, p) = Around(t, n, p)
    BY <1>4, <1>7 DEF Around
  <2>2. \A q \in Around(t, n, p) : Place(u, q) = Place(t, q)
    BY <1>4 DEF Around
  <2> QED BY <2>1, <2>2, <1>4, <1>6, <1>7, SameMeaning
<1>8. CASE b.name # n
  <2>1. Scope(u, n) = Scope(t, n) /\ tab[n] = table[n]
    BY <1>4, <1>8
  <2> QED BY <2>1, <1>4, <1>6, <1>7, SameMeaning
<1>9. CASE b.name = n
  <2>1. tab[n] = b.alloca
    BY <1>9
  <2>2. \A q \in Scope(u, n) : ~Under(p0, q)
    BY <1>4, <1>5
  <2>3. Means(u, ps, n, Scope(u, n), tab[n])
    BY <2>1, <2>2, <1>3, <1>4, <1>9 DEF Means
  <2>4. Around(u, n, p0) = Scope(t, n)
    BY <1>4, <1>5 DEF Around
  <2>5. Means(u, ps, n, Around(u, n, p0), Place(u, p0).old)
    BY <2>4, <1>3, <1>4, <1>6, <1>9, SameMeaning
  <2> HIDE DEF tab
  <2> QED BY <2>3, <2>5, <1>4, <1>7
<1> QED BY <1>8, <1>9

\* To give each name of the innermost activation its old binding back, and
\* forget the activation, keeps the nesting.
LEMMA Unbind ==
  ASSUME NEW s, NEW t, Tops(s, t), TopBinds(t) \in Seq(Binding),
         \A i, j \in 1..Len(TopBinds(t)) : TopBinds(t)[i].name = TopBinds(t)[j].name => i = j,
         NEW table, NEW ps, Nested(t, table, ps), NEW tab,
         \A j \in 1..Len(TopBinds(t)) : tab[TopBinds(t)[j].name] = TopBinds(t)[j].old,
         \A n \in VarNames : (\A j \in 1..Len(TopBinds(t)) : TopBinds(t)[j].name # n) => tab[n] = table[n]
  PROVE  Nested(s, tab, ps)
<1> DEFINE bs == TopBinds(t)
<1>1. Len(t) \in Nat /\ Len(bs) \in Nat
  BY LenProperties DEF Tops
<1> SUFFICES ASSUME NEW n \in VarNames
             PROVE  /\ Means(s, ps, n, Scope(s, n), tab[n])
                    /\ \A p \in Scope(s, n) : Means(s, ps, n, Around(s, n, p), Place(s, p).old)
  BY DEF Nested
<1>2. /\ Means(t, ps, n, Scope(t, n), table[n])
      /\ \A p \in Scope(t, n) : Means(t, ps, n, Around(t, n, p), Place(t, p).old)
  BY DEF Nested
<1>3. \A p \in Scope(s, n) : /\ p \in Nat \X Nat /\ p \in Scope(t, n)
                             /\ p[1] < Len(t) /\ Place(s, p) = Place(t, p)
  BY ScopeParts, ScopePairs
<1>4. \A p \in Scope(t, n) :
        /\ p \in Nat \X Nat
        /\ \/ p \in Scope(s, n)
           \/ p[1] = Len(t) /\ p[2] \in 1..Len(bs) /\ bs[p[2]].name = n
  BY ScopeParts, ScopePairs
<1> HIDE DEF bs
<1>5. ASSUME NEW p \in Scope(s, n)
      PROVE  Means(s, ps, n, Around(s, n, p), Place(s, p).old)
  <2>1. ASSUME NEW q \in Scope(t, n), Under(q, p) PROVE q \in Scope(s, n)
    BY <2>1, <1>1, <1>3, <1>4, <1>5 DEF Under
  <2>2. Around(t, n, p) = Around(s, n, p)
    BY <2>1, <1>3 DEF Around
  <2>3. \A q \in Around(s, n, p) : Place(s, q) = Place(t, q)
    BY <1>3 DEF Around
  <2> QED BY <2>2, <2>3, <1>2, <1>3, <1>5, SameMeaning
<1>6. CASE \A j \in 1..Len(bs) : bs[j].name # n
  <2>1. Scope(t, n) = Scope(s, n)
    BY <1>3, <1>4, <1>6
  <2>2. tab[n] = table[n]
    BY <1>6 DEF bs
  <2> QED BY <2>1, <2>2, <1>2, <1>3, <1>5, SameMeaning
<1>7. ASSUME NEW j \in 1..Len(bs), bs[j].name = n
      PROVE  Means(s, ps, n, Scope(s, n), tab[n])
  <2> DEFINE p0 == <<Len(t), j>>
  <2>1. p0 \in Nat \X Nat /\ p0[1] = Len(t) /\ p0[2] = j
    BY <1>1
  <2>2. p0 \in Scope(t, n) /\ Place(t, p0) = bs[j]
    BY <2>1, <1>7, ScopeParts DEF bs
  <2>3. tab[n] = bs[j].old
    BY <1>7 DEF bs
  <2>4. ASSUME NEW q \in Scope(t, n) PROVE q \in Scope(s, n) \/ (q[1] = Len(t) /\ q[2] = j)
    <3>1. \A i \in 1..Len(bs) : bs[i].name = n => i = j
      BY <1>7 DEF bs
    <3> QED BY <3>1, <1>4, <2>4
  <2>5. Around(t, n, p0) = Scope(s, n)
    <3>1. ASSUME NEW q \in Scope(s, n) PROVE q \in Around(t, n, p0)
      BY <3>1, <2>1, <1>3 DEF Around, Under
    <3>2. ASSUME NEW q \in Around(t, n, p0) PROVE q \in Scope(s, n)
      <4>1. q \in Scope(t, n) /\ Under(q, p0)
        BY <3>2 DEF Around
      <4>2. ~(q[1] = Len(t) /\ q[2] = j)
        BY <4>1, <2>1, <1>1 DEF Under
      <4> QED BY <4>1, <4>2, <2>4
    <3> QED BY <3>1, <3>2
  <2> HIDE DEF p0
  <2> QED BY <2>2, <2>3, <2>5, <1>2, <1>3, SameMeaning
<1> QED BY <1>5, <1>6, <1>7

----------------------------------------------------------------------------
(* Every alloca in the table, and in the old bindings, is of this function. *)

\* What one activation may put into the table, n allocas having been made.
Remembers(f, n) ==
  /\ \A j \in 1..Len(BindsOf(f)) : BindsOf(f)[j].old \in 0..n
  /\ f.kind = "ForStart" => f.alloca \in 0..n

AllRemember(s, n) == \A i \in 1..Len(s) : Remembers(s[i], n)

AllocaInv ==
  Live => /\ \A n \in VarNames : NamedValues[n] \in 0..nallocas
          /\ AllRemember(stack, nallocas)

\* What each kind of activation has bound.
LEMMA BindsOfKinds ==
  ASSUME NEW f
  PROVE  /\ f.kind \in {"ForBody", "ForStep", "ForEnd"} => BindsOf(f) = <<f.bind>>
         /\ f.kind \in {"VarInit", "VarBody"} => BindsOf(f) = f.binds
         /\ f.kind \notin {"ForBody", "ForStep", "ForEnd", "VarInit", "VarBody"} => BindsOf(f) = <<>>
BY DEF BindsOf

\* Activations outside for and var/in remember nothing.
Forgets(f) == f.kind \in {"Unary", "BinaryLHS", "BinaryRHS", "Assign", "CallArg", "IfCond", "IfThen", "IfElse"}

LEMMA ForgetsAll ==
  ASSUME NEW f, Forgets(f)
  PROVE  BindsOf(f) = <<>> /\ \A n : Remembers(f, n)
<1>1. BindsOf(f) = <<>> /\ f.kind # "ForStart"
  BY DEF Forgets, BindsOf
<1>2. Len(BindsOf(f)) = 0
  BY <1>1
<1> QED BY <1>1, <1>2 DEF Remembers

\* More allocas do no harm to what is remembered already.
LEMMA RemembersMore ==
  ASSUME NEW f, NEW n \in Nat, NEW m \in Nat, n <= m, Remembers(f, n)
  PROVE  Remembers(f, m)
<1>1. 0..n \subseteq 0..m
  OBVIOUS
<1> QED BY <1>1 DEF Remembers

\* What the activations remember, as they start, go on and end.
LEMMA AllRememberOps ==
  ASSUME stack \in Seq(Frame), NEW n \in Nat, NEW m \in Nat, n <= m, AllRemember(stack, n)
  PROVE  /\ AllRemember(stack, m)
         /\ \A f : Remembers(f, m) => AllRemember(Push(f), m)
         /\ stack # <<>> =>
              /\ Remembers(Top, n)
              /\ AllRemember(Below, m)
              /\ \A f : Remembers(f, m) => AllRemember(ReplaceTop(f), m)
<1>1. AllRemember(stack, m)
  BY RemembersMore DEF AllRemember
<1>2. ASSUME NEW f, Remembers(f, m) PROVE AllRemember(Push(f), m)
  <2>1. /\ Len(stack) \in Nat /\ Len(Push(f)) = Len(stack) + 1
        /\ \A i \in 1..Len(stack) : Push(f)[i] = stack[i]
        /\ Push(f)[Len(stack) + 1] = f
    BY StackShape
  <2>2. \A i \in 1..Len(Push(f)) : i \in 1..Len(stack) \/ i = Len(stack) + 1
    BY <2>1
  <2> QED BY <1>1, <1>2, <2>1, <2>2 DEF AllRemember
<1>3. ASSUME stack # <<>>
      PROVE  /\ Remembers(Top, n)
             /\ AllRemember(Below, m)
             /\ \A f : Remembers(f, m) => AllRemember(ReplaceTop(f), m)
  <2>1. /\ Len(stack) \in Nat \ {0} /\ Len(Below) = Len(stack) - 1
        /\ \A i \in 1..Len(stack) - 1 : Below[i] = stack[i]
        /\ \A f : /\ Len(ReplaceTop(f)) = Len(stack)
                  /\ ReplaceTop(f)[Len(stack)] = f
                  /\ \A i \in 1..Len(stack) - 1 : ReplaceTop(f)[i] = stack[i]
    BY <1>3, StackOps, StackShape
  <2>2. /\ \A i \in 1..Len(stack) : i \in 1..Len(stack) - 1 \/ i = Len(stack)
        /\ 1..Len(stack) - 1 \subseteq 1..Len(stack) /\ Len(stack) \in 1..Len(stack)
    BY <2>1
  <2>3. Remembers(Top, n)
    BY <2>1, <2>2 DEF AllRemember, Top
  <2>4. AllRemember(Below, m)
    BY <1>1, <2>1, <2>2 DEF AllRemember
  <2>5. ASSUME NEW f, Remembers(f, m) PROVE AllRemember(ReplaceTop(f), m)
    BY <1>1, <2>1, <2>2, <2>5 DEF AllRemember
  <2> QED BY <2>3, <2>4, <2>5
<1> QED BY <1>1, <1>2, <1>3

\* The old binding of a name, restored.
LEMMA RestoreOld ==
  ASSUME NEW table \in [VarNames -> Alloca], NEW binds \in Seq(Binding), NEW n \in VarNames
  PROVE  \/ Restore(table, binds)[n] = table[n]
         \/ \E j \in 1..Len(binds) : Restore(table, binds)[n] = binds[j].old
<1>1. CASE \E i \in 1..Len(binds) : IsLast(binds, i, n)
  <2>1. (CHOOSE i \in 1..Len(binds) : IsLast(binds, i, n)) \in 1..Len(binds)
    BY <1>1
  <2> QED BY <1>1, <2>1 DEF Restore
<1>2. CASE ~ \E i \in 1..Len(binds) : IsLast(binds, i, n)
  BY <1>2 DEF Restore
<1> QED BY <1>1, <1>2

\* The arguments have the first allocas of the function.
LEMMA ArgAllocaRange ==
  ASSUME NEW ps \in Seq(VarNames), NEW n
  PROVE  ArgAlloca(ps, n) \in 0..Len(ps)
<1>1. CASE \E i \in 1..Len(ps) : ps[i] = n
  <2>1. ArgAlloca(ps, n) \in 1..Len(ps)
    BY <1>1 DEF ArgAlloca
  <2> QED BY <2>1
<1>2. CASE ~ \E i \in 1..Len(ps) : ps[i] = n
  <2>1. Len(ps) \in Nat
    BY LenProperties
  <2> QED BY <1>2, <2>1 DEF ArgAlloca, Null
<1> QED BY <1>1, <1>2

\* For every set of names and every body: while a function is generated, no
\* name leads to an alloca of another one, on no path through for, var/in and
\* the errors that skip their restoring code.
THEOREM TableIsOfThisFunction == Spec => []NoStaleAlloca
<1>1. Init => AllocaInv
  BY DEF Init, AllocaInv, Live
<1>2. TypeOK /\ AllocaInv /\ [Next]_vars => AllocaInv'
  <2> SUFFICES ASSUME TypeOK, AllocaInv, [Next]_vars PROVE AllocaInv'
    OBVIOUS
  <2>typ. /\ stack \in Seq(Frame) /\ nallocas \in Nat /\ nallocas + 1 \in Nat
          /\ nallocas <= nallocas + 1 /\ nallocas <= nallocas
          /\ NamedValues \in [VarNames -> Alloca]
    BY DEF TypeOK, CtlTypeOK, ScopeTypeOK
  <2>inv. Live => /\ \A n \in VarNames : NamedValues[n] \in 0..nallocas
                  /\ AllRemember(stack, nallocas)
    BY DEF AllocaInv
  <2>glue. ASSUME \A n \in VarNames : NamedValues'[n] \in 0..nallocas', AllRemember(stack', nallocas')
           PROVE  AllocaInv'
    BY <2>glue DEF AllocaInv, Live, AllRemember
  <2>same. ASSUME Live, UNCHANGED scopeVars, AllRemember(stack', nallocas) PROVE AllocaInv'
    BY <2>same, <2>inv, <2>glue DEF scopeVars
  \* The activations change, the table does not.
  <2>push. ASSUME NEW f, ctl = "call", Remembers(f, nallocas), GenChild(Push(f)), UNCHANGED scopeVars
           PROVE  AllocaInv'
    BY <2>push, <2>typ, <2>inv, <2>same, AllRememberOps DEF GenChild, Live
  <2>leaf. ASSUME NEW v, Live, Return(v, stack), UNCHANGED scopeVars PROVE AllocaInv'
    BY <2>leaf, <2>inv, <2>same DEF Return
  <2>next. ASSUME NEW f, ctl = "return", stack # <<>>, Remembers(f, nallocas),
                  GenChild(ReplaceTop(f)), UNCHANGED scopeVars
           PROVE  AllocaInv'
    BY <2>next, <2>typ, <2>inv, <2>same, AllRememberOps DEF GenChild, Live
  <2>done. ASSUME NEW v, ctl = "return", stack # <<>>, Return(v, Below), UNCHANGED scopeVars
           PROVE  AllocaInv'
    BY <2>done, <2>typ, <2>inv, <2>same, AllRememberOps DEF Return, Live
  <2>res. ASSUME NEW k, Resumes(k)
          PROVE  /\ ctl = "return" /\ Live /\ stack # <<>> /\ Top.kind = k /\ Top \in Frame
                 /\ Remembers(Top, nallocas) /\ AllRemember(Below, nallocas)
    BY <2>res, <2>typ, <2>inv, StackOps, AllRememberOps DEF Resumes, Live
  <2>abt. ASSUME Abort PROVE AllocaInv'
    BY <2>abt DEF Abort, AllocaInv, Live
  <2>1. CASE NumberExpr
    BY <2>1, <2>leaf DEF NumberExpr, Live
  <2>2. ASSUME NEW n \in VarNames, VariableExpr(n) PROVE AllocaInv'
    BY <2>2, <2>leaf DEF VariableExpr, Reject, Live
  <2>3. CASE Propagate
    BY <2>3, <2>done DEF Propagate
  <2>4. ASSUME NEW op \in UnaryOps, UnaryEnter(op) PROVE AllocaInv'
    BY <2>4, <2>push, ForgetsAll DEF UnaryEnter, Enters, Forgets
  <2>5. CASE UnaryApply
    BY <2>5, <2>res, <2>done DEF UnaryApply, Reject
  <2>6. ASSUME NEW op \in UserOps \cup {Arith}, BinaryEnter(op) PROVE AllocaInv'
    BY <2>6, <2>push, ForgetsAll DEF BinaryEnter, Enters, Forgets
  <2>7. CASE BinaryLHS
    BY <2>7, <2>next, ForgetsAll DEF BinaryLHS, Forgets
  <2>8. CASE BinaryLeftFailed
    BY <2>8, <2>res, <2>done DEF BinaryLeftFailed
  <2>9. CASE BinaryApply
    BY <2>9, <2>res, <2>done DEF BinaryApply
  <2>10. CASE BinaryUnresolved
    BY <2>10, <2>abt DEF BinaryUnresolved
  <2>11. ASSUME NEW lhs \in VarNames \cup {NotVar}, AssignEnter(lhs) PROVE AllocaInv'
    BY <2>11, <2>push, ForgetsAll DEF AssignEnter, Enters, Forgets
  <2>sto. ASSUME NEW n, Resumes("Assign"), StoreTo(n) PROVE AllocaInv'
    BY <2>sto, <2>res, <2>done DEF StoreTo, Reject
  <2>12. CASE AssignStore
    BY <2>12, <2>sto DEF AssignStore
  <2>13. CASE AssignWild
    BY <2>13, <2>sto, <2>res, <2>done, <2>abt DEF AssignWild, Reject
  <2>14. ASSUME NEW f \in Callees, NEW nargs \in 0..MaxArgs, CallEnter(f, nargs) PROVE AllocaInv'
    <3> DEFINE g == [kind |-> "CallArg", todo |-> nargs, argsV |-> {}]
    <3>1. Remembers(g, nallocas)
      BY ForgetsAll DEF Forgets
    <3> HIDE DEF g
    <3>2. /\ ctl = "call" /\ UNCHANGED scopeVars
          /\ Return(Fail, stack) \/ Return(insertBlock, stack) \/ GenChild(Push(g))
      BY <2>14 DEF CallEnter, Enters, Reject, g
    <3> QED BY <3>1, <3>2, <2>push, <2>leaf DEF Live
  <2>15. CASE CallArg
    BY <2>15, <2>res, <2>next, ForgetsAll DEF CallArg, Forgets
  <2>16. CASE CallApply
    BY <2>16, <2>res, <2>done DEF CallApply
  <2>17. CASE IfEnter
    BY <2>17, <2>push, ForgetsAll DEF IfEnter, Enters, Forgets
  <2>18. CASE IfBranch
    BY <2>18, <2>res, <2>next, ForgetsAll DEF IfBranch, Forgets
  <2>19. CASE IfElse
    BY <2>19, <2>res, <2>next, ForgetsAll DEF IfElse, Forgets
  <2>20. CASE IfMerge
    BY <2>20, <2>res, <2>done DEF IfMerge
  <2>21. ASSUME NEW n \in VarNames, ForEnter(n) PROVE AllocaInv'
    <3> DEFINE f == [kind |-> "ForStart", name |-> n, alloca |-> nallocas + 1]
    <3>1. /\ ctl = "call" /\ stack' = Push(f) /\ nallocas' = nallocas + 1
          /\ NamedValues' = NamedValues
      BY <2>21 DEF ForEnter, Enters, GenChild
    <3>2. Remembers(f, nallocas + 1)
      <4>1. f.kind = "ForStart" /\ f.alloca \in 0..nallocas + 1 /\ BindsOf(f) = <<>>
        BY <2>typ, BindsOfKinds
      <4> QED BY <4>1 DEF Remembers
    <3> HIDE DEF f
    <3>3. AllRemember(Push(f), nallocas + 1)
      BY <3>1, <3>2, <2>typ, <2>inv, AllRememberOps DEF Live
    <3>4. \A k \in 0..nallocas : k \in 0..nallocas + 1
      BY <2>typ
    <3> QED BY <3>1, <3>3, <3>4, <2>inv, <2>glue DEF Live
  <2>22. CASE ForLoop
    <3> DEFINE b == [name |-> Top.name, alloca |-> Top.alloca, old |-> NamedValues[Top.name]]
               f == [kind |-> "ForBody", bind |-> b, LoopBB |-> nblocks + 1]
    <3>1. Top.kind = "ForStart" /\ Top.name \in VarNames /\ Top.alloca \in 0..nallocas /\ Live /\ stack # <<>>
      BY <2>22, <2>res, FrameFields DEF ForLoop, Remembers
    <3>2. /\ stack' = ReplaceTop(f) /\ nallocas' = nallocas
          /\ NamedValues' = [NamedValues EXCEPT ![Top.name] = Top.alloca]
      BY <2>22 DEF ForLoop, GenChild
    <3>3. Remembers(f, nallocas)
      <4>1. BindsOf(f) = <<b>> /\ f.kind # "ForStart"
        BY BindsOfKinds
      <4>2. b.old \in 0..nallocas
        BY <3>1, <2>inv
      <4> HIDE DEF b, f
      <4> QED BY <4>1, <4>2 DEF Remembers
    <3> HIDE DEF f
    <3>4. AllRemember(ReplaceTop(f), nallocas)
      BY <3>1, <3>3, <2>typ, <2>inv, AllRememberOps
    <3>5. \A n \in VarNames : NamedValues'[n] \in 0..nallocas
      BY <3>1, <3>2, <2>inv, <2>typ
    <3> QED BY <3>2, <3>4, <3>5, <2>glue
  <2>23. CASE ForStep
    <3> DEFINE f == [Top EXCEPT !.kind = "ForStep"]
    <3>1. Top.kind = "ForBody" /\ Top = [kind |-> "ForBody", bind |-> Top.bind, LoopBB |-> Top.LoopBB]
      BY <2>23, <2>res, FrameFields DEF ForStep
    <3>2. f.kind = "ForStep" /\ f.bind = Top.bind
      BY <3>1
    <3>3. BindsOf(f) = BindsOf(Top)
      BY <3>1, <3>2 DEF BindsOf
    <3>4. Remembers(f, nallocas)
      BY <2>23, <2>res, <3>2, <3>3 DEF ForStep, Remembers
    <3> HIDE DEF f
    <3> QED BY <2>23, <2>res, <3>4, <2>next DEF ForStep, f
  <2>24. CASE ForEnd
    <3> DEFINE f == [kind |-> "ForEnd", bind |-> Top.bind, LoopBB |-> Top.LoopBB, StepVal |-> ret]
    <3>1. Top.kind = "ForStep" /\ f.kind = "ForEnd" /\ f.bind = Top.bind
      BY <2>24, <2>res DEF ForEnd
    <3>2. BindsOf(f) = BindsOf(Top)
      BY <3>1 DEF BindsOf
    <3>3. Remembers(f, nallocas)
      BY <2>24, <2>res, <3>1, <3>2 DEF ForEnd, Remembers
    <3> HIDE DEF f
    <3> QED BY <2>24, <2>res, <3>3, <2>next DEF ForEnd, f
  <2>25. CASE ForExit
    <3>1. /\ Top.kind = "ForEnd" /\ Top.bind \in Binding /\ Live /\ AllRemember(Below, nallocas)
          /\ Remembers(Top, nallocas)
      BY <2>25, <2>res, FrameFields DEF ForExit
    <3>2. /\ stack' = Below /\ nallocas' = nallocas
          /\ NamedValues' = [NamedValues EXCEPT ![Top.bind.name] = Top.bind.old]
      BY <2>25 DEF ForExit, Return
    <3>3. Top.bind.old \in 0..nallocas
      <4>1. BindsOf(Top) = <<Top.bind>>
        BY <3>1, BindsOfKinds
      <4>2. Len(BindsOf(Top)) = 1 /\ BindsOf(Top)[1] = Top.bind
        BY <4>1
      <4> QED BY <3>1, <4>2 DEF Remembers
    <3>4. \A n \in VarNames : NamedValues'[n] \in 0..nallocas
      BY <3>1, <3>2, <3>3, <2>inv, <2>typ
    <3> QED BY <3>1, <3>2, <3>4, <2>glue
  <2>26. ASSUME NEW names \in VarLists, VarEnter(names) PROVE AllocaInv'
    <3> DEFINE f == [kind |-> "VarInit", todo |-> names, binds |-> <<>>]
    <3>1. Remembers(f, nallocas)
      <4>1. BindsOf(f) = <<>> /\ f.kind # "ForStart"
        BY BindsOfKinds
      <4> QED BY <4>1 DEF Remembers
    <3> HIDE DEF f
    <3> QED BY <2>26, <3>1, <2>push DEF VarEnter, Enters, f
  <2>27. CASE VarBind
    <3> DEFINE nm == Head(Top.todo)
               b == [name |-> nm, alloca |-> nallocas + 1, old |-> NamedValues[nm]]
               f == IF Len(Top.todo) > 1
                      THEN [kind |-> "VarInit", todo |-> Tail(Top.todo), binds |-> Append(Top.binds, b)]
                      ELSE [kind |-> "VarBody", binds |-> Append(Top.binds, b)]
    <3>1. /\ Top.kind = "VarInit" /\ Top.todo \in Seq(VarNames) \ {<<>>} /\ Top.binds \in Seq(Binding)
          /\ Live /\ stack # <<>> /\ Remembers(Top, nallocas)
      BY <2>27, <2>res, FrameFields DEF VarBind
    <3>2. /\ stack' = ReplaceTop(f) /\ nallocas' = nallocas + 1
          /\ NamedValues' = [NamedValues EXCEPT ![nm] = nallocas + 1]
      BY <2>27 DEF VarBind, GenChild
    <3>3. nm \in VarNames
      BY <3>1, HeadTailProperties
    <3>4. BindsOf(Top) = Top.binds
      BY <3>1, BindsOfKinds
    <3>5. BindsOf(f) = Append(Top.binds, b) /\ f.kind # "ForStart"
      <4>1. f.kind \in {"VarInit", "VarBody"} /\ f.binds = Append(Top.binds, b)
        OBVIOUS
      <4> HIDE DEF f
      <4> QED BY <4>1, BindsOfKinds
    <3>6. b.old \in 0..nallocas /\ b \in Binding
      BY <3>1, <3>3, <2>inv, <2>typ DEF Binding, Alloca
    <3> HIDE DEF f, b, nm
    <3>7. Remembers(f, nallocas + 1)
      <4>1. /\ Len(Top.binds) \in Nat /\ Len(BindsOf(f)) = Len(Top.binds) + 1
            /\ BindsOf(f)[Len(Top.binds) + 1] = b
            /\ \A j \in 1..Len(Top.binds) : BindsOf(f)[j] = Top.binds[j]
        BY <3>1, <3>5, <3>6, AppendProperties, LenProperties
      <4>2. \A k \in 0..nallocas : k \in 0..nallocas + 1
        BY <2>typ
      <4>3. \A j \in 1..Len(Top.binds) : Top.binds[j].old \in 0..nallocas
        BY <3>1, <3>4 DEF Remembers
      <4>4. \A j \in 1..Len(BindsOf(f)) : j \in 1..Len(Top.binds) \/ j = Len(Top.binds) + 1
        BY <4>1
      <4> QED BY <4>1, <4>2, <4>3, <4>4, <3>5, <3>6 DEF Remembers
    <3>8. AllRemember(ReplaceTop(f), nallocas + 1)
      BY <3>1, <3>7, <2>typ, <2>inv, AllRememberOps
    <3>9. \A n \in VarNames : NamedValues'[n] \in 0..nallocas + 1
      <4>1. \A k \in 0..nallocas : k \in 0..nallocas + 1
        BY <2>typ
      <4>2. nallocas + 1 \in 0..nallocas + 1
        BY <2>typ
      <4> QED BY <4>1, <4>2, <3>1, <3>2, <3>3, <2>inv, <2>typ
    <3> QED BY <3>2, <3>8, <3>9, <2>glue
  <2>28. CASE VarExit
    <3>1. /\ Top.kind = "VarBody" /\ Top.binds \in Seq(Binding) /\ Live /\ AllRemember(Below, nallocas)
          /\ Remembers(Top, nallocas)
      BY <2>28, <2>res, FrameFields DEF VarExit
    <3>2. stack' = Below /\ nallocas' = nallocas /\ NamedValues' = Restore(NamedValues, Top.binds)
      BY <2>28 DEF VarExit, Return
    <3>3. \A j \in 1..Len(Top.binds) : Top.binds[j].old \in 0..nallocas
      BY <3>1, BindsOfKinds DEF Remembers
    <3>4. \A n \in VarNames : NamedValues'[n] \in 0..nallocas
      BY <3>1, <3>2, <3>3, <2>inv, <2>typ, RestoreOld
    <3> QED BY <3>1, <3>2, <3>4, <2>glue
  <2>29. ASSUME NEW ps \in ParamLists, FunctionEnter(ps) PROVE AllocaInv'
    <3>1. stack' = <<>> /\ nallocas' = Len(ps) /\ NamedValues' = ArgTable(ps)
      BY <2>29 DEF FunctionEnter, GenChild
    <3>2. \A n \in VarNames : NamedValues'[n] \in 0..nallocas'
      BY <3>1, ParamListsType, ArgAllocaRange DEF ArgTable
    <3> QED BY <3>1, <3>2, <2>glue DEF AllRemember
  <2>30. CASE FunctionAccept
    BY <2>30 DEF FunctionAccept, AllocaInv, Live
  <2>31. CASE FunctionErase
    BY <2>31 DEF FunctionErase, AllocaInv, Live
  <2>32. CASE UNCHANGED vars
    BY <2>32 DEF vars, ctlVars, scopeVars, AllocaInv, Live, AllRemember
  <2>33. CASE Gone
    BY <2>33, <2>32 DEF Gone
  <2>34. CASE Expr
    BY <2>34, <2>1, <2>2, <2>4, <2>6, <2>11, <2>14, <2>17, <2>21, <2>26 DEF Expr
  <2>35. CASE Resume
    BY <2>35, <2>3, <2>5, <2>7, <2>8, <2>9, <2>10, <2>12, <2>13, <2>15, <2>16, <2>18, <2>19,
       <2>20, <2>22, <2>23, <2>24, <2>25, <2>27, <2>28 DEF Resume
  <2> QED
    BY <2>29, <2>30, <2>31, <2>32, <2>33, <2>34, <2>35 DEF Next
<1>3. AllocaInv => NoStaleAlloca
  BY DEF AllocaInv, NoStaleAlloca
<1> QED
  BY <1>1, <1>2, <1>3, TypeCorrect, PTL DEF Spec

----------------------------------------------------------------------------
(* The table is what the nesting says, unless a var/in binds a name twice.  *)

\* A var/in binds at most MaxVars names, and none of them twice.
Shape(f) ==
  /\ f.kind \in {"VarInit", "VarBody"} =>
       \A i, j \in 1..Len(f.binds) : f.binds[i].name = f.binds[j].name => i = j
  /\ f.kind = "VarInit" =>
       /\ Len(f.binds) + Len(f.todo) <= MaxVars
       /\ Distinct(f.todo)
       /\ \A i \in 1..Len(f.binds), j \in 1..Len(f.todo) : f.binds[i].name # f.todo[j]
  /\ f.kind = "VarBody" => Len(f.binds) <= MaxVars

AllShaped(s) == \A i \in 1..Len(s) : Shape(s[i])

NestingInv ==
  Live => /\ AllShaped(stack)
          /\ ~errorLogged => Nested(stack, NamedValues, params)

LEMMA ShapelessKinds ==
  ASSUME NEW f, f.kind \notin {"VarInit", "VarBody"}
  PROVE  Shape(f)
BY DEF Shape

LEMMA ForgetsNesting ==
  ASSUME NEW f, Forgets(f)
  PROVE  BindsOf(f) = <<>> /\ Shape(f)
BY ForgetsAll, ShapelessKinds DEF Forgets

\* How the activations are shaped and topped, as they start, go on and end.
LEMMA AllShapedOps ==
  ASSUME stack \in Seq(Frame)
  PROVE  /\ \A f : /\ AllShaped(stack) /\ Shape(f) => AllShaped(Push(f))
                   /\ Tops(stack, Push(f)) /\ TopBinds(Push(f)) = BindsOf(f)
         /\ stack # <<>> =>
              /\ AllShaped(stack) => Shape(Top) /\ AllShaped(Below)
              /\ Tops(Below, stack) /\ TopBinds(stack) = BindsOf(Top)
              /\ \A f : /\ AllShaped(stack) /\ Shape(f) => AllShaped(ReplaceTop(f))
                        /\ Tops(Below, ReplaceTop(f)) /\ TopBinds(ReplaceTop(f)) = BindsOf(f)
<1>1. ASSUME NEW f
      PROVE  /\ AllShaped(stack) /\ Shape(f) => AllShaped(Push(f))
             /\ Tops(stack, Push(f)) /\ TopBinds(Push(f)) = BindsOf(f)
  <2>1. /\ Len(stack) \in Nat /\ Len(Push(f)) = Len(stack) + 1
        /\ \A i \in 1..Len(stack) : Push(f)[i] = stack[i]
        /\ Push(f)[Len(stack) + 1] = f
    BY StackShape
  <2>2. \A i \in 1..Len(Push(f)) : i \in 1..Len(stack) \/ i = Len(stack) + 1
    BY <2>1
  <2>3. AllShaped(stack) /\ Shape(f) => AllShaped(Push(f))
    BY <2>1, <2>2 DEF AllShaped
  <2>4. Tops(stack, Push(f)) /\ TopBinds(Push(f)) = BindsOf(f)
    BY <2>1 DEF Tops, TopBinds
  <2> QED BY <2>3, <2>4
<1>2. ASSUME stack # <<>>
      PROVE  /\ AllShaped(stack) => Shape(Top) /\ AllShaped(Below)
             /\ Tops(Below, stack) /\ TopBinds(stack) = BindsOf(Top)
             /\ \A f : /\ AllShaped(stack) /\ Shape(f) => AllShaped(ReplaceTop(f))
                       /\ Tops(Below, ReplaceTop(f)) /\ TopBinds(ReplaceTop(f)) = BindsOf(f)
  <2>1. /\ Len(stack) \in Nat \ {0} /\ Len(Below) = Len(stack) - 1
        /\ \A i \in 1..Len(stack) - 1 : Below[i] = stack[i]
        /\ \A f : /\ Len(ReplaceTop(f)) = Len(stack)
                  /\ ReplaceTop(f)[Len(stack)] = f
                  /\ \A i \in 1..Len(stack) - 1 : ReplaceTop(f)[i] = stack[i]
    BY <1>2, StackOps, StackShape
  <2>2. /\ \A i \in 1..Len(stack) : i \in 1..Len(stack) - 1 \/ i = Len(stack)
        /\ 1..Len(stack) - 1 \subseteq 1..Len(stack) /\ Len(stack) \in 1..Len(stack)
        /\ Len(Below) \in Nat /\ Len(stack) = Len(Below) + 1
    BY <2>1
  <2>3. AllShaped(stack) => Shape(Top) /\ AllShaped(Below)
    BY <2>1, <2>2 DEF AllShaped, Top
  <2>4. Tops(Below, stack) /\ TopBinds(stack) = BindsOf(Top)
    BY <2>1, <2>2 DEF Tops, TopBinds, Top
  <2>5. ASSUME NEW f
        PROVE  /\ AllShaped(stack) /\ Shape(f) => AllShaped(ReplaceTop(f))
               /\ Tops(Below, ReplaceTop(f)) /\ TopBinds(ReplaceTop(f)) = BindsOf(f)
    <3>1. AllShaped(stack) /\ Shape(f) => AllShaped(ReplaceTop(f))
      BY <2>1, <2>2 DEF AllShaped
    <3>2. Tops(Below, ReplaceTop(f)) /\ TopBinds(ReplaceTop(f)) = BindsOf(f)
      BY <2>1, <2>2 DEF Tops, TopBinds
    <3> QED BY <3>1, <3>2
  <2> QED BY <2>3, <2>4, <2>5
<1> QED BY <1>1, <1>2

\* The bindings of an activation are bindings, MaxVars at most.
LEMMA BindsOfType ==
  ASSUME NEW f \in Frame, Shape(f)
  PROVE  BindsOf(f) \in Seq(Binding) /\ Len(BindsOf(f)) <= MaxVars
<1>1. CASE f.kind \in {"ForBody", "ForStep", "ForEnd"}
  <2>1. BindsOf(f) = <<f.bind>> /\ f.bind \in Binding
    BY <1>1, BindsOfKinds, FrameFields
  <2> QED BY <2>1, BoundsAssumption
<1>2. CASE f.kind = "VarInit"
  <2>1. BindsOf(f) = f.binds /\ f.binds \in Seq(Binding) /\ f.todo \in Seq(VarNames)
    BY <1>2, BindsOfKinds, FrameFields
  <2>2. Len(f.binds) \in Nat /\ Len(f.todo) \in Nat /\ Len(f.binds) + Len(f.todo) <= MaxVars
    BY <1>2, <2>1, LenProperties DEF Shape
  <2>3. Len(f.binds) <= MaxVars
    <3>1. MaxVars \in Nat
      BY BoundsAssumption
    <3>2. \A x, y, z \in Nat : x + y <= z => x <= z
      OBVIOUS
    <3> QED BY <2>2, <3>1, <3>2
  <2> QED BY <2>1, <2>3
<1>3. CASE f.kind = "VarBody"
  BY <1>3, BindsOfKinds, FrameFields DEF Shape
<1>4. CASE f.kind \notin {"ForBody", "ForStep", "ForEnd", "VarInit", "VarBody"}
  <2>1. BindsOf(f) = <<>>
    BY <1>4, BindsOfKinds
  <2> QED BY <2>1, EmptySeq, BoundsAssumption
<1> QED BY <1>1, <1>2, <1>3, <1>4

\* With distinct names, restoring the old bindings one after the other gives
\* every name the one old binding it has.
LEMMA RestoreDistinct ==
  ASSUME NEW table \in [VarNames -> Alloca], NEW bs \in Seq(Binding),
         \A i, j \in 1..Len(bs) : bs[i].name = bs[j].name => i = j
  PROVE  /\ \A j \in 1..Len(bs) : Restore(table, bs)[bs[j].name] = bs[j].old
         /\ \A n \in VarNames : (\A j \in 1..Len(bs) : bs[j].name # n) => Restore(table, bs)[n] = table[n]
<1>1. Len(bs) \in Nat
  BY LenProperties
<1>2. ASSUME NEW j \in 1..Len(bs)
      PROVE  Restore(table, bs)[bs[j].name] = bs[j].old
  <2> DEFINE n == bs[j].name
  <2>1. n \in VarNames
    <3>1. bs[j] \in Binding
      BY ElementOfSeq
    <3> QED BY <3>1 DEF Binding
  <2>2. \A i \in 1..Len(bs) : IsLast(bs, i, n) => i = j
    BY DEF IsLast
  <2>3. IsLast(bs, j, n)
    <3>1. \A i \in j+1..Len(bs) : i \in 1..Len(bs) /\ i # j
      BY <1>1
    <3> QED BY <3>1 DEF IsLast
  <2>4. (CHOOSE i \in 1..Len(bs) : IsLast(bs, i, n)) = j
    BY <2>2, <2>3
  <2> QED BY <2>1, <2>3, <2>4 DEF Restore
<1>3. ASSUME NEW n \in VarNames, \A j \in 1..Len(bs) : bs[j].name # n
      PROVE  Restore(table, bs)[n] = table[n]
  BY <1>3 DEF Restore, IsLast
<1> QED BY <1>2, <1>3

\* An order of places has one maximum at most, the one Innermost chooses.
LEMMA NestedIsInnermost ==
  ASSUME stack \in Seq(Frame), AllShaped(stack), Nested(stack, NamedValues, params), NEW n \in VarNames
  PROVE  NamedValues[n] = Innermost(n)
<1>1. Scope(stack, n) = InScope(n)
  <2>1. \A i \in 1..Len(stack) : /\ i \in Nat
                                 /\ Len(BindsOf(stack[i])) \in Nat
                                 /\ Len(BindsOf(stack[i])) <= MaxVars
    BY ElementOfSeq, BindsOfType, LenProperties DEF AllShaped
  <2>2. ASSUME NEW p \in Scope(stack, n) PROVE p \in InScope(n)
    <3>1. /\ p \in Nat \X Nat /\ p[1] \in 1..Len(stack) /\ p[2] \in 1..Len(BindsOf(stack[p[1]]))
          /\ BindsOf(stack[p[1]])[p[2]].name = n
      BY <2>2 DEF Scope, Place
    <3>2. p[2] \in 1..MaxVars /\ p[2] <= Len(BindsOf(stack[p[1]]))
      BY <3>1, <2>1, BoundsAssumption
    <3>3. p \in (1..Len(stack)) \X (1..MaxVars)
      BY <3>1, <3>2
    <3> QED BY <3>1, <3>2, <3>3 DEF InScope
  <2>3. ASSUME NEW p \in InScope(n) PROVE p \in Scope(stack, n)
    <3>1. /\ p \in (1..Len(stack)) \X (1..MaxVars)
          /\ p[2] <= Len(BindsOf(stack[p[1]])) /\ BindsOf(stack[p[1]])[p[2]].name = n
      BY <2>3 DEF InScope
    <3>2. p[1] \in 1..Len(stack) /\ p[2] \in 1..MaxVars
      BY <3>1
    <3>3. p[1] \in Nat /\ p[2] \in Nat /\ p[2] \in 1..Len(BindsOf(stack[p[1]]))
      BY <3>1, <3>2, <2>1, BoundsAssumption
    <3>4. p \in Nat \X Nat
      BY <3>1, <3>3
    <3> QED BY <3>1, <3>2, <3>3, <3>4 DEF Scope, Place
  <2> QED BY <2>2, <2>3
<1> DEFINE In == InScope(n)
           Inner(p) == \A q \in In : q[1] < p[1] \/ (q[1] = p[1] /\ q[2] <= p[2])
<1>2. In \subseteq Nat \X Nat
  BY <1>1, ScopePairs
<1>3. Means(stack, params, n, In, NamedValues[n])
  BY <1>1 DEF Nested
<1>4. Innermost(n) = IF In = {} THEN ArgAlloca(params, n)
                     ELSE Place(stack, CHOOSE p \in In : Inner(p)).alloca
  BY DEF Innermost, Place
<1> HIDE DEF In
<1>5. CASE In = {}
  BY <1>3, <1>4, <1>5 DEF Means
<1>6. ASSUME NEW p \in In, NamedValues[n] = Place(stack, p).alloca, \A q \in In : ~Under(p, q)
      PROVE  NamedValues[n] = Innermost(n)
  <2>1. Inner(p)
    BY <1>2, <1>6 DEF Under
  <2>2. \A q \in In : Inner(q) => q = p
    <3> SUFFICES ASSUME NEW q \in In, Inner(q) PROVE q = p
      OBVIOUS
    <3>1. /\ p \in Nat \X Nat /\ q \in Nat \X Nat
          /\ p[1] < q[1] \/ (p[1] = q[1] /\ p[2] <= q[2])
          /\ q[1] < p[1] \/ (q[1] = p[1] /\ q[2] <= p[2])
      BY <1>2, <1>6, <2>1
    <3> QED BY <3>1
  <2> HIDE DEF Inner
  <2>3. (CHOOSE q \in In : Inner(q)) = p
    BY <2>1, <2>2
  <2>4. In # {}
    OBVIOUS
  <2> QED BY <1>4, <1>6, <2>3, <2>4
<1> QED BY <1>3, <1>5, <1>6 DEF Means

\* For every set of names and every body whose var/in expressions bind no name
\* twice: saving and restoring single entries of the one global table gives
\* lexical scoping.
THEOREM NamesAreLexical ==
  ASSUME ~DuplicateVars
  PROVE  Spec => []LexicalScoping
<1>1. Init => NestingInv
  BY DEF Init, NestingInv, Live
<1>2. TypeOK /\ FailureInv /\ NestingInv /\ [Next]_vars => NestingInv'
  <2> SUFFICES ASSUME TypeOK, FailureInv, NestingInv, [Next]_vars PROVE NestingInv'
    OBVIOUS
  <2>typ. stack \in Seq(Frame) /\ nallocas \in Nat /\ NamedValues \in [VarNames -> Alloca]
    BY DEF TypeOK, CtlTypeOK, ScopeTypeOK
  <2>inv. Live => /\ AllShaped(stack)
                  /\ ~errorLogged => Nested(stack, NamedValues, params)
    BY DEF NestingInv
  <2>glue. ASSUME AllShaped(stack'), ~errorLogged' => Nested(stack', NamedValues', params')
           PROVE  NestingInv'
    <3>1. \A s : AllShaped(s)' <=> AllShaped(s')
      BY DEF AllShaped
    <3>2. Nested(stack, NamedValues, params)' <=> Nested(stack', NamedValues', params')
      BY DEF Nested, Means, Scope, Around, Place, Under, ArgAlloca, BindsOf
    <3> QED BY <2>glue, <3>1, <3>2 DEF NestingInv, Live
  \* The activations change, the table does not.
  <2>push. ASSUME NEW f, ctl = "call", BindsOf(f) = <<>>, Shape(f), stack' = Push(f),
                  UNCHANGED <<NamedValues, params, errorLogged>>
           PROVE  NestingInv'
    <3>1. AllShaped(Push(f)) /\ Tops(stack, Push(f)) /\ TopBinds(Push(f)) = <<>>
      BY <2>push, <2>typ, <2>inv, AllShapedOps DEF Live
    <3>2. ~errorLogged => Nested(stack, NamedValues, params)
      BY <2>push, <2>inv DEF Live
    <3> QED BY <3>1, <3>2, <2>push, <2>glue, QuietTop
  <2>leaf. ASSUME NEW v, Live, Return(v, stack), UNCHANGED <<NamedValues, params, errorLogged>>
           PROVE  NestingInv'
    BY <2>leaf, <2>inv, <2>glue DEF Return
  <2>next. ASSUME NEW f, ctl = "return", stack # <<>>, BindsOf(f) = BindsOf(Top), Shape(f),
                  GenChild(ReplaceTop(f)), UNCHANGED <<NamedValues, params, errorLogged>>
           PROVE  NestingInv'
    <3>1. /\ AllShaped(ReplaceTop(f)) /\ Tops(Below, stack) /\ Tops(Below, ReplaceTop(f))
          /\ TopBinds(ReplaceTop(f)) = TopBinds(stack)
      BY <2>next, <2>typ, <2>inv, AllShapedOps DEF Live
    <3>2. ~errorLogged => Nested(stack, NamedValues, params)
      BY <2>next, <2>inv DEF Live
    <3>3. ~errorLogged => Nested(ReplaceTop(f), NamedValues, params)
      BY <3>1, <3>2, ReplacedTop
    <3> QED BY <3>1, <3>3, <2>next, <2>glue DEF GenChild
  <2>done. ASSUME NEW v, ctl = "return", stack # <<>>, BindsOf(Top) = <<>>, Return(v, Below),
                  UNCHANGED <<NamedValues, params, errorLogged>>
           PROVE  NestingInv'
    <3>1. AllShaped(Below) /\ Tops(Below, stack) /\ TopBinds(stack) = <<>>
      BY <2>done, <2>typ, <2>inv, AllShapedOps DEF Live
    <3>2. ~errorLogged => Nested(stack, NamedValues, params)
      BY <2>done, <2>inv DEF Live
    <3> QED BY <3>1, <3>2, <2>done, <2>glue, QuietTop DEF Return
  \* With an error, only the shapes matter.
  <2>bad. ASSUME Live, errorLogged', stack' = stack \/ (stack # <<>> /\ stack' = Below)
          PROVE  NestingInv'
    BY <2>bad, <2>typ, <2>inv, <2>glue, AllShapedOps
  <2>res. ASSUME NEW k, Resumes(k)
          PROVE  /\ ctl = "return" /\ Live /\ stack # <<>> /\ Top.kind = k /\ Top \in Frame
                 /\ Shape(Top) /\ AllShaped(Below)
                 /\ Forgets(Top) => BindsOf(Top) = <<>>
    BY <2>res, <2>typ, <2>inv, StackOps, AllShapedOps, ForgetsNesting DEF Resumes, Live
  <2>abt. ASSUME Abort PROVE NestingInv'
    BY <2>abt DEF Abort, NestingInv, Live
  <2>err. ASSUME Live, ret = Fail \/ HasFailed(stack) PROVE errorLogged
    BY <2>err DEF FailureInv
  <2>1. CASE NumberExpr
    BY <2>1, <2>leaf DEF NumberExpr, Live, scopeVars
  <2>2. ASSUME NEW n \in VarNames, VariableExpr(n) PROVE NestingInv'
    BY <2>2, <2>leaf, <2>bad DEF VariableExpr, Reject, Return, Live, scopeVars
  <2>3. CASE Propagate
    BY <2>3, <2>err, <2>bad DEF Propagate, Return, Live
  <2>4. ASSUME NEW op \in UnaryOps, UnaryEnter(op) PROVE NestingInv'
    BY <2>4, <2>push, ForgetsNesting DEF UnaryEnter, Enters, Forgets, GenChild, scopeVars
  <2>5. CASE UnaryApply
    BY <2>5, <2>res, <2>done, <2>bad DEF UnaryApply, Reject, Return, Forgets, scopeVars
  <2>6. ASSUME NEW op \in UserOps \cup {Arith}, BinaryEnter(op) PROVE NestingInv'
    BY <2>6, <2>push, ForgetsNesting DEF BinaryEnter, Enters, Forgets, GenChild, scopeVars
  <2>7. CASE BinaryLHS
    <3>1. Forgets(Top)
      BY <2>7 DEF BinaryLHS, Forgets
    <3> QED BY <2>7, <3>1, <2>next, ForgetsNesting DEF BinaryLHS, Forgets, scopeVars
  <2>8. CASE BinaryLeftFailed
    <3>1. HasFailed(stack)
      BY <2>8, <2>res, <2>typ, HasFailedOps DEF BinaryLeftFailed, FailedFrame
    <3> QED BY <2>8, <3>1, <2>res, <2>err, <2>bad DEF BinaryLeftFailed, Return
  <2>9. CASE BinaryApply
    BY <2>9, <2>res, <2>done DEF BinaryApply, Forgets, scopeVars
  <2>10. CASE BinaryUnresolved
    BY <2>10, <2>abt DEF BinaryUnresolved
  <2>11. ASSUME NEW lhs \in VarNames \cup {NotVar}, AssignEnter(lhs) PROVE NestingInv'
    BY <2>11, <2>push, ForgetsNesting DEF AssignEnter, Enters, Forgets, GenChild, scopeVars
  <2>sto. ASSUME NEW n, Resumes("Assign"), StoreTo(n) PROVE NestingInv'
    BY <2>sto, <2>res, <2>done, <2>bad DEF StoreTo, Reject, Return, Forgets, scopeVars
  <2>12. CASE AssignStore
    BY <2>12, <2>sto DEF AssignStore
  <2>13. CASE AssignWild
    BY <2>13, <2>sto, <2>res, <2>bad, <2>abt DEF AssignWild, Reject, Return
  <2>14. ASSUME NEW f \in Callees, NEW nargs \in 0..MaxArgs, CallEnter(f, nargs) PROVE NestingInv'
    <3> DEFINE g == [kind |-> "CallArg", todo |-> nargs, argsV |-> {}]
    <3>1. BindsOf(g) = <<>> /\ Shape(g)
      BY ForgetsNesting DEF Forgets
    <3> HIDE DEF g
    <3>2. /\ ctl = "call" /\ UNCHANGED <<NamedValues, params>>
          /\ \/ Reject(stack)
             \/ Return(insertBlock, stack) /\ UNCHANGED errorLogged
             \/ GenChild(Push(g)) /\ UNCHANGED errorLogged
      BY <2>14 DEF CallEnter, Enters, g, scopeVars
    <3> QED BY <3>1, <3>2, <2>push, <2>leaf, <2>bad DEF Live, Reject, Return, GenChild
  <2>15. CASE CallArg
    BY <2>15, <2>res, <2>next, ForgetsNesting DEF CallArg, Forgets, scopeVars
  <2>16. CASE CallApply
    BY <2>16, <2>res, <2>done DEF CallApply, Forgets, scopeVars
  <2>17. CASE IfEnter
    BY <2>17, <2>push, ForgetsNesting DEF IfEnter, Enters, Forgets, GenChild, scopeVars
  <2>18. CASE IfBranch
    BY <2>18, <2>res, <2>next, ForgetsNesting DEF IfBranch, Forgets, scopeVars
  <2>19. CASE IfElse
    BY <2>19, <2>res, <2>next, ForgetsNesting DEF IfElse, Forgets, scopeVars
  <2>20. CASE IfMerge
    BY <2>20, <2>res, <2>done DEF IfMerge, Forgets, scopeVars
  <2>21. ASSUME NEW n \in VarNames, ForEnter(n) PROVE NestingInv'
    <3> DEFINE f == [kind |-> "ForStart", name |-> n, alloca |-> nallocas + 1]
    <3>1. BindsOf(f) = <<>> /\ Shape(f)
      BY BindsOfKinds, ShapelessKinds
    <3> HIDE DEF f
    <3> QED BY <2>21, <3>1, <2>push DEF ForEnter, Enters, GenChild, f
  <2>22. CASE ForLoop
    <3> DEFINE b == [name |-> Top.name, alloca |-> Top.alloca, old |-> NamedValues[Top.name]]
               f == [kind |-> "ForBody", bind |-> b, LoopBB |-> nblocks + 1]
    <3>1. /\ Top.kind = "ForStart" /\ Top.name \in VarNames /\ Top.alloca \in Nat
          /\ Live /\ stack # <<>>
      BY <2>22, <2>res, FrameFields DEF ForLoop
    <3>2. /\ stack' = ReplaceTop(f) /\ UNCHANGED <<params, errorLogged>>
          /\ NamedValues' = [NamedValues EXCEPT ![Top.name] = Top.alloca]
      BY <2>22 DEF ForLoop, GenChild
    <3>3. b \in Binding /\ b.name = Top.name /\ b.alloca = Top.alloca /\ b.old = NamedValues[b.name]
      BY <3>1, <2>typ DEF Binding, Alloca
    <3>4. BindsOf(f) = <<b>> /\ Shape(f)
      BY BindsOfKinds, ShapelessKinds
    <3>5. BindsOf(Top) = <<>>
      BY <3>1, BindsOfKinds
    <3> HIDE DEF f, b
    <3>6. /\ AllShaped(ReplaceTop(f)) /\ Tops(Below, stack) /\ Tops(Below, ReplaceTop(f))
          /\ TopBinds(stack) = <<>> /\ TopBinds(ReplaceTop(f)) = <<b>>
      BY <3>1, <3>4, <3>5, <2>typ, <2>inv, AllShapedOps
    <3>7. <<b>> = Append(<<>>, b) /\ <<>> \in Seq(Binding)
      BY EmptySeq
    <3>8. ASSUME ~errorLogged
          PROVE  Nested(ReplaceTop(f), [NamedValues EXCEPT ![b.name] = b.alloca], params)
      BY <3>8, <3>1, <3>3, <3>6, <3>7, <2>typ, <2>inv, Bind
    <3> QED BY <3>2, <3>3, <3>6, <3>8, <2>glue
  <2>23. CASE ForStep
    <3> DEFINE f == [Top EXCEPT !.kind = "ForStep"]
    <3>1. Top.kind = "ForBody" /\ Top = [kind |-> "ForBody", bind |-> Top.bind, LoopBB |-> Top.LoopBB]
      BY <2>23, <2>res, FrameFields DEF ForStep
    <3>2. f.kind = "ForStep" /\ f.bind = Top.bind
      BY <3>1
    <3>3. BindsOf(f) = BindsOf(Top) /\ Shape(f)
      BY <3>1, <3>2, ShapelessKinds DEF BindsOf
    <3> HIDE DEF f
    <3> QED BY <2>23, <2>res, <3>3, <2>next DEF ForStep, f, scopeVars
  <2>24. CASE ForEnd
    <3> DEFINE f == [kind |-> "ForEnd", bind |-> Top.bind, LoopBB |-> Top.LoopBB, StepVal |-> ret]
    <3>1. Top.kind = "ForStep" /\ f.kind = "ForEnd" /\ f.bind = Top.bind
      BY <2>24, <2>res DEF ForEnd
    <3>2. BindsOf(f) = BindsOf(Top) /\ Shape(f)
      BY <3>1, ShapelessKinds DEF BindsOf
    <3> HIDE DEF f
    <3> QED BY <2>24, <2>res, <3>2, <2>next DEF ForEnd, f, scopeVars
  <2>25. CASE ForExit
    <3>1. Top.kind = "ForEnd" /\ Top.bind \in Binding /\ Live /\ stack # <<>> /\ AllShaped(Below)
      BY <2>25, <2>res, FrameFields DEF ForExit
    <3>2. /\ stack' = Below /\ UNCHANGED <<params, errorLogged>>
          /\ NamedValues' = [NamedValues EXCEPT ![Top.bind.name] = Top.bind.old]
      BY <2>25 DEF ForExit, Return
    <3>3. Tops(Below, stack) /\ TopBinds(stack) = <<Top.bind>>
      BY <3>1, <2>typ, AllShapedOps, BindsOfKinds
    <3>4. Top.bind.name \in VarNames
      BY <3>1 DEF Binding
    <3>5. /\ TopBinds(stack) \in Seq(Binding) /\ Len(TopBinds(stack)) = 1
          /\ TopBinds(stack)[1] = Top.bind
      BY <3>1, <3>3
    <3>6. ASSUME NEW j \in 1..Len(TopBinds(stack)) PROVE j = 1
      BY <3>5
    <3>7. /\ NamedValues'[Top.bind.name] = Top.bind.old
          /\ \A n \in VarNames : Top.bind.name # n => NamedValues'[n] = NamedValues[n]
      BY <3>2, <3>4, <2>typ
    <3>8. ASSUME ~errorLogged PROVE Nested(Below, NamedValues', params)
      <4>1. \A j \in 1..Len(TopBinds(stack)) :
              NamedValues'[TopBinds(stack)[j].name] = TopBinds(stack)[j].old
        BY <3>5, <3>6, <3>7
      <4>2. ASSUME NEW n \in VarNames, \A j \in 1..Len(TopBinds(stack)) : TopBinds(stack)[j].name # n
            PROVE  NamedValues'[n] = NamedValues[n]
        BY <4>2, <3>5, <3>7
      <4>3. \A i, j \in 1..Len(TopBinds(stack)) :
              TopBinds(stack)[i].name = TopBinds(stack)[j].name => i = j
        BY <3>6
      <4>4. Nested(stack, NamedValues, params)
        BY <3>1, <3>8, <2>inv
      <4>5. Tops(Below, stack) /\ TopBinds(stack) \in Seq(Binding)
        BY <3>3, <3>5
      <4> QED BY <4>1, <4>2, <4>3, <4>4, <4>5, Unbind
    <3> QED BY <3>1, <3>2, <3>8, <2>glue
  <2>26. ASSUME NEW names \in VarLists, VarEnter(names) PROVE NestingInv'
    <3> DEFINE f == [kind |-> "VarInit", todo |-> names, binds |-> <<>>]
    <3>1. PICK k \in 1..MaxVars : names \in [1..k -> VarNames] /\ Distinct(names)
      BY <2>26 DEF VarLists
    <3>2. Len(names) <= MaxVars /\ Len(names) \in Nat
      <4>1. k \in Nat /\ k <= MaxVars
        BY <3>1, BoundsAssumption
      <4>2. names \in Seq(VarNames)
        BY <3>1, <4>1, SeqDef
      <4>3. Len(names) \in Nat /\ DOMAIN names = 1..Len(names) /\ DOMAIN names = 1..k
        BY <3>1, <4>2, LenProperties
      <4>4. Len(names) = k
        <5>1. 1..Len(names) = 1..k
          BY <4>3
        <5>2. k \in 1..k
          BY <4>1
        <5>3. k \in 1..Len(names)
          BY <5>1, <5>2, Zenon
        <5>4. Len(names) \in 1..Len(names)
          BY <5>3, <4>3
        <5>5. Len(names) \in 1..k
          BY <5>1, <5>4, Zenon
        <5>6. \A x, y \in Nat : x \in 1..y /\ y \in 1..x => x = y
          OBVIOUS
        <5>7. k \in Nat /\ Len(names) \in Nat
          BY <4>1, <4>3
        <5> QED BY <5>3, <5>5, <5>6, <5>7, Zenon
      <4> QED BY <4>1, <4>4
    <3>3. Shape(f)
      <4>1. /\ f.kind = "VarInit" /\ f.todo = names /\ Len(f.binds) = 0
        OBVIOUS
      <4>2. Len(f.binds) + Len(f.todo) <= MaxVars
        BY <4>1, <3>2
      <4> HIDE DEF f
      <4> QED BY <4>1, <4>2, <3>1 DEF Shape
    <3>4. BindsOf(f) = <<>>
      BY BindsOfKinds
    <3> HIDE DEF f
    <3> QED BY <2>26, <3>3, <3>4, <2>push DEF VarEnter, Enters, GenChild, f, scopeVars
  <2>27. CASE VarBind
    <3> DEFINE nm == Head(Top.todo)
               b == [name |-> nm, alloca |-> nallocas + 1, old |-> NamedValues[nm]]
               f == IF Len(Top.todo) > 1
                      THEN [kind |-> "VarInit", todo |-> Tail(Top.todo), binds |-> Append(Top.binds, b)]
                      ELSE [kind |-> "VarBody", binds |-> Append(Top.binds, b)]
    <3>1. /\ Top.kind = "VarInit" /\ Top.todo \in Seq(VarNames) \ {<<>>} /\ Top.binds \in Seq(Binding)
          /\ Live /\ stack # <<>> /\ Shape(Top)
      BY <2>27, <2>res, FrameFields DEF VarBind
    <3>2. /\ stack' = ReplaceTop(f) /\ UNCHANGED <<params, errorLogged>>
          /\ NamedValues' = [NamedValues EXCEPT ![nm] = nallocas + 1]
      BY <2>27 DEF VarBind, GenChild
    <3>3. nm \in VarNames /\ nm = Top.todo[1]
      BY <3>1, HeadTailProperties
    <3>4. b \in Binding /\ b.name = nm /\ b.alloca = nallocas + 1 /\ b.old = NamedValues[b.name]
      BY <3>3, <2>typ DEF Binding, Alloca
    <3>5. /\ f.binds = Append(Top.binds, b) /\ f.kind \in {"VarInit", "VarBody"}
          /\ f.kind = "VarInit" => Len(Top.todo) > 1 /\ f.todo = Tail(Top.todo)
      OBVIOUS
    <3> HIDE DEF f, b, nm
    <3>6. BindsOf(f) = Append(Top.binds, b) /\ BindsOf(Top) = Top.binds
      BY <3>1, <3>5, BindsOfKinds
    <3>7. Shape(f)
      <4>1. /\ Len(Top.binds) \in Nat /\ Len(f.binds) = Len(Top.binds) + 1
            /\ f.binds[Len(Top.binds) + 1] = b
            /\ \A j \in 1..Len(Top.binds) : f.binds[j] = Top.binds[j]
        BY <3>1, <3>4, <3>5, AppendProperties, LenProperties
      <4>2. \A j \in 1..Len(f.binds) : j \in 1..Len(Top.binds) \/ j = Len(Top.binds) + 1
        BY <4>1
      <4>3. Len(Top.todo) \in Nat \ {0} /\ 1 \in 1..Len(Top.todo)
        BY <3>1, LenProperties, EmptySeq
      <4>4. /\ \A i, j \in 1..Len(Top.binds) : Top.binds[i].name = Top.binds[j].name => i = j
            /\ Len(Top.binds) + Len(Top.todo) <= MaxVars
            /\ Distinct(Top.todo)
            /\ \A i \in 1..Len(Top.binds), j \in 1..Len(Top.todo) : Top.binds[i].name # Top.todo[j]
        BY <3>1 DEF Shape
      <4>5. \A i \in 1..Len(Top.binds) : Top.binds[i].name # nm
        BY <4>3, <4>4, <3>3
      <4>6. \A i, j \in 1..Len(f.binds) : f.binds[i].name = f.binds[j].name => i = j
        BY <4>1, <4>2, <4>4, <4>5, <3>4
      <4>7. CASE f.kind = "VarInit"
        <5>1. /\ f.todo = Tail(Top.todo) /\ Len(f.todo) = Len(Top.todo) - 1
              /\ \A i \in 1..Len(f.todo) : f.todo[i] = Top.todo[i + 1]
          BY <3>1, <3>5, <4>7, HeadTailProperties
        <5>2. \A i \in 1..Len(f.todo) : i + 1 \in 1..Len(Top.todo) /\ i + 1 # 1 /\ i \in Nat
          BY <5>1, <4>3
        <5>3. Distinct(f.todo)
          <6> SUFFICES ASSUME NEW i \in 1..Len(f.todo), NEW j \in 1..Len(f.todo), f.todo[i] = f.todo[j]
                       PROVE  i = j
            BY DEF Distinct
          <6>1. i + 1 = j + 1
            BY <5>1, <5>2, <4>4 DEF Distinct
          <6> QED BY <6>1, <5>2
        <5>4. \A i \in 1..Len(f.binds), j \in 1..Len(f.todo) : f.binds[i].name # f.todo[j]
          <6>1. \A j \in 1..Len(f.todo) : f.todo[j] # nm
            BY <5>1, <5>2, <4>3, <4>4, <3>3 DEF Distinct
          <6> SUFFICES ASSUME NEW i \in 1..Len(f.binds), NEW j \in 1..Len(f.todo)
                       PROVE  f.binds[i].name # f.todo[j]
            OBVIOUS
          <6>2. f.todo[j] = Top.todo[j + 1] /\ j + 1 \in 1..Len(Top.todo)
            BY <5>1, <5>2
          <6>3. CASE i \in 1..Len(Top.binds)
            BY <6>2, <6>3, <4>1, <4>4
          <6>4. CASE i = Len(Top.binds) + 1
            BY <6>1, <6>4, <4>1, <3>4
          <6> QED BY <6>3, <6>4, <4>2
        <5>5. Len(f.binds) + Len(f.todo) <= MaxVars
          <6>1. \A x, y \in Nat : (x + 1) + (y - 1) = x + y
            OBVIOUS
          <6>2. Len(f.binds) + Len(f.todo) = Len(Top.binds) + Len(Top.todo)
            BY <6>1, <5>1, <4>1, <4>3
          <6> QED BY <6>2, <4>4
        <5> QED BY <5>3, <5>4, <5>5, <4>6, <4>7 DEF Shape
      <4>8. CASE f.kind = "VarBody"
        <5>1. Len(f.binds) <= MaxVars
          <6>1. MaxVars \in Nat
            BY BoundsAssumption
          <6>2. \A x, y, z \in Nat : y # 0 /\ x + y <= z => x + 1 <= z
            OBVIOUS
          <6> QED BY <6>1, <6>2, <4>1, <4>3, <4>4
        <5> QED BY <5>1, <4>6, <4>8 DEF Shape
      <4> QED BY <3>5, <4>7, <4>8
    <3>8. /\ AllShaped(ReplaceTop(f)) /\ Tops(Below, stack) /\ Tops(Below, ReplaceTop(f))
          /\ TopBinds(stack) = Top.binds /\ TopBinds(ReplaceTop(f)) = Append(Top.binds, b)
      BY <3>1, <3>6, <3>7, <2>typ, <2>inv, AllShapedOps
    <3>9. ASSUME ~errorLogged
          PROVE  Nested(ReplaceTop(f), [NamedValues EXCEPT ![b.name] = b.alloca], params)
      BY <3>9, <3>1, <3>4, <3>8, <2>typ, <2>inv, Bind
    <3> QED BY <3>2, <3>4, <3>8, <3>9, <2>glue
  <2>28. CASE VarExit
    <3>1. /\ Top.kind = "VarBody" /\ Top.binds \in Seq(Binding) /\ Live /\ stack # <<>>
          /\ AllShaped(Below) /\ Shape(Top)
      BY <2>28, <2>res, FrameFields DEF VarExit
    <3>2. /\ stack' = Below /\ UNCHANGED <<params, errorLogged>>
          /\ NamedValues' = Restore(NamedValues, Top.binds)
      BY <2>28 DEF VarExit, Return
    <3>3. Tops(Below, stack) /\ TopBinds(stack) = Top.binds
      BY <3>1, <2>typ, AllShapedOps, BindsOfKinds
    <3>4. \A i, j \in 1..Len(Top.binds) : Top.binds[i].name = Top.binds[j].name => i = j
      BY <3>1 DEF Shape
    <3>5. ASSUME ~errorLogged PROVE Nested(Below, NamedValues', params)
      <4>1. TopBinds(stack) \in Seq(Binding) /\ Nested(stack, NamedValues, params)
        BY <3>1, <3>3, <3>5, <2>inv
      <4>2. \A i, j \in 1..Len(TopBinds(stack)) :
              TopBinds(stack)[i].name = TopBinds(stack)[j].name => i = j
        BY <3>3, <3>4
      <4>3. NamedValues' = Restore(NamedValues, TopBinds(stack))
        BY <3>2, <3>3
      <4>4. /\ \A j \in 1..Len(TopBinds(stack)) :
                 NamedValues'[TopBinds(stack)[j].name] = TopBinds(stack)[j].old
            /\ \A n \in VarNames : (\A j \in 1..Len(TopBinds(stack)) : TopBinds(stack)[j].name # n)
                                     => NamedValues'[n] = NamedValues[n]
        BY <4>1, <4>2, <4>3, <2>typ, RestoreDistinct
      <4> QED BY <3>3, <4>1, <4>2, <4>4, Unbind
    <3> QED BY <3>1, <3>2, <3>5, <2>glue
  <2>29. ASSUME NEW ps \in ParamLists, FunctionEnter(ps) PROVE NestingInv'
    <3>1. stack' = <<>> /\ params' = ps /\ NamedValues' = ArgTable(ps)
      BY <2>29 DEF FunctionEnter, GenChild
    <3>2. \A n : Scope(<<>>, n) = {}
      BY DEF Scope
    <3>3. Nested(<<>>, ArgTable(ps), ps)
      BY <3>2 DEF Nested, Means, ArgTable
    <3> QED BY <3>1, <3>3, <2>glue DEF AllShaped
  <2>30. CASE FunctionAccept
    BY <2>30 DEF FunctionAccept, NestingInv, Live
  <2>31. CASE FunctionErase
    BY <2>31 DEF FunctionErase, NestingInv, Live
  <2>32. CASE UNCHANGED vars
    <3>1. UNCHANGED <<ctl, stack, NamedValues, params, errorLogged>>
      BY <2>32 DEF vars, ctlVars, scopeVars
    <3>2. ASSUME ~Live PROVE NestingInv'
      BY <3>1, <3>2 DEF NestingInv, Live
    <3>3. ASSUME Live PROVE NestingInv'
      BY <3>1, <3>3, <2>inv, <2>glue
    <3> QED BY <3>2, <3>3
  <2>33. CASE Gone
    BY <2>33, <2>32 DEF Gone
  <2>34. CASE Expr
    BY <2>34, <2>1, <2>2, <2>4, <2>6, <2>11, <2>14, <2>17, <2>21, <2>26 DEF Expr
  <2>35. CASE Resume
    BY <2>35, <2>3, <2>5, <2>7, <2>8, <2>9, <2>10, <2>12, <2>13, <2>15, <2>16, <2>18, <2>19,
       <2>20, <2>22, <2>23, <2>24, <2>25, <2>27, <2>28 DEF Resume
  <2> QED
    BY <2>29, <2>30, <2>31, <2>32, <2>33, <2>34, <2>35 DEF Next
<1>3. TypeOK /\ NestingInv => LexicalScoping
  BY NestedIsInnermost DEF TypeOK, CtlTypeOK, NestingInv, LexicalScoping
<1> QED
  BY <1>1, <1>2, <1>3, TypeCorrect, FailureInvariant, PTL DEF Spec
=============================================================================

---------------------------- MODULE ParserProofs ----------------------------
(***************************************************************************)
(* The parser, for every input, every set of operator characters and every *)
(* number that a program may give as a precedence.                         *)
(*                                                                         *)
(* That operators are grouped by precedence depends on what each waiting   *)
(* call may still return.  PInv says it frame by frame: which frames may   *)
(* lie on which (Over), what an activation of ParseBinOpRHS knows of its   *)
(* operands (FrameOK), and what holds of the value and of the next token   *)
(* at the points where the topmost frame goes on (TopInv).                 *)
(*                                                                         *)
(* That parsing ends is shown by StepsLeft, which counts the tokens to     *)
(* come and what each waiting function may do without taking one.          *)
(***************************************************************************)
EXTENDS Parser, FiniteSetTheorems, TLAPS

\* The points of the parse functions below ParseBinOpRHS, spelled out.
Inner ==
  {"unary", "parenthesis", "callee", "first argument", "next argument", "for name", "for =",
   "start", "end", "step", "then", "else", "var name", "initializer", "next var", "complete"}

Opn     == {"operator", "RHS", "pending RHS"}  \* activations of ParseBinOpRHS
Callers == {"LHS", "RHS", "operand"}           \* what calls ParseUnary

FrameOK(f) ==
  /\ f.at \in Opn => f.lhs >= 1 /\ f.min <= f.lhs
  /\ f.at \in {"RHS", "pending RHS"} => f.op \in 1..100 /\ f.min <= f.op /\ f.op <= f.lhs

\* Frame g may lie on frame f.
Over(f, g) ==
  /\ g.at \in Inner \cup {"operand"} => f.at \in Callers
  /\ g.at = "LHS" => f.at \in Inner
  /\ g.at \in Opn => \/ f.at \in Inner /\ g.min = 0
                     \/ f.at = "pending RHS" /\ g.min = f.op + 1

Bottom(f) == f.at = "LHS" \/ (f.at \in Opn /\ f.min = 0)

WellFormed(s) ==
  /\ \A i \in 1..Len(s) : FrameOK(s[i])
  /\ \A i \in 1..Len(s) - 1 : Over(s[i], s[i + 1])
  /\ s # <<>> => Bottom(s[1])

TopInv ==
  /\ pc = "operator" => stack # <<>> /\ Top.at = "operator" /\ GetTokPrecedence <= Top.lhs
  /\ pc \in Inner => stack # <<>> /\ Top.at \in Callers
  /\ pc = "return" /\ val # Null /\ stack # <<>> =>
       /\ Top.at \in {"LHS", "RHS"} => val = Atom
       /\ Top.at = "pending RHS" => val > Top.op /\ GetTokPrecedence <= Top.op
  /\ Returned /\ val # Null /\ item # "extern" => GetTokPrecedence = -1
  /\ pc \notin Inner \cup {"operator", "return"} => stack = <<>>

PInv == TypeOK /\ WellFormed(stack) /\ TopInv

----------------------------------------------------------------------------
(* The tables of tokens and points.                                        *)

\* The two tables lead from points to points.
LEMMA TakesAndCalls ==
  /\ \A r \in Takes \cup Calls : r[1] \in Inner \ {"complete"} /\ r[3] \in Inner
  /\ Points \cup {"complete"} = Inner
  /\ Points \subseteq Inner
<1> DEFINE Step(p, q) == p \in Inner \ {"complete"} /\ q \in Inner
<1>1. \A r \in Takes : Step(r[1], r[3])
  <2>1. \A p, t, q : <<p, t, q>> \in Takes => Step(p, q)
    BY DEF Takes, Inner
  <2>2. \A r \in Takes : \E p, t, q : r = <<p, t, q>>
    BY DEF Takes
  <2> QED
    BY <2>1, <2>2
<1>2. \A r \in Calls : Step(r[1], r[3])
  <2>1. \A p, t, q : <<p, t, q>> \in Calls => Step(p, q)
    BY DEF Calls, Inner
  <2>2. \A r \in Calls : \E p, t, q : r = <<p, t, q>>
    BY DEF Calls
  <2> QED
    BY <2>1, <2>2
<1>3. Points \subseteq Inner \ {"complete"}
  BY <1>1, <1>2 DEF Points
<1>4. \A p, t, q : <<p, t, q>> \in Takes \cup Calls => p \in Points
  BY DEF Points
<1>5. /\ <<"unary", "number", "complete">> \in Takes /\ <<"parenthesis", ")", "complete">> \in Takes
      /\ <<"callee", "(", "first argument">> \in Takes /\ <<"first argument", ")", "complete">> \in Takes
      /\ <<"next argument", ")", "complete">> \in Takes /\ <<"for name", "identifier", "for =">> \in Takes
      /\ <<"var name", "identifier", "initializer">> \in Takes /\ <<"next var", ",", "var name">> \in Takes
  BY DEF Takes
<1>6. /\ <<"for =", "=", "start">> \in Calls /\ <<"start", ",", "end">> \in Calls
      /\ <<"end", "in", "complete">> \in Calls /\ <<"step", "in", "complete">> \in Calls
      /\ <<"then", "then", "else">> \in Calls /\ <<"else", "else", "complete">> \in Calls
      /\ <<"initializer", "=", "next var">> \in Calls
  BY DEF Calls
<1>7. Inner \ {"complete"} \subseteq Points
  <2>1. {"unary", "parenthesis", "callee", "first argument", "next argument", "for name",
         "var name", "next var"} \subseteq Points
    BY <1>4, <1>5
  <2>2. {"for =", "start", "end", "step", "then", "else", "initializer"} \subseteq Points
    BY <1>4, <1>6
  <2> QED
    BY <2>1, <2>2 DEF Inner
<1>8. "complete" \in Inner
  BY DEF Inner
<1> QED
  BY <1>1, <1>2, <1>3, <1>7, <1>8

\* The values of points and frames, spelled out.
LEMMA AtSets ==
  /\ Ats = Inner \cup Opn \cup {"LHS", "operand"}
  /\ Inner \cap (Opn \cup Callers) = {}
  /\ "complete" \in Inner /\ "unary" \in Inner /\ Optional \subseteq Inner
  /\ {"operator", "return", "prototype", "letter", "precedence", "open", "parameter",
      "comma", "prototype read", "main loop", "ended"} \cap Inner = {}
<1>1. Ats = Inner \cup Opn \cup {"LHS", "operand"}
  BY TakesAndCalls DEF Ats, Opn
<1> QED
  BY <1>1 DEF Inner, Opn, Callers, Optional

LEMMA PrecedenceRange ==
  ASSUME TypeOK
  PROVE  GetTokPrecedence \in {-1} \cup 1..100
<1>1. \A c \in Chars : BinopPrecedence[c] \in 0..100
  BY DEF TypeOK
<1> QED
  BY <1>1 DEF GetTokPrecedence, Precedence

\* What the lexer returns is a token.
LEMMA NextToken ==
  ASSUME TypeOK, getNextToken
  PROVE  /\ source' = source /\ CurTok' \in Tokens
         /\ read' \in Nat \ {0} /\ read' >= read
         /\ CurTok # "eof" => read' = read + 1
<1>1. source \in DOMAIN Inputs /\ CurTok \in Tokens /\ read \in Nat \ {0}
  BY DEF TypeOK
<1>2. Inputs \in Seq(Seq((SUBSET Tokens) \ {{}}) \ {<<>>})
  BY ParserBounds
<1>3. Inputs[source] \in Seq((SUBSET Tokens) \ {{}})
  <2> DEFINE S == Seq((SUBSET Tokens) \ {{}}) \ {<<>>}
  <2>1. Inputs \in Seq(S)
    BY <1>2
  <2> HIDE DEF S
  <2>2. Inputs[source] \in S
    BY <1>1, <2>1
  <2> QED
    BY <2>2 DEF S
<1>4. ASSUME read < Len(Inputs[source]) PROVE Inputs[source][read + 1] \subseteq Tokens
  BY <1>1, <1>3, <1>4
<1>5. "eof" \in Tokens
  BY DEF Tokens
<1> QED
  BY <1>1, <1>4, <1>5 DEF getNextToken, input

----------------------------------------------------------------------------
(* The stack.                                                              *)

LEMMA Push ==
  ASSUME NEW s \in Seq(Frames), NEW f \in Frames
  PROVE  /\ Append(s, f) \in Seq(Frames) /\ Append(s, f) # <<>>
         /\ Len(Append(s, f)) = Len(s) + 1
         /\ Append(s, f)[Len(s) + 1] = f
         /\ \A i \in 1..Len(s) : Append(s, f)[i] = s[i]
  OBVIOUS

LEMMA PushWellFormed ==
  ASSUME NEW s \in Seq(Frames), NEW f \in Frames, WellFormed(s), s # <<>>,
         FrameOK(f), Over(s[Len(s)], f)
  PROVE  WellFormed(Append(s, f))
<1> DEFINE t == Append(s, f)
<1>1. /\ Len(t) = Len(s) + 1 /\ t[Len(s) + 1] = f
      /\ \A i \in 1..Len(s) : t[i] = s[i]
  BY Push
<1>2. Len(s) \in Nat \ {0}
  OBVIOUS
<1> HIDE DEF t
<1>3. \A i \in 1..Len(t) : FrameOK(t[i])
  BY <1>1, <1>2 DEF WellFormed
<1>4. ASSUME NEW i \in 1..Len(t) - 1 PROVE Over(t[i], t[i + 1])
  <2>1. CASE i = Len(s)
    BY <2>1, <1>1, <1>2
  <2>2. CASE i < Len(s)
    <3>1. i \in 1..Len(s) - 1 /\ i + 1 \in 1..Len(s)
      BY <2>2, <1>1, <1>2
    <3> QED
      BY <3>1, <1>1, <1>2 DEF WellFormed
  <2> QED
    BY <2>1, <2>2, <1>1, <1>2
<1>5. Bottom(t[1])
  BY <1>1, <1>2 DEF WellFormed
<1> QED
  BY <1>3, <1>4, <1>5 DEF WellFormed, t

LEMMA Pop ==
  ASSUME NEW s \in Seq(Frames), s # <<>>
  PROVE  LET t == SubSeq(s, 1, Len(s) - 1)
         IN  /\ t \in Seq(Frames) /\ Len(t) = Len(s) - 1
             /\ \A i \in 1..Len(s) - 1 : t[i] = s[i]
             /\ Len(s) \in Nat \ {0} /\ s[Len(s)] \in Frames
  OBVIOUS

LEMMA PopWellFormed ==
  ASSUME NEW s \in Seq(Frames), s # <<>>, WellFormed(s)
  PROVE  LET t == SubSeq(s, 1, Len(s) - 1)
         IN  /\ WellFormed(t)
             /\ t # <<>> => Over(t[Len(t)], s[Len(s)]) /\ FrameOK(t[Len(t)]) /\ t[Len(t)] \in Frames
             /\ t = <<>> => Bottom(s[Len(s)])
             /\ FrameOK(s[Len(s)])
<1> DEFINE t == SubSeq(s, 1, Len(s) - 1)
<1>1. /\ t \in Seq(Frames) /\ Len(t) = Len(s) - 1
      /\ \A i \in 1..Len(s) - 1 : t[i] = s[i]
      /\ Len(s) \in Nat \ {0}
  BY Pop
<1> HIDE DEF t
<1>2. \A i \in 1..Len(t) : FrameOK(t[i])
  BY <1>1 DEF WellFormed
<1>3. \A i \in 1..Len(t) - 1 : Over(t[i], t[i + 1])
  BY <1>1 DEF WellFormed
<1>4. ASSUME t # <<>>
      PROVE  Bottom(t[1]) /\ Over(t[Len(t)], s[Len(s)]) /\ FrameOK(t[Len(t)]) /\ t[Len(t)] \in Frames
  <2>1. Len(t) \in 1..Len(s) - 1 /\ Len(t) + 1 = Len(s)
    BY <1>1, <1>4
  <2>2. t[Len(t)] = s[Len(t)] /\ t[1] = s[1]
    BY <1>1, <2>1
  <2>3. t[Len(t)] \in Frames
    BY <1>1, <2>1
  <2> QED
    BY <2>1, <2>2, <2>3, <1>2 DEF WellFormed
<1>5. ASSUME t = <<>> PROVE Bottom(s[Len(s)])
  <2>1. Len(s) = 1
    BY <1>5, <1>1
  <2> QED
    BY <2>1 DEF WellFormed
<1> QED
  BY <1>1, <1>2, <1>3, <1>4, <1>5 DEF WellFormed, t

LEMMA Replace ==
  ASSUME NEW s \in Seq(Frames), s # <<>>, NEW f \in Frames
  PROVE  LET t == [s EXCEPT ![Len(s)] = f]
         IN  /\ t \in Seq(Frames) /\ t # <<>> /\ Len(t) = Len(s) /\ t[Len(s)] = f
             /\ \A i \in 1..Len(s) : i # Len(s) => t[i] = s[i]
             /\ Len(s) \in Nat \ {0}
  OBVIOUS

LEMMA ReplaceWellFormed ==
  ASSUME NEW s \in Seq(Frames), s # <<>>, WellFormed(s), NEW f \in Frames, FrameOK(f),
         \A g \in Frames : Over(g, s[Len(s)]) => Over(g, f),
         Bottom(s[Len(s)]) => Bottom(f)
  PROVE  WellFormed([s EXCEPT ![Len(s)] = f])
<1> DEFINE t == [s EXCEPT ![Len(s)] = f]
<1>1. /\ t # <<>> /\ Len(t) = Len(s) /\ t[Len(s)] = f
      /\ \A i \in 1..Len(s) : i # Len(s) => t[i] = s[i]
      /\ Len(s) \in Nat \ {0}
  BY Replace
<1>2. \A i \in 1..Len(s) : s[i] \in Frames
  OBVIOUS
<1> HIDE DEF t
<1>3. \A i \in 1..Len(t) : FrameOK(t[i])
  BY <1>1 DEF WellFormed
<1>4. ASSUME NEW i \in 1..Len(t) - 1 PROVE Over(t[i], t[i + 1])
  <2>1. t[i] = s[i] /\ s[i] \in Frames /\ Over(s[i], s[i + 1])
    BY <1>1, <1>2 DEF WellFormed
  <2>2. CASE i + 1 = Len(s)
    BY <2>1, <2>2, <1>1
  <2>3. CASE i + 1 # Len(s)
    BY <2>1, <2>3, <1>1
  <2> QED
    BY <2>2, <2>3
<1>5. Bottom(t[1])
  BY <1>1 DEF WellFormed
<1> QED
  BY <1>3, <1>4, <1>5 DEF WellFormed, t

----------------------------------------------------------------------------
(* What the topmost frame may rely on, in the next state.                  *)

Pcs ==
  Inner \cup {"operator", "return", "prototype", "letter", "precedence", "open", "parameter",
              "comma", "prototype read", "main loop", "ended"}

LEMMA PcSet ==
  Points \cup {"complete", "operator", "return", "prototype", "letter", "precedence", "open",
               "parameter", "comma", "prototype read", "main loop", "ended"} = Pcs
<1>1. "complete" \in Inner
  BY AtSets
<1> QED
  BY <1>1, TakesAndCalls DEF Pcs

\* Inside a primary expression, after an error, and between two expressions.
LEMMA TopInner ==
  ASSUME pc' \in Inner, stack' # <<>>, Top'.at \in Callers
  PROVE  TopInv'
<1>1. pc' \notin {"operator", "return"}
  BY AtSets
<1> QED
  BY <1>1 DEF TopInv, Returned

LEMMA TopNull ==
  ASSUME pc' = "return", val' = Null
  PROVE  TopInv'
<1>1. pc' \notin Inner
  BY AtSets
<1> QED
  BY <1>1 DEF TopInv, Returned

LEMMA TopIdle ==
  ASSUME pc' \in Pcs \ (Inner \cup {"operator", "return"}), stack' = <<>>
  PROVE  TopInv'
BY DEF TopInv, Returned

\* A frame that only remembers where its function goes on.
LEMMA PointFrame ==
  ASSUME NEW p \in Inner \cup {"LHS", "operand"}
  PROVE  /\ Frame(p, 0, 0, 0) \in Frames /\ Frame(p, 0, 0, 0).at = p
         /\ FrameOK(Frame(p, 0, 0, 0))
<1> DEFINE f == Frame(p, 0, 0, 0)
<1>1. p \in Ats /\ p \notin Opn
  BY AtSets DEF Opn
<1>2. f = [at |-> p, min |-> 0, lhs |-> 0, op |-> 0]
  BY DEF Frame
<1>3. f \in Frames /\ f.at = p
  BY <1>1, <1>2 DEF Frames
<1>4. FrameOK(f)
  <2> HIDE DEF f
  <2>1. f.at \notin Opn /\ f.at \notin {"RHS", "pending RHS"}
    BY <1>1, <1>3 DEF Opn
  <2> QED
    BY <2>1 DEF FrameOK
<1> QED
  BY <1>3, <1>4

\* A frame of ParseBinOpRHS.
LEMMA OpnFrame ==
  ASSUME NEW p \in Opn, NEW m \in 0..101, NEW l \in 0..101, NEW o \in 0..101
  PROVE  LET f == Frame(p, m, l, o)
         IN  f \in Frames /\ f.at = p /\ f.min = m /\ f.lhs = l /\ f.op = o
<1>1. p \in Ats
  BY AtSets
<1> QED
  BY <1>1 DEF Frame, Frames

\* Calling ParseExpression from a primary expression.
LEMMA CallsExpression ==
  ASSUME PInv, pc \in Inner, NEW q \in Inner, ParseExpression(q)
  PROVE  stack' \in Seq(Frames) /\ WellFormed(stack') /\ TopInv' /\ pc' = "unary"
<1>1. stack \in Seq(Frames) /\ WellFormed(stack) /\ stack # <<>> /\ Top.at \in Callers
  BY DEF PInv, TypeOK, TopInv
<1> DEFINE f == Frame(q, 0, 0, 0)
           g == Frame("LHS", 0, 0, 0)
           t == Append(stack, f)
<1>2. f \in Frames /\ FrameOK(f) /\ f.at = q /\ g \in Frames /\ FrameOK(g) /\ g.at = "LHS"
  BY PointFrame
<1>3. stack' = Append(t, g) /\ pc' = "unary"
  BY DEF ParseExpression
<1> HIDE DEF f, g
<1>4. Over(stack[Len(stack)], f)
  BY <1>1, <1>2, AtSets DEF Over, Top, Callers
<1>5. t \in Seq(Frames) /\ t # <<>> /\ t[Len(t)] = f
  BY <1>1, <1>2, Push
<1>6. WellFormed(t)
  BY <1>1, <1>2, <1>4, PushWellFormed
<1> HIDE DEF t
<1>7. Over(t[Len(t)], g)
  BY <1>2, <1>5, AtSets DEF Over, Callers, Opn
<1>8. stack' \in Seq(Frames) /\ stack' # <<>> /\ stack'[Len(stack')] = g
  BY <1>2, <1>3, <1>5, Push
<1>9. WellFormed(stack')
  BY <1>2, <1>3, <1>5, <1>6, <1>7, PushWellFormed
<1>10. TopInv'
  BY <1>2, <1>3, <1>8, TopInner, AtSets DEF Top, Callers
<1> QED
  BY <1>3, <1>8, <1>9, <1>10

----------------------------------------------------------------------------
(* The invariant.                                                          *)

LEMMA InitPInv == Init => PInv
<1> SUFFICES ASSUME Init PROVE PInv
  OBVIOUS
<1>1. CurTok \in Tokens
  <2>1. source \in DOMAIN Inputs /\ Inputs \in Seq(Seq((SUBSET Tokens) \ {{}}) \ {<<>>})
    BY ParserBounds DEF Init
  <2> DEFINE S == Seq((SUBSET Tokens) \ {{}}) \ {<<>>}
  <2>2. Inputs[source] \in S
    <3>1. Inputs \in Seq(S)
      BY <2>1
    <3> HIDE DEF S
    <3> QED
      BY <2>1, <3>1
  <2>3. Inputs[source][1] \subseteq Tokens
    BY <2>2
  <2> QED
    BY <2>3 DEF Init
<1>2. BinopPrecedence \in [Chars -> 0..100]
  <2> DEFINE F(c) == CASE c = "="              -> 2
                       [] c \in {"<", ">"}      -> 10
                       [] c \in {"+", "-", "/"} -> 20
                       [] c = "*"               -> 40
                       [] OTHER                 -> 0
  <2>1. \A c : F(c) \in 0..100
    OBVIOUS
  <2>2. BinopPrecedence = [c \in Chars |-> F(c)]
    BY DEF Init
  <2> HIDE DEF F
  <2> QED
    BY <2>1, <2>2
<1>3. "main loop" \in Pcs \ (Inner \cup {"operator", "return"})
  BY AtSets DEF Pcs
<1>4. NoProto \in [kind : 0..2, op : Chars, prec : 1..100, args : Nat, names : Nat]
  BY DEF NoProto, Chars
<1>5. stack = <<>> /\ stack \in Seq(Frames) /\ Len(stack) = 0
  <2>1. stack = <<>>
    BY Zenon DEF Init
  <2> QED
    BY <2>1
<1>6. TypeOK
  <2>1. /\ pc = "main loop" /\ source \in DOMAIN Inputs /\ read = 1 /\ val = Null
        /\ item = "none" /\ proto = NoProto /\ start = 0 /\ rejected = FALSE
    BY Zenon DEF Init
  <2>2. read \in Nat \ {0} /\ start \in 0..read /\ val \in 0..101
    <3>1. read = 1 /\ start = 0 /\ val = 0
      BY <2>1, Zenon DEF Null
    <3> QED
      BY <3>1
  <2>5. rejected \in BOOLEAN
    BY <2>1, Zenon
  <2>3. pc \in Pcs
    BY <1>3, <2>1
  <2>4. item \in {"none", "semicolon", "definition", "extern", "expression"}
    BY <2>1
  <2> QED
    BY <1>1, <1>2, <1>4, <1>5, <2>1, <2>2, <2>3, <2>4, <2>5, PcSet, Zenon DEF TypeOK
<1>7. WellFormed(stack)
  BY <1>5 DEF WellFormed
<1>8. TopInv
  BY <1>3 DEF Init, TopInv, Returned
<1> QED
  BY <1>6, <1>7, <1>8 DEF PInv

Items      == {"none", "semicolon", "definition", "extern", "expression"}
Prototypes == [kind : 0..2, op : Chars, prec : 1..100, args : Nat, names : Nat]

LEMMA TypeNext ==
  ASSUME TypeOK, getNextToken \/ UNCHANGED input, BinopPrecedence' \in [Chars -> 0..100], pc' \in Pcs,
         stack' \in Seq(Frames), val' \in 0..101, item' \in Items, proto' \in Prototypes,
         start' \in {start, read}, rejected' \in BOOLEAN
  PROVE  TypeOK'
<1>1. source \in DOMAIN Inputs /\ CurTok \in Tokens /\ read \in Nat \ {0} /\ start \in 0..read
  BY DEF TypeOK
<1>2. source' \in DOMAIN Inputs /\ CurTok' \in Tokens /\ read' \in Nat \ {0} /\ read' >= read
  BY <1>1, NextToken DEF input
<1>3. start' \in 0..read'
  BY <1>1, <1>2
<1> QED
  BY <1>2, <1>3, PcSet, Zenon DEF TypeOK, Items, Prototypes

\* What TypeOK says of the variables that an action leaves alone.
LEMMA Typed ==
  ASSUME TypeOK
  PROVE  /\ BinopPrecedence \in [Chars -> 0..100] /\ pc \in Pcs /\ stack \in Seq(Frames)
         /\ val \in 0..101 /\ item \in Items /\ proto \in Prototypes /\ rejected \in BOOLEAN
BY PcSet DEF TypeOK, Items, Prototypes

LEMMA Constants ==
  /\ Inner \subseteq Pcs /\ {"operator", "return", "main loop", "ended", "prototype read"} \subseteq Pcs
  /\ Null = 0 /\ Null \in 0..101 /\ Atom = 101 /\ Atom \in 0..101
<1>1. Inner \subseteq Pcs /\ {"operator", "return", "main loop", "ended", "prototype read"} \subseteq Pcs
  BY DEF Pcs
<1>2. Null = 0 /\ Null \in 0..101 /\ Atom = 101 /\ Atom \in 0..101
  BY DEF Null, Atom
<1> QED
  BY <1>1, <1>2, Zenon

LEMMA Numbers == Null = 0 /\ Atom = 101
BY DEF Null, Atom

\* Primary expressions.
LEMMA StepPrimary == PInv /\ ParsePrimary => PInv'
<1> SUFFICES ASSUME PInv, ParsePrimary PROVE PInv'
  OBVIOUS
<1>1. TypeOK /\ WellFormed(stack) /\ TopInv
  BY DEF PInv
<1>2. Inner \subseteq Pcs /\ "return" \in Pcs /\ Atom \in 0..101 /\ Null \in 0..101
  BY Constants
<1>3. pc \in Inner => stack # <<>> /\ Top.at \in Callers
  BY <1>1 DEF TopInv
<1>4. CASE Take
  <2>1. pc \in Inner /\ pc' \in Inner /\ stack' = stack /\ getNextToken
        /\ UNCHANGED <<BinopPrecedence, val, item, proto, start, rejected>>
    BY <1>4, TakesAndCalls DEF Take
  <2>2. TypeOK'
    BY <1>1, <1>2, <2>1, Typed, TypeNext
  <2>3. TopInv'
    BY <1>3, <2>1, TopInner DEF Top
  <2> QED
    BY <1>1, <2>1, <2>2, <2>3 DEF PInv
<1>5. CASE TakeAndParse
  <2>1. PICK q \in Inner : pc \in Inner /\ ParseExpression(q) /\ getNextToken
        /\ UNCHANGED <<BinopPrecedence, val, item, proto, start, rejected>>
    BY <1>5, TakesAndCalls DEF TakeAndParse
  <2>2. stack' \in Seq(Frames) /\ WellFormed(stack') /\ TopInv' /\ pc' = "unary"
    BY <2>1, CallsExpression
  <2>3. TypeOK'
    BY <1>1, <1>2, <2>1, <2>2, AtSets, Typed, TypeNext
  <2> QED
    BY <2>2, <2>3 DEF PInv
<1>6. CASE GoOn
  <2>1. pc \in Inner /\ UNCHANGED <<input, BinopPrecedence, val, item, proto, start, rejected>>
    BY <1>6, AtSets DEF GoOn
  <2>2. CASE ParseExpression("next argument")
    <3>1. "next argument" \in Inner
      BY DEF Inner
    <3>2. stack' \in Seq(Frames) /\ WellFormed(stack') /\ TopInv' /\ pc' = "unary"
      BY <2>1, <2>2, <3>1, CallsExpression
    <3>3. TypeOK'
      BY <1>1, <1>2, <2>1, <3>2, AtSets, Typed, TypeNext
    <3> QED
      BY <3>2, <3>3 DEF PInv
  <2>3. CASE pc' \in {"complete", "next var"} /\ UNCHANGED stack
    <3>1. pc' \in Inner
      BY <2>3 DEF Inner
    <3>2. TypeOK'
      BY <1>1, <1>2, <2>1, <2>3, <3>1, Typed, TypeNext
    <3>3. TopInv'
      BY <1>3, <2>1, <2>3, <3>1, TopInner DEF Top
    <3> QED
      BY <1>1, <2>3, <3>2, <3>3 DEF PInv
  <2> QED
    BY <1>6, <2>2, <2>3 DEF GoOn
<1>7. CASE LogError
  <2>1. pc' = "return" /\ val' = Null /\ rejected' \in BOOLEAN
        /\ UNCHANGED <<input, BinopPrecedence, stack, item, proto, start>>
    BY <1>7 DEF LogError, Return
  <2>2. TypeOK'
    BY <1>1, <1>2, <2>1, Typed, TypeNext
  <2> QED
    BY <1>1, <2>1, <2>2, TopNull DEF PInv
<1>8. CASE Complete
  <2>1. pc = "complete" /\ pc' = "return" /\ val' = Atom /\ rejected' \in BOOLEAN
        /\ UNCHANGED <<input, BinopPrecedence, stack, item, proto, start>>
    BY <1>8 DEF Complete, Return
  <2>2. TypeOK'
    BY <1>1, <1>2, <2>1, Typed, TypeNext
  <2>3. stack # <<>> /\ Top.at \in Callers
    BY <1>3, <2>1, AtSets
  <2>4. TopInv'
    BY <2>1, <2>3, AtSets DEF TopInv, Top, Returned, Callers
  <2> QED
    BY <1>1, <2>1, <2>2, <2>4 DEF PInv
<1> QED
  BY <1>4, <1>5, <1>6, <1>7, <1>8 DEF ParsePrimary

LEMMA Above == \A l \in 1..101 : \A m, o \in 0..101 : m <= l /\ m = o + 1 => l > o
OBVIOUS

\* The topmost frame is typed, and so is the stack below it.
LEMMA TopFrame ==
  ASSUME PInv, stack # <<>>
  PROVE  /\ Len(stack) \in Nat \ {0} /\ Top \in Frames /\ FrameOK(Top)
         /\ Top.at \in Ats /\ Top.min \in 0..101 /\ Top.lhs \in 0..101 /\ Top.op \in 0..101
         /\ Popped \in Seq(Frames) /\ WellFormed(Popped)
         /\ Popped # <<>> => /\ Over(Popped[Len(Popped)], Top) /\ FrameOK(Popped[Len(Popped)])
                             /\ Popped[Len(Popped)] \in Frames
         /\ Popped = <<>> => Bottom(Top)
<1>1. stack \in Seq(Frames) /\ WellFormed(stack)
  BY DEF PInv, TypeOK
<1>2. Len(stack) \in Nat \ {0} /\ Top \in Frames /\ Popped \in Seq(Frames)
  BY <1>1, Pop DEF Top, Popped
<1>3. Top.at \in Ats /\ Top.min \in 0..101 /\ Top.lhs \in 0..101 /\ Top.op \in 0..101
  BY <1>2 DEF Frames
<1> QED
  BY <1>1, <1>2, <1>3, PopWellFormed DEF Top, Popped

\* Replacing the topmost frame by one that stands in the same place.
LEMMA ReplaceTop ==
  ASSUME PInv, stack # <<>>, NEW f \in Frames, FrameOK(f), stack' = Replaced(f),
         \A g \in Frames : Over(g, Top) => Over(g, f), Bottom(Top) => Bottom(f)
  PROVE  /\ stack' \in Seq(Frames) /\ WellFormed(stack') /\ stack' # <<>> /\ Top' = f
<1>1. stack \in Seq(Frames) /\ WellFormed(stack)
  BY DEF PInv, TypeOK
<1>2. WellFormed(stack')
  BY <1>1, ReplaceWellFormed DEF Replaced, Top
<1> QED
  BY <1>1, <1>2, Replace DEF Replaced, Top

\* Unary operators, and ParseBinOpRHS.
LEMMA StepOperators == PInv /\ (ParseUnary \/ ParseBinOpRHS) => PInv'
<1> SUFFICES ASSUME PInv, ParseUnary \/ ParseBinOpRHS PROVE PInv'
  OBVIOUS
<1>1. TypeOK /\ WellFormed(stack) /\ TopInv /\ stack \in Seq(Frames)
  BY DEF PInv, TypeOK
<1>2. GetTokPrecedence \in {-1} \cup 1..100
  BY <1>1, PrecedenceRange
<1>3. CASE ParseUnary
  <2> DEFINE f == Frame("operand", 0, 0, 0)
  <2>1. pc = "unary" /\ pc' = pc /\ getNextToken /\ stack' = Append(stack, f)
        /\ UNCHANGED <<BinopPrecedence, val, item, proto, start, rejected>>
    BY <1>3 DEF ParseUnary
  <2>2. pc \in Inner /\ stack # <<>> /\ Top.at \in Callers
    BY <1>1, <2>1, AtSets DEF TopInv
  <2>3. f \in Frames /\ FrameOK(f) /\ f.at = "operand"
    BY PointFrame
  <2> HIDE DEF f
  <2>4. Over(stack[Len(stack)], f)
    BY <2>2, <2>3 DEF Over, Opn, Top
  <2>5. stack' \in Seq(Frames) /\ stack' # <<>> /\ Top' = f
    BY <1>1, <2>1, <2>3, Push DEF Top
  <2>6. WellFormed(stack')
    BY <1>1, <2>1, <2>2, <2>3, <2>4, PushWellFormed
  <2>7. TypeOK'
    BY <1>1, <2>1, <2>5, Typed, TypeNext
  <2>8. TopInv'
    BY <2>1, <2>2, <2>3, <2>5, TopInner DEF Callers
  <2> QED
    BY <2>6, <2>7, <2>8 DEF PInv
<1>4. CASE BinOpLoop
  <2>1. pc = "operator" /\ UNCHANGED <<BinopPrecedence, item, proto, start>>
    BY <1>4 DEF BinOpLoop
  <2>2. stack # <<>> /\ Top.at = "operator" /\ GetTokPrecedence <= Top.lhs
    BY <1>1, <2>1 DEF TopInv
  <2>3. Top.lhs \in 1..101 /\ Top.min \in 0..101 /\ Top.min <= Top.lhs
    <3>1. FrameOK(Top) /\ Top.min \in 0..101 /\ Top.lhs \in 0..101
      BY <2>2, TopFrame
    <3>2. Top.lhs >= 1 /\ Top.min <= Top.lhs
      BY <2>2, <3>1, Zenon DEF FrameOK, Opn
    <3> QED
      BY <3>1, <3>2
  <2>4. CASE /\ GetTokPrecedence < Top.min
             /\ Return(Top.lhs)
             /\ stack' = Popped
             /\ UNCHANGED input
    <3>1. pc' = "return" /\ val' = Top.lhs /\ stack' = Popped
      BY <2>4 DEF Return
    <3>9. rejected' \in BOOLEAN
      BY <2>4 DEF Return
    <3>2. stack' \in Seq(Frames) /\ WellFormed(stack')
      BY <2>2, <3>1, TopFrame
    <3>3. TypeOK'
      <4>1. val' \in 0..101
        BY <2>3, <3>1
      <4> QED
        BY <1>1, <2>1, <2>4, <3>1, <3>2, <3>9, <4>1, Constants, Typed, TypeNext
    <3>4. GetTokPrecedence' = GetTokPrecedence
      BY <2>1, <2>4 DEF GetTokPrecedence, Precedence, input
    <3>5. ASSUME stack' = <<>> PROVE GetTokPrecedence' = -1
      <4>1. Bottom(Top)
        BY <2>2, <3>1, <3>5, TopFrame
      <4>2. Top.min = 0
        BY <2>2, <4>1 DEF Bottom
      <4> QED
        BY <4>2, <2>4, <3>4, <1>2
    <3>6. ASSUME stack' # <<>>
          PROVE  /\ Top'.at \notin {"LHS", "RHS"}
                 /\ Top'.at = "pending RHS" => val' > Top'.op /\ GetTokPrecedence' <= Top'.op
      <4>1. Over(Top', Top) /\ Top' \in Frames
        BY <2>2, <3>1, <3>6, TopFrame DEF Top
      <4>2. Top'.op \in 0..101
        BY <4>1 DEF Frames
      <4>3. \/ Top'.at \in Inner /\ Top.min = 0
            \/ Top'.at = "pending RHS" /\ Top.min = Top'.op + 1
        BY <4>1, <2>2 DEF Over, Opn
      <4>4. CASE Top'.at \in Inner
        BY <4>4, AtSets DEF Opn, Callers
      <4>5. CASE Top'.at = "pending RHS" /\ Top.min = Top'.op + 1
        <5>1. Top.min = Top'.op + 1 /\ Top'.at \notin {"LHS", "RHS"}
          BY <4>5
        <5>2. Top.lhs > Top'.op
          BY <5>1, <4>2, <2>3, Above, Zenon
        <5>3. GetTokPrecedence < Top.min
          BY <2>4
        <5>4. GetTokPrecedence <= Top'.op
          BY <5>1, <5>3, <4>2, <1>2
        <5> QED
          BY <3>1, <3>4, <5>1, <5>2, <5>4, Zenon
      <4> QED
        BY <4>3, <4>4, <4>5
    <3>7. pc' \notin Inner /\ pc' # "operator"
      BY <3>1, AtSets
    <3>8. TopInv'
      BY <3>1, <3>5, <3>6, <3>7 DEF TopInv, Returned
    <3> QED
      BY <3>2, <3>3, <3>8 DEF PInv
  <2>5. CASE /\ GetTokPrecedence >= Top.min
             /\ stack' = Replaced(Frame("RHS", Top.min, Top.lhs, GetTokPrecedence))
             /\ pc' = "unary"
             /\ getNextToken
             /\ UNCHANGED <<val, rejected>>
    <3> DEFINE f == Frame("RHS", Top.min, Top.lhs, GetTokPrecedence)
    <3>1. GetTokPrecedence \in 1..100
      BY <1>2, <2>3, <2>5
    <3>2. f \in Frames /\ f.at = "RHS" /\ f.min = Top.min /\ f.lhs = Top.lhs /\ f.op = GetTokPrecedence
      <4>1. Top.min \in 0..101 /\ Top.lhs \in 0..101 /\ GetTokPrecedence \in 0..101
        BY <2>3, <3>1
      <4>2. "RHS" \in Ats
        BY AtSets DEF Opn
      <4> QED
        BY <4>1, <4>2, Zenon DEF Frame, Frames
    <3>3. stack' = Replaced(f)
      BY <2>5
    <3> HIDE DEF f
    <3>4. FrameOK(f)
      <4>1. Top.min <= GetTokPrecedence
        BY <1>2, <2>3, <2>5
      <4>2. Top.lhs >= 1
        BY <2>3
      <4>3. f.lhs >= 1 /\ f.min <= f.lhs /\ f.op \in 1..100 /\ f.min <= f.op /\ f.op <= f.lhs
        BY <2>2, <2>3, <3>1, <3>2, <4>1, <4>2, Zenon
      <4> QED
        BY <4>3, Zenon DEF FrameOK
    <3>5. \A g \in Frames : Over(g, Top) => Over(g, f)
      BY <2>2, <3>2, AtSets DEF Over, Opn
    <3>6. Bottom(Top) => Bottom(f)
      BY <2>2, <3>2 DEF Bottom, Opn
    <3>7. stack' \in Seq(Frames) /\ WellFormed(stack') /\ stack' # <<>> /\ Top' = f
      BY <2>2, <3>2, <3>3, <3>4, <3>5, <3>6, ReplaceTop
    <3>8. TypeOK'
      BY <1>1, <2>1, <2>5, <3>7, Constants, AtSets, Typed, TypeNext
    <3>9. TopInv'
      BY <2>5, <3>2, <3>7, AtSets, TopInner DEF Callers
    <3> QED
      BY <3>7, <3>8, <3>9 DEF PInv
  <2> QED
    BY <1>4, <2>4, <2>5 DEF BinOpLoop
<1>5. CASE ParsePending
  <2> DEFINE f == [Top EXCEPT !.at = "pending RHS"]
             g == Frame("operator", Top.op + 1, val, 0)
  <2>1. /\ pc = "return" /\ stack # <<>> /\ Top.at = "RHS" /\ val # Null /\ Top.op < GetTokPrecedence
        /\ stack' = Append(Replaced(f), g) /\ pc' = "operator"
        /\ UNCHANGED <<input, BinopPrecedence, val, item, proto, start, rejected>>
    BY <1>5 DEF ParsePending, Returning
  <2>2. Top \in Frames /\ FrameOK(Top)
    BY <2>1, TopFrame
  <2>3. Top.op \in 1..100 /\ Top.min <= Top.op /\ Top.op <= Top.lhs /\ Top.lhs >= 1 /\ Top.min <= Top.lhs
    BY <2>1, <2>2, Zenon DEF FrameOK, Opn
  <2>4. val = Atom
    BY <1>1, <2>1 DEF TopInv
  <2>5. f \in Frames /\ f.at = "pending RHS" /\ f.min = Top.min /\ f.lhs = Top.lhs /\ f.op = Top.op
    <3>1. "pending RHS" \in Ats
      BY AtSets DEF Opn
    <3> QED
      BY <2>2, <3>1 DEF Frames
  <2>6. g \in Frames /\ g.at = "operator" /\ g.min = Top.op + 1 /\ g.lhs = Atom
    <3>1. Top.op + 1 \in 0..101 /\ 0 \in 0..101
      BY <2>3
    <3>2. "operator" \in Ats
      BY AtSets DEF Opn
    <3> QED
      BY <2>4, <3>1, <3>2, Constants, Zenon DEF Frame, Frames
  <2> HIDE DEF f, g
  <2>7. FrameOK(f)
    BY <2>3, <2>5, Zenon DEF FrameOK
  <2>8. FrameOK(g)
    <3>1. Atom >= 1 /\ Top.op + 1 <= Atom
      BY <2>3, Numbers
    <3> QED
      BY <2>6, <3>1 DEF FrameOK
  <2>9. \A h \in Frames : Over(h, Top) => Over(h, f)
    BY <2>1, <2>5, AtSets DEF Over, Opn
  <2>10. Bottom(Top) => Bottom(f)
    BY <2>1, <2>5 DEF Bottom, Opn
  <2> DEFINE t == Replaced(f)
  <2>11. t \in Seq(Frames) /\ t # <<>> /\ t[Len(t)] = f /\ WellFormed(t)
    <3>1. t \in Seq(Frames) /\ t # <<>> /\ t[Len(t)] = f
      BY <1>1, <2>1, <2>5, Replace DEF Replaced
    <3>2. WellFormed(t)
      BY <1>1, <2>1, <2>5, <2>7, <2>9, <2>10, ReplaceWellFormed DEF Replaced, Top
    <3> QED
      BY <3>1, <3>2
  <2>12. stack' = Append(t, g)
    BY <2>1
  <2> HIDE DEF t
  <2>13. Over(t[Len(t)], g)
    BY <2>5, <2>6, <2>11, AtSets DEF Over, Opn
  <2>14. stack' \in Seq(Frames) /\ stack' # <<>> /\ Top' = g /\ WellFormed(stack')
    BY <2>6, <2>8, <2>11, <2>12, <2>13, Push, PushWellFormed DEF Top
  <2>15. TypeOK'
    BY <1>1, <2>1, <2>14, Constants, Typed, TypeNext
  <2>16. GetTokPrecedence' <= Top'.lhs
    <3>1. GetTokPrecedence' = GetTokPrecedence
      BY <2>1 DEF GetTokPrecedence, Precedence, input
    <3>2. GetTokPrecedence <= Atom
      BY <1>2, Numbers
    <3> QED
      BY <2>6, <2>14, <3>1, <3>2
  <2>17. TopInv'
    BY <2>1, <2>6, <2>14, <2>16, AtSets DEF TopInv, Returned
  <2> QED
    BY <2>14, <2>15, <2>17 DEF PInv
<1>6. CASE Merge
  <2> DEFINE f == Frame("operator", Top.min, Top.op, 0)
  <2>1. /\ pc = "return" /\ stack # <<>> /\ val # Null
        /\ Top.at = "pending RHS" \/ (Top.at = "RHS" /\ Top.op >= GetTokPrecedence)
        /\ stack' = Replaced(f) /\ pc' = "operator"
        /\ UNCHANGED <<input, BinopPrecedence, val, item, proto, start, rejected>>
    BY <1>6 DEF Merge, Merging, Returning
  <2>2. Top \in Frames /\ FrameOK(Top) /\ Top.min \in 0..101
    BY <2>1, TopFrame
  <2>3. Top.op \in 1..100 /\ Top.min <= Top.op
    BY <2>1, <2>2, Zenon DEF FrameOK
  <2>4. f \in Frames /\ f.at = "operator" /\ f.min = Top.min /\ f.lhs = Top.op
    <3>1. Top.op \in 0..101 /\ 0 \in 0..101
      BY <2>3
    <3>2. "operator" \in Ats
      BY AtSets DEF Opn
    <3> QED
      BY <2>2, <3>1, <3>2, Zenon DEF Frame, Frames
  <2> HIDE DEF f
  <2>5. FrameOK(f)
    <3>1. Top.op >= 1
      BY <2>3
    <3> QED
      BY <2>3, <2>4, <3>1 DEF FrameOK
  <2>6. \A h \in Frames : Over(h, Top) => Over(h, f)
    BY <2>1, <2>4, AtSets DEF Over, Opn
  <2>7. Bottom(Top) => Bottom(f)
    BY <2>1, <2>4 DEF Bottom, Opn
  <2>8. stack' \in Seq(Frames) /\ WellFormed(stack') /\ stack' # <<>> /\ Top' = f
    BY <2>1, <2>4, <2>5, <2>6, <2>7, ReplaceTop
  <2>9. TypeOK'
    BY <1>1, <2>1, <2>8, Constants, Typed, TypeNext
  <2>10. GetTokPrecedence' <= Top'.lhs
    <3>1. GetTokPrecedence' = GetTokPrecedence
      BY <2>1 DEF GetTokPrecedence, Precedence, input
    <3>2. CASE Top.at = "pending RHS"
      BY <1>1, <2>1, <2>4, <2>8, <3>1, <3>2 DEF TopInv
    <3>3. CASE Top.op >= GetTokPrecedence
      <4>1. GetTokPrecedence <= Top.op
        BY <1>2, <2>3, <3>3
      <4> QED
        BY <2>4, <2>8, <3>1, <4>1
    <3> QED
      BY <2>1, <3>2, <3>3
  <2>11. TopInv'
    BY <2>1, <2>4, <2>8, <2>10, AtSets DEF TopInv, Returned
  <2> QED
    BY <2>8, <2>9, <2>11 DEF PInv
<1> QED
  BY <1>3, <1>4, <1>5, <1>6 DEF ParseBinOpRHS

\* What lies below a frame that a finished call hands its value to.
LEMMA Below ==
  ASSUME PInv, stack # <<>>, Top.at \in Inner \cup {"operand"}, stack' = Popped
  PROVE  stack' # <<>> /\ Top'.at \in Callers
<1>1. Top.at \notin Opn /\ Top.at # "LHS"
  BY AtSets DEF Opn, Callers
<1>2. Popped # <<>>
  BY <1>1, TopFrame DEF Bottom
<1>3. Over(Popped[Len(Popped)], Top)
  BY <1>2, TopFrame
<1> QED
  BY <1>2, <1>3 DEF Over, Top

\* Returning to the caller.
LEMMA StepReturn == PInv /\ ReturnToCaller => PInv'
<1> SUFFICES ASSUME PInv, ReturnToCaller PROVE PInv'
  OBVIOUS
<1>1. TypeOK /\ WellFormed(stack) /\ TopInv /\ stack \in Seq(Frames)
  BY DEF PInv, TypeOK
<1>2. stack # <<>> /\ UNCHANGED <<input, BinopPrecedence, item, proto, start, rejected>>
  BY DEF ReturnToCaller, ReturnNull, ReturnToPrimary, ReturnToUnary, ReturnToExpression, Returning
<1>3. Popped \in Seq(Frames) /\ WellFormed(Popped)
  BY <1>2, TopFrame
<1>4. CASE ReturnNull
  <2>1. pc' = "return" /\ pc' = pc /\ val' = Null /\ val' = val /\ stack' = Popped
    BY <1>4 DEF ReturnNull
  <2>2. TypeOK'
    BY <1>1, <1>2, <1>3, <2>1, Typed, TypeNext
  <2>3. TopInv'
    BY <2>1, TopNull
  <2> QED
    BY <1>3, <2>1, <2>2, <2>3 DEF PInv
<1>5. CASE ReturnToPrimary
  <2>1. pc' = Top.at /\ pc' \in Inner /\ val' = val /\ stack' = Popped
    BY <1>5, TakesAndCalls DEF ReturnToPrimary
  <2>2. stack' # <<>> /\ Top'.at \in Callers
    BY <1>2, <2>1, Below
  <2>3. TypeOK'
    BY <1>1, <1>2, <1>3, <2>1, Constants, Typed, TypeNext
  <2>4. TopInv'
    BY <2>1, <2>2, TopInner
  <2> QED
    BY <1>3, <2>1, <2>3, <2>4 DEF PInv
<1>6. CASE ReturnToUnary
  <2>1. Top.at = "operand" /\ pc = "return" /\ pc' = pc /\ val' = Atom /\ stack' = Popped
    BY <1>6 DEF ReturnToUnary, Returning
  <2>2. stack' # <<>> /\ Top'.at \in Callers
    BY <1>2, <2>1, Below
  <2>3. TypeOK'
    BY <1>1, <1>2, <1>3, <2>1, Constants, Typed, TypeNext
  <2>4. TopInv'
    BY <2>1, <2>2, AtSets DEF TopInv, Returned, Callers
  <2> QED
    BY <1>3, <2>1, <2>3, <2>4 DEF PInv
<1>7. CASE ReturnToExpression
  <2> DEFINE f == Frame("operator", 0, val, 0)
  <2>1. /\ Top.at = "LHS" /\ pc = "return" /\ val # Null
        /\ pc' = "operator" /\ val' = val /\ stack' = Replaced(f)
    BY <1>7 DEF ReturnToExpression, Returning
  <2>2. val = Atom
    BY <1>1, <1>2, <2>1 DEF TopInv
  <2>3. f \in Frames /\ f.at = "operator" /\ f.min = 0 /\ f.lhs = Atom
    <3>1. "operator" \in Ats
      BY AtSets DEF Opn
    <3>2. 0 \in 0..101
      OBVIOUS
    <3> QED
      BY <2>2, <3>1, <3>2, Constants, Zenon DEF Frame, Frames
  <2> HIDE DEF f
  <2>4. FrameOK(f)
    <3>1. Atom >= 1 /\ 0 <= Atom
      BY Numbers
    <3> QED
      BY <2>3, <3>1 DEF FrameOK
  <2>5. \A h \in Frames : Over(h, Top) => Over(h, f)
    BY <2>1, <2>3, AtSets DEF Over, Opn
  <2>6. Bottom(f)
    BY <2>3 DEF Bottom, Opn
  <2>7. stack' \in Seq(Frames) /\ WellFormed(stack') /\ stack' # <<>> /\ Top' = f
    BY <1>2, <2>1, <2>3, <2>4, <2>5, <2>6, ReplaceTop
  <2>8. TypeOK'
    BY <1>1, <1>2, <2>1, <2>7, Constants, Typed, TypeNext
  <2>9. GetTokPrecedence' <= Top'.lhs
    <3>1. GetTokPrecedence' = GetTokPrecedence
      BY <1>2 DEF GetTokPrecedence, Precedence, input
    <3>2. GetTokPrecedence <= Atom
      <4>1. GetTokPrecedence \in {-1} \cup 1..100
        BY <1>1, PrecedenceRange
      <4> QED
        BY <4>1, Numbers
    <3> QED
      BY <2>3, <2>7, <3>1, <3>2
  <2>10. TopInv'
    BY <2>1, <2>3, <2>7, <2>9, AtSets DEF TopInv, Returned
  <2> QED
    BY <2>7, <2>8, <2>10 DEF PInv
<1> QED
  BY <1>4, <1>5, <1>6, <1>7 DEF ReturnToCaller

\* Prototypes.  A precedence that is accepted is one between 1 and 100.
LEMMA StepPrototype == PInv /\ ParsePrototype => PInv'
<1> SUFFICES ASSUME PInv, ParsePrototype PROVE PInv'
  OBVIOUS
<1>1. TypeOK /\ WellFormed(stack) /\ TopInv
  BY DEF PInv
<1> DEFINE P == {"prototype", "letter", "precedence", "open", "parameter", "comma"}
<1>2. pc \in P /\ UNCHANGED <<BinopPrecedence, stack, item, start>>
  BY DEF ParsePrototype, FunctionName, OperatorKind, OperatorLetter, ReadPrecedence, OpenParameters,
         Parameter, AfterParameter, Prototype, WrongOperands, LogErrorP, InPrototype
<1>3. stack = <<>>
  BY <1>1, <1>2, AtSets DEF TopInv
<1>4. getNextToken \/ UNCHANGED input
  BY DEF ParsePrototype, FunctionName, OperatorKind, OperatorLetter, ReadPrecedence, OpenParameters,
         Parameter, AfterParameter, Prototype, WrongOperands, LogErrorP, input
<1>5. (pc' \in P \cup {"prototype read"} /\ UNCHANGED <<val, rejected>>) \/ Return(Null)
  BY DEF ParsePrototype, FunctionName, OperatorKind, OperatorLetter, ReadPrecedence, OpenParameters,
         Parameter, AfterParameter, Prototype, WrongOperands, LogErrorP, Keep
<1>6. proto' \in Prototypes
  <2>1. proto \in Prototypes /\ CurTok \in Tokens
    BY <1>1, Typed DEF TypeOK
  <2>2. CASE OperatorKind
    BY <2>1, <2>2 DEF OperatorKind, Prototypes
  <2>3. CASE OperatorLetter
    BY <2>1, <2>3 DEF OperatorLetter, Prototypes
  <2>4. CASE ReadPrecedence
    <3>1. \A v \in NumVals : v >= 10 /\ v <= 1000 => v \div 10 \in 1..100
      BY ParserBounds
    <3>2. proto' = proto \/ \E q \in 1..100 : proto' = [proto EXCEPT !.prec = q]
      BY <2>4, <3>1 DEF ReadPrecedence
    <3> QED
      BY <2>1, <3>2 DEF Prototypes
  <2>5. CASE Parameter \/ AfterParameter
    <3>1. proto.args + 1 \in Nat /\ proto.names + 1 \in Nat
      BY <2>1 DEF Prototypes
    <3>2. CASE Parameter
      BY <2>1, <3>1, <3>2 DEF Parameter, Prototypes
    <3>3. CASE AfterParameter
      BY <2>1, <3>1, <3>3 DEF AfterParameter, Prototypes
    <3> QED
      BY <2>5, <3>2, <3>3
  <2>6. CASE FunctionName \/ OpenParameters \/ Prototype \/ WrongOperands \/ LogErrorP
    BY <2>1, <2>6 DEF FunctionName, OpenParameters, Prototype, WrongOperands, LogErrorP
  <2> QED
    BY <2>2, <2>3, <2>4, <2>5, <2>6 DEF ParsePrototype
<1>7. CASE pc' \in P \cup {"prototype read"} /\ UNCHANGED <<val, rejected>>
  <2>1. pc' \in Pcs \ (Inner \cup {"operator", "return"})
    BY <1>7, AtSets DEF Pcs
  <2>2. TypeOK'
    BY <1>1, <1>2, <1>4, <1>6, <1>7, <2>1, Typed, TypeNext
  <2>3. TopInv'
    BY <1>2, <1>3, <2>1, TopIdle
  <2> QED
    BY <1>1, <1>2, <2>2, <2>3 DEF PInv
<1>8. CASE Return(Null)
  <2>1. pc' = "return" /\ val' = Null /\ rejected' \in BOOLEAN
    BY <1>8 DEF Return
  <2>2. TypeOK'
    BY <1>1, <1>2, <1>4, <1>6, <2>1, Constants, Typed, TypeNext
  <2>3. TopInv'
    BY <2>1, TopNull
  <2> QED
    BY <1>1, <1>2, <2>2, <2>3 DEF PInv
<1> QED
  BY <1>5, <1>7, <1>8

\* The main loop.
LEMMA StepMainLoop == PInv /\ MainLoop => PInv'
<1> SUFFICES ASSUME PInv, MainLoop PROVE PInv'
  OBVIOUS
<1>1. TypeOK /\ WellFormed(stack) /\ TopInv /\ stack \in Seq(Frames)
  BY DEF PInv, TypeOK
<1>2. NoProto \in Prototypes
  BY DEF NoProto, Prototypes, Chars
<1> DEFINE f == Frame("LHS", 0, 0, 0)
           L == <<f>>
<1>3. L \in Seq(Frames) /\ WellFormed(L) /\ L # <<>> /\ L[Len(L)].at \in Callers
  <2>1. f \in Frames /\ FrameOK(f) /\ f.at = "LHS"
    BY PointFrame
  <2> HIDE DEF f
  <2>2. L \in Seq(Frames) /\ Len(L) = 1 /\ L # <<>> /\ L[1] = f
    BY <2>1
  <2> QED
    BY <2>1, <2>2 DEF WellFormed, Bottom, Callers
<1> HIDE DEF f
<1>4. <<>> \in Seq(Frames) /\ WellFormed(<<>>)
  <2>1. Len(<<>>) = 0
    OBVIOUS
  <2> QED
    BY <2>1 DEF WellFormed
<1>5. CASE \E i \in Items : \E p \in {"main loop", "prototype"} : Begin(i, p, <<>>) /\ getNextToken
  <2>1. /\ pc' \in {"main loop", "prototype"} /\ stack' = <<>> /\ item' \in Items /\ proto' = NoProto
        /\ start' = read /\ getNextToken /\ UNCHANGED <<BinopPrecedence, val>>
    BY <1>5 DEF Begin
  <2>2. rejected' \in BOOLEAN
    BY <1>5 DEF Begin
  <2>3. pc' \in Pcs \ (Inner \cup {"operator", "return"})
    BY <2>1, AtSets DEF Pcs
  <2>4. TypeOK'
    BY <1>1, <1>2, <1>4, <2>1, <2>2, <2>3, Typed, TypeNext
  <2>5. TopInv'
    BY <2>1, <2>3, TopIdle
  <2> QED
    BY <1>4, <2>1, <2>4, <2>5 DEF PInv
<1>6. CASE HandleTopLevelExpression
  <2>1. /\ pc' = "unary" /\ stack' = L /\ item' = "expression" /\ proto' = NoProto
        /\ start' = read /\ UNCHANGED <<input, BinopPrecedence, val>>
    BY <1>6 DEF HandleTopLevelExpression, Begin, f
  <2>2. rejected' \in BOOLEAN /\ item' \in Items
    BY <1>6 DEF HandleTopLevelExpression, Begin, Items
  <2>3. pc' \in Inner /\ pc' \in Pcs
    BY <2>1, AtSets, Constants
  <2>4. TypeOK'
    BY <1>1, <1>2, <1>3, <2>1, <2>2, <2>3, Typed, TypeNext
  <2>5. TopInv'
    BY <1>3, <2>1, <2>3, TopInner DEF Top
  <2> QED
    BY <1>3, <2>1, <2>4, <2>5 DEF PInv
<1>7. CASE PrototypeRead
  <2>1. pc = "prototype read" /\ UNCHANGED <<input, BinopPrecedence, item, proto, start>>
    BY <1>7 DEF PrototypeRead
  <2>2. CASE stack' = L /\ pc' = "unary" /\ UNCHANGED <<val, rejected>>
    <3>1. pc' \in Inner /\ pc' \in Pcs
      BY <2>2, AtSets, Constants
    <3>2. TypeOK'
      BY <1>1, <1>3, <2>1, <2>2, <3>1, Typed, TypeNext
    <3>3. TopInv'
      BY <1>3, <2>2, <3>1, TopInner DEF Top
    <3> QED
      BY <1>3, <2>2, <3>2, <3>3 DEF PInv
  <2>3. CASE item = "extern" /\ Return(Atom) /\ UNCHANGED stack
    <3>1. pc' = "return" /\ val' = Atom /\ stack' = stack
      BY <2>3 DEF Return
    <3>2. rejected' \in BOOLEAN
      BY <2>3 DEF Return
    <3>3. TypeOK'
      BY <1>1, <2>1, <3>1, <3>2, Constants, Typed, TypeNext
    <3>4. stack' = <<>>
      BY <1>1, <2>1, <3>1, AtSets DEF TopInv
    <3>5. TopInv'
      BY <2>1, <2>3, <3>1, <3>4, AtSets DEF TopInv, Returned
    <3> QED
      BY <1>1, <3>1, <3>3, <3>5 DEF PInv
  <2> QED
    BY <1>7, <2>2, <2>3 DEF PrototypeRead, f
<1>8. CASE Recover \/ Accept \/ EndOfInput
  <2>1. /\ pc' \in {"main loop", "ended"} /\ stack' = stack /\ item' = item /\ start' = start
        /\ getNextToken \/ UNCHANGED input
    BY <1>8 DEF Recover, Accept, EndOfInput, BackToMainLoop, input
  <2>2. val' \in 0..101 /\ proto' \in Prototypes /\ rejected' \in BOOLEAN
    <3>1. val' \in {val, Null} /\ proto' \in {proto, NoProto} /\ rejected' = rejected
      BY <1>8 DEF Recover, Accept, EndOfInput, BackToMainLoop
    <3> QED
      BY <1>1, <1>2, <3>1, Constants, Typed
  <2>3. BinopPrecedence' \in [Chars -> 0..100]
    <3>1. BinopPrecedence \in [Chars -> 0..100]
      BY <1>1, Typed
    <3>3. proto.prec \in 0..100 /\ 0 \in 0..100
      <4>1. proto \in Prototypes
        BY <1>1, Typed
      <4>2. proto.prec \in 1..100
        BY <4>1 DEF Prototypes
      <4> QED
        BY <4>2
    <3>2. \/ BinopPrecedence' = BinopPrecedence
          \/ \E q \in 0..100 : BinopPrecedence' = [BinopPrecedence EXCEPT ![proto.op] = q]
      <4>1. CASE Recover \/ EndOfInput
        BY <4>1 DEF Recover, EndOfInput
      <4>2. CASE Accept
        BY <4>2, <3>3, Zenon DEF Accept
      <4> QED
        BY <1>8, <4>1, <4>2
    <3> QED
      BY <3>1, <3>2
  <2>4. stack = <<>>
    BY <1>1, <1>8, AtSets DEF Recover, Accept, EndOfInput, Returned, TopInv
  <2>5. pc' \in Pcs \ (Inner \cup {"operator", "return"})
    BY <2>1, AtSets DEF Pcs
  <2>6. TypeOK'
    BY <1>1, <2>1, <2>2, <2>3, <2>5, Typed, TypeNext
  <2>7. TopInv'
    BY <2>1, <2>4, <2>5, TopIdle
  <2> QED
    BY <1>1, <2>1, <2>6, <2>7 DEF PInv
<1>9. IgnoreSemicolon \/ HandleDefinition \/ HandleExtern =>
        \E i \in Items : \E p \in {"main loop", "prototype"} : Begin(i, p, <<>>) /\ getNextToken
  <2>1. {"semicolon", "definition", "extern"} \subseteq Items
    BY DEF Items
  <2> QED
    BY <2>1 DEF IgnoreSemicolon, HandleDefinition, HandleExtern
<1> QED
  BY <1>5, <1>6, <1>7, <1>8, <1>9 DEF MainLoop

LEMMA Stutter == PInv /\ UNCHANGED vars => PInv'
<1> SUFFICES ASSUME PInv, UNCHANGED vars PROVE PInv'
  OBVIOUS
<1>1. TypeOK'
  BY Typed, TypeNext DEF PInv, vars
<1>2. TopInv'
  BY DEF PInv, vars, input, TopInv, Returned, Top, GetTokPrecedence, Precedence
<1> QED
  BY <1>1, <1>2 DEF PInv, vars

LEMMA StepPInv == PInv /\ [Next]_vars => PInv'
BY StepPrimary, StepOperators, StepReturn, StepPrototype, StepMainLoop, Stutter DEF Next, Ended

LEMMA AlwaysPInv == Spec => []PInv
<1>1. Init => PInv
  BY InitPInv
<1>2. PInv /\ [Next]_vars => PInv'
  BY StepPInv
<1> QED
  BY <1>1, <1>2, PTL DEF Spec

----------------------------------------------------------------------------
(* The theorems.                                                           *)

\* The parser's state is well-typed: precedences stay between 1 and 100, and
\* it never takes a frame from an empty stack.
THEOREM ParserTypeCorrect == Spec => []TypeOK
<1>1. PInv => TypeOK
  BY DEF PInv
<1> QED
  BY <1>1, AlwaysPInv, PTL

\* ParseBinOpRHS groups operators by precedence and to the left, for every
\* input and whatever operators the program has defined before.
THEOREM OperatorsAreGrouped == Spec => []GroupedByPrecedence
<1>1. PInv => GroupedByPrecedence
  <2> SUFFICES ASSUME PInv PROVE GroupedByPrecedence
    OBVIOUS
  <2>1. stack \in Seq(Frames) /\ WellFormed(stack) /\ TopInv
    BY DEF PInv, TypeOK
  <2>2. ASSUME NEW i \in 1..Len(stack), stack[i].at \in {"RHS", "pending RHS"}
        PROVE  stack[i].lhs >= stack[i].op
    <3>1. FrameOK(stack[i]) /\ stack[i] \in Frames
      BY <2>1 DEF WellFormed
    <3>2. stack[i].op <= stack[i].lhs
      BY <2>2, <3>1, Zenon DEF FrameOK
    <3>3. stack[i].op \in 0..101 /\ stack[i].lhs \in 0..101
      BY <3>1 DEF Frames
    <3> QED
      BY <3>2, <3>3
  <2>3. ASSUME Merging PROVE val > Top.op
    <3>1. pc = "return" /\ stack # <<>> /\ val # Null /\ Top.at \in {"RHS", "pending RHS"}
      BY <2>3 DEF Merging, Returning
    <3>2. CASE Top.at = "pending RHS"
      BY <2>1, <3>1, <3>2, Zenon DEF TopInv
    <3>3. CASE Top.at = "RHS"
      <4>1. val = Atom
        BY <2>1, <3>1, <3>3 DEF TopInv
      <4>2. FrameOK(Top)
        BY <3>1, TopFrame
      <4>3. Top.op \in 1..100
        BY <3>3, <4>2, Zenon DEF FrameOK
      <4> QED
        BY <4>1, <4>3, Numbers
    <3> QED
      BY <3>1, <3>2, <3>3
  <2> QED
    BY <2>2, <2>3 DEF GroupedByPrecedence
<1> QED
  BY <1>1, AlwaysPInv, PTL

\* An expression ends only where no operator follows that it could take.
THEOREM ExpressionsAreMaximal == Spec => []ItemsAreMaximal
<1>1. PInv => ItemsAreMaximal
  BY DEF PInv, TopInv, ItemsAreMaximal
<1> QED
  BY <1>1, AlwaysPInv, PTL

\* Once a parse function has returned nullptr, its callers do nothing but
\* return nullptr.
ErrorInv == rejected => pc \in {"return", "main loop", "ended"} /\ (pc = "return" => val = Null)

\* An item in which a parse function failed is not accepted.
THEOREM ErrorsRejectItems == Spec => []ErrorsReject
<1>1. Init => ErrorInv
  BY Zenon DEF Init, ErrorInv
<1>2. ErrorInv /\ [Next]_vars => ErrorInv'
  <2> SUFFICES ASSUME ErrorInv, [Next]_vars PROVE ErrorInv'
    OBVIOUS
  <2>1. ~rejected \/ pc \in {"return", "main loop", "ended"}
    BY DEF ErrorInv
  <2>2. CASE ParsePrimary
    <3>1. pc \notin {"return", "main loop", "ended"}
      BY <2>2, TakesAndCalls, AtSets DEF ParsePrimary, Take, TakeAndParse, GoOn, LogError, Complete
    <3>2. rejected' = rejected \/ Return(Null) \/ Return(Atom)
      BY <2>2 DEF ParsePrimary, Take, TakeAndParse, GoOn, LogError, Complete
    <3> QED
      BY <2>1, <3>1, <3>2, Numbers DEF ErrorInv, Return
  <2>3. CASE ParseUnary
    BY <2>1, <2>3 DEF ParseUnary, ErrorInv
  <2>4. CASE ParseBinOpRHS
    <3>1. CASE BinOpLoop
      BY <2>1, <3>1 DEF BinOpLoop, Return, ErrorInv
    <3>2. CASE ParsePending \/ Merge
      BY <3>2 DEF ParsePending, Merge, Merging, Returning, ErrorInv
    <3> QED
      BY <2>4, <3>1, <3>2 DEF ParseBinOpRHS
  <2>5. CASE ReturnToCaller
    BY <2>5 DEF ReturnToCaller, ReturnNull, ReturnToPrimary, ReturnToUnary, ReturnToExpression, Returning, ErrorInv
  <2>6. CASE ParsePrototype
    <3>1. pc \notin {"return", "main loop", "ended"}
      BY <2>6 DEF ParsePrototype, FunctionName, OperatorKind, OperatorLetter, ReadPrecedence, OpenParameters,
                  Parameter, AfterParameter, Prototype, WrongOperands, LogErrorP, InPrototype
    <3>2. rejected' = rejected \/ Return(Null)
      BY <2>6 DEF ParsePrototype, FunctionName, OperatorKind, OperatorLetter, ReadPrecedence, OpenParameters,
                  Parameter, AfterParameter, Prototype, WrongOperands, LogErrorP, Keep
    <3> QED
      BY <2>1, <3>1, <3>2 DEF ErrorInv, Return
  <2>7. CASE MainLoop
    <3>1. CASE IgnoreSemicolon \/ HandleDefinition \/ HandleExtern \/ HandleTopLevelExpression
      BY <3>1 DEF IgnoreSemicolon, HandleDefinition, HandleExtern, HandleTopLevelExpression, Begin, ErrorInv
    <3>2. CASE PrototypeRead
      BY <2>1, <3>2, Numbers DEF PrototypeRead, Return, ErrorInv
    <3>3. CASE Recover \/ Accept \/ EndOfInput
      BY <3>3 DEF Recover, Accept, EndOfInput, BackToMainLoop, ErrorInv
    <3> QED
      BY <2>7, <3>1, <3>2, <3>3 DEF MainLoop
  <2>8. CASE UNCHANGED vars
    BY <2>8 DEF vars, ErrorInv
  <2> QED
    BY <2>2, <2>3, <2>4, <2>5, <2>6, <2>7, <2>8 DEF Next, Ended
<1>3. ErrorInv => ErrorsReject
  BY DEF ErrorInv, ErrorsReject, Returned
<1> QED
  BY <1>1, <1>2, <1>3, PTL DEF Spec

LEMMA ReadRange ==
  ASSUME TypeOK
  PROVE  read \in Nat /\ start \in Nat /\ start <= read
<1>1. read \in Nat /\ start \in 0..read
  BY DEF TypeOK
<1> QED
  BY <1>1

LEMMA ReadLater == ASSUME TypeOK, read # start PROVE read > start
BY ReadRange

\* As long as an item has taken no token, its first token is not the end of
\* the input and the item is at its start or has failed there.
Fresh   == pc = "unary" \/ (pc = "return" /\ val = Null)
ReadInv == read = start => CurTok # "eof" /\ Fresh

LEMMA AlwaysReadInv == Spec => []ReadInv
<1>1. Init => ReadInv
  <2> SUFFICES ASSUME Init PROVE ReadInv
    OBVIOUS
  <2>1. read = 1 /\ start = 0
    BY Zenon DEF Init
  <2> QED
    BY <2>1 DEF ReadInv
<1>2. PInv /\ ReadInv /\ [Next]_vars => ReadInv'
  <2> SUFFICES ASSUME PInv, ReadInv, [Next]_vars PROVE ReadInv'
    OBVIOUS
  <2>1. TypeOK
    BY DEF PInv
  <2>2. read \in Nat /\ start \in Nat /\ start <= read
    BY <2>1, ReadRange
  <2>3. ASSUME getNextToken, start' = start PROVE ReadInv'
    <3>1. read' >= read /\ read' \in Nat /\ (CurTok # "eof" => read' = read + 1)
      BY <2>1, <2>3, NextToken
    <3>2. read = start => CurTok # "eof"
      BY DEF ReadInv
    <3>3. read' # start
      BY <2>2, <3>1, <3>2
    <3> QED
      BY <2>3, <3>3 DEF ReadInv
  <2>4. ASSUME getNextToken, start' = read, CurTok # "eof" PROVE ReadInv'
    <3>1. read' = read + 1
      BY <2>1, <2>4, NextToken
    <3>2. read' # read
      BY <2>2, <3>1
    <3> QED
      BY <2>4, <3>2 DEF ReadInv
  <2>5. ASSUME UNCHANGED <<input, start>>, Fresh => Fresh' PROVE ReadInv'
    BY <2>5 DEF ReadInv, input
  <2>6. pc \in Optional \cup {"complete", "operator", "prototype", "letter", "precedence", "open",
                              "parameter", "comma", "prototype read", "main loop", "ended"} => ~Fresh
    BY DEF Fresh, Optional
  <2>7. CASE ParsePrimary
    <3>1. CASE Take \/ TakeAndParse
      BY <2>3, <3>1 DEF Take, TakeAndParse
    <3>2. CASE GoOn \/ Complete
      BY <2>5, <2>6, <3>2 DEF GoOn, Complete
    <3>3. CASE LogError
      BY <2>5, <3>3 DEF LogError, Return, Fresh
    <3> QED
      BY <2>7, <3>1, <3>2, <3>3 DEF ParsePrimary
  <2>8. CASE ParseUnary
    BY <2>3, <2>8 DEF ParseUnary
  <2>9. CASE ParseBinOpRHS
    <3>1. CASE BinOpLoop
      <4>1. CASE getNextToken
        BY <2>3, <3>1, <4>1 DEF BinOpLoop
      <4>2. CASE UNCHANGED input
        BY <2>5, <2>6, <3>1, <4>2 DEF BinOpLoop
      <4> QED
        BY <3>1, <4>1, <4>2 DEF BinOpLoop
    <3>2. CASE ParsePending \/ Merge
      <4>1. pc = "return" /\ val # Null /\ UNCHANGED <<input, start>>
        BY <3>2 DEF ParsePending, Merge, Merging, Returning
      <4>2. ~Fresh
        BY <4>1 DEF Fresh
      <4> QED
        BY <2>5, <4>1, <4>2
    <3> QED
      BY <2>9, <3>1, <3>2 DEF ParseBinOpRHS
  <2>10. CASE ReturnToCaller
    <3>1. CASE ReturnNull
      BY <2>5, <3>1 DEF ReturnNull, Fresh
    <3>2. CASE ReturnToPrimary \/ ReturnToUnary \/ ReturnToExpression
      <4>1. pc = "return" /\ val # Null /\ UNCHANGED <<input, start>>
        BY <3>2 DEF ReturnToPrimary, ReturnToUnary, ReturnToExpression, Returning
      <4>2. ~Fresh
        BY <4>1 DEF Fresh
      <4> QED
        BY <2>5, <4>1, <4>2
    <3> QED
      BY <2>10, <3>1, <3>2 DEF ReturnToCaller
  <2>11. CASE ParsePrototype
    <3>1. start' = start /\ pc \in {"prototype", "letter", "precedence", "open", "parameter", "comma"}
      BY <2>11 DEF ParsePrototype, FunctionName, OperatorKind, OperatorLetter, ReadPrecedence,
                   OpenParameters, Parameter, AfterParameter, Prototype, WrongOperands, LogErrorP, InPrototype
    <3>2. getNextToken \/ UNCHANGED input
      BY <2>11 DEF ParsePrototype, FunctionName, OperatorKind, OperatorLetter, ReadPrecedence,
                   OpenParameters, Parameter, AfterParameter, Prototype, WrongOperands, LogErrorP
    <3> QED
      BY <2>3, <2>5, <2>6, <3>1, <3>2
  <2>12. CASE MainLoop
    <3>1. CASE IgnoreSemicolon \/ HandleDefinition \/ HandleExtern
      BY <2>4, <3>1 DEF IgnoreSemicolon, HandleDefinition, HandleExtern, Begin
    <3>2. CASE HandleTopLevelExpression
      BY <3>2 DEF HandleTopLevelExpression, Begin, ReadInv, Fresh, input
    <3>3. CASE Recover
      BY <2>3, <3>3 DEF Recover, BackToMainLoop
    <3>4. CASE PrototypeRead \/ EndOfInput
      BY <2>5, <2>6, <3>4 DEF PrototypeRead, EndOfInput
    <3>5. CASE Accept
      <4>1. pc = "return" /\ val # Null
        BY <3>5 DEF Accept, Returned
      <4>2. UNCHANGED <<input, start>>
        BY <3>5 DEF Accept, BackToMainLoop
      <4>3. ~Fresh
        BY <4>1 DEF Fresh
      <4> QED
        BY <2>5, <4>2, <4>3
    <3> QED
      BY <2>12, <3>1, <3>2, <3>3, <3>4, <3>5 DEF MainLoop
  <2>13. CASE UNCHANGED vars
    BY <2>5, <2>13 DEF vars, Fresh
  <2> QED
    BY <2>7, <2>8, <2>9, <2>10, <2>11, <2>12, <2>13 DEF Next, Ended
<1> QED
  BY <1>1, <1>2, AlwaysPInv, PTL DEF Spec

\* Every round of the main loop takes a token, so no input makes it spin.
THEOREM MainLoopAdvances == Spec => []ItemsAdvance
<1>1. PInv /\ ReadInv => ItemsAdvance
  BY ReadLater DEF PInv, ReadInv, Fresh, ItemsAdvance
<1> QED
  BY <1>1, AlwaysPInv, AlwaysReadInv, PTL

----------------------------------------------------------------------------
(* Parsing is finite.  Every point of a parse function, and every frame    *)
(* that waits, has a rank: the steps it may take, returning included,      *)
(* before a token has to be taken.                                         *)

Rank(p) ==
  IF p = "first argument" THEN 7
  ELSE IF p \in {"main loop", "prototype read"} THEN 5
  ELSE IF p = "RHS" THEN 4
  ELSE IF p \in {"callee", "initializer", "precedence", "comma"} THEN 3
  ELSE IF p \in {"operator", "operand", "return"} THEN 1
  ELSE IF p = "ended" THEN 0
  ELSE 2

\* The ranks of all frames, added up: the pairs of a frame and a number that
\* is at most its rank.
Ranks(s)  == {c \in (1..Len(s)) \X (1..7) : c[2] <= Rank(s[c[1]].at)}
Weight(s) == Cardinality(Ranks(s))

\* The tokens to come, the one being looked at included.
Remaining == IF CurTok = "eof" THEN 0 ELSE Len(Inputs[source]) + 1 - read

\* What an item that has taken a token keeps for the way back to the main loop.
Reserve == IF read > start /\ pc \notin {"main loop", "ended"} THEN 5 ELSE 0

\* What the functions on the stack have to do without taking a token.
Work == Weight(stack) + Rank(pc)

StepsLeft == 25 * Remaining + Work + Reserve

LEMMA RankRange ==
  /\ \A p : Rank(p) \in 0..7
  /\ \A p \in Ats : Rank(p) >= 1
  /\ Rank("LHS") = 2 /\ Rank("RHS") = 4 /\ Rank("pending RHS") = 2
  /\ Rank("operator") = 1 /\ Rank("operand") = 1 /\ Rank("return") = 1
  /\ Rank("unary") = 2 /\ Rank("complete") = 2 /\ Rank("next var") = 2 /\ Rank("next argument") = 2
  /\ Rank("callee") = 3 /\ Rank("initializer") = 3 /\ Rank("first argument") = 7
  /\ Rank("main loop") = 5 /\ Rank("prototype read") = 5 /\ Rank("ended") = 0
  /\ Rank("precedence") = 3 /\ Rank("comma") = 3
  /\ Rank("open") = 2 /\ Rank("parameter") = 2 /\ Rank("prototype") = 2 /\ Rank("letter") = 2
<1>1. \A p : p # "ended" => Rank(p) >= 1
  BY DEF Rank
<1>2. "ended" \notin Ats
  BY AtSets DEF Opn
<1>3. \A p : Rank(p) \in 0..7
  BY DEF Rank
<1>4. /\ Rank("LHS") = 2 /\ Rank("RHS") = 4 /\ Rank("pending RHS") = 2
      /\ Rank("operator") = 1 /\ Rank("operand") = 1 /\ Rank("return") = 1
      /\ Rank("unary") = 2 /\ Rank("complete") = 2 /\ Rank("next var") = 2 /\ Rank("next argument") = 2
  BY DEF Rank
<1>5. /\ Rank("callee") = 3 /\ Rank("initializer") = 3 /\ Rank("first argument") = 7
      /\ Rank("main loop") = 5 /\ Rank("prototype read") = 5 /\ Rank("ended") = 0
      /\ Rank("precedence") = 3 /\ Rank("comma") = 3
      /\ Rank("open") = 2 /\ Rank("parameter") = 2 /\ Rank("prototype") = 2 /\ Rank("letter") = 2
  BY DEF Rank
<1> QED
  BY <1>1, <1>2, <1>3, <1>4, <1>5

LEMMA WeightType ==
  ASSUME NEW s \in Seq(Frames)
  PROVE  IsFiniteSet(Ranks(s)) /\ Weight(s) \in Nat
<1> DEFINE All == (1..Len(s)) \X (1..7)
<1>1. IsFiniteSet(1..Len(s)) /\ IsFiniteSet(1..7)
  <2>1. 1 \in Int /\ 7 \in Int /\ Len(s) \in Int
    OBVIOUS
  <2> QED
    BY <2>1, FS_Interval
<1>2. IsFiniteSet(All)
  BY <1>1, FS_Product
<1>3. Ranks(s) \in SUBSET All
  BY DEF Ranks
<1> HIDE DEF All
<1>4. IsFiniteSet(Ranks(s))
  BY <1>2, <1>3, FS_Subset
<1> QED
  BY <1>4, FS_CardinalityType DEF Weight

LEMMA WeightEmpty == Weight(<<>>) = 0
<1>1. Ranks(<<>>) = {}
  BY DEF Ranks
<1> QED
  BY <1>1, FS_EmptySet DEF Weight

\* One more frame adds its rank.
LEMMA WeightLonger ==
  ASSUME NEW s \in Seq(Frames), NEW t \in Seq(Frames), Len(t) = Len(s) + 1,
         \A i \in 1..Len(s) : t[i] = s[i]
  PROVE  Weight(t) = Weight(s) + Rank(t[Len(t)].at)
<1> DEFINE n == Len(t)
           r == Rank(t[n].at)
           New == {n} \X (1..r)
<1>1. r \in 0..7 /\ n \in Nat /\ n = Len(s) + 1
  <2>1. r \in 0..7
    BY RankRange, Zenon
  <2> QED
    BY <2>1
<1>2. IsFiniteSet({n}) /\ Cardinality({n}) = 1
  BY FS_Singleton
<1>3. IsFiniteSet(1..r) /\ Cardinality(1..r) = r
  <2> HIDE DEF r
  <2>1. 1 \in Int /\ r \in Int
    BY <1>1
  <2>2. IsFiniteSet(1..r) /\ Cardinality(1..r) = IF 1 > r THEN 0 ELSE r - 1 + 1
    BY <2>1, FS_Interval
  <2> QED
    BY <1>1, <2>2
<1>4. IsFiniteSet(New) /\ Cardinality(New) = r
  <2> HIDE DEF n, r
  <2> DEFINE T == 1..r
  <2>1. IsFiniteSet(T) /\ Cardinality(T) = r
    BY <1>3
  <2> HIDE DEF T
  <2>2. IsFiniteSet({n} \X T) /\ Cardinality({n} \X T) = Cardinality({n}) * Cardinality(T)
    BY <1>2, <2>1, FS_Product, Zenon
  <2>3. Cardinality({n}) * Cardinality(T) = r
    BY <1>1, <1>2, <2>1
  <2> QED
    BY <2>2, <2>3, Zenon DEF T
<1>5. Ranks(t) = Ranks(s) \cup New
  <2>1. ASSUME NEW i \in 1..Len(t), NEW k \in 1..7
        PROVE  <<i, k>> \in Ranks(t) <=> <<i, k>> \in Ranks(s) \cup New
    <3>1. <<i, k>> \in Ranks(t) <=> k <= Rank(t[i].at)
      BY DEF Ranks
    <3>2. CASE i = n
      <4>1. <<i, k>> \notin Ranks(s)
        BY <1>1, <3>2 DEF Ranks
      <4>2. <<i, k>> \in New <=> k <= r
        BY <1>1, <3>2
      <4> QED
        BY <3>1, <3>2, <4>1, <4>2
    <3>3. CASE i # n
      <4>1. i \in 1..Len(s) /\ <<i, k>> \notin New
        BY <1>1, <3>3
      <4>2. <<i, k>> \in Ranks(s) <=> k <= Rank(s[i].at)
        BY <4>1 DEF Ranks
      <4>3. t[i] = s[i]
        BY <4>1
      <4> QED
        BY <3>1, <4>1, <4>2, <4>3
    <3> QED
      BY <3>2, <3>3
  <2>2. Ranks(t) \subseteq (1..Len(t)) \X (1..7)
    BY DEF Ranks
  <2>3. Ranks(s) \cup New \subseteq (1..Len(t)) \X (1..7)
    <3>1. New \subseteq (1..Len(t)) \X (1..7)
      BY <1>1
    <3>2. Ranks(s) \subseteq (1..Len(s)) \X (1..7)
      BY DEF Ranks
    <3>3. 1..Len(s) \subseteq 1..Len(t)
      BY <1>1
    <3> QED
      BY <3>1, <3>2, <3>3
  <2>4. \A c \in (1..Len(t)) \X (1..7) : \E i \in 1..Len(t), k \in 1..7 : c = <<i, k>>
    OBVIOUS
  <2>5. ASSUME NEW c \in (1..Len(t)) \X (1..7)
        PROVE  c \in Ranks(t) <=> c \in Ranks(s) \cup New
    <3>1. PICK i \in 1..Len(t), k \in 1..7 : c = <<i, k>>
      BY <2>4, Zenon
    <3>2. <<i, k>> \in Ranks(t) <=> <<i, k>> \in Ranks(s) \cup New
      BY <2>1, Zenon
    <3> QED
      BY <3>1, <3>2
  <2> QED
    BY <2>2, <2>3, <2>5, Zenon
<1>6. Ranks(s) \cap New = {}
  BY <1>1 DEF Ranks
<1>7. IsFiniteSet(Ranks(s)) /\ Cardinality(Ranks(s)) \in Nat
  BY WeightType DEF Weight
<1> HIDE DEF New, r
<1>8. Cardinality(Ranks(t)) = Cardinality(Ranks(s)) + Cardinality(New) - Cardinality({})
  BY <1>4, <1>5, <1>6, <1>7, FS_Union
<1>9. Cardinality({}) = 0
  BY FS_EmptySet
<1> QED
  BY <1>1, <1>4, <1>7, <1>8, <1>9 DEF Weight, r

LEMMA WeightPush ==
  ASSUME NEW s \in Seq(Frames), NEW f \in Frames
  PROVE  Weight(Append(s, f)) = Weight(s) + Rank(f.at)
<1>1. /\ Append(s, f) \in Seq(Frames) /\ Len(Append(s, f)) = Len(s) + 1
      /\ Append(s, f)[Len(s) + 1] = f /\ \A i \in 1..Len(s) : Append(s, f)[i] = s[i]
  BY Push
<1> QED
  BY <1>1, WeightLonger

LEMMA WeightPop ==
  ASSUME NEW s \in Seq(Frames), s # <<>>
  PROVE  Weight(s) = Weight(SubSeq(s, 1, Len(s) - 1)) + Rank(s[Len(s)].at)
<1> DEFINE t == SubSeq(s, 1, Len(s) - 1)
<1>1. /\ t \in Seq(Frames) /\ Len(t) = Len(s) - 1 /\ Len(s) \in Nat \ {0}
      /\ \A i \in 1..Len(s) - 1 : t[i] = s[i]
  BY Pop
<1> HIDE DEF t
<1>2. Len(s) = Len(t) + 1 /\ \A i \in 1..Len(t) : s[i] = t[i]
  BY <1>1
<1> QED
  BY <1>1, <1>2, WeightLonger DEF t

LEMMA WeightReplace ==
  ASSUME NEW s \in Seq(Frames), s # <<>>, NEW f \in Frames
  PROVE  Weight([s EXCEPT ![Len(s)] = f]) = Weight(SubSeq(s, 1, Len(s) - 1)) + Rank(f.at)
<1> DEFINE t == [s EXCEPT ![Len(s)] = f]
           u == SubSeq(s, 1, Len(s) - 1)
<1>1. /\ u \in Seq(Frames) /\ Len(u) = Len(s) - 1 /\ Len(s) \in Nat \ {0}
      /\ \A i \in 1..Len(s) - 1 : u[i] = s[i]
  BY Pop
<1>2. /\ t \in Seq(Frames) /\ Len(t) = Len(s) /\ t[Len(s)] = f
      /\ \A i \in 1..Len(s) : i # Len(s) => t[i] = s[i]
  BY Replace
<1> HIDE DEF t, u
<1>3. Len(t) = Len(u) + 1 /\ \A i \in 1..Len(u) : t[i] = u[i]
  BY <1>1, <1>2
<1> QED
  <2>1. Weight(t) = Weight(u) + Rank(t[Len(t)].at)
    BY <1>1, <1>2, <1>3, WeightLonger
  <2>2. t[Len(t)] = f
    BY <1>2
  <2> QED
    BY <2>1, <2>2, Zenon DEF t, u

\* A token that is looked at is one of the input.
InputInv == CurTok # "eof" => read <= Len(Inputs[source])

LEMMA InputLength == ASSUME TypeOK PROVE Len(Inputs[source]) \in Nat
<1> DEFINE S == Seq((SUBSET Tokens) \ {{}}) \ {<<>>}
<1>1. Inputs \in Seq(S) /\ source \in DOMAIN Inputs
  BY ParserBounds DEF TypeOK
<1>2. Inputs[source] \in S
  <2> HIDE DEF S
  <2> QED
    BY <1>1
<1> QED
  BY <1>2

LEMMA InputNext ==
  ASSUME TypeOK, InputInv, getNextToken
  PROVE  /\ InputInv' /\ Remaining \in Nat /\ Remaining' \in Nat
         /\ CurTok # "eof" => Remaining' < Remaining
<1> DEFINE n == Len(Inputs[source])
<1>1. n \in Nat /\ read \in Nat
  BY InputLength DEF TypeOK
<1>2. source' = source
  BY DEF getNextToken, input
<1> HIDE DEF n
<1>3. Remaining = (IF CurTok = "eof" THEN 0 ELSE n + 1 - read)
  BY DEF Remaining, n
<1>4. Remaining' = (IF CurTok' = "eof" THEN 0 ELSE n + 1 - read')
  BY <1>2 DEF Remaining, n
<1>5. CASE CurTok = "eof"
  <2>1. CurTok' = "eof"
    BY <1>5 DEF getNextToken, input
  <2>2. InputInv'
    BY <2>1 DEF InputInv
  <2> QED
    BY <1>3, <1>4, <1>5, <2>1, <2>2
<1>6. CASE CurTok # "eof"
  <2>1. read' = read + 1
    BY <1>6 DEF getNextToken
  <2>2. read < n \/ CurTok' = "eof"
    BY <1>6 DEF getNextToken, n
  <2>3. read <= n
    BY <1>6 DEF InputInv, n
  <2>4. Remaining = n + 1 - read /\ Remaining \in Nat
    BY <1>1, <1>3, <1>6, <2>3
  <2>5. InputInv'
    <3>1. CurTok' # "eof" => read' <= n
      BY <1>1, <2>1, <2>2
    <3> QED
      BY <1>2, <3>1, Zenon DEF InputInv, n
  <2>6. CASE CurTok' = "eof"
    <3>1. Remaining' = 0
      BY <1>4, <2>6
    <3> QED
      BY <1>1, <2>3, <2>4, <2>5, <3>1
  <2>7. CASE CurTok' # "eof"
    <3>1. Remaining' = n + 1 - (read + 1) /\ read < n
      BY <1>4, <2>1, <2>2, <2>7
    <3> QED
      BY <1>1, <2>4, <2>5, <3>1
  <2> QED
    BY <2>6, <2>7
<1> QED
  BY <1>5, <1>6

LEMMA RemainingType == ASSUME TypeOK, InputInv PROVE Remaining \in Nat
<1> DEFINE n == Len(Inputs[source])
<1>1. n \in Nat /\ read \in Nat
  BY InputLength DEF TypeOK
<1>2. Remaining = IF CurTok = "eof" THEN 0 ELSE n + 1 - read
  BY DEF Remaining
<1>3. CurTok # "eof" => read <= n
  BY DEF InputInv
<1> HIDE DEF n
<1> QED
  BY <1>1, <1>2, <1>3

LEMMA InputStays ==
  ASSUME TypeOK, InputInv, UNCHANGED input
  PROVE  InputInv' /\ Remaining \in Nat /\ Remaining' = Remaining
BY RemainingType DEF InputInv, Remaining, input

\* Every step takes a token or leaves the input alone.
LEMMA TakesOneToken == Next => getNextToken \/ UNCHANGED input
<1>1. ParsePrimary \/ ParseUnary \/ ReturnToCaller => getNextToken \/ UNCHANGED input
  BY DEF ParsePrimary, Take, TakeAndParse, GoOn, LogError, Complete, ParseUnary, ReturnToCaller,
         ReturnNull, ReturnToPrimary, ReturnToUnary, ReturnToExpression
<1>2. ParseBinOpRHS => getNextToken \/ UNCHANGED input
  BY DEF ParseBinOpRHS, BinOpLoop, ParsePending, Merge
<1>3. ParsePrototype => getNextToken \/ UNCHANGED input
  BY DEF ParsePrototype, FunctionName, OperatorKind, OperatorLetter, ReadPrecedence, OpenParameters,
         Parameter, AfterParameter, Prototype, WrongOperands, LogErrorP, input
<1>4. MainLoop \/ Ended => getNextToken \/ UNCHANGED input
  BY DEF MainLoop, IgnoreSemicolon, HandleDefinition, HandleExtern, HandleTopLevelExpression,
         PrototypeRead, Recover, Accept, EndOfInput, Ended, vars
<1> QED
  BY <1>1, <1>2, <1>3, <1>4 DEF Next

LEMMA AlwaysInputInv == Spec => []InputInv
<1>1. Init => InputInv
  <2> SUFFICES ASSUME Init PROVE InputInv
    OBVIOUS
  <2> DEFINE S == Seq((SUBSET Tokens) \ {{}}) \ {<<>>}
  <2>1. Inputs \in Seq(S) /\ source \in DOMAIN Inputs /\ read = 1
    BY ParserBounds, Zenon DEF Init
  <2>2. Inputs[source] \in S
    <3> HIDE DEF S
    <3> QED
      BY <2>1
  <2>3. Len(Inputs[source]) >= 1
    BY <2>2
  <2> QED
    BY <2>1, <2>3 DEF InputInv
<1>2. PInv /\ InputInv /\ [Next]_vars => InputInv'
  BY TakesOneToken, InputNext, InputStays DEF PInv, vars
<1> QED
  BY <1>1, <1>2, AlwaysPInv, PTL DEF Spec

\* The parts of StepsLeft.
LEMMA Parts ==
  ASSUME TypeOK
  PROVE  Weight(stack) \in Nat /\ Rank(pc) \in 0..7 /\ Work \in Nat /\ Reserve \in {0, 5}
<1>1. Weight(stack) \in Nat /\ Rank(pc) \in 0..7 /\ Reserve \in {0, 5}
  BY WeightType, RankRange, Zenon DEF TypeOK, Reserve
<1> QED
  BY <1>1 DEF Work

LEMMA PartsNext ==
  ASSUME TypeOK'
  PROVE  Weight(stack') \in Nat /\ Rank(pc') \in 0..7 /\ Work' \in Nat /\ Reserve' \in {0, 5}
<1>1. Weight(stack') \in Nat /\ Rank(pc') \in 0..7 /\ Reserve' \in {0, 5}
  <2>1. stack' \in Seq(Frames)
    BY DEF TypeOK
  <2> QED
    BY <2>1, WeightType, RankRange, Zenon DEF Reserve
<1> QED
  BY <1>1 DEF Work

LEMMA Sums ==
  ASSUME NEW r \in Nat, NEW q \in Nat, NEW w \in Nat, NEW v \in Nat, NEW e \in {0, 5}, NEW f \in {0, 5},
         \/ q < r /\ v <= w + 16
         \/ q = r /\ v < w /\ (e = 0 => f = 0)
  PROVE  25 * q + v + f < 25 * r + w + e
<1>1. e \in Nat /\ f \in Nat /\ (e = 0 \/ e = 5) /\ (f = 0 \/ f = 5)
  OBVIOUS
<1>2. CASE q < r /\ v <= w + 16
  BY <1>1, <1>2
<1>3. CASE q = r /\ v < w /\ (e = 0 => f = 0)
  BY <1>1, <1>3
<1> QED
  BY <1>2, <1>3

\* A token pays for all that a step may add.
LEMMA Taking ==
  ASSUME TypeOK, TypeOK', InputInv, getNextToken, CurTok # "eof", Weight(stack') <= Weight(stack) + 9
  PROVE  StepsLeft' < StepsLeft
<1>1. Remaining \in Nat /\ Remaining' \in Nat /\ Remaining' < Remaining
  BY InputNext
<1>2. Work \in Nat /\ Reserve \in {0, 5} /\ Work' \in Nat /\ Reserve' \in {0, 5}
  BY Parts, PartsNext
<1>3. Work' <= Work + 16
  BY Parts, PartsNext DEF Work
<1>4. StepsLeft = 25 * Remaining + Work + Reserve /\ StepsLeft' = 25 * Remaining' + Work' + Reserve'
  BY DEF StepsLeft
<1>5. 25 * Remaining' + Work' + Reserve' < 25 * Remaining + Work + Reserve
  BY <1>1, <1>2, <1>3, Sums
<1> QED
  BY <1>4, <1>5, Zenon

\* All other steps of an item leave less to do, in the function or in those
\* that wait.
LEMMA NotTaking ==
  ASSUME TypeOK, TypeOK', InputInv, UNCHANGED <<input, start>>, pc \notin {"main loop", "ended"},
         Work' < Work
  PROVE  StepsLeft' < StepsLeft
<1>1. Remaining \in Nat /\ Remaining' = Remaining
  BY InputStays
<1>2. Work \in Nat /\ Reserve \in {0, 5} /\ Work' \in Nat /\ Reserve' \in {0, 5}
  BY Parts, PartsNext
<1>3. Reserve = 0 => Reserve' = 0
  <2>1. read' = read /\ start' = start
    BY DEF input
  <2> QED
    BY <2>1 DEF Reserve
<1>4. StepsLeft = 25 * Remaining + Work + Reserve /\ StepsLeft' = 25 * Remaining' + Work' + Reserve'
  BY DEF StepsLeft
<1>5. 25 * Remaining' + Work' + Reserve' < 25 * Remaining + Work + Reserve
  BY <1>1, <1>2, <1>3, Sums
<1> QED
  BY <1>4, <1>5, Zenon

\* The weight of the stack after pushing, popping or replacing a frame.
LEMMA Weights ==
  ASSUME PInv, stack # <<>>
  PROVE  /\ Popped \in Seq(Frames) /\ Weight(Popped) \in Nat /\ Top.at \in Ats
         /\ Weight(stack) = Weight(Popped) + Rank(Top.at)
         /\ \A f \in Frames : /\ Replaced(f) \in Seq(Frames)
                              /\ Weight(Replaced(f)) = Weight(Popped) + Rank(f.at)
<1>1. stack \in Seq(Frames)
  BY DEF PInv, TypeOK
<1>2. Popped \in Seq(Frames) /\ Top.at \in Ats
  BY TopFrame
<1>3. Weight(Popped) \in Nat
  BY <1>2, WeightType
<1>4. Weight(stack) = Weight(Popped) + Rank(Top.at)
  BY <1>1, WeightPop DEF Popped, Top
<1>5. \A f \in Frames : Replaced(f) \in Seq(Frames) /\ Weight(Replaced(f)) = Weight(Popped) + Rank(f.at)
  BY <1>1, WeightReplace, Replace DEF Popped, Replaced
<1> QED
  BY <1>2, <1>3, <1>4, <1>5

LEMMA ExpressionWeight ==
  ASSUME TypeOK, NEW q \in Inner, ParseExpression(q)
  PROVE  Weight(stack') = Weight(stack) + Rank(q) + 2
<1> DEFINE f == Frame(q, 0, 0, 0)
           g == Frame("LHS", 0, 0, 0)
           t == Append(stack, f)
<1>1. f \in Frames /\ f.at = q /\ g \in Frames /\ g.at = "LHS"
  BY PointFrame
<1>2. stack' = Append(t, g) /\ stack \in Seq(Frames)
  BY DEF ParseExpression, TypeOK
<1> HIDE DEF f, g
<1>3. t \in Seq(Frames) /\ Weight(t) = Weight(stack) + Rank(q)
  BY <1>1, <1>2, WeightPush
<1> HIDE DEF t
<1>4. Weight(stack') = Weight(t) + Rank("LHS")
  BY <1>1, <1>2, <1>3, WeightPush
<1> QED
  BY <1>3, <1>4, RankRange

LEMMA EofIsNoOperator == CurTok \in Chars => CurTok # "eof"
BY ParserBounds DEF Chars

\* What waits and what runs, in numbers.
LEMMA LessWork ==
  ASSUME NEW w \in Nat, NEW r \in 0..7, NEW v \in Nat, NEW q \in 0..7,
         Weight(stack) = w, Rank(pc) = r, Weight(stack') = v, Rank(pc') = q, v + q < w + r
  PROVE  Work' < Work
<1>1. Work = w + r
  BY Zenon DEF Work
<1>2. Work' = v + q
  BY Zenon DEF Work
<1> QED
  BY <1>1, <1>2

\* For the frames of ParseBinOpRHS.
LEMMA Names ==
  {"operator", "RHS", "pending RHS"} \subseteq Ats /\ 0 \in 0..101
<1>1. {"operator", "RHS", "pending RHS"} \subseteq Ats
  BY AtSets DEF Opn
<1>2. 0 \in 0..101
  OBVIOUS
<1> QED
  BY <1>1, <1>2

\* Primary expressions take a token, call, go on or return.
LEMMA PrimaryAdvances ==
  ASSUME PInv, TypeOK', InputInv, ParsePrimary
  PROVE  StepsLeft' < StepsLeft
<1>1. TypeOK /\ Weight(stack) \in Nat
  BY Parts DEF PInv
<1>2. pc \notin {"main loop", "ended"}
  BY TakesAndCalls, AtSets DEF ParsePrimary, Take, TakeAndParse, GoOn, LogError, Complete
<1>3. \A r \in Takes \cup Calls : r[2] # "eof"
  <2>1. \A p, t, q : <<p, t, q>> \in Takes \cup Calls => t # "eof"
    BY DEF Takes, Calls
  <2>2. \A r \in Takes \cup Calls : \E p, t, q : r = <<p, t, q>>
    BY DEF Takes, Calls
  <2> QED
    BY <2>1, <2>2
<1>4. CASE Take
  <2>1. CurTok # "eof" /\ getNextToken /\ stack' = stack
    BY <1>3, <1>4 DEF Take
  <2>2. Weight(stack') <= Weight(stack) + 9
    BY <1>1, <2>1
  <2> QED
    BY <1>1, <2>1, <2>2, Taking
<1>5. CASE TakeAndParse
  <2>1. PICK q \in Inner : ParseExpression(q) /\ CurTok # "eof" /\ getNextToken
    BY <1>3, <1>5, TakesAndCalls DEF TakeAndParse
  <2>2. Weight(stack') = Weight(stack) + Rank(q) + 2 /\ Rank(q) \in 0..7
    BY <1>1, <2>1, ExpressionWeight, RankRange
  <2>3. Weight(stack') <= Weight(stack) + 9
    BY <1>1, <2>2
  <2> QED
    BY <1>1, <2>1, <2>3, Taking
<1>6. CASE GoOn
  <2>1. UNCHANGED <<input, start>>
    BY <1>6 DEF GoOn
  <2>2. CASE pc = "first argument" /\ ParseExpression("next argument")
    <3>1. pc' = "unary" /\ "next argument" \in Inner
      BY <2>2 DEF ParseExpression, Inner
    <3>2. Weight(stack') = Weight(stack) + 2 + 2
      BY <1>1, <2>2, <3>1, ExpressionWeight, RankRange
    <3>4. Rank(pc) = 7 /\ Rank(pc') = 2
      BY <2>2, <3>1, RankRange, Zenon
    <3>5. Weight(stack) + 2 + 2 \in Nat /\ Weight(stack) + 2 + 2 + 2 < Weight(stack) + 7
      BY <1>1
    <3>3. Work' < Work
      BY <1>1, <3>2, <3>4, <3>5, LessWork
    <3> QED
      BY <1>1, <1>2, <2>1, <3>3, NotTaking
  <2>3. CASE /\ (pc = "callee" /\ pc' = "complete") \/ (pc = "initializer" /\ pc' = "next var")
             /\ stack' = stack
    <3>2. Rank(pc) = 3 /\ Rank(pc') = 2 /\ Weight(stack') = Weight(stack)
      BY <2>3, RankRange, Zenon
    <3>3. Weight(stack) + 2 < Weight(stack) + 3
      BY <1>1
    <3>1. Work' < Work
      BY <1>1, <3>2, <3>3, LessWork
    <3> QED
      BY <1>1, <1>2, <2>1, <3>1, NotTaking
  <2> QED
    BY <1>6, <2>2, <2>3 DEF GoOn
<1>7. CASE LogError \/ Complete
  <2>1. /\ pc \in Inner /\ pc # "return" /\ pc' = "return" /\ stack' = stack
        /\ UNCHANGED <<input, start>>
    BY <1>7, TakesAndCalls, AtSets DEF LogError, Complete, Return
  <2>2. Rank(pc) >= 2
    <3>1. pc \notin {"operator", "operand", "return"} /\ pc # "ended"
      BY <2>1, AtSets DEF Opn, Callers
    <3>2. \A p : p \notin {"operator", "operand", "return"} /\ p # "ended" => Rank(p) >= 2
      BY DEF Rank
    <3> QED
      BY <3>1, <3>2, Zenon
  <2>3. Rank(pc') = 1 /\ Rank(pc) \in 0..7
    BY <2>1, RankRange, Zenon
  <2>5. Weight(stack') = Weight(stack) /\ Weight(stack) + 1 < Weight(stack) + Rank(pc)
    BY <1>1, <2>1, <2>2, <2>3
  <2>4. Work' < Work
    BY <1>1, <2>3, <2>5, LessWork
  <2> QED
    BY <1>1, <1>2, <2>1, <2>4, NotTaking
<1> QED
  BY <1>4, <1>5, <1>6, <1>7 DEF ParsePrimary

\* An operator takes a token; an operand that is complete is merged once, or
\* left to the operator behind it once.
LEMMA OperatorsAdvance ==
  ASSUME PInv, TypeOK', InputInv, ParseUnary \/ ParseBinOpRHS
  PROVE  StepsLeft' < StepsLeft
<1>1. TypeOK /\ Weight(stack) \in Nat /\ stack \in Seq(Frames) /\ TopInv
  BY Parts DEF PInv, TypeOK
<1>2. pc \notin {"main loop", "ended"}
  BY DEF ParseUnary, ParseBinOpRHS, BinOpLoop, ParsePending, Merge, Merging, Returning
<1>3. CASE ParseUnary
  <2> DEFINE f == Frame("operand", 0, 0, 0)
  <2>1. getNextToken /\ stack' = Append(stack, f) /\ IsUnary(CurTok)
    BY <1>3 DEF ParseUnary
  <2>2. f \in Frames /\ f.at = "operand"
    BY PointFrame
  <2> HIDE DEF f
  <2>3. Weight(stack') = Weight(stack) + 1
    BY <1>1, <2>1, <2>2, WeightPush, RankRange
  <2>4. Weight(stack') <= Weight(stack) + 9
    BY <1>1, <2>3
  <2>5. CurTok # "eof"
    BY <2>1, EofIsNoOperator DEF IsUnary
  <2> QED
    BY <1>1, <2>1, <2>4, <2>5, Taking
<1>4. ASSUME stack # <<>>
      PROVE  /\ Popped \in Seq(Frames) /\ Weight(Popped) \in Nat
             /\ Weight(stack) = Weight(Popped) + Rank(Top.at)
             /\ \A f \in Frames : Replaced(f) \in Seq(Frames) /\ Weight(Replaced(f)) = Weight(Popped) + Rank(f.at)
  BY <1>4, Weights
<1>5. CASE BinOpLoop
  <2>1. pc = "operator" /\ stack # <<>> /\ Top.at = "operator" /\ start' = start
    BY <1>1, <1>5 DEF BinOpLoop, TopInv
  <2>2. Weight(stack) = Weight(Popped) + 1 /\ Weight(Popped) \in Nat
    BY <1>4, <2>1, RankRange
  <2>3. CASE Return(Top.lhs) /\ stack' = Popped /\ UNCHANGED input
    <3>1. pc' = "return"
      BY <2>3 DEF Return
    <3>3. Weight(stack') = Weight(Popped) /\ Rank(pc) = 1 /\ Rank(pc') = 1
      BY <2>1, <2>3, <3>1, RankRange, Zenon
    <3>4. Weight(Popped) + 1 \in Nat /\ Weight(Popped) + 1 < Weight(Popped) + 1 + 1
      BY <2>2
    <3>2. Work' < Work
      BY <2>2, <3>3, <3>4, LessWork
    <3> QED
      BY <1>1, <1>2, <2>1, <2>3, <3>2, NotTaking
  <2>4. CASE /\ GetTokPrecedence >= Top.min
             /\ stack' = Replaced(Frame("RHS", Top.min, Top.lhs, GetTokPrecedence))
             /\ getNextToken
    <3> DEFINE f == Frame("RHS", Top.min, Top.lhs, GetTokPrecedence)
    <3>1. Top.min \in 0..101 /\ Top.lhs \in 0..101 /\ GetTokPrecedence \in {-1} \cup 1..100
      BY <1>1, <2>1, TopFrame, PrecedenceRange
    <3>2. GetTokPrecedence \in 1..100 /\ GetTokPrecedence # -1
      BY <2>4, <3>1
    <3>3. CurTok # "eof"
      BY <3>2, EofIsNoOperator DEF GetTokPrecedence
    <3>4. f \in Frames /\ f.at = "RHS"
      <4>1. GetTokPrecedence \in 0..101
        BY <3>2
      <4>2. "RHS" \in Ats /\ 0 \in 0..101
        BY Names
      <4> QED
        BY <3>1, <4>1, <4>2, Zenon DEF Frame, Frames
    <3>5. stack' = Replaced(f) /\ getNextToken
      BY <2>4
    <3> HIDE DEF f
    <3>6. Weight(stack') = Weight(Popped) + 4
      BY <1>4, <2>1, <3>4, <3>5, RankRange
    <3>7. Weight(stack') <= Weight(stack) + 9
      BY <2>2, <3>6
    <3> QED
      BY <1>1, <3>3, <3>5, <3>7, Taking
  <2> QED
    BY <1>5, <2>3, <2>4 DEF BinOpLoop
<1>6. CASE ParsePending
  <2> DEFINE f == [Top EXCEPT !.at = "pending RHS"]
             g == Frame("operator", Top.op + 1, val, 0)
  <2>1. /\ pc = "return" /\ stack # <<>> /\ Top.at = "RHS" /\ val # Null
        /\ stack' = Append(Replaced(f), g) /\ pc' = "operator" /\ UNCHANGED <<input, start>>
    BY <1>6 DEF ParsePending, Returning
  <2>2. Top \in Frames /\ FrameOK(Top) /\ val \in 0..101
    BY <1>1, <2>1, TopFrame DEF TypeOK
  <2>3. Top.op + 1 \in 0..101
    <3>1. Top.op \in 1..100
      BY <2>1, <2>2, Zenon DEF FrameOK
    <3> QED
      BY <3>1
  <2>4. f \in Frames /\ f.at = "pending RHS"
    <3>1. "pending RHS" \in Ats
      BY AtSets DEF Opn
    <3> QED
      BY <2>2, <3>1 DEF Frames
  <2>5. g \in Frames /\ g.at = "operator"
    <3>1. "operator" \in Ats /\ 0 \in 0..101
      BY Names
    <3> QED
      BY <2>2, <2>3, <3>1, Zenon DEF Frame, Frames
  <2> HIDE DEF f, g
  <2> DEFINE t == Replaced(f)
  <2>6. t \in Seq(Frames) /\ Weight(t) = Weight(Popped) + 2 /\ Weight(Popped) \in Nat
        /\ Weight(stack) = Weight(Popped) + 4
    BY <1>4, <2>1, <2>4, RankRange
  <2>7. stack' = Append(t, g)
    BY <2>1
  <2> HIDE DEF t
  <2>8. Weight(stack') = Weight(t) + 1
    BY <2>5, <2>6, <2>7, WeightPush, RankRange
  <2>10. Rank(pc) = 1 /\ Rank(pc') = 1
    BY <2>1, RankRange, Zenon
  <2>11. /\ Weight(stack') = Weight(Popped) + 2 + 1 /\ Weight(Popped) + 2 + 1 \in Nat
         /\ Weight(Popped) + 4 \in Nat /\ Weight(Popped) + 2 + 1 + 1 < Weight(Popped) + 4 + 1
    BY <2>6, <2>8
  <2>9. Work' < Work
    BY <2>6, <2>10, <2>11, LessWork
  <2> QED
    BY <1>1, <1>2, <2>1, <2>9, NotTaking
<1>7. CASE Merge
  <2> DEFINE f == Frame("operator", Top.min, Top.op, 0)
  <2>1. /\ pc = "return" /\ stack # <<>> /\ Top.at \in {"RHS", "pending RHS"}
        /\ stack' = Replaced(f) /\ pc' = "operator" /\ UNCHANGED <<input, start>>
    BY <1>7 DEF Merge, Merging, Returning
  <2>2. f \in Frames /\ f.at = "operator"
    <3>1. "operator" \in Ats /\ 0 \in 0..101 /\ Top.min \in 0..101 /\ Top.op \in 0..101
      BY <2>1, TopFrame, Names
    <3> QED
      BY <3>1, Zenon DEF Frame, Frames
  <2> HIDE DEF f
  <2>3. Weight(stack') = Weight(Popped) + 1 /\ Weight(Popped) \in Nat
        /\ Weight(stack) = Weight(Popped) + Rank(Top.at) /\ Rank(Top.at) \in {2, 4}
    BY <1>4, <2>1, <2>2, RankRange
  <2>5. Rank(pc) = 1 /\ Rank(pc') = 1
    BY <2>1, RankRange, Zenon
  <2>6. /\ Weight(Popped) + 1 \in Nat /\ Weight(stack) \in Nat
        /\ Weight(Popped) + 1 + 1 < Weight(stack) + 1
    BY <1>1, <2>3
  <2>4. Work' < Work
    BY <2>3, <2>5, <2>6, LessWork
  <2> QED
    BY <1>1, <1>2, <2>1, <2>4, NotTaking
<1> QED
  BY <1>3, <1>5, <1>6, <1>7 DEF ParseBinOpRHS

\* A return hands on what the caller still has to do, and no more.
LEMMA ReturnsAdvance ==
  ASSUME PInv, TypeOK', InputInv, ReturnToCaller
  PROVE  StepsLeft' < StepsLeft
<1>1. TypeOK /\ stack # <<>> /\ pc = "return" /\ UNCHANGED <<input, start>>
  BY DEF PInv, ReturnToCaller, ReturnNull, ReturnToPrimary, ReturnToUnary, ReturnToExpression, Returning
<1>2. /\ Weight(Popped) \in Nat /\ Weight(stack) = Weight(Popped) + Rank(Top.at) /\ Top.at \in Ats
      /\ \A f \in Frames : Weight(Replaced(f)) = Weight(Popped) + Rank(f.at)
  BY <1>1, Weights
<1>3. Rank(Top.at) \in 1..7 /\ Rank(pc) = 1
  <2>1. Rank(Top.at) \in 0..7 /\ Rank(Top.at) >= 1 /\ Rank(pc) = 1
    BY <1>1, <1>2, RankRange, Zenon
  <2> QED
    BY <2>1
<1>4. CASE ReturnNull \/ ReturnToUnary
  <2>1. stack' = Popped /\ pc' = pc
    BY <1>4 DEF ReturnNull, ReturnToUnary
  <2>2. Work' < Work
    BY <1>2, <1>3, <2>1 DEF Work
  <2> QED
    BY <1>1, <2>2, NotTaking
<1>5. CASE ReturnToPrimary
  <2>1. stack' = Popped /\ pc' = Top.at
    BY <1>5 DEF ReturnToPrimary
  <2>2. Work' < Work
    BY <1>2, <1>3, <2>1 DEF Work
  <2> QED
    BY <1>1, <2>2, NotTaking
<1>6. CASE ReturnToExpression
  <2> DEFINE f == Frame("operator", 0, val, 0)
  <2>1. Top.at = "LHS" /\ stack' = Replaced(f) /\ pc' = "operator"
    BY <1>6 DEF ReturnToExpression, Returning
  <2>2. f \in Frames /\ f.at = "operator"
    <3>1. "operator" \in Ats /\ 0 \in 0..101 /\ val \in 0..101
      BY <1>1, Names, Zenon DEF TypeOK
    <3> QED
      BY <3>1, Zenon DEF Frame, Frames
  <2> HIDE DEF f
  <2>3. Weight(stack') = Weight(Popped) + 1
    BY <1>2, <2>1, <2>2, RankRange
  <2>5. Rank(Top.at) = 2 /\ Rank(pc') = 1
    BY <2>1, RankRange, Zenon
  <2>6. /\ Weight(stack) = Weight(Popped) + 2 /\ Weight(Popped) + 1 \in Nat /\ Weight(Popped) + 2 \in Nat
        /\ Weight(Popped) + 1 + 1 < Weight(Popped) + 2 + 1
    BY <1>2, <2>5
  <2>4. Work' < Work
    BY <1>3, <2>3, <2>5, <2>6, LessWork
  <2> QED
    BY <1>1, <2>4, NotTaking
<1> QED
  BY <1>4, <1>5, <1>6 DEF ReturnToCaller

LEMMA LowerRank == \A w \in Nat : \A q, r \in 0..7 : q < r => w + q < w + r
OBVIOUS

\* A step within the same function.
LEMMA SameStack ==
  ASSUME TypeOK, TypeOK', InputInv, UNCHANGED <<input, start, stack>>,
         pc \notin {"main loop", "ended"}, Rank(pc') < Rank(pc)
  PROVE  StepsLeft' < StepsLeft
<1>1. Weight(stack) \in Nat /\ Rank(pc) \in 0..7 /\ Rank(pc') \in 0..7
  BY Parts, PartsNext
<1>2. Weight(stack') = Weight(stack) /\ Weight(stack) + Rank(pc') < Weight(stack) + Rank(pc)
  BY <1>1, LowerRank, Zenon
<1>3. Work' < Work
  BY <1>1, <1>2, LessWork
<1> QED
  BY <1>3, NotTaking

\* Prototypes.  The token after a parameter is taken whatever it is, unless
\* it is the end of the input, which the next step finds.
LEMMA PrototypeAdvances ==
  ASSUME PInv, TypeOK', InputInv, ParsePrototype
  PROVE  StepsLeft' < StepsLeft
<1>1. TypeOK /\ Weight(stack) \in Nat
  BY Parts DEF PInv
<1> DEFINE P == {"prototype", "letter", "precedence", "open", "parameter", "comma"}
<1>2. pc \in P /\ UNCHANGED <<stack, start>>
  BY DEF ParsePrototype, FunctionName, OperatorKind, OperatorLetter, ReadPrecedence, OpenParameters,
         Parameter, AfterParameter, Prototype, WrongOperands, LogErrorP, InPrototype
<1>3. pc \notin {"main loop", "ended"}
  BY <1>2
<1>4. CASE getNextToken /\ CurTok # "eof"
  <2>1. Weight(stack') <= Weight(stack) + 9
    BY <1>1, <1>2
  <2> QED
    BY <1>1, <1>4, <2>1, Taking
<1>5. CASE UNCHANGED input /\ \/ pc = "precedence" /\ pc' = "open"
                              \/ pc = "comma" /\ pc' = "parameter"
                              \/ pc' = "return"
  <2>1. pc = "precedence" /\ pc' = "open" => Rank(pc) = 3 /\ Rank(pc') = 2
    BY RankRange, Zenon
  <2>2. pc = "comma" /\ pc' = "parameter" => Rank(pc) = 3 /\ Rank(pc') = 2
    BY RankRange, Zenon
  <2>3. pc' = "return" => Rank(pc) >= 2 /\ Rank(pc') = 1
    <3>1. \A p \in P : Rank(p) \in {2, 3}
      BY RankRange
    <3>2. Rank(pc) \in {2, 3}
      BY <1>2, <3>1, Zenon
    <3>3. Rank("return") = 1
      BY RankRange, Zenon
    <3> QED
      BY <3>2, <3>3
  <2>4. Rank(pc) \in 0..7 /\ Rank(pc') \in 0..7
    BY RankRange
  <2>5. Rank(pc') < Rank(pc)
    BY <1>5, <2>1, <2>2, <2>3, <2>4
  <2> QED
    BY <1>1, <1>2, <1>3, <1>5, <2>5, SameStack
<1>6. CASE FunctionName \/ OperatorKind \/ OpenParameters \/ Parameter \/ Prototype \/ WrongOperands
  <2>1. getNextToken /\ CurTok # "eof"
    BY <1>6 DEF FunctionName, OperatorKind, OpenParameters, Parameter, Prototype, WrongOperands
  <2> QED
    BY <1>4, <2>1
<1>7. CASE OperatorLetter
  BY <1>4, <1>7, EofIsNoOperator DEF OperatorLetter
<1>8. CASE ReadPrecedence
  <2>1. CASE CurTok = "number" /\ getNextToken
    BY <1>4, <2>1
  <2>2. CASE UNCHANGED input
    BY <1>5, <1>8, <2>2 DEF ReadPrecedence, InPrototype
  <2> QED
    BY <1>8, <2>1, <2>2 DEF ReadPrecedence, input
<1>9. CASE AfterParameter
  <2>1. getNextToken /\ pc = "comma" /\ pc' = "parameter"
    BY <1>9 DEF AfterParameter, InPrototype
  <2>2. CurTok = "eof" => UNCHANGED input
    BY <2>1 DEF getNextToken
  <2> QED
    BY <1>4, <1>5, <2>1, <2>2
<1>10. CASE LogErrorP
  BY <1>5, <1>10 DEF LogErrorP, Return, input
<1> QED
  BY <1>6, <1>7, <1>8, <1>9, <1>10 DEF ParsePrototype

\* The main loop.  An item that takes no token at all fails at a token that
\* Recover takes, so the reserve is there whenever a round ends.
LEMMA RoundsAdvance ==
  ASSUME PInv, PInv', InputInv, ReadInv, MainLoop
  PROVE  StepsLeft' < StepsLeft
<1>1. TypeOK /\ TypeOK' /\ Weight(stack) \in Nat /\ TopInv
  BY Parts DEF PInv
<1>2. Remaining \in Nat /\ (UNCHANGED input => Remaining' = Remaining)
  <2>1. Remaining \in Nat
    BY <1>1, RemainingType
  <2>2. UNCHANGED input => Remaining' = Remaining
    BY <1>1, InputStays
  <2> QED
    BY <2>1, <2>2
<1> DEFINE f == Frame("LHS", 0, 0, 0)
<1>3. Weight(<<f>>) = 2
  <2>1. f \in Frames /\ f.at = "LHS"
    BY PointFrame
  <2> HIDE DEF f
  <2>2. <<>> \in Seq(Frames) /\ Append(<<>>, f) = <<f>>
    BY <2>1
  <2>3. Weight(<<f>>) = Weight(<<>>) + Rank(f.at)
    BY <2>1, <2>2, WeightPush
  <2>4. Rank(f.at) = 2 /\ Weight(<<>>) = 0
    BY <2>1, WeightEmpty, RankRange, Zenon
  <2> QED
    BY <2>3, <2>4
<1>4. CASE IgnoreSemicolon \/ HandleDefinition \/ HandleExtern
  <2>1. getNextToken /\ CurTok # "eof" /\ stack' = <<>>
    BY <1>4 DEF IgnoreSemicolon, HandleDefinition, HandleExtern, Begin
  <2>2. Weight(stack') = 0
    BY <2>1, WeightEmpty
  <2>3. Weight(stack') <= Weight(stack) + 9
    BY <1>1, <2>2
  <2> QED
    BY <1>1, <2>1, <2>3, Taking
<1>5. CASE HandleTopLevelExpression
  <2>1. pc = "main loop" /\ pc' = "unary" /\ stack' = <<f>> /\ start' = read /\ read' = read /\ UNCHANGED input
    BY <1>5 DEF HandleTopLevelExpression, Begin, input
  <2>2. stack = <<>>
    BY <1>1, <2>1, AtSets DEF TopInv
  <2>3. Weight(stack) = 0 /\ Rank(pc) = 5 /\ Weight(stack') = 2 /\ Rank(pc') = 2
    BY <1>3, <2>1, <2>2, WeightEmpty, RankRange, Zenon
  <2>4. Work = 5 /\ Work' = 4
    BY <2>3 DEF Work
  <2>5. Reserve = 0
    BY <2>1 DEF Reserve
  <2>6. Reserve' = 0
    <3>1. read \in Nat
      BY <1>1, ReadRange
    <3>2. ~(read > read)
      BY <3>1
    <3> QED
      BY <2>1, <3>2, Zenon DEF Reserve
  <2>7. StepsLeft = 25 * Remaining + 5 + 0 /\ StepsLeft' = 25 * Remaining + 4 + 0
    BY <1>2, <2>1, <2>4, <2>5, <2>6, Zenon DEF StepsLeft
  <2> QED
    BY <1>2, <2>7
<1>6. CASE PrototypeRead
  <2>1. pc = "prototype read" /\ UNCHANGED <<input, start>>
    BY <1>6 DEF PrototypeRead
  <2>2. stack = <<>>
    BY <1>1, <2>1, AtSets DEF TopInv
  <2>3. \/ stack' = <<f>> /\ pc' = "unary"
        \/ stack' = stack /\ pc' = "return"
    BY <1>6 DEF PrototypeRead, Return
  <2>4. Weight(stack) = 0 /\ Rank(pc) = 5
    BY <2>1, <2>2, WeightEmpty, RankRange, Zenon
  <2>5. CASE stack' = <<f>> /\ pc' = "unary"
    <3>1. Weight(stack') = 2 /\ Rank(pc') = 2
      BY <1>3, <2>5, RankRange, Zenon
    <3>2. Work' < Work
      BY <2>4, <3>1, LessWork
    <3> QED
      BY <1>1, <2>1, <3>2, NotTaking
  <2>6. CASE stack' = stack /\ pc' = "return"
    <3>1. Weight(stack') = 0 /\ Rank(pc') = 1
      BY <2>4, <2>6, RankRange, Zenon
    <3>2. Work' < Work
      BY <2>4, <3>1, LessWork
    <3> QED
      BY <1>1, <2>1, <3>2, NotTaking
  <2> QED
    BY <2>3, <2>5, <2>6
<1>7. ASSUME pc = "return", pc' \in {"main loop", "ended"}, stack' = stack, stack = <<>>,
             UNCHANGED input, read # start
      PROVE  StepsLeft' < StepsLeft
  <2>1. Weight(stack) = 0 /\ Weight(stack') = 0 /\ Rank(pc) = 1
    BY <1>7, WeightEmpty, RankRange, Zenon
  <2>2. Rank(pc') \in {0, 5}
    BY <1>7, RankRange, Zenon
  <2>3. Work = 1 /\ Work' \in {0, 5}
    BY <2>1, <2>2 DEF Work
  <2>4. Reserve = 5
    <3>1. read > start
      BY <1>1, <1>7, ReadLater, Zenon
    <3> QED
      BY <1>7, <3>1 DEF Reserve
  <2>5. Reserve' = 0
    BY <1>7, Zenon DEF Reserve
  <2>6. StepsLeft = 25 * Remaining + 1 + 5
    BY <2>3, <2>4, Zenon DEF StepsLeft
  <2>7. StepsLeft' = 25 * Remaining + 0 + 0 \/ StepsLeft' = 25 * Remaining + 5 + 0
    BY <1>2, <1>7, <2>3, <2>5, Zenon DEF StepsLeft
  <2> QED
    BY <1>2, <2>6, <2>7
<1>8. CASE Recover
  <2>1. /\ pc = "return" /\ stack = <<>> /\ pc' = "main loop" /\ stack' = stack /\ getNextToken
    BY <1>8 DEF Recover, Returned, BackToMainLoop
  <2>2. CASE CurTok # "eof"
    <3>1. Weight(stack') <= Weight(stack) + 9
      <4>1. \A w \in Nat : w <= w + 9
        OBVIOUS
      <4> QED
        BY <1>1, <2>1, <4>1, Zenon
    <3> QED
      BY <1>1, <2>1, <2>2, <3>1, Taking
  <2>3. CASE CurTok = "eof"
    <3>1. UNCHANGED input /\ read # start
      BY <2>1, <2>3 DEF getNextToken, ReadInv
    <3> QED
      BY <1>7, <2>1, <3>1
  <2> QED
    BY <2>2, <2>3
<1>9. CASE Accept
  <2>1. /\ pc = "return" /\ stack = <<>> /\ val # Null /\ pc' \in {"main loop", "ended"}
        /\ stack' = stack /\ UNCHANGED input
    BY <1>9 DEF Accept, Returned, BackToMainLoop
  <2>2. read # start
    BY <2>1 DEF ReadInv, Fresh
  <2> QED
    BY <1>7, <2>1, <2>2
<1>10. CASE EndOfInput
  <2>1. pc = "main loop" /\ pc' = "ended" /\ stack' = stack /\ UNCHANGED input
    BY <1>10 DEF EndOfInput
  <2>2. stack = <<>>
    BY <1>1, <2>1, AtSets DEF TopInv
  <2>3. Weight(stack) = 0 /\ Weight(stack') = 0 /\ Rank(pc) = 5 /\ Rank(pc') = 0
    BY <2>1, <2>2, WeightEmpty, RankRange, Zenon
  <2>4. Work = 5 /\ Work' = 0
    BY <2>3 DEF Work
  <2>5. Reserve = 0 /\ Reserve' = 0
    BY <2>1, Zenon DEF Reserve
  <2>6. StepsLeft = 25 * Remaining + 5 + 0 /\ StepsLeft' = 25 * Remaining + 0 + 0
    BY <1>2, <2>1, <2>4, <2>5, Zenon DEF StepsLeft
  <2> QED
    BY <1>2, <2>6
<1> QED
  BY <1>4, <1>5, <1>6, <1>8, <1>9, <1>10 DEF MainLoop

\* Every step that changes anything decreases the number of steps left.
ParserAdvances == [][StepsLeft' < StepsLeft]_vars

\* For every input, every operator that it defines and whatever follows an
\* error: the parser is done with the input after at most twenty-five steps
\* for each token, and a few more.  No recursion of the parse functions, no
\* operator loop and no round of the main loop goes on without taking a token.
\* With the fairness of Next this is why Terminates holds.
THEOREM ParsingIsFinite == Spec => [](StepsLeft \in Nat) /\ ParserAdvances
<1>1. PInv /\ InputInv => StepsLeft \in Nat
  <2> SUFFICES ASSUME PInv, InputInv PROVE StepsLeft \in Nat
    OBVIOUS
  <2>1. Work \in Nat /\ Reserve \in {0, 5}
    BY Parts DEF PInv
  <2>2. Remaining \in Nat
    BY RemainingType DEF PInv
  <2> QED
    BY <2>1, <2>2 DEF StepsLeft
<1>2. PInv /\ PInv' /\ InputInv /\ ReadInv /\ [Next]_vars => [StepsLeft' < StepsLeft]_vars
  <2> SUFFICES ASSUME PInv, PInv', InputInv, ReadInv, Next, ~UNCHANGED vars
               PROVE  StepsLeft' < StepsLeft
    OBVIOUS
  <2>1. TypeOK'
    BY DEF PInv
  <2> QED
    BY <2>1, PrimaryAdvances, OperatorsAdvance, ReturnsAdvance, PrototypeAdvances, RoundsAdvance
       DEF Next, Ended
<1> QED
  BY <1>1, <1>2, AlwaysPInv, AlwaysInputInv, AlwaysReadInv, PTL DEF Spec, ParserAdvances
=============================================================================

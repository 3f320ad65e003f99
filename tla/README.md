# TLA+ models of the Kaleidoscope compiler

The repository is a Kaleidoscope compiler built on LLVM: `src/main2.cpp` (lexer,
parser, code generator, driver) and `src/KaleidoscopeJIT.h` (a thin layer over
ORC). This directory holds TLA+ models of it, the TLC configurations that check
them on small instances, and proofs for every value of the constants.

## Inventory

The program is sequential: no threads, no callbacks, no persistence. What is
hard about it is shared mutable state under recursion, partial undo after
errors, and tables that must agree over a long session.

| part (source) | state | operations | what makes it correct |
|---|---|---|---|
| Lexer and input (`main2.cpp` 66-241) | `LastChar`, `LexLoc`, `in` | `getSingleChar`, `advance`, `gettok` | each character belongs to one token; end of file is sticky; bytes and token codes do not collide |
| AST (247-461) | immutable nodes | constructors, `dump` | - |
| Parser (470-885) | `CurTok`, `BinopPrecedence` | one function per nonterminal | precedence and associativity; every call consumes a token or fails; error recovery gets on |
| Code generation (891-1405) | `Builder`, the function's blocks, `NamedValues`, `TheModule`, `FunctionProtos` | `codegen()` of each node, `getFunction` | well-formed control flow graph and PHI nodes, values dominate uses, lexical scoping, errors reach the top |
| Debug information (133-140, 902-935) | `DBuilder`, `KSDbgInfo` | `emitLocation`, `getDoubleTy` | metadata of the open module, one lexical block per function |
| Driver (1410-1539, 1565-1698) | `jit`, the open module, all tables | `HandleDefinition`, `HandleExtern`, `HandleTopLevelExpression`, `MainLoop`, `main` | tables agree across modules and failures; expressions are evaluated |
| `KaleidoscopeJIT.h` | the main JITDylib | `addModule`, `lookup` | one definition per symbol |
| tinylang's lexer (`tinylang/Lexer.cpp`, `Token.h`, `Diagnostic.h`) | `CurPtr`, the client's token, `NumErrors` | `Lexer::next` and what it calls, `report` | tokens adjoin, the buffer is not left, what a comment swallows is reported; unfinished, not part of the build |
| tinylang's scopes and semantic analysis | `Symbols`, parent | `insert`, `lookup` | a skeleton without a caller |
| `testllvm.cpp` | - | - | straight-line demo |

How they interact: the driver calls the parser, the parser calls `getNextToken`,
that calls `gettok`, which reads the file ahead by one character;
a finished AST is generated recursively; `FunctionAST::codegen` writes
`FunctionProtos`, `TheModule` and `BinopPrecedence`, and the last of these
changes how the parser reads the *next* item. With `-jit` every accepted
definition takes the module away and a new one is opened, so later code
finds earlier functions through `FunctionProtos` only.

## Modules

### LexicalGrammar, TokenStream, Lexer - from characters to tokens

`LexicalGrammar` has the definitions that do not change: character classes, token
codes, what `char` does to a byte, where a comment ends, and what the longest
token at a position is. `TokenStream` is the abstract specification: one step per
call, which returns the longest token that begins at the first character that is
neither blank nor in a comment.

`Lexer` has one action for every piece of `gettok` between two calls of `advance`.

| model | code |
|---|---|
| `opened`, `file`, `stdin` | whether opening the file was no failure, and what the two inputs hold |
| `in`, `fileRead`, `stdinRead` | the state of the `ifstream`: `getSingleChar` reads the file until a read has met its end, and standard input from then on |
| `LastChar`, `LexLoc`, `CurLoc`, `IdentifierStr` | the variables of those names; `LastChar` is static and outlives a call |
| `pc`, `tok` | the loop that `gettok` is in, and what it has returned |
| `start`, `at` | history: the first character of the token, and the one behind the last token, as counts of characters read |

`isspace` and `isalpha` of a negative number other than `EOF` are undefined; the
model has them false, as the C library's tables do in the "C" locale. Words are
keywords by the constant `Keyword`. A program that is given no file
name has a stream that was never opened, which tests true until its first read fails:
in the model, an empty file. `ImplementsTokenStream` maps `at` and `tok` to those of
the abstract specification.

### TinyLexer - tinylang's lexer

One action for each way through a loop of `next`, `identifier`, `number`, `string`
and `comment`, and `Call`, a client that asks until it is told `eof`. Pointers are
positions in the buffer; the NUL that ends it is at `Len(buffer) + 1`. Characters
are classes. The code does not compile as it stands (`addkeyword`, `#include
"TokenKinds.h"` for `.def`); it is modelled as written, with the keywords that it means
to add. What the model shows of it:
`comment` counts `Level` up at `*)`, too, so no comment ends before the buffer does;
`number` reads to the end of the buffer, so that no number can be hexadecimal, and its
test for hex digits is inverted (124), so that `1A` is a decimal without an error
and `1` with a blank behind it is reported to contain a hex digit; `:`
and `:=` are formed as `less` and `lessequal`; `default:` sets the kind and does
not advance; a string that reaches the end of the buffer is not reported and
leaves `CurPtr` behind the NUL (`Outside`: what is read there is unknown).

### Codegen - code generation of one function after another

The C++ call stack is explicit: a frame in `stack` is one `codegen()`
activation that waits for a child, holding the locals that live across the
call. An action is the stretch of code between two such calls.

| model | code |
|---|---|
| `ctl`, `ret`, `stack` | the recursion of `codegen()` and its return value |
| `insertBlock`, `nblocks`, `placed`, `terminated`, `edges`, `phis` | `Builder->GetInsertBlock()` and the blocks of the function; blocks are numbered in the order of `BasicBlock::Create`, and "else"/"ifcont" are in `placed` once `TheFunction->insert` was called |
| `uses` | `<<def, use>>` for every value used in another block than its own; a `Value*` is represented by its block, constants by 0, `nullptr` by `Fail` |
| `NamedValues`, `nallocas`, `params` | the symbol table; an alloca is its creation number, 0 is `nullptr` or no entry, `Stale` one of an earlier function |
| `TheModule`, `FunctionProtos` | functions the open module declares; known prototypes (fixed while bodies are generated: only items change them, see Session) |
| `IfEnter` ... `IfMerge`, `ForEnter` ... `ForExit`, `VarEnter`/`VarBind`/`VarExit`, `CallEnter` ..., `BinaryEnter` ..., `AssignEnter` ..., `UnaryEnter` ... | the pieces of the `codegen()` of each node |
| `Propagate` | `if (!V) return nullptr;` in every caller but the left operand of a binary operator, whose right sibling is generated all the same (`BinaryLHS`) |
| `FunctionEnter`, `FunctionAccept`, `FunctionErase` | `FunctionAST::codegen` around the body |

There is no AST: when a child is due, the next action chooses its kind. A
behaviour therefore generates any sequence of functions. An erased or absent
entry and a null entry of `NamedValues` are the same, as the code cannot tell
them apart. The left side of `=` is cast without a check; for anything but a
variable (`NotVar`) the model allows what the cast may lead to: a store to some
variable, an error, or a crash. The operators with a case of their own are one
(`Arith`), since their graph effects are the same.

### Session - the driver and the tables

`FunctionProtos`, `TheModule`, `bodies`, `BinopPrecedence` and `dylib` are the
tables that outlive an item. They are maps from names to arities; parameter
names are abstracted into "the body names an unknown variable", which is always
possible. A body is what it asks of the tables, one use after the other;
operators that it uses are the ones installed when it was *parsed* (`fn.ops`).
`HandleExtern` is one action; a definition or expression is `BeginFunction`,
uses, and one of `RejectFunction`, `AcceptDefinition`, `DuplicateDefinition`,
`AcceptExpression`. `phase` records the ways the process ends: "done", "exited"
(`ExitOnErr` or `return 1`), "aborted" (an assertion; the Debug preset has them
on), "crashed" (a null dereference). Syntax errors and stray `;` change none of
this state and are left to the parser's model; so is `=`, whose redefinition is
not in `BinaryOps`. LLVM and ORC appear by what the code sees of them:
`Function::Create` renames on a clash, `addModule` refuses a second definition.

### SymbolTable - what a session promises

The abstract specification: names become known and stay so; a name gets at most
one definition, which is final. `Session!ImplementsSymbolTable` maps `known` to
the domain of `FunctionProtos` and `defined` to `dylib`.

### Parser - from tokens to items

`CurTok` and `getNextToken` are the code's. The input is a sequence of *sets* of
tokens, of which any member may come; a token is a character, a keyword, a class
of tokens (identifier, number), the end of file, or "other", a byte that is none.

| model | code |
|---|---|
| `pc`, `stack` | the point at which the innermost parse function is, and the functions that wait for it; for `ParseBinOpRHS` with `ExprPrec`, `LHS` and `TokPrec` |
| `val` | the expression being returned: the precedence of its topmost operator, `Atom` if no operator could split it, `Null` for `nullptr` |
| `Takes`, `Calls` | the primary expressions as two tables: at this point take this token and go on there, without or with a call of `ParseExpression` in between; any other token is a `LogError` |
| `BinOpLoop`, `ParsePending`, `Merge` | the loop of `ParseBinOpRHS`: look for an operator, let the next operator have the operand first, build the `BinaryExprAST` |
| `ReturnNull`, `ReturnTo...` | a call returns to the function that waits for it |
| `FunctionName` ... `LogErrorP` | `ParsePrototype`, one action per token |
| `HandleDefinition` ... `Recover`, `Accept` | `MainLoop` and the parsing half of the three handlers |
| `start`, `rejected` | history: where the item began, and whether some function of it returned `nullptr` |

The parser and Session meet in `BinopPrecedence`. In Session an accepted item
may install an operator, take it out again or end the process; `Accept` allows
each of these, so what holds here holds for the parser in any session.

### Proof modules

`LexerProofs`, `TinyLexerProofs`, `CodegenProofs`, `CodegenBlockProofs`,
`CodegenScopeProofs`, `CodegenDominanceProofs`, `SessionProofs` and `ParserProofs`,
see below. `MCLexer`,
`MCTinyLexer`, `MCCodegen`, `MCSession` and `MCParser` are the instances for TLC.

### How the models fit together

Each model takes what the one before it may deliver. `Lexer` shows that a token is
there whenever one is asked for (`GettokReturns`) and that the end of the input is
final (`EofIsFinal`); the Parser relies on both, and its token "other" is what
`Lexer` returns for bytes above 127. Parser and Session meet in `BinopPrecedence`,
see above. Session abstracts a body to its uses of the tables; Codegen generates
bodies with tables that stay as they are, which is right because only items
change them.

## Runs

| run | shows | bounds |
|---|---|---|
| `lexer` | one character of lookahead loses and repeats nothing: the tokens are those of the lexical grammar; their locations; the end is final; standard input is left alone; every call returns | texts of four characters over nine, of three with the bytes 0x80, 0xFE and 0xFF, of six over words, `#` and a line end; standard input with texts of three |
| `lexer_bytes` | finding: a byte above 127 comes back as no token, as a keyword's token or as the end | |
| `tiny_lexer` | tokens adjoin; only an unclosed string is read past the buffer; what a comment swallows is reported; no loop of a call runs for ever | buffers of three characters over sixteen; six over comment delimiters; five over quotes, over numbers and over two-character tokens |
| `codegen_blocks` | types, one open block, PHI nodes match predecessors, accepted functions are complete, values dominate their uses, an error is never accepted | three compound nodes of if, for, unary, binary and call per body; one variable; calls of 0-2 arguments |
| `codegen_scopes` | `NamedValues` is lexical scoping; nothing of an earlier function is ever visible | three nodes of for, var, assignment and binary; two names, two variables per var, one parameter |
| `codegen_duplicate_vars` | finding: `var x, x` breaks scoping | |
| `session` | tables consistent; symbol table implemented | three items, two uses per body, two function names, one unary and three binary operators, arities 0-2, both modes |
| `session_failed_operator` | finding: a failed redefinition disables a defined operator | |
| `session_expression` | finding: with `-jit` the first expression ends the process | |
| `session_arity` | finding: calls and definitions can disagree in arity | |
| `parser` | operators are grouped by precedence and to the left, also those the input defines; expressions are maximal; an error at any depth rejects its item; every round of the main loop takes a token, and the parser gets through the input | every input of six tokens; eight over operators and parentheses; eight over calls; ten over if, for and var; the definition of a binary operator with a body and six more tokens; precedences below 1, of 30 and above 100 |
| `parser_parameters` | finding: after a parameter any token is taken for the comma, so `def f(x y)` has one parameter | |

Why the bounds suffice: the interesting cases of the graph are a construct in
each position of another (condition, branch, start, step, end, operand,
argument), and a third node inside or after that; scoping needs an outer, an
inner and a shadowing binding; a session needs a declaration, a redefinition
and a use. A lexer with one character of lookahead needs two tokens of any kinds
behind each other, with a blank, a comment or the end between them, and one more
character; nested delimiters need six. Grouping needs three operators,
lower and higher ones in each order, with and without parentheses; errors need a
construct in a construct and a token to recover at; an operator that the input
installs must be used by a later item. Inputs that are shorter are included,
as the end of file may come at any place. Several functions follow one another in each behaviour of Codegen
without a bound, as the state between two functions is finite.
`DuplicateVars = FALSE` keeps `codegen_scopes` to var/in expressions of distinct
names; the case it leaves out is the run `codegen_duplicate_vars`.

Deadlock is excused in `tiny_lexer` only, where the client stops at `eof`; the states
in which the compiler's process has ended have a stuttering action (`Gone`,
`Stopped`). Three properties assume fairness. `GettokReturns`: weak fairness of
`Scan`, the steps of a call that was made (a read from a file or from a standard input that
goes on returns), and none of `gettok`, as nothing forces the parser to ask. `StopsAdvancing`:
weak fairness of `Next`, a client that reads on; nothing else runs. It is about the
loops of a call; a client that asks again for an unknown character counts as stopped. `Terminates` of the parser: weak fairness of `Next`, as the program is
sequential, no other process can hold it up, and `gettok` returns a token (or
the end of file, again and again) whenever it is asked. Which action is taken
is not constrained. That the input is finite is part of the bound.

## Proofs

All are for every value of the constants (names, prototypes, kinds, inputs and
bounds); they use the named assumptions `KeywordAssumption`, `SetupsAssumption`,
`BuffersAssumption`, `ArityAssumption`, `BoundsAssumption`, `NamesAssumption`,
`SessionBounds` and `ParserBounds` only.

- `LexerProofs`: `LInv` says, for each place in `gettok`, what the characters read
  since the token began are: those of an identifier, of a number, of a comment,
  and that everything between two tokens was skipped rightly. With it a call of
  `gettok` that returns is a step of the lexical grammar, and all others stutter
  (`TokenStreamImplemented`). `StdinIsUntouched` and `EndIsFinal` rest on
  `Reading` (all characters come from one source, `LastChar` is the last one read, and
  the stream tests true as long as the file has more) and on `AtEnd` (after `tok_eof`
  the character read ahead stays `EOF`).
- `LexerProofs!TokensAreLocated`: `LocInv` says that `LexLoc` is the location of
  the character read ahead, counted over the text read so far, and `CurLoc` that of
  the token's first character; so `advance` counts each line end once. One character
  more is one line more or none (`FS_AddElement`), which takes no induction.
- `LexerProofs!CallsAreFinite`: `StepsLeft`, two for each character to come and what
  leaves the loop the call is in, decreases with every step of a call. The call of
  `gettok` by itself behind a comment is one of those steps.
- `TinyLexerProofs`: `TInv` says of each loop of `next` what it has run over; that a
  loop's pointer stays within the buffer and its NUL, and only a string's end moves
  `CurPtr` one further, is what makes `OnlyStringsOverrun` inductive. `SkippedTextIsReported`
  needs that a call that is still running at the end has skipped white space only, or
  has reported the comment that took it there. What a number swallows is not part of
  it, as the code reports the wrong ones (see below).
- `TinyLexerProofs!ClientsGetOn`: how far `next` has looked, with four steps for each
  character and a phase within them, gives a variant of a client that reads on.
  Only a client that asks again for an unknown character stays where it is.
- `CodegenProofs!TypeCorrect`: `TypeOK` is inductive. One step per action; the
  lemmas say how `Push`, `ReplaceTop` and `Below` keep the activations typed.
- `CodegenProofs!FailuresPropagate`: `FailureNeverAccepted` is not inductive, as
  it speaks of the end of a function. `FailureInv` adds where the evidence is in
  between: in the value being returned or in a left operand that a waiting
  binary operator remembers, and nowhere else.
- `CodegenBlockProofs!BuilderBlockIsOpen`, `PhiNodesAreComplete`: `BlockInv` adds
  the blocks that wait on the stack. They are new, belong to one activation
  each, and only their own if jumps to them; `FrameGrows` and `GraphGrows` carry
  this over any growth of the graph by other blocks.
- `CodegenBlockProofs!AcceptedFunctionsComplete`: `AccountInv` says that a block
  is placed or waited for while no error is under way, so at the end nothing is
  missing.
- `CodegenDominanceProofs!ValuesDominateUses`: that `d` dominates `b` is shown by a
  `Cut`: a set of blocks that holds the entry (unless `d` is it), that edges leave to
  `d` only, and that does not hold `b`. `ReachableWithin` relates the recursive
  function that `DefsDominateUses` evaluates to cuts; the induction it needs comes
  from the well-foundedness of `<` on the naturals. `DomFrom`, `DomInto`, `DomBack`
  and `DomNew` say what more edges do to dominance: out of the open block, into
  blocks that are new, back to the head of a loop. `DomInv` then says that
  the values an activation holds dominate the builder's block, wherever generating a
  child has moved it, and that those of the activations around an if
  dominate the blocks that the if has still to place (`Holds`, `Guarded`, `Branches`).
- `CodegenDominanceProofs!ValuesComputedBeforeUse`: the same over paths. On every path
  from the entry to a use, of any length, lies the block that computes the value.
- `CodegenScopeProofs!TableIsOfThisFunction`, `NamesAreLexical`: what a name will mean
  after a for or a var/in is in the old binding that the activation keeps.
  `AllocaInv` says that those are allocas of this function, too. `NestingInv` says
  that each is what the name means by the bindings *around* it (`Means`, over
  the places `<<activation, number>>` that bind the name); the lemmas `Bind` and
  `Unbind` carry this over one new binding and over the restoring of all
  bindings of an activation. The latter needs distinct names, so the theorem assumes
  `~DuplicateVars`, and `codegen_duplicate_vars` shows that it has to.
- `SessionProofs`: the four invariants are proved together (`SInv`), as each
  step needs the others; `SymbolTableImplemented` follows step by step.
- `ParserProofs!ParserTypeCorrect`, `OperatorsAreGrouped`, `ExpressionsAreMaximal`:
  whether operators are grouped right depends on what each waiting call may still
  return. `PInv` says it frame by frame: `Over` which function may have called
  which, and with which `ExprPrec`; `FrameOK` how an activation's operands and
  operator compare; `TopInv` what the value and the next token are where the
  topmost frame goes on. The lemmas `PushWellFormed`, `PopWellFormed` and
  `ReplaceWellFormed` carry it over the three ways the stack changes. Precedences
  are arbitrary numbers of 1 to 100, so user-defined operators are covered.
- `ParserProofs!ErrorsRejectItems`: `ErrorInv` says that after the first `nullptr`
  the functions on the stack do nothing but return it.
- `ParserProofs!MainLoopAdvances`: `ReadInv` says that an item that has taken no
  token yet is at its start or has failed there, in front of something that is
  not the end of the input, so that `Recover` takes it.
- `ParserProofs!ParsingIsFinite`: every point of a parse function and every frame has a
  `Rank`, the steps it may take without taking a token. `Weight` adds up the ranks of
  the stack as the size of a set of pairs, so that pushing, popping and replacing a
  frame change it by that frame's rank, without an induction. A token pays for all
  that a step may push. Every other step lowers `Weight(stack) + Rank(pc)`, also
  `ParsePending`, which pushes a frame; the way back to the main loop is paid for by
  `Reserve`, which is there because an item that ends has taken a token or `Recover`
  takes one (`ReadInv`). So the whole parser takes at most 25 steps for each token and
  5 more, however deep expressions nest and whatever fails.

All invariants and all action properties that the passing runs check are proved. Only
model-checked are the three liveness properties `GettokReturns`, `StopsAdvancing` and
`Terminates`, and of course the violations. Liveness needs `ENABLED`, which is beyond
the provers; what is proved is what it rests on, a number that decreases with every
step (`CallsAreFinite`, `ClientsGetOn`, `ParsingIsFinite`). That there is a next step
is the deadlock check of the runs.

## Known, without a run of its own

Four disagreements between the code and its texts are part of the models, but
any one test shows them, so no run is spent on them: a target of `=` that is
no variable is used as one (1016, `AssignWild`); `1 > 2` fails the assertion that binary
operators are found (1059, `BinaryUnresolved` and `UseOperator`), as `>` is installed without a case;
without `-jit` the first definition dereferences a null `DBuilder` (1123, `BeginFunction`);
tinylang's `number` sets `IsHex` for what is *no* hex digit (`Lexer.cpp` 124,
`MoreOfNumber`), so the error "decimal number contains hex digit" (`Diagnostic.def` 10)
is missing for `1A`, which becomes a decimal number, and is given for `1` with a
blank behind it. No property and no theorem claims anything about which
numbers are reported.

## Not modelled

- LLVM's own behaviour: instruction selection, folding, passes, code emission.
- Debug locations and types. That metadata made by the first `DIBuilder` ends up in
  later modules of other contexts is not modelled; the models assume that it does not
  stop the program. The lexical block stack is popped on both ways out. Nodes of
  for, var and unary expressions get the location of the token behind them.
- Values of numbers: `strtod` reads a prefix of "1.2.3"; the parser sees a number.
- AST classes: immutable data and printing.
- tinylang: `Scope` and `Sema`. Nothing creates a `Scope`, `Sema` is declared only, and
  `Scope::lookup` has no return for a name that is not found. A NUL inside a buffer,
  and the wrap of `Level` after 2^32 delimiters.
- Registration of targets, `testllvm.cpp` (straight-line use of LLVM) and the scripts.

## Plan

Everything planned is done: the lexer and its input, tinylang's lexer, the parser,
code generation, the session, proofs of all safety properties, and a variant for each
liveness property. What would be next if the code grew: a `Scope` with a caller,
and the module that debug information belongs to, once some text of the repository
says which it should be.

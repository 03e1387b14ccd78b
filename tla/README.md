# TLA+ models of go-fAST

go-fAST parses ECMAScript into a syntax tree, resolves its identifiers to
scopes, lets clients rewrite the tree through visitors, and prints it again.
This directory holds TLA+ modules for the parts of it whose correctness depends
on state that survives from one call to the next, TLC configurations that check
them on small instances, and TLAPS proofs of the results that matter most.

    tlc -config ScopeTable.cfg MCScopeTable      # model-check a run
    tlapm ResolverProofs.tla                     # check the proofs of a module

`PROJECT.json` lists the runs, the lines each definition stands for, the
mutants (for every property a plausible bug that violates it), the hazards and
the findings.

## 1. Inventory

The program has no goroutines, no I/O and persists nothing. What is hard in it
is state shared by recursive calls: a call changes it, calls others that change
it too, and relies on finding it as it was. Unless stated otherwise, sources
are relative to `src/`.

| Part | Source | State | Operations | Correct when |
|---|---|---|---|---|
| Scope table | `resolver/resolver.go`, `scope.go` | `current`, `nextCtxt`, `scopePool`, `symbols`, `trail` | `pushScope`, `popScope`, `declare`, `lookup` | a lookup returns the innermost visible declaration; recycled scopes never alias |
| Resolver walk | `resolver/resolver.go`, `hoister.go`, `binding.go` | `identType`, `declKind`, the shared hoister's flags, `ScopeContext` of nodes | one Visit method per node type | two identifiers share a context exactly if they denote one binding |
| RemoveHelper | `ast/ext/remove.go` | one `remove` flag; the lists compacted in place | `Remove`, five list methods, two self-removing nodes | a list loses what was marked and nothing else |
| Node arenas | `parser/arena.go`, `alloc.go` | chunk, length, index per type | `make`, `makeSlice`, constructors | allocations stay in bounds and never overlap |
| Scratch buffers, parser pool | `parser/parser.go` and the list-building functions of `statement.go`, `expression.go` | one growing slice per kind of list; the pooled parser | mark, append, `finishXBuf`, cut back; `getParser`, `putParser` | every list has its own builder's elements |
| Parser marks, flags, recovery | `parser/parser.go`, `scope.go`, `error.go`, `lexer.go`, `statement.go` | scanner position, errors, `allowIn`/`allowLet`/`in...` flags, `recover` | `mark`, `restore`, `peek`, `openScope`, `closeScope`, `nextStatement` | flags come back as they were; every parse ends |
| Grammar | `parser/expression.go`, `operator.go`, `statement.go` | the token position | precedence climbing, cover grammars, backtracking | the tree is the one the grammar gives |
| Scanner | `parser/scanner/*.go` | byte cursor, current token, escaped string | `Next`, `Checkpoint`, `Rewind`, re-tokenization of templates and regular expressions | tokens after a rewind are the same; the cursor stays in the source |
| Generator | `generator/*.go` | output, precedence, context flags, stack of left-deep binaries | one `gen` method per node type | the output parses to the tree |
| AST utilities | `ast/ext/expr.go`, `utils.go`, `value.go`, `stmt.go` | none; `ExtractSideEffectsTo` takes the expressions it is given apart | casts to a truth value, number or text, types, side-effect tests, `PreserveEffects` | what is said to be known or pure is so in every run; no effect is lost, doubled or moved |
| Node types, visitors, clone | `ast/*.go` (`union.go`, `visit.go`, `clone.go` generated) | none | dispatch | every child is visited, in order |
| Build-time generators | `ast/gen_*.go`, `ast/internal/astgen` | none | text generation | - |

Interactions. `Parse` takes a parser from a `sync.Pool`, gives it new arenas
and a scanner, and the recursive-descent functions pull tokens from the scanner,
build lists in the scratch buffers and copy them to the arenas. The tree
outlives the parser, which goes back to the pool. `Resolve` walks the finished
tree with a visitor; for every statement list it first runs a second visitor,
the hoister, over the same list; both declare names in the scope table.
Clients walk and change the tree with visitors of their own, RemoveHelper among
them, and the generator prints it.

The behaviours that are hard to test: an undo log that is rewound in nested
stages; objects that are recycled while older references might exist; one
hoister shared by all lists; one flag shared by nested loops; lists that are
rewritten under the loop that reads them; a buffer shared by recursive builders,
reallocated while an outer builder holds its header; unchecked pointer
arithmetic; backtracking that restores a part of the parser's state; error
recovery that must always advance; a scanner that reads bytes and must not stop
inside a rune where it goes on reading runes, that is taken back to a checkpoint,
and reads a brace or a slash a second time as something else; tests for side
effects in which one forgotten child changes programs silently. `PROJECT.json`
lists them line by line.

## 2. Modules

| Module | Models |
|---|---|
| `Bindings` | the values in the symbol table (`scope.go`, `ast/scope.go`) |
| `ScopeChain` | abstract: a stack of scopes, each with its own map of names |
| `ScopeTable` | the real table: one map, an undo trail, recycled scope objects; implements `ScopeChain` |
| `DataLemmas` | lemmas about sequences and numbers |
| `SyntaxTree` | a tree as the visitors see it: a table of nodes in preorder |
| `Resolver`, `ResolverProofs` | the resolver, its binder, the hoister and its binder; extends `ScopeTable`; and proofs about both |
| `Scoping` | reference: the binding of every identifier, from the tree alone |
| `ResolverScoping` | the finished walk compared with the reference |
| `SyntaxTrees` | terms and their node tables, for writing test programs |
| `RemoveHelper`, `RemoveHelperProofs` | removal of list elements during a walk, and proofs about it |
| `Arena` | the bump allocator |
| `ListBuilding` | abstract: builders with a list each |
| `ScratchBuffer`, `ScratchBufferProofs` | the shared buffer; extends `Arena`, implements `ListBuilding`; and proofs about both: allocation, and that it does |
| `Tokens`, `Ast` | token kinds and the two tables of precedence; terms for the tree |
| `ParserState` | the fields of `parser` and the helpers of `parser.go` and `scope.go` |
| `Patterns` | what an expression becomes as a binding or assignment pattern |
| `ExpressionParser`, `DefinitionParser`, `StatementParser` | the functions of `expression.go` and `statement.go` (the second: patterns, parameters, objects, functions, classes) |
| `Parser`, `ParserProofs`, `FlagProofs` | `Parse` as a whole and its properties; and proofs about it |
| `Generator` | the printing visitors of `generator/*.go` |
| `RoundTrip` | composes `Parser` and `Generator`: parse, print, parse again |
| `Programs` | the texts the parser and generator runs start from |
| `Source` | the text as bytes, the cursor, classes of characters, runes |
| `Numbers` | numeric literals and escape sequences, as functions of the cursor |
| `Scanner` | `Next`, its loops, and what the parser asks of the scanner |
| `ScannerProofs` | proofs about `Scanner` |
| `Values` | values that may be unknown (`ast/ext/value.go`), with proofs |
| `SideEffects` | side-effect tests and extraction (`expr.go`, `stmt.go`, `utils.go`) |
| `ConstantValues` | the casts, types and literals |
| `Evaluation` | reference: value and effects of an expression, from the language |
| `PreserveEffects` | the loop over the expressions, compared with `Evaluation` |
| `MC...` | instances for TLC |

### How they correspond to the code

**ScopeTable.** One variable per field of `resolver`. `heap` holds the `scope`
objects ever made, `scopePool` and `current` refer to them, `chain` (a history
variable) lists the open ones. `pushScope`, `popScope` and `declare` are the
methods, whole; `popScope` replays the trail backwards, which `Rewound` states
as what the oldest undone record says. Map absence is `NoEntry`: the Go zero
value, which is also what `lookup` returns for an absent key.

**Resolver.** The recursion of the Go methods becomes a stack `todo` of things
left to do: a step is one method up to its next call, the rest of its body is
pushed as entries (visits, restores of saved fields, `popScope`). So the saved
locals of suspended calls are part of the state and can be checked against each
other. A Go switch over node kinds becomes one action per method; the loop of
`VisitVariableDeclaration` has a round (`Declarator`) for each declarator, as each
saves and restores `identType` around a call. `WellFormedNode` says what the visitors
rely on in a tree (which children are there, and of which kind), and
`ProgramsAssumption` asks it of the programs.

**Scoping** is written from the language's rules as the code intends them, not
from the code's order of visits; where the code's intention is narrower (class
names are not hoisted, loop heads and catch patterns are bound late), `settled`
restricts the comparison. A program in which the code and its comments
disagree is the subject of a violation run.

**RemoveHelper.** The same stack technique. The client marks any subset of the
leaves; the tree is small, the order of its lists nested in lists is what counts.
`Subtree` and `Preorder` say what a table of nodes must be for the proofs;
`RemoveAssumption` asks it of the trees. `RequestsComeLast` is what sets the trees of
the passing run apart from those of the violation: both are checked in
`MCRemoveHelper`.

**Arena.** A Go array is a sequence in `heap`, a pointer an array with an index.
`handed` (history) records each allocation. `make` and `makeSlice` include the
store of the constructor or `copy` that follows. `newArena` and `dropArena` are
`getParser` and `putParser`.

**ScratchBuffer.** One buffer (there are seven alike). A parse function that
builds a list is a builder; it takes its mark (`Mark`), calls the function that
parses an element (`ParseElement`), appends the result (`AppendElement`) and
finishes or drops the list. Go does not fix whether `p.buf` in
`p.buf = append(p.buf, p.parse())` is read before the call or after it, so both
happen. The growth of `append` is that of the Go runtime, modelled as any larger
capacity up to twice the old one.

**Parser.** The stack again: `todo` holds what the suspended calls still do,
the next thing first, and `result` what the last call returned. A step is one
function up to its next call. An entry's `at` names the point of the program
(`"NextArgument"` is the head of the loop in `parseArgumentList`) and its other
fields are the Go locals needed after the call: the saved flags, the mark in a
buffer, the left operand. So every suspended call's locals can be compared with
the parser's fields, which `MarksInOrder` and `FlagsFollowCalls` do. `p` is the
`parser` struct: position, current token, whether there are errors, the scopes,
the recovery record and the seven buffers. A helper that calls nothing that
parses (`next`, `mark`, `restore`, `expect`, `nextStatement`) is an operator from
one `p` to the next. A call that puts back flags on its way out leaves a
`PutBack` entry; where the code returns without putting them back, so does the
model. A text is a sequence of words, each with whether a line break precedes it:
the scanner is `TokenAt`, a function of the position, so going back to a mark
yields the same tokens. That a rewound scanner reads what it read before is a matter
of `Scanner`. A tree is a term; equal subtrees are equal terms.

**Generator.** A visitor method is an operator from a node to what is left to
print for it; `pending` is the stack of that. A Go call `g.gen(n)` is an item
`node`, `genExpr(e, prec, ctx)` an item `expr`, `writeByte` an item `word`. `g.prec`
and `g.ctx` are set before a call and read at its start only, so they are fields
of the item. `genBinaryExpr` is not recursive in its left operand: it is the
actions `Descend`, `Leaf`, `Unwind` and `Unwound` on the shared `binaryStack`
with the local `base`. `out` holds words with the white space before each;
`mergeable` decides in `Write` whether a blank must be put in.

**RoundTrip.** `StartPrinting` passes the tree to the generator, `Reread` its
output to a new parser. `Scanned` makes words of the output: two words with
nothing between them that a scanner would join are joined.

**Scanner.** The variables are the fields: `pos` of `Source`, `Token`, `EscapedStr`,
`errors`; a step is one turn of a loop, named by `mode`, and `str` is the
`strings.Builder` of that loop. An ASCII character is its name, the bytes of other
runes are the bytes themselves, and which runes may be in a name or are white space
is given by constants (the Unicode tables). `Texts` are any sequences of bytes, as
`Parse` and `ParseBytes` take any: `Complete` says where a whole rune is, and elsewhere
`RuneAt` is the replacement character, by whose length `NextRune` then advances.
`WellFormed` sets apart the texts in UTF-8. Functions that only move the cursor, in `numeric.go` and `unicode.go`, are operators on a *reading*: how
far, which kind, which errors. All operators but the few the scanner or the parser
looks at are one kind, and reserved words are identifiers: the text of the token
tells them apart. Of the parser there is what decides how the scanner is used:
`Checkpoint`, `Restore` and `Forget` are `mark`, `restore` and dropping a mark;
`open` is the nesting of braces and substitutions, so that a brace that closes a
substitution is read again as a part of the template (`NextTemplatePart`), and a
slash may be read again as a regular expression.

**The utilities.** A term for each kind of expression and statement; each Go switch is
a CASE with one arm per kind, in the Go order where arms overlap. `float64` is what
the casts look at: zero, small numbers, infinities, NaN, the sign of a quotient.
A `bool` next to a value says pure or not, as in the code. `scope` is the context
the names of an input carry: 0 before the resolver ran, 1 for names declared
nowhere, 2 inside of a scope. `Evaluation` is written from the language and maps to no
code; an environment chooses what names hold and calls return, so a property over
all environments speaks of what is known before the program runs.

## 3. Runs

Fairness is assumed in two runs: `WF_vars(Next)` in `Parser` and `WF_vars(ReadOn)`
in `Scanner`, which say that a sequential program that can take its next step takes
it. In `Scanner` the parser's marks are not part of `ReadOn`: nothing makes it
take one. Every other property is a safety property or a refinement of a
specification without fairness. `Parser`, `RoundTrip` and `PreserveEffects` stop when
the text is parsed or the value returned, hence `CHECK_DEADLOCK FALSE`; that
they stop nowhere else is `Terminates` for the parser.

| Run | Bounds | Shows |
|---|---|---|
| `ScopeTable` | 2 names, 5 contexts | the properties of the table, and the invariant the proofs use |
| `Resolver` | 3315 programs, 312 000 states: up to two declarations and a use in bodies, nested in each kind of scope, and those nested once more; names x, y, f | the context of every identifier against `Scoping` |
| `RemoveHelper` | all element trees of `MCRemoveHelper`, every subset of their leaves | removal |
| `Arena` | first chunk 2, 4 allocations, lists up to 3, 2 values | allocation |
| `ScratchBuffer` | capacity 1, first chunk 1, 3 builders at once, 4 lists, 5 elements, 2 parses | list building |
| `Parser` | 29 programs that use each construct; each with one word missing, or replaced by one of 13; every parameter list of `ParameterTexts` twice; 350 000 states | marks, buffers, flags, recovery and termination, on right texts and wrong ones |
| `RoundTrip` | 36 operands in 58 contexts, in parentheses, less the pairs of section 6; the programs and parameter lists above; printed both ways; 614 000 states | what is printed is read back |
| `Scanner` | 20 823 texts: all sequences of up to 3, 4 or 5 runes over ten alphabets, each for one part of the scanner, and of up to 4 bytes over four alphabets with parts of runes in them; one mark, taken and taken back anywhere; 753 000 states | that the text is not left and the end is reached, for any bytes; tokens, new-line flags and values against the lexical grammar, for well-formed texts |
| `PreserveEffects` | some 58 000 inputs: expressions of each kind nested in each other, two levels deep where it matters, statements and classes; 3 scopes; 16 environments; 136 000 states | casts, types, side-effect tests and extraction against an evaluation |
| `ClassUsedEarlier`, `LoopHeadRemoval`, `NewOfCall` | one or two inputs each | a disagreement (section 6) |

Why the bounds suffice. *ScopeTable*: two names separate "mine" from
"another's", five contexts allow four levels with shadowing on each and scopes
reused after closing; the proofs cover the rest. `MaxCtxt` stands for the range
of an int32. *Resolver*: a scoping error shows with one name declared at two
levels and a use at a third; each kind of scope appears in each position.
*RemoveHelper*: lists of three inside lists of three reach drops before, at and
after a kept element on both levels. *Arena*: the first chunk is exceeded by
a list, filled exactly, and followed by two growths. *ScratchBuffer*: capacity 1
makes nearly every append reallocate, three builders give a buffer that moves
twice under the outermost. *Parser*: one slip is enough to leave any function by
any of its error returns with calls suspended around it; the recovery limit of
ten (`MaxSyncs`) is the code's own and is reached. *RoundTrip*: whether an operand
needs parentheses depends on the operand's outermost node, the context's
innermost and, for `in`, calls and optional chains, on one node further in; the
operands and contexts have one of each level of precedence. Of the 2255 texts the
parser refuses one, `do ; while ((class {}))` (section 6); the others are all
printed and read again. *Scanner*: the loops carry nothing from a rune to the next
but a flag or two, so two turns, with each byte that can end a loop before, between
and behind them, reach every transition; there is a rune of each encoded length,
and each separator that shares bytes with others. One mark is enough as marks are
independent of each other (a checkpoint is a value). *PreserveEffects*: a verdict
on an expression depends on its kind and the verdicts on its children, and where the
code looks at a grandchild (callees, keys, members of literals) the inputs do. Four
values of a name, four of a call, and truths and numbers that go with them, have
each type that a cast distinguishes.

### Properties

*ScopeTable.* `LookupAgrees`: one probe answers what a walk up a chain of maps
would. `RecyclingSafe`: parent links visit exactly the open scopes, none of
them pooled. `ContextsFresh`: contexts of open scopes differ and grow inwards.
`OneUndoPerScope`: one undo record per name and scope, none for the root;
`UndoInv` is the invariant it is proved from.
`EnclosingUndisturbed`: no step changes what an enclosing scope will see again.
`ChainSpec`: the table refines `ScopeChain`.

*Resolver.* `SameBinding` and `DistinctBindings` are the two directions of "two
identifiers share a context if they refer to the same binding"; `ScopeNodesAgree`
says the context recorded at a node is the one its declarations carry;
`ResolvedOnce` that no identifier is stamped twice (with one exception, section 6);
`HoisterRunsNeverOverlap` is the comment at `resolver.go:281`: no hoister run is
suspended when the resolver resets the hoister. `ResolverInv` is the invariant behind
both: each field of the hoister comes back to its fresh value by the restores that are
due to it (`Settled`), and each clause takes the parameter out of `catchParamDecls` that
it put in itself (`ParamsOwned`).

*RemoveHelper.* `RemovesExactlyTheMarked` against a definition on the original
tree; `RequestMeetsItsLoop`: a request is never pending when another element's
visit begins; `CompactionInPlace`: nothing is overwritten before it is read.

*Arena.* `InBounds`: every allocation lies in the chunk it was made in, whose
length is the one recorded. `NeverShared`: no two allocations have an element in
common. `NodesIntact`: what was stored is there until the parser drops the arena.

*ScratchBuffer.* `BuildsLists` (refinement of `ListBuilding`): each finished
list has exactly its builder's elements; `EarlyReadHarmless`: a header read
before the element was parsed still serves; `BufferBalanced`: nothing is left
behind.

*Parser.* `TokenIsAtOffset`: current token and scanner position, which every
helper moves separately, agree. `MarksInOrder`: the marks of the suspended
calls lie in order within each of the seven buffers, and a buffer no call uses
is empty. `FlagsFollowCalls`: while there is no error, every scope flag and the
label list are what the suspended calls imply. `NothingLost`: an accepted text is
all in the tree, each name as often as written. `ArrowsAsFunctions`: parameters
read as an expression and converted, or read twice, come to the parameters of a
function. `RecoveryBounded`: at most `MaxSyncs + 2` statements per token are
made of any text. `Terminates`: every parse ends. The flags are not required to be
right after an error: `statement.go:629-631` returns from the head of a for
without setting `allowIn` again, and the code reports the error all the same.

*RoundTrip.* `RoundTrips`: the output, minified or not, is read as the tree it
was printed from. `StackOwned`: a chain of binary operators leaves alone what
the chains around it have on the shared stack.

*Scanner.* `InSource`: cursor, tokens, errors and marks lie within the text, or behind
it by at most two bytes, and this only if it ends in bytes that are no rune and were
taken for the replacement character (`Positions`). `WithinText`, which the comment at
`table.go:559-563` asks for, says that the text is never left; the code does not keep it
(section 6), and it is proved of well-formed texts.
`NothingSkipped`: between two tokens there is nothing but white space and comments
of the grammar, each ended where the grammar ends it. `NewLineFlag`: a token is on
a new line exactly if a line terminator stands before it, of whatever kind and in
whatever comment. Both are about well-formed texts: in a comment the code passes over
the two bytes behind any 0xE2 without a look at them, so in other texts a terminator
may go unnoticed. `CookedText`: what the parser reads of a string, a template part or
a name with escapes is the value the grammar gives to that very token, whatever was
read ahead and taken back since. `ReachesEof`: every text is read to its end.

*PreserveEffects.* `EffectsKept`: what is extracted has the effects of the
expressions, in order, each once, and so has what is left of them.
`PureHasNoEffects`: what is judged free of effects has none. `ConstantsAgree`: a
known truth, number, text or type is the one every run yields, and with no effect
if it is said to be pure.

## 4. Proofs

| Theorem | Says |
|---|---|
| `TableAlwaysTyped`, `RecyclingAlwaysSafe` | type correctness of the table (`TypeOK`, which no run checks on its own); no scope object is open and pooled, or twice either |
| `ContextsAlwaysFresh`, `LookupAlwaysAgrees`, `EnclosingNeverDisturbed` | the properties of the run, for every set of names and every bound on contexts |
| `TableImplementsChain` | `TableSpec => ChainSpec`: the undo log implements the chain of maps |
| `UndoInvariant`, `OneUndoPerScopeAlways` | `UndoInv` is inductive; a scope records a name once, the program scope never |
| `ResolverRunsTable` | `Spec => TableSpec`: resolving any well-formed program uses the table by its operations only, so all of the above holds during the walk; `ResolverLooksUpRight` and `ResolverImplementsChain` state it for lookups and the chain of maps |
| `ResolverInvariant`, `HoisterRunsApart` | the stack of calls is well formed; the hoister is never reset under a run, and is fresh between runs: for every program |
| `ContextsKept` | `ResolvedOnce`, for every program |
| `ArenaInBounds`, `ArenaNeverShares`, `ArenaKeepsNodes` | the properties of the arena, for every first chunk, every list length and every number of allocations |
| `BufferBuildsLists` | `Spec => BuildsLists`: one shared, moving buffer implements lists built independently of each other |
| `EarlyReadsAreHarmless`, `BufferIsBalanced` | `EarlyReadHarmless` and `BufferBalanced`, for every nesting and every growth of the array |
| `ScratchInvariant`, `BufferSparesTrees` | `ScratchInv` is inductive; allocations stay intact with the buffer's arrays among the arena's |
| `ScannerStaysInSource` | `InSource`, for any bytes, all Unicode tables and any number of marks: at most two bytes behind the text |
| `WellFormedIsNotLeft` | `WithinText`, for every text in UTF-8 |
| `ScannerAdvances` | every token but the end takes a byte of the text: a parser that calls `Next` until the end does not spin |
| `NewLinesAreSeen` | `NewLineFlag`: the flag that makes a semicolon optional is right for every token of every text in UTF-8 |
| `AlwaysSound` | the stack of calls is well formed: of every text, right or wrong, each call finds the locals and the results its caller left, the marks lie in order, and a scope is open for each function under way |
| `TokenStaysAtOffset`, `MarksStayInOrder` | `TokenIsAtOffset` and `MarksInOrder`, for every text |
| `RecoveryStaysBounded` | `RecoveryBounded`, for every text of any length |
| `FlagsAlwaysFollowCalls` | `FlagsFollowCalls`, for every text and every nesting of functions, loops, labels and parameters |
| `RemoveTypeCorrect`, `CompactsInPlace` | the lists stay lists of the tree's nodes; no loop of RemoveHelper overwrites or skips what it, or another active loop, has still to read: for every tree and every set of marked nodes |
| `RequestsMeetTheirLoops` | `RequestMeetsItsLoop`, for every set of trees in which requests come last |
| `RemovesExactly` | `RemovesExactlyTheMarked`: in such trees every list ends with exactly the elements nothing asked to remove, in their order |
| `AndIsExact`, `OrIsExact`, `NotIsExact` | the logic of half-known values: a result may be true, or false, exactly if values the operands stand for make it so |

Assumptions: `MaxCtxtAssumption` (there is at least one context),
`ArenaAssumption` (the first chunk has an element; lists have a length),
`ScannerAssumption` (texts are sequences of bytes), `SourceAssumption` (bytes of ASCII
and others, those that begin a rune and those inside one are different; a rune is a first
byte and as many others as that announces; the byte that begins a line separator begins
one of three; the replacement character is no letter and no space), `RemoveAssumption` (the tables of nodes are trees in preorder; a node that removes
itself has one child, a list; a client marks other nodes than these two kinds, whose
methods are RemoveHelper's), `SourcesAssumption` (a text is a sequence of words), `BufferAssumption` (the buffer has a capacity, elements
are numbers in order of arrival) and `ProgramsAssumption` (the trees are well formed).

*The table.* `Structure` (types, `RecyclingSafe`, and the trail bases of the open
scopes ascending within the trail) is inductive by itself and proved first. It
does not give lookups: after `popScope` the table is what the rewound trail
says, so the invariant must speak of the table *with any part of the trail
undone*. `Visible(d, n)` is that: what name n will mean when scope d is current
again. `Layered` says that each scope's view is its own declaration or its
parent's view, and carries no context from further in. `IInv` adds
`ContextsIssued`, without which `declare` could take a foreign entry for a
redeclaration. The lemmas that carry the argument: `RewindInStages` (undoing to
an outer base is undoing to an inner one first), `RecordHidesRebinding` (after
`declare` appended its record, undoing it gives the old table),
`PushVisible`, `PopVisible`, `DeclareVisible` (what each operation does to every
scope's view), `VisibleThrough` (a view is that of the innermost declarer). With
them `IInv` is inductive, `LookupAgrees` follows from it, and each operation maps
to the step of `ScopeChain` of the same meaning. `UndoInv` adds to `IInv` that the
records above a scope's base are of names the scope owns, each once: `declare` makes a
record only if the entry it replaces has another context, and after that it has this
one.

*The resolver.* Two properties share one invariant, `ResolverInv`, about the stack of
calls. The hoister's entries are the first ones of `todo` (`HoisterFirst`), because a
hoister's visit pushes only its own and the resolver's visits push only theirs, but
for `VisitStatements`, which pushes a hoister's run in front. That alone does not say
that the hoister is fresh when the run ends. `Balanced` does, field by field, as each method
restores only what it saved (`restored`): for `inBlock`, for `kind` and for the fields
of a catch clause, the last restore due is of a fresh hoister's value, and where none is
due the field has that value now (`Settled`). `VisitCatchClause` makes this harder than
it looks: it does not restore `catchParamDecls` but takes its own parameter out of it,
and not if a clause around it has the same one. So `ParamsOwned` says that the set is
what the clauses under way will take out, and no two of them the same. Lemmas about stacks (`SaveInFront`, `QueueTail`,
`QueueRestore`, `QueueHoist`) say how pushing and popping keep it, and are reused by
one lemma per action (`...Kept`), which also shows the step to be one of the table's or
to leave the table alone, and `ctxOf` to change only where `modify` or the catch rule
allows. `Sublist` is a recursive function; its lemmas (`SublistIn`, `SublistAppend`,
`SublistEmpty` of `DataLemmas`) are proved by a least counterexample.

*The arena.* `ArenaInv` adds to the three properties that the chunk in use has
the length recorded and that all allocations in it end at or before `index`.

*The buffer.* `ScratchInv` says that the parts of the suspended builders lie one above
the other in the array (`PartsStacked`), only the innermost is at work
(`OneAtWork`), the array is none that a tree is in (`BufferHoldsElements`), and
a header read before the element was parsed agrees with the array in use up to its
length, although `append` may have moved the buffer since (`EarlyReads`). It
includes `ArenaInv`, which the lemmas on the arena keep. The refinement maps a
builder to its part of the array and a finished list to its copy in the arena.

*The scanner.* `InSource` is not inductive: `NextRune` advances by three bytes where no
rune is, so in a well-formed text the cursor must not be inside a rune when it is called,
and in any text what goes on must begin before the end.
The first is not so everywhere (`unexpectedErr` stops inside of one, and it is harmless).
`ScannerInv` says where it matters: before an escape sequence, and at a slash that
is read again as a regular expression, the byte before is an ASCII character, so
the rune behind it is whole; and a checkpoint holds a token and a cursor of which
the same is true. `NextRuneInText` is the lemma on runes; `LoopsEndInText`,
`NumberInText`, `StringEscapeInText` and the lemmas between them say that each
function of the cursor ends in the text; then there is a lemma per group of actions.
`NewLineFlag` needs `NewLineInv` besides, which says for each loop from where to where
the flag has been kept: up to the cursor in white space and comments, up to the first
byte of the token inside of one, and the same of every checkpoint. A closing brace is
one byte long in it, because the parser may have it read again as a part of a template
that begins where the brace does. The steps come down to the bytes a turn passes over:
no terminator begins inside of a rune (`BreakInRune`), so a comment that jumps over the
rest of one misses none (`FlagBehind`).

*The parser.* The parser has some ninety actions, and an invariant about its stack
need not be shown of each. What the helpers do to a state is said once, as relations:
one state is some tokens after another and else alike (`Reads`), has the buffers
it had (`Quiet`), or one of them longer or cut back (`Sized`). By these and by the
kinds of the entries it pushes each action is shown to be a step of a few forms.
It calls and returns without a mark (`PlainStep`, `CalmStep`), begins, extends
or ends a list in a buffer (`ListStep`, `MarksStep`), does so with statements
(`StatementsStep`), hands an entry below it something (`PatchStep`), opens or closes a
scope (`OnStep`), or saves, drops or goes back to a mark (`StatesStep`). The
invariants are shown of the forms. `IInv` is what is inductive: the state is
well formed (`WellFormed`: current token and position agree, the recovery's counter
is in its range), each entry has what its continuation reads (`Shape`: a saved
mark is itself a token at its position), the marks of the calls lie in order in each
buffer (`InOrder`), and there is a scope for each function that has not ended (`Balanced`).
A mark that goes back holds no buffers: that what is cut is only what was read since
is `InOrder` of the entries below the one with the mark.

`RecoveryBounded` does not follow from the counter in `nextStatement` alone, as a mark
may be gone back to after statements were made behind it (a function in the parameters
of what turns out no arrow function). `Recovers` gives each position an
allowance, `(MaxSyncs + 2) * (pos - 1)` and what the counter says was used up at this
very token, and states of every suspended list and of every saved mark that the statements
made up to it are within the allowance of its position, with room for one more
(`Rows`, `Room`); and that the parse is on its way to consume a token whenever the room
is used up (`Going`). The counter never goes back, so what a mark was allowed
it still is when it is restored (`RecoveryGrows`).

`FlagsFollowCalls` is about the innermost function only, and about texts without an
error. Neither is inductive: when a function ends, the flags of the one around it
count again, and a mark may take the parser back to before the error. `FlagsInv`
therefore says it of every function on the stack: to each `FunctionEnd` belongs the
scope that the entries below it imply (`Agree`), and an entry that will put a flag
back has saved what the entries below it imply (`FlagLocal`). Only the head of a for loses a
flag, on an error, and only `allowIn`, in its own function: `D` has the depths of the
functions where that has not happened, all of them as long as there is no error. That a
mark, which is gone back to within an expression, finds no such loss in the functions
around it takes another invariant. Between a statement and an expression it is a part
of lies a function (`Layered`): when a for gives up, each mark below it was made in a
function further out. Most actions neither set nor put back a flag, and are
covered by the forms above (`CalmFlags`, `StatementsFlags`, `PatchFlags`,
`StatesFlags`); the eighteen that do (`Tuned`) have a lemma each.

*Removal.* `CompactionInPlace` speaks of all loops on the stack at once, and says nothing
of why one does not write into the list of another. `WalkInv` adds it: the parts of
the tree that two tasks on the stack will still come to are disjoint, no loop's list
is in what another will come to, and what a task will come to is as it was. A step
replaces the top by tasks whose parts make up some of the top's part (`WalkStep`), so
nothing has to be shown of the others. `RequestsMeetTheirLoops` adds `RequestInv`: a
task that may leave the flag up is followed by one that finds it (the decision about
the element, or another node of it that may ask). It needs a condition on the trees,
and `LoopHeadRemoval` shows that the code's own trees do not all meet it: a
declaration in the head of a for is not the last child of its statement.

`RemovesExactly` compares the finished tree with `Gone`, which is defined on the
original one, bottom up. `ExactInv` ties the two together while the walk is under way:
a list is still to come to, being walked, or already as it should be (`Settled`); what
a loop has kept are the elements of the passed ones that stay (`Progress`); a node looks
whether its list is empty only when nothing below it is left to do (`EmptyLast`); and
the flag a loop will find is up exactly if its element is in `Gone` (`FlagExact`): it is
up now, or a task before the loop raises it and no other loop comes in between.
`FlagMoves` is the lemma that a step keeps the last part if the new tasks hand on what
the old top would have. `Gone` is a recursive function on a tree; that its equation has
a solution is shown without induction, as the least set closed under it
(`GoneEquation`), and the proof uses nothing else of it.

*Half-known values.* Each theorem is a case distinction on what an operand may be
(`MeaningsOf`). `ConstantsAgree` checks what the casts make of them.

*Only model-checked:* `SameBinding`, `DistinctBindings` and `ScopeNodesAgree`, which
compare the finished walk with a reference that is defined by recursion over trees;
`NothingSkipped` and `CookedText`, whose grammar is a recursive definition too; of the parser `NothingLost`, which counts
occurrences in trees, and `ArrowsAsFunctions`, which compares two parses; everything about the generator and
the other utilities, whose modules use RECURSIVE operators. So are liveness and
ENABLED. No module with a theorem
reaches a RECURSIVE operator.

## 5. Mutants

Each property of a passing run is broken by a changed definition, marked
"Seeded fault" next to the original: an undo that skips the oldest record, a
recycled scope left in the pool, a block flag not restored, a request flag not
cleared, an index advanced by one for a list, a buffer not cut back, a mark that
restores the scanner and not the token, recovery without its counter, a chain of
operators that unwinds all of the shared stack.

## 6. Findings

* `ClassUsedEarlier`: `function f() { x; } class x {}` gives the use and the
  class different contexts, because the use declares x in f (`resolver.go:331`)
  and classes are not hoisted; `ast/scope.go:4` promises one.
* `LoopHeadRemoval`: a declaration in a loop's head that lost its declarators
  leaves the removal flag set (`remove.go:97`), and the next list element is
  dropped. Removal in a loop's head is therefore left out of the passing run.
* `NewOfCall`: `new (a().b)()` is printed `new a().b()`, which calls the new
  object's b. `VisitNewExpression` forbids a call in its callee, but a member
  visits its object with no context (`generator.go:356`).

Two more were met that have no run:

* `-0n` and `0n * 1n` are BigInts, and `GetType`, which "returns the type of the
  expression" (`expr.go:441`), says number (`expr.go:503`, `:543`) whatever the operands
  are. `Evaluation` gives them the type the language gives them, so `ConstantsAgree`
  would fail of such inputs; `Composed` has the sum of two BigInts only, of which `GetType`
  knows nothing.
* The text of the one byte 0xE2 has a token that ends at offset 3. `Next` takes any byte
  from 0xC2 to 0xF4 for the first one of a rune (`table.go:528-552`), and if it is none,
  `NextRune` advances by the length of the replacement character (`source.go:58`): what
  the comment at `table.go:559-563` keeps the other bytes from. `WithinText` as an
  invariant of `Scanner` fails at once; `InSource` says how far the scanner gets.

The programs of the passing `Resolver` run leave the first case out, and functions
in blocks over an enclosing lexical name, where the comments do not say what is
intended. They also leave out two disagreements that have no run: a var in a
catch body with the name of the parameter takes any visible binding of the name
(`hoister.go:39`) in place of being declared in the function, as `hoister.go:7`
says, and takes it anew each time a hoister's run comes by: in
`function f() { try {} catch (x) { try {} catch (x) { var x } } }` the context of the var changes after
it was given one, which is why `ResolvedOnce` excepts such vars; and a switch opens no scope in the resolver, so its let shares the context of
an enclosing let, where `ast/scope.go:4` promises unique values.

The `RoundTrip` run leaves out the pairs of `Unparenthesised`, in which the
generator omits parentheses the tree needs, like `NewOfCall`:

* an object, function or class that is the first word of a statement but not the
  whole of it (`({}) + a`, `(function () {}) ? b : c`), and `c => ({a} = b)`;
* a class's heritage that is not a left-hand-side expression
  (`class c extends (a + b) {}`);
* `for (c of (a, b));`, whose operand is printed as if a comma could stand there;
* an `in` below a declarator of a for's head (`for (var c = (a in b);;);`);
* calls and optional chains below a member in the callee of `new`.

`(await a) ** b` is lost as well (`binary_expr.go:45` tests for unary operators
only) and is not among the operands.

What the parser accepts more or less widely than the language, seen while it was
modelled and followed by the model: words like `let` that are not first in an
expression become an identifier with an empty name (`expression.go:82`);
`(a, b.c = 1) => 0` is accepted while the same parameters of a function are not;
class members named get, set or async that are followed by `=` or `}` are taken
for modifiers; after a single statement as a body (`do ; while (class {})`) a class
expression is refused; `a ?? (b) || c`, `a + #x` and `({a = 1})` are accepted; a hole at the
end of an array is dropped. None contradicts a text of the repository, so they
are no findings. The programs leave them out where they change what a property
says.

In the scanner, followed by the model, and spoken of by no property: legacy octal escapes yield nothing, though the
comment at `unicode.go:160` gives them a value; a private name with an escape keeps
its `#` in `EscapedStr` while one without loses it; an escape that names a
character no name may have is reported and dropped; a high surrogate before
another escape that is no low one is rejected, in templates silently, and whether a
template's escape was valid is forgotten; a multi-line comment that contains a line
break and does not end is not reported; `0e1a` is not checked behind its exponent;
an unterminated regular expression loses its last character.

In the utilities, left out of the inputs of `PreserveEffects`:

* effects judged pure: a member of an object literal with a getter, or a computed key
  with effects in a literal whose member is taken; any callee that is a member named
  like a string method (`f().trim()`); a shorthand property of a free name; free names
  of a resolved tree (they carry the scope's context); `CastToNumber` of a name;
  `AsPureString` of `void f()` is a known text, whose comment (`expr.go:305`) says "if it
  does not have any side effects"; `[f()].join`;
* wrong values: `CastToBool` of `??`, compound assignments, `typeof`, `+`, `~` and
  `delete` is known to be false; subtraction and division with a known NaN, and
  Infinity/Infinity; `[-1]` and `[x]` have the text ""; `({toString: 1}).toString` has that
  of a function; `&&=` has the type Number, and so has arithmetic on BigInts (see above; names hold no
  BigInts in the environments, as `GetType` of `x * x` assumes); texts like "0x-1" and
  "inf" have a value, those beyond the range of a float64 are NaN; `undefined`,
  `NaN`, `Infinity` and `Date` are taken for the globals where the program shadows them;
* extraction that loses effects: the spread of an array, `delete`, a template's tag,
  a private member; a class literal makes it panic (`utils.go:360`), so
  `Extracted` has no arm for one; `IsLiteral` accepts a template with
  a tag.

Only the first two kinds contradict a comment of the repository at all, and none has a
run.

## 7. Not modelled, and the plan

Left out of the modules that exist: in the parser, template literals, regular
expressions, import, the literals other than numbers, positions of nodes and
error messages; in the generator, comments, escapes and the depth of
indentation; pools and arenas where the parser uses them, which `ScratchBuffer`
and `Arena` model on their own.

Of the scanner: which keyword or operator a text is, the text of errors.
What lies behind the end of a text, where ill-formed bytes take the scanner, is not
modelled: the scanner's loops ask for the end before they read, but the text of a token
that ends there would include it. Of the utilities: `CalcLiteralCost` beyond whether there is a cost,
`PropNameEq`, the lists of `symbol.go`; of the methods and globals that are taken for
pure the inputs have one of each kind, conversions to primitive values are taken
to have no effect, optional chains have one link.

What would come next:

1. Templates and the remaining literals in the parser and the generator.
2. `Parser` over `Scanner` in place of `TokenAt`.
3. Proofs: the scopes the resolver opens are those it closes; the comparison of
   the resolver with `Scoping`, its reference defined by recursion over trees, as
   `RemovesExactly` does it for `Gone`.

Left out for good: node types, generated visitors and clone (no state; the
order of children is in `SyntaxTree`), the Unicode tables, the build-time code
generators. `ScopeContext` overflow needs 2^31 scopes: the guard of `pushScope` by
`MaxCtxt`, which the code does not have, keeps the model from it and finite.

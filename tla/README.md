# A TLA+ model of the Reaver C compiler

`rcc` translates one C99 source file to LLVM IR or an object file. This
directory models the passes of the compiler that have state of their own, checks
them with TLC against what C99 (or the platform's ABI) says of the source
program, and proves the central facts about the lowering of statements and of
the operators that branch, names and scopes, structure tags, the passing of
parameters, the driver and the test harness with TLAPS. Paths below are relative
to the root of the repository.

## 1. The system

`src/main.cpp` runs the passes in a straight line over one file, in one thread:

    preprocess -> parse -> TypeChecker -> CodeGenModule -> emit -> clang (link)

| Part | State | Operations | Correct if |
|---|---|---|---|
| Preprocessor (`src/Preprocessor.hpp`, vendored tcpp) | stack of conditional blocks, macro table, macro contexts, include stack | one per directive and token | inactive text changes nothing; expansion is that of C, and ends (it does not for macros that lead back to themselves, nor a condition with a minus sign: 3.2) |
| Lexer, parser (`src/lexer.l`, `src/parser.y`) | the set `typedefs` | one token, one reduction | a name is a `TYPE_NAME` where it is a typedef name in C |
| `TypeChecker` | `typeContext_` (scopes), `nodeMap_`, `structMap_`, `currentType_`, `fromDecl_` | one visit per node | every node gets its type in C; every tag its identity |
| `CodeGenModule`, statements | the builder's insertion point, `breakStack_`, `continueStack_`, `currentSwitch_` | one visit per statement | the basic blocks mean what the statements mean |
| `CodeGenModule`, names | `symbolTable_` (scopes), `isGlobal_`, the LLVM module's symbols | one visit per declaration | a use is bound to the declaration visible in C |
| `CodeGenModule`, expressions | `currentValue_`, `valueCategory_`, `currentStore_`, `currentExpectedType_` | one visit per expression | values and objects are those of C |
| `X86_64ABI`, `AArch64ABI` | none | classify, assign registers | caller and callee agree, and agree with the platform |
| Constant evaluation (`src/AST/Expr.cpp`) | none | `eval()` | the number C gives |
| Driver (`src/main.cpp`) | output and temporary files | the passes, `clang` | a failure is reported |
| Test harness (`test.py`) | thread pool, result file, progress bar | run, collect | every test counted once, the run ends |

How they interact. The parser calls back into the lexer (`updateTypeDefs`)
between two tokens. `TypeChecker` and `CodeGenModule` each walk the whole tree,
independently; what the first finds reaches the second through `nodeMap_` only,
so the second repeats the scoping of the first with a table of its own, and the
two can disagree. A visit method hands its result to its caller in a data
member (`currentValue_`, `currentType_`) and takes its context from others,
which `ScopeGuard` saves and restores.

The driver hands files from pass to pass, and the test harness starts one
compiler per test from a pool of threads; each sees only how the other ends and
what is then in the files.

What is hard in the compiler is not concurrency (it has one thread) but long
legal sequences of visits: nested statements whose children move the insertion
point, members that are read after a child has overwritten them, two passes
that must push and pop in step although one of them skips unreachable items,
and conversions that are wrong for a few values only. The harness has threads,
timeouts and children that are killed while they write. `PROJECT.json` lists each
hazard at its line, with the properties that cover it.

## 2. The modules

| Module | What it is |
|---|---|
| `ControlFlow` | the statement visitor: frames are the C++ call stack, one action per visit method or per half of one |
| `ControlFlowProofs` | its inductive invariant `IInv`, and what is added to it for the two stacks and for the comparison with C; the theorems |
| `SourceFlow` | C99 6.8 as a flow graph: the abstract specification |
| `FlowCheck`, `FlowGraph` | `ControlFlow` and `SourceFlow` over the same program; the comparison of the two graphs |
| `Scopes` | the three tables of names, one action per kind of item |
| `NameScopes`, `ScopeCheck` | C99 6.2.1, the abstract specification; the two over the same program |
| `ScopeProofs` | the inductive invariant of the two together; the theorems |
| `Conversions`, `Expressions` | the types, promotions, common types and casts; what is emitted for integer expressions, and what that computes |
| `CArithmetic`, `ExprCheck` | C99 6.3.1 and 6.5 on mathematical integers, the abstract specification; the two over the same program |
| `ConstEval` | `Expr::eval()`, and what C makes of the same expression |
| `Initializers` | `visitAsConstant`, `visitAsStore` and their recursion over lists |
| `ExprBlocks`, `ExprBlocksCheck` | the blocks and phis of `&&`, `||` and `?:`, however they nest; C99 6.5.13 to 6.5.15 over the same expression |
| `ExprBlocksProofs` | the inductive invariant of `ExprBlocks`; the theorems |
| `InitialValues` | C99 6.7.8, the value an initializer gives: the abstract specification of `Initializers` |
| `Declarations`, `DeclarationCheck` | objects and functions with linkage, initial values and names; the rules of C99 6.2.1, 6.2.2 and 6.9.2 beside it |
| `DeclarationProofs` | the inductive invariant of the two together; the theorems |
| `StructTags`, `StructCheck` | the identities and the LLVM types of structures; C99 6.7.2.3 beside it |
| `StructProofs` | the inductive invariants of the two together; the theorems |
| `ArgClasses` | the classification of types by both ABIs |
| `CallConvention` | one function that is declared, called and defined, with the registers LLVM gives away |
| `ConventionInv`, `ConventionProofs`, `ConventionCheck` | its inductive invariant; the theorems; the System V ABI beside it |
| `PreprocessorExpr`, `Preprocessor` | macro expansion and `#if` expressions; the loop over lines and tokens |
| `PreprocessorCheck` | C99 6.10 on the whole source |
| `Driver` | `main.cpp`: the passes, the ways each can end, the files |
| `Compiler`, `DriverProofs` | what a caller sees of a run of `rcc`, which `Driver` implements; the theorems |
| `TestRunner` | `test.py`: the pool, the children and their timeouts, the report; it takes from `Compiler` how `rcc` may end |
| `TestRunnerProofs` | its inductive invariant; the theorems |
| `MC_*` | the instances |

The compiler's passes are all modelled in one way. A behaviour is one source
program together with what the compiler does with it: which statement,
declaration, line or parameter comes next is chosen freely, so TLC explores all
programs up to the bounds. The compiler's module and the abstract one take each
step together, and the properties compare what the two have built. Only the
compiler's modules are translated from the code (`map` in `PROJECT.json` names
the lines of each definition). Modules without a `TypeOK` among the properties
of their run still state one: it gives the types of the variables to the
reader.

A definition `X_Wrong` next to `X` is a mistake that one could make in `X`. No
action uses it; put in the place of `X` it makes TLC find the property violated
that is there to rule it out. Every property of a passing run has one.

### 2.1 Statements: `ControlFlow`

`frames` is the stack of active visit methods; a frame holds the blocks the
method keeps in local variables and the `currentSwitch_` that its `ScopeGuard`
will restore. `code` has the instructions of each block, `inserted` the blocks
that are in the function, `cur` is the insertion point. A visit method without
a child statement is one action (`ExprStmt`, `Break`, `Continue`, `Return`); a
method with a child is `Enter...` up to `accept` and `Exit...` after it, an
`if` with an `else` has `ThenToElse` in between. `ItemVisited` is the test of
`BlockItemList`, which decides whether the next item is visited at all.

An expression is a single `eval` instruction, named by its statement and role;
its own blocks (`&&`, `?:`) are in `ExprBlocks`. The instructions keep their
targets. The labels and the default of a `switch` are `cases` and `dflt`, because
`addCase` changes the instruction after it was emitted. Declarations are items
without control flow. The grammar accepts `goto` and labels but builds no node
for them.

`SourceFlow` reads the same statements and grows a graph of evaluations: `pend`
is the set of ends from which control arrives at the current point. It knows no
blocks. `FlowCheck` runs the two together. At the end of a function `FlowGraph`
reads a graph off the basic blocks, each up to its first terminator, and
compares the parts of both graphs that control can reach.

### 2.2 Names: `Scopes`

A declaration is a number, each table maps a key to one. The code generator
skips items in unreachable code and the other passes do not; `terminated` and
the `skipped` flags of `frames` follow that. `NameScopes` has one stack of
scopes, `env`, in which the parameters share a scope with the body, a `for` has
a scope of its own, and names inside a parameter list or a struct are not
entered. Programs are valid C: nothing is declared twice in one scope
(`Introduce`), and a declarator is an `IDENTIFIER` token (`IsIdentifier`, a
condition of the compiler itself). `ScopeCheck` adds `leaks`: for each open
item, the declarations that the type checker may have leaked into it or into one
around it, which are over when that item ends. All passes are taken in step:
they do not share state except at the same node, so their order does not matter.

### 2.3 Expressions: `Conversions` and `Expressions`

An expression is visited in postfix order, and `stack` holds for each pending
operand the type that `nodeMap_` has and the LLVM value. An LLVM integer is a
width and its bits. `Results` gives what the emitted instruction yields, which
is every value where LLVM leaves it undefined. There is one object, `x`.
`CArithmetic` computes on numbers; C's undefined operations (`Defined`) are not
part of any program. The places in which the code is known to depart from C99
are conditions in `ExprCheck` (`ToBoolDeparts`, `ShiftDeparts`, ...): the main
property holds whenever none of them was met. Section 3.2 lists them.

An operator that branches has its blocks in `ExprBlocks`: `frames` is again the
stack of active visit methods, with `lhsBB`, `rhsBB` and `afterBB` as the
methods hold them, and each operand is visited between two actions (`LogicalLhs`
follows the left operand of `&&` and `||`). A value is the block and the place
of its instruction, so that `IsBoolean` can tell an `i1`. A call stands for any
expression that is not taken apart. `ExprBlocksCheck` executes the blocks for
every outcome of the calls, and stops where an instruction uses a value that was
not computed on the way; it evaluates the expression itself as C does.

### 2.4 Constants, initializers, declarations

`ConstEval` computes at two widths, that of `int` and that of `int64_t`: the
code always takes the second. `Initializers` knows a type as a scalar or a tree
of aggregates and a value as the sequence of its scalars, with marks for what
is known at run time only. `visitAsConstant` ends in a value, a throw or
undefined behaviour of the compiler (a member past the last one), and the
results are folded in the order of the items, because the first that goes wrong
ends the rest. An automatic aggregate is tried as a constant and, when that
throws, cleared and stored (`AutoValue`).

`Declarations` has the globals and allocas with linkage and initial value, the
linkage of the functions, the counter of local statics and the symbol table.
The actions are the three kinds of object (`StaticObject`, `ExternObject`,
`AutoObject`), the type check that throws (`IncompatibleInit`), `FnDecl`,
`FnDef` and the blocks. A unit has one object whose shape is chosen from all,
and several of a few plain ones, so that orders of declarations and shapes of
initializers are both explored without their product.

Neither of the two modules looks into a shape. What becomes of its initializer
is given by constant operators: whether the type checker takes it (`Accepts`),
what a static and an automatic object of it begin with (`StaticInit`,
`AutoInit`, `CopiesGlobal`), and what it means in C (`ValueInC`,
`InitIsConstant`, `IsDeparture`). `MC_DeclarationCheck` gives them their values
from `Initializers` and `InitialValues`, which are recursive; TLC evaluates on
every shape what the proofs assume of the operators.

### 2.5 Struct tags

The type checker gives numbers (`Begin`, `TakeID`, `structMap_`), in the first
phase, `pc = "check"`; the code generator, in the second, walks over the nodes
that were kept and makes named LLVM types from the position of a number in
`structIDs_`. `StructCheck` has the structures of C. A structure that the
program declares in a way the compiler is known to get wrong is in `departed`,
and the properties speak of the others. What the code generator does not lay
out is a matter of tags: `FullyVisited` holds of a set of tags none of which has
a definition that is not visited, or is the tag of a member that is met too
early, and which has the tags of all its members.

### 2.6 Calls

`CallConvention` is parameterised by `ParamType`, what an ABI makes of a type;
`ArgClasses` defines it for both ABIs, and `MC_ConventionCheck` brings them
together. The parameters are chosen one at a time and counted as
`getFunctionParams` does. Then `CreateFunction`, the actions of `FnCall`
(`PassParts`, `PassPointer`, ...) and those of `FnDef` (`DefinePointer`, ...)
each walk over the result with a position of their own, as the code does; a
value is a parameter and a set of its bytes. `Allocate` stands for LLVM's
backend, which hands registers to the parts it is given.

### 2.7 The preprocessor

A directive is one step, a line of text one step per token; a condition is a
tree that is rendered to tokens, from which `_evaluateExpression` takes what it
takes. An included file is run by a preprocessor of its own, with the one that
waits in `callers`. Macros may lead back to themselves or each other. The
`Operators` are all binary operators of a condition; a division by zero is 0, and
what follows `#elif` behind an `#else` is processed as text, as in the code.
`PreprocessorCheck` says what C makes of the whole source: which group of each
section is processed, which macros are defined where, what the output is. It is
a function of the source and follows no state.

### 2.8 The driver and the test harness

`Driver` keeps of a pass only its files and its way out: an exception, an
`exit`, a message after which `main` goes on. A message may also be no more than
a warning (of an architecture that the code generator does not know, or
`clang`'s), and a file may be half written when the disk is full. `Compiler` has
a single step, to one of the outcomes; `Driver` implements it under the mapping
that shows the caller nothing until the process has ended (`Caller`).
`TestRunner` uses the outcomes of `Compiler` for the children it starts. The two
are composed that way and not as a product: a process is seen through its exit,
its stderr and its files only.

In `TestRunner` each test has a `stage`, the program it runs or that it has
ended. A child exits, or is killed at its timeout with a file perhaps half
written. Any step of `run_test` may raise (a driver outside the folder of the
tests, a folder or a log that cannot be made, a program that is not installed),
and so may writing a result; the exception leaves `run_tests`, but the pool's
threads go on with the queue until it is empty. `RemoveTree` is
`shutil.rmtree` with `ignore_errors`: it leaves any of the files it should remove,
so that those of an earlier run (at most `Leftovers` tests have any) may be there
when `rcc` and the linker write theirs. `said` notes that `rcc` has exited with 0
and has written something to its log of stderr.

## 3. What TLC checks

### 3.1 The runs

| Run | Bounds | Distinct states | Shows |
|---|---|---|---|
| `flow` | functions of 3 statements of all kinds, and of 5 without loops, `return` and `if` without `else`; 4 deep, 16 blocks | 0.67 M | `FunctionIsClosed`, `ContextMirrorsFrames` and `NoCodeAfterTerminatorOutsideSwitch`; `FlowPreserved`: what control reaches is reached in the same order; `DroppedItemsAreDead` |
| `scopes` | 2 identifiers, 1 enum tag, 3 declarations, 3 scopes deep | 1.57 M | every use in each pass is of the declaration visible in C, but for what leaks, and that only until the item ends around the leak; after a function only file scope is left |
| `expressions` | all values of all 11 integer types at widths 1, 2, 2, 3, 4 and 4; 2 pending operands | 11 k | casts and operators have the types and values of C |
| `objects` | 5 operand types, 6 types of the object, widths 1, 4, 4, 5, 6 and 6 | 72 k | the same for assignments and increments |
| `expr_blocks` | expressions of 5 calls | 45 k | `PhisNamePredecessors`; `EvaluatesAsC`, for every outcome of the calls |
| `declarations` | 4 declarations of one object and two functions, at file scope, in a body and in a block in it; types of 11 shapes; initializers of 3 items and 2 levels; constant expressions of 2 operators | 0.17 M | linkage and existence of symbols, one object per identifier of C, initial values on both paths |
| `struct_tags` | 2 tags, 4 items, 2 scopes | 0.49 M | one identity per structure, legal programs are accepted, uses see a complete type, which never changes its name |
| `call_convention` | 3 parameters of 14 types, 7 return types, 2 registers of each kind, both ABIs | 0.38 M | arguments and results arrive, structs are not split, classes and places are those of the System V ABI |
| `preprocessor` | 4 lines, 2 object-like macros that may lead to themselves or each other and a function-like one, 1 level of inclusion; one condition of up to 2 operators | 0.33 M | groups, macros and output are those of C; skipped groups do nothing; `Process` returns, but for minus signs and cycles of macros |
| `driver` | 2 included files | 558 | a lost output is said, a failure keeps the output or leaves it half written, `Driver` implements `Compiler` |
| `test_runner` | 3 tests, no pool or 2 threads, output of 1 test left from before, any file that stays, any exception | 1.19 M | the report is complete and closed last, a pass runs what was linked in this run, old code is said, the harness ends |
| `terminator_rule` | `switch`, labels, `return`, expressions and braces; 4 statements | - | the finding below |

Three statements are enough for every pair of a statement and its parent with a
sibling, which is what the code's conditions look at: the end of one child, one
saved context, one merge block. Labels need more (a switch, two labels, a jump
and a nested statement), hence the second sort of functions in `flow`. Two
identifiers tell a shadowed name from an untouched one, and three declarations
give the positions before, inside and after a scope. A program of `Expressions`
may be of any length: the bound is on pending operands, and TLC finds all
reachable states. The widths keep the order of the real ones; `_Bool` is one
bit, as in `getTypeSize`. In `objects` a `char` is wide enough for the shift
counts of an `int`, as it is in reality. Five calls let every operator be each
operand of every other one, and operands on both sides have blocks of their own.
Four declarations are a declaration, a tentative definition, a definition and a
use of one name from a block. Two registers and three parameters make either
kind run out in front of, in and after a struct of two parts, which is where the
counting can differ; the types fill both kinds, straddle eightbytes, have holes,
and go to memory. Four lines are a condition with a second group, a line in it
and its end. A third test makes one wait for a thread of the pool.

Deadlock is checked in every run but `declarations`: there a unit ends when it
has its declarations, and a throw ends the compilation. Elsewhere what may end
says so by an action of its own (`Stopped`), or every open construct can be
closed.

Fairness is stated where something has to happen. `Process` is a loop of one
thread, so `Preprocessor` has `WF_vars(Next)`, and
`ProcessReturnsButForMinusAndCycles` says that it returns except from a
condition with a minus sign and when macros lead back to themselves. `Driver`
has `WF_vars(Pass)` for the same reason: the passes behind the preprocessor are
recursions over a finite tree. `TestRunner` assumes of the main thread that it
takes results (`as_completed` wakes it), of each thread of the pool that it
starts what is next, and of a child process only that its timeout comes: nothing
says that `rcc` ends, and `Terminates` holds without it.

### 3.2 Where the code departs from C

A property whose name ends in `But...` holds for every program in which none of
the cases below is met. Each case is a condition in the module of the property,
as narrow as TLC allows: without it the property is violated.

| In | The code |
|---|---|
| `ScopeCheck` | the type of a `for` variable outlives the loop (`TypeChecker.cpp:1315`), and a function declarator in another declarator retypes an object of its name (`TypeChecker.cpp:238`), both until the item ends in which they stand; mentioning an enum makes its constants visible again (`CodeGenModule.cpp:219`); the constants of an enum in a typedef are unknown (`CodeGenModule.cpp:636`); typedef names have no scope (`lexer.l:24`) |
| `ExprCheck` | `unsigned long` and `long long` have a signed common type (`TypeChecker.cpp:1449`); shifts convert both operands to a common type (`CodeGenModule.cpp:802`); conversion to `_Bool` keeps the lowest bit (`CodeGenModule.cpp:2815`); `c++` adds an `i32` to an `i8` (`CodeGenModule.cpp:1724`); `++i` is not stored (`CodeGenModule.cpp:1826`); `c /= i` divides in the type of `c` (`CodeGenModule.cpp:720`); the value of `i += j` is `j` (`CodeGenModule.cpp:768`) |
| `ConstEval` | a hexadecimal constant is 0 (`stoull` in base 10), a suffix `u` is ignored, truth values and characters are `uint64_t`, both operands of `&&` and `||` are evaluated, `int` does not wrap |
| `DeclarationCheck` | initializers with braces left out, or put around a scalar or a literal; a `_Bool` from a constant above 1; static objects from an address, an enumeration constant or of enumeration type are rejected; a literal shorter than its array, where the object is initialized by stores |
| `StructCheck` | a mention of an undeclared tag makes a structure nobody else has (`TypeChecker.cpp:427`); `struct t;` in an inner scope shares the identity of the outer `t`, although `TypeChecker.cpp:156` says that it shadows it; a structure defined among the members of another, or in a typedef, is not laid out; a structure declared before its members' types gets its members too early; so does, in turn, one with members of such a type |
| `ConventionCheck` | padding inside an eightbyte is added up wrongly, so bytes behind it can be lost (`X86_64ABI.cpp:316`); two floats in an eightbyte, and a pointer to a struct on the stack, count as an integer register; `long double` counts as an SSE register, and a struct of one throws; a nested struct off an eightbyte boundary is classified by eightbytes of its own |
| `PreprocessorCheck` | what follows a space in `#elif` is ignored; `defined (X)` leaves its bracket, and other brackets what is in them; `0 && 1 || 1` is 0; `!2` is true; a division by zero is 0; a minus sign never ends; an object-like macro that leads back to itself is expanded for ever, since only macros with parameters are pushed on `mContextStack` (`Preprocessor.hpp:1550`), and in a condition any macro that does recurses without end; a function-like name without a call blocks its macro for good; arguments of several tokens, or named like a parameter; included files have macros of their own |
| `Driver` | a failing link, or an output that cannot be written, is printed, and the run ends with "Compiled to:" and exit 0 (`main.cpp:85`); a warning of the constructor (`CodeGenModule.cpp:87`) or of `clang` is printed too, with a whole output: `LossIsSaid` is all a caller has, and its converse does not hold |
| `TestRunner` | files that `rmtree` could not remove are used (`test.py:213`, `test.py:473`): a test passes with old code if `rcc` cannot open its output, and only its log says so, which nobody reads |

`TypedefNamesAreKnown` says that every typedef name is known to the lexer; its
converse does not hold, for the reason given. Undefined behaviour of the
preprocessor (`#elif` or `#else` without `#if` reads the top of an empty stack)
is left out.

One run shows a disagreement with the repository's own words:

| Run | Violated | What happens |
|---|---|---|
| `terminator_rule` | `NoCodeAfterTerminator` | inside a `switch`, an item after a jump is inserted into the terminated block: in `switch (x) case 1: { return 0; x; }` the expression follows the `ret` |

The comment of `BlockItemList` (`CodeGenModule.cpp:1875-1877`) speaks of "trying
to insert a statement after a terminator" and excepts a `case`, which begins a
block; its guard (1878-1879) visits every item while a `switch` is open. The
property leaves out the blocks that hold a `switch` instruction, in which what
stands before the first label goes. The disagreement is benign for what is
executed: in `flow` the extra instructions are there too, and are never reached.

## 4. What is proved

### 4.1 Statements (`ControlFlowProofs`)

For every value of `Kinds`, `MaxStmts`, `MaxDepth` and `MaxBlocks` that
satisfies `BoundsAreNat`:

- `Invariant`: `Spec => []IInv`, which no run repeats
- `TypeCorrect`: `Spec => []TypeOK`
- `Closed`: `Spec => []FunctionIsClosed`
- `NothingAfterTerminator`: `Spec => NoCodeAfterTerminatorOutsideSwitch`
- `ContextIsOfOpenStatements`: `Spec => []ContextMirrorsFrames`
- `DroppedAreDead`: `CheckSpec => []DroppedItemsAreDead`, of `FlowCheck`

`FunctionIsClosed` speaks of finished functions and says nothing while one is
being visited, so it is not inductive. What makes it true is a debt: a block
that was created but not inserted is in a local variable of exactly one active
visit method, which will insert it. `IInv` states that as follows.
`Kept(f)` are the blocks the method of frame `f` may still insert, `Owed(f)`
those it inserts whatever comes; the two differ for the merge block of an `if`
with an `else`, which is inserted only if a branch falls through.
`TargetsHaveHomes` says that every branch, label and entry of the two stacks
leads to an inserted or an owed block, `KeptBlocks` that no two methods keep
the same block and that kept blocks are not inserted yet, `FreshAreEmpty` that
what is not inserted is empty, and `BlocksClosed` that only the insertion point
may lack a terminator. `StackHeights` and `StartsOpen` (a child starts in an
open block unless a switch is open) complete it. When the last frame is popped
nothing is owed, so all targets are inserted.

The proof has a lemma per action, and under it a step per part of the
invariant that the action can disturb. Lemmas on `Append`, on popping and on the
sets `Homes`, `Kept` and `Height` come first. `NothingAfterTerminator` follows
from `IInv` with the same split: outside a switch each action either writes to
a block it has found open or to a fresh, empty one.

`ContextMirrorsFrames` says of the two stacks what is needed to go on, but of
`currentSwitch_` only what it is now: when a switch ends, what it becomes is
what the `ScopeGuard` saved. `Context` adds that each open switch has saved the
switch around it (`Remembers`). A statement's place in a stack is the number of
statements of its kinds that are open around it (`Rank`), which no statement
inside it changes; the proof opens, closes or keeps the top of the call stack
(`PushContext`, `PopContext`, `SameContext`), and each action is one of the
three.

`DroppedItemsAreDead` compares the code with C: where `BlockItemList` would drop
an item, no end of the source leads there (`pend`), and no switch of the source
is open that could jump to it. The code only sees whether the insertion block is
terminated and whether `currentSwitch_` is null, so the invariant `Both` says
what these mean in the source. `Mirror`: the statements that C has open are the
frames but for braces and labels, in the same order (`Tracks`, by `Rank` again).
`DeadEnds`: outside every switch nothing arrives behind a terminator. That is
not inductive, because the second branch of an `if` gives back what ended the
first (`held`) when the frame is popped; `FirstLeft` adds that nothing is held
where the first branch did not fall through, which is when `ExitElse` stays in a
terminated block. `Numbered` rules out a switch with the number of no switch, so
that `currentSwitch_` is null only outside all of them. Each action opens, closes
or keeps the top in both (`BothOpen`, `OneOpens`, `BothClose`, `OneCloses`,
`NoneCloses`), and either ends in an open block (`StartsAlive`, `LeavesAlive`) or
leaves nothing pending.

### 4.2 Calls (`ConventionProofs`)

For any types, any number of registers and parameters, and any `ParamType` that
satisfies `ParamTypeAssumption` (a type becomes one part, or, if it is a struct,
two that are integers, floats or vectors):

- `RegistersAreCounted`: `Spec => []IInv`
- `StructsStayWholeTheorem`: `Spec => []StructsStayWholeButForVectors`

That a struct stays whole depends on two counts that nobody compares: the ABI
class decides by its own counters whether a struct fits, and LLVM hands out
registers by its own. The invariant relates them: as long as no parameter has a
vector (`HasVector`, a pair of floats, which the ABI class counts as an
integer), LLVM has given away no more registers of either kind than were
counted (`CountersCoverBackend`). A struct that fits by the counters then fits
in LLVM. The first lemma is about counting: the parts of the two kinds together
are all parts. A pointer to a struct on the stack is counted and takes no
register, which only makes the counters larger; the registers may be left
unused, but nothing is split.

- `WalksMeetTheorem`: `Spec => []WalksMeet`
- `ArgumentsArriveTheorem`: `Spec => []ArgumentsArrive`
- `TypeCorrect`: `Spec => []TypeOK`

`ArgumentsArrive` is about three walks over the same parameters: `createFunction`
appends the parts of each to one list, `FnCall` appends arguments, `FnDef` reads
them with `argPtr`. Each advances by a rule of its own (`FnCall` by what the type
is and how many parts it has, `FnDef` by whether the LLVM parameter it looks at
is a pointer), and no code compares their positions. The invariant `WalksMeet`
names what they share: `start[i]`, how many LLVM parameters the first `i` of
`actualParamTypes` became (`Starts`). `createFunction` wrote the parts of
parameter `i` after `start[i - 1]` (`WrittenOut`), what was passed there belongs
to that parameter (`Passed`), and `FnDef` reads from there (`Defined`). For the
last it matters that two parts are never a pointer, so that a parameter of which
`FnDef` sees a pointer is one part, and that what is not a struct is one part
(`ParamTypeAssumption`, which TLC evaluates for both ABIs). The list is defined
by recursion over the parameters, so the facts about it (`StartsGrow`,
`FlatEntry`) are proved by the least parameter that would be a counterexample
(`LeastOf`). TLC checks `WalksMeet` on the instance of `call_convention` (0.38 M
states).

The other properties of `call_convention` depend on the layout of types, which
is recursive, and are model-checked.

### 4.3 The driver (`DriverProofs`)

For any number of included files (`IncludesAssumption`):

- `TypeCorrect`, `LossIsAlwaysSaid`, `FailureKeepsTheOutput`: the three
  invariants of `driver`
- `Refinement`: `Spec => Caller!Init /\ [][Caller!End]_(Caller!vars)`, the
  safety part of `ImplementsCompiler`

`LossIsSaid` speaks of the last state, and the passes before it have to hand it
on: nothing is written before the emission (`NothingYet`), the linker finds the
output untouched and a whole object unless something was said (`LinkerInput`), a
run that is about to report has the output, or has complained (`Results`), and
one that fails has the old output or, if it is not to be linked, half of a new
one (`Failures`). For the refinement, a step between two running states leaves
what the caller sees unchanged, and a step to the end has by the invariant one
of the outcomes of `Compiler`.

### 4.4 Names (`ScopeProofs`)

For any identifiers `Id` and tags `Tag` that have nothing in common
(`TagsAreNotIds`), any `Features`, any number of declarations and any nesting
(`BoundsAreNat`), and of `CheckSpec`, in which the compiler and C take each item
together:

- `TypeCorrect`: `CheckSpec => []TypeOK`
- `TypesAreThoseOfC`: `CheckSpec => []TypesFollowCButForLeaks`
- `SymbolsAreThoseOfC`: `CheckSpec => []SymbolsFollowCButForEnums`
- `TheLexerKnowsTypedefs`: `CheckSpec => []TypedefNamesAreKnown`
- `ScopesAreBalanced`: `CheckSpec => []FileScopeIsRestored`

These are all the properties of the run `scopes`. They speak of what is found
now, and leaving a scope brings back what was found before it, so none of them
is inductive. Comparing the tables scope by scope does not help either: a `for`
opens one scope in `typeContext_`, two in C, and none in `symbolTable_` when it
is skipped. The invariant `IInv` therefore says that there are *levels*: for
each table, how high it was when each of the open items had been entered
(`Levels`). At every level the tables agree, `TypesAgree` for `typeContext_` and
C, but for what is in `leaks` at that level, `SymbolsAgree` for `symbolTable_`
and C where the code generator goes on (`Visits`). A declaration changes what
the innermost scope says and nothing below it; entering an item adds a level
that says what the one below says, plus the parameters or the variable of the
`for`; leaving it drops a level, and the agreement at the next one was there all
along. That is why a leak may last only as long as the item around it: what an
item has leaked is dropped with its level, and as long as it goes on nothing is
taken from its leaks (`LeaksGrow`), so that what was excused at a level stays
excused.

The code generator adds the rest. What is in a skipped item is skipped, and the
block stays terminated until the outermost skipped item is left, because no
`switch` is open around it (`SkippedItems`); so nothing is declared in
`symbolTable_` at a level at which it does not agree. `Names` has what the
departures need: the entries of tags are enums, entries have the name they are
under, and typedefs are known to the lexer.

The lemmas are about `Within`, which finds a name in the outermost n scopes:
`Max` of a set of scopes is its greatest member, for which the proof goes
through the well-foundedness of the natural numbers, because `Max` is a
`CHOOSE`; what is put in the innermost scope, pushed or popped leaves `Within`
of the others alone.

### 4.5 The test harness (`TestRunnerProofs`)

For any number of tests and of threads (`SizesAssumption`), with and without
the pool, whatever files stay and whatever is raised:

- `TypeCorrect`, which bounds the tests in progress by the threads
- `TheReportIsComplete`: `Spec => []ReportIsComplete`
- `NothingRunsOnceTheReportIsClosed`: `Spec => []NothingRunsAfterReport`
- `APassRunsWhatWasLinked`: `Spec => []PassRunsWhatWasLinked`
- `OldCodeIsAlwaysSaid`: `Spec => []OldCodeIsSaid`

They are the safety properties of the run `test_runner`. The invariant has two
halves. `Order` is about the report: without a pool a test begins only when all
before it have been written (`InOrder`), nothing has begun until `rmtree` has
been over the output folder (`CleanAtFirst`), and the file is closed last
(`ClosedAtTheEnd`). That the report has an entry for each test when the loop
ends is a matter of counting: a sequence that names every test, and none twice,
is a bijection, hence as long as there are tests (`AllWritten`). `Fresh` is
about the files, which are whatever `rmtree` has left until `rcc` and the linker
have exited: what is in the folder for a test depends on its stage
(`FilesByStage`). Behind `rcc`, code of an earlier run is there only if `rcc` has
exited with 0 and said that it could not write (`WhatRccLeaves`, from the outcomes
of `Compiler`); behind the linker, the program is that of the code. A killed
child may leave half a file, but its test has then ended.

### 4.6 Blocks inside expressions (`ExprBlocksProofs`)

For any `BinaryOps` among those that are modelled (`BinaryOpsAreKnown`) and
expressions of any size (`MaxCallsIsNat`), of `Spec` of `ExprBlocks`, to whose
steps the run `expr_blocks` adds only what C asks for:

- `Invariance`: `Spec => []IInv`
- `TypeCorrect`: `Spec => []TypeOK`
- `PhisAreRight`: `Spec => []PhisNamePredecessors`
- `ExpressionsAreClosed`: `Spec => []ExpressionIsClosed`, which no run repeats

A phi is written in the step in which the second of its blocks branches to it;
what names the first is a local variable, stored some visits earlier. In
between, the operand may have created any number of blocks. What makes the phi
right at the end is that a visit *holds* blocks (`Held`): it has created them,
control has not reached them, and they are in the local variables of no other
visit. They are empty, and whoever branches to the block "after" of a visit is
this visit: nobody before the last operand, then the one block that `lhsBB`
names (`VisitOK`, `VisitsHold`). The block with the insertion point is still
open, so it is not the one that `lhsBB` names, and the two predecessors differ.
A phi that has been written stays right since nobody holds its block any more,
and only blocks that are held get new predecessors (`PhisAfter`).

`BlocksAreClosed` is the other half: a block is held, or it is the one that is
written, or it has its terminator and is in the function. When the outermost
visit has returned nothing is held. `LeavesAreCounted` has what `TypeOK` says of
the bound: how many calls there would be if only the i outermost visits went on.

A step is described once (`Extends`: something is put at the end of one block,
blocks that were empty begin), with what follows for predecessors, phis and
visits; then a visit begins, goes on or returns (`Begins`, `Continues`,
`Returning`); an action is one of these with its instructions.

### 4.7 Struct tags (`StructProofs`)

For any tags, any number of items and any nesting (`BoundsAssumption`), of
`CheckSpec`, in which the compiler and C take each item together:

- `Invariance`: `CheckSpec => []IInv`
- `IdentitiesAreThoseOfC`: `CheckSpec => []SameTypeButForDepartures`
- `DefinitionsAreAccepted`: `CheckSpec => []NothingIsRejectedButForDepartures`
- `IdentitiesHaveSources`: `CheckSpec => []Sourced`
- `TablesFollowIdentities`: `CheckSpec => []GInv`
- `UsesAreLaidOut`: `CheckSpec => []UsesAreLaidOutButForDepartures`
- `FoundTypesAreStable`: `CheckSpec => TypeFoundIsStable`

`Sourced` and `GInv` were checked with TLC before they were proved. The last
four properties are all that the run `struct_tags` checks.

For the type checker. `SameTypeButForDepartures` compares two nodes; the next
node takes its identity from `typeContext_`, or from a variable, and both may be
of any age. So `IInv` is about *pairs* of a structure of C and an identity: those
of the entries in the two stacks of scopes, of the variables and of the nodes.
`Matched` says that no structure outside `departed` has two identities, nor the
other way round, `GivenOut` that `nextID` is in no pair, which is why a new
identity fits the rest, and `Completed` that a structure is complete exactly if
its identity is in `structMap_`: a definition is refused when its identity has
members, an access when it has none. `Aligned` says that a tag is in a scope of
`typeContext_` if it is in that scope in C, but for a mention; without it a
definition could find an identity where C has none. An item adds a pair or two,
which are a pair that is there or have a part that is in no pair. The scopes that
are left only take pairs away, the nodes keep theirs.

For the code generator. It sees nothing of C, only the nodes and `structMap_`;
`Sourced` is all it needs of them: an identity is of one tag (`OneTag`), an object
or an access has an identity with members, an access has that of an earlier
declaration, and the member of a structure has an identity with members that an
earlier node gives its tag (`NodeIs`). That last conjunct comes from C: the member
has a complete type, hence one that was found in a scope, and what is there was
put there by a node (`Entries`, `Finished`). The tables follow one set of fully
visited tags at a time (`GInv`): the list of a tag is not empty once it is there,
its k-th identity has the type with the number k - 1, no other number of the tag
is a name (`Tables`), and each type specifier that was visited is in its list
(`ListedTo`). The empty list that `operator[]` makes in `getLLVMType` would break
this; for such tags nothing is asked for before it is visited (`MemberSeen`),
which is where `Early` is needed. What is done for other tags does not touch
these tables, since a name begins with its tag (`NamesDiffer`, `GetOther`). A
list only grows at its end, and by what is not in it, so that the place of an
identity, and with it its name, stays (`GrownNames`).

The proof of `UsesAreLaidOut` changed `StructCheck`: that a tag has no member of
a tag that is not laid out is not enough, the members of that member must be
laid out too. TLC needs more than the run's four items to meet the difference;
with this definition it passes 2 tags, 5 items and 2 scopes (12.5 M states) and
3 tags, 5 items and 1 scope.

### 4.8 Declarations (`DeclarationProofs`)

For any identifiers, any shapes, any number of declarations and any nesting
(`NamesAreDistinct`, `PlainAreShapes`, `BoundsAreNat`), of `CheckSpec`, in which
the compiler and C read each declaration together:

- `TypeCorrect`: `CheckSpec => []TypeOK`
- `GlobalsAreThoseOfC`: `CheckSpec => []GlobalsFollowC`
- `IdentifiersAreThoseOfC`: `CheckSpec => []IdentifiersDenoteTheirObjects`
- `InitialValuesAreThoseOfC`:
  `CheckSpec => []InitialValuesFollowCButForDepartures`, if `StaticFollowsC`,
  `AutoFollowsC` and `NullIsOfTheType`

Of the initializers the proofs assume what the code does with any of them:
a static object gets an initializer unless it is only declared `extern`
(`OnlyExternHasNoInit`: `InitDecl` takes the null value when there is no
expression), and an automatic object whose type fits is stored without an
exception (`StoresDoNotThrow`: `visitAsStore` does not ask for a constant). Of C
they assume that an object has a value (`ValuesHaveScalars`). The rest
(`HasInitIsTruth`, `IsDepartureIsTruth`) says that the operators are Boolean.

The code has no notion of an entity: `InitDecl` looks for a global with the
identifier's name, at file scope and for `extern` in a block, and takes a
counter for a name that has to be new. The invariant (`Matching`, as long as
nothing was thrown) ties each entity of C to the module. `Identified`: an entity
with linkage has the global of its name, one without has a name with a number
below the counter that gave it out (`Place`, `Behind`), so that a new object has
a name of its own and no two entities share one (`Distinct`). `Mirror`: scope by
scope, an object is in the symbol table where it is in C; that the lookup agrees
follows from the innermost scope that has the name (`MeantIsInnermost`,
`LookupIsInnermost`). `FunctionsMatch` and `ObjectsMatch`: the symbol of an
entity with linkage exists, with that linkage, and with an initializer exactly
if C has given it a value by now, and no symbol at file scope is without an
entity. The last is what makes a later declaration right: if C has no entity of
the name yet, neither has the module a global with some other declaration's
linkage. A step declares an entity for the first time, declares it again or
makes a local one (`MatchedNew`, `MatchedAgain`, `MatchedLocal`), or opens or
leaves scopes. TLC checked `IInv` on the units of the run `declarations` before
it was proved.

`InitialValuesAreThoseOfC` takes the values of units apart from the values of
initializers. Its hypotheses are about one initializer at a time: `eval()` gives a
static object the value of C (`StaticFollowsC`), the stores or the copied
constant give it to an automatic one (`AutoFollowsC`), both but for departures
and for what C or the type check does not allow, and the null value is the same
for two shapes of one type (`NullIsOfTheType`). They are hypotheses of this theorem
and not assumptions on the constants, so that no other result rests on them.
The run `declarations` checks them with the property, shape by shape, since it
offers every shape as the only declaration of a unit; that they hold for any
initializer would be an induction over initializers. The conclusion is about any
unit: a value is neither lost nor replaced when a global is found again, completed
by a later definition or only declared in a block, when local statics of one name
follow each other, and when an aggregate is copied from a constant whose name
comes out of the same counter. The invariant `VInv` adds to `Matching` that each
object has the value of its entity unless that departs (`HasValue`), that no static
name is taken whose number the counter has not passed (`StaticsBehind`: otherwise
a new local static would find, and share, an old one), and that a tentative
definition has left null (`IsNull`). The last is not in the property and it is
needed: the code keeps what the first one left and the rules take the later one,
which agree only because both are null. TLC checked `VInv`
and the three hypotheses on the run `declarations` before they were used.

### 4.9 Only model-checked

- What is compared with an abstract specification that is recursive over the
  program: the flow graphs (`FlowPreserved`), the values of expressions
  (`ExpressionsFollowCButForDepartures`), the evaluation of `&&`, `||` and `?:`
  (`EvaluatesAsC`), the layouts and classes of the calling conventions, and all
  of the preprocessor. Of the declarations these are what a single initializer
  evaluates to (the hypotheses of `InitialValuesAreThoseOfC`) and, since what is
  thrown depends on nothing else, `NothingIsRejectedButForDepartures`.
- What needs fairness: `Terminates`, `ProcessReturnsButForMinusAndCycles` and the
  fairness in `Compiler`, since TLAPS does not reason about `ENABLED`.

## 5. What is not modelled, and why

- Floating values, pointer arithmetic, member access and array subscripts:
  expressions are integers. Conversion between integer and floating types is in
  `runCast`, but TLA+ has no floating arithmetic to check it with.
- The blocks of `ExprBlocks` inside those of `ControlFlow`: a statement of
  `ControlFlow` evaluates in one instruction. An expression enters and leaves at
  one place (`EvaluatesAsC`), so that the statement around it sees no more than
  another insertion point, which every statement with a child expects anyway.
- Unions (laid out as structures by the code), designators (the parser drops
  them), arrays without a length, bit-fields.
- A function declared `int f();` and called or defined with parameters.
- In the preprocessor: variadic macros, `#` and `##`, `__LINE__`, custom
  directives, comments and continued lines.
- In the driver: whether the temporary file of the preprocessor is whole. It is
  "new" also when the disk was full, and what was cut off is not looked at; nobody
  checks the stream (`main.cpp`).
- In the harness: an error while the last line of the report is written; the
  progress bar, the coverage server, and `make`, which `test.py:4` announces and
  nothing calls.
- The grammar and the lexical rules: generated by bison and flex. The grammar
  accepts `goto` but builds no node for it.
- `AST/Printer`: formatting only. The classes of `AST/`: data.
- LLVM is modelled from how the code uses it: blocks, terminators, `switch`
  cases, integer instructions and casts, globals, named types, the passing of
  parameters.

## 6. Plan

1. The facts about `runUsualArithmeticConversions` for all sizes.
2. Variadic macros and stringification in `Preprocessor`.

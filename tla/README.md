# Fault: a TLA+ model of the compiler

Fault compiles specifications (`.fspec`, `.fsystem`) into an SMT problem whose
solutions are scenarios in which the specification fails. This directory models
the parts of Fault that keep state, checks them with TLC on small instances and
proves what holds for all instances with TLAPS.

## 1. Inventory

The pipeline (`main.go`) is a sequence of passes over one model; no pass runs
concurrently with another. What is hard is inside the passes: long chains of
legal calls on shared mutable fields, calls that are deferred, and iteration over
Go maps, whose order is not determined.

| Part | State | Operations | Used by |
|---|---|---|---|
| Parser, lexer (`parser/`, generated) | token stream | parse | listener |
| Listener (`listener/`) | stack of AST nodes | push/pop per parse event | preprocessor |
| Preprocessor (`preprocess/`) | `SpecRecord`s, scope, instances | name, partial instances, collapse nested conditionals | type checker, compiler |
| Type checker (`types/`) | spec structs | infer, lookup | compiler |
| Reachability (`reachability/`) | `Tracer`: graph, undefined | `walk`, `check` | `main.go`, optional |
| LLVM compiler (`llvm/`) | current block, parallel group, allocation tables | compile statements to blocks | SMT generator |
| SMT generator (`smt/generator.go`) | callstack, group, `inPhiState`, `returnVoid`, `parallelRunStart`, forks, `RoundVars`, `Results` | parse functions, blocks, instructions | solver driver, display |
| SMT variables and forks (`smt/variables`, `smt/forks`) | SSA numbers, phi stacks, choices | `GetSSA`, `AdvanceSSA`, `NewPhi`, ... | SMT generator |
| Assertions (`smt/asserts.go`) | rules | expand over rounds, temporal filters | SMT generator |
| Solver driver (`execute/execute.go`, `responses.go`) | stack of terms, results | two runs of the solver (`Check`, `Solve`), listener on the answer | display |
| Display (`execute/format.go`, `history.go`) | branches, traces | `LoadMeta`, `deadBranches`, `generateRows`, `Mermaid` | user |
| Command line (`main.go`) | mode, input | flags, the phases in order | user |
| Visualisation (`visualize/`) | - | format | user |

How they interact: the compiler hands the generator an LLVM module; the generator
hands the solver text and the display a list of forks and `Results`; the display
combines the forks with the solver's model. The display never sees the phi numbers
of the generator and computes them again from the forks.

What makes each part correct:

* SMT generator: every rule reads the version of a variable that reaches it, on
  every path through branches and permutations; the phi at the end of a fork is
  equated with the ends of exactly the paths through it; every version is declared
  once and recorded in one round; each block is parsed once; no call is lost.
* Display: what is shown is the path that the solver's model takes, all of it, in
  order.
* Reachability: the verdict does not depend on the order of the walk, and a state
  that is reported is unreachable.
* Parser and listener: a handler takes from the stack what its own children left
  there, whatever the tree, and the scope in which it names things is that of the
  contexts that are open.
* Preprocessor and compiler: rewriting ends, and the blocks of a conditional run
  what was written.
* Assertions: the clause that is written is true exactly in the runs that break the
  assertion, or keep the assumption.
* Command line and solver driver: what is said about the formula is what the solver
  found, a run ends, and the values of a model are kept as they were given.

The hazards, each with its line, are listed in `PROJECT.json`.

## 2. Modules

| Module | Models | |
|---|---|---|
| `SmtVariables` | `smt/variables/variables.go`, `smt/forks/forks.go` | operators on one variable's SSA number, phi stack, choices; `PhiState` |
| `SmtGenerator` | `smt/generator.go` | state machine, uses `SmtVariables` |
| `Reachability` | `reachability/reachability.go` | state machine |
| `Scenarios` | `execute/execute.go` (`LoadMeta`), `format.go`, `history.go` | state machine |
| `ParseTrees` | ANTLR's trees and walks (external) | operators |
| `FaultGrammar` | `parser/fault_parser.go` | the alternatives of every rule |
| `Listener` | `listener/listener.go` | state machine over the trees of `FaultGrammar` |
| `Conditionals` | `preprocess/preprocess.go`, `llvm/compiler.go` (conditionals) | state machine; recursive operators on a heap |
| `Asserts` | `smt/asserts.go`, `util/util.go`, `compileAssert` and `negate` in `llvm/compiler.go`, constraints in `listener/listener.go` | state machine for rounds; the clauses as operators |
| `SmtlibGrammar` | `execute/parser/smtlibv2_parser.go` (models) | the alternatives of a rule |
| `SmtListener` | `execute/responses.go` | state machine over the trees of `SmtlibGrammar` |
| `Pipeline` | `main.go`, `execute/execute.go` | state machine, composed with `SmtListener` |
| `Verdict` | - | abstract: what a run promises; `Pipeline` implements it |
| `MC*` | - | constants for TLC |
| `*Proofs` | - | theorems and proofs |

Definitions named as mutants are deliberately wrong variants of the definition
that follows them. Nothing uses them; they serve to try whether a property notices
the mistake.

### SmtGenerator

The Go code is a recursion: `parseFunction` calls `parseBlock`, which calls
`parseInstruct`, `executeCallstack` and `parseTermCon`, which call `parseBlock` and
`parseFunction` again. The model keeps the calls still to be made in `agenda`; an
entry holds the local variables of the Go call that it stands for, such as the
rules collected by the caller. One action executes the head of the agenda: the
piece of the Go function between two of its recursive calls. The order of actions
is therefore the order of the code; the only choices are the program and the order
in which `capCond` and `capParallel` range over a map.

| Variable | Go |
|---|---|
| `ssa`, `phis` | `VarData.SSA`, `VarData.Phis`; a missing entry is `Absent`, `<<>>` |
| `level`, `returnVoid` | `inPhiState`, `returnVoid` (both `PhiState`) |
| `runStart`, `callstack`, `grouping` | `parallelRunStart`, `localCallstack`, `parallelGrouping` |
| `forks`, `rounds`, `results` | `forks`, `RoundVars`, `Results` |
| `trail` | the versions in the list of rules being built, which `buildForkChoice` extracts with `allStateChangesInRule` |
| `declared` | the `declare-fun` lines |
| `panicked` | an index out of range |
| `cur`, `seen`, `visits` | history: the version a path really has, the reads and merges of the last step, how often a block was parsed |

`cur` is the specification side of the module. It is set back to its value at the
start when the else branch or the next permutation begins, as an execution of the
model would, while the code goes on with its counters. `ReadsCurrent` and
`MergesPathEnds` compare the two.

Rules are abstracted to the versions they mention, expressions to their operands,
an LLVM module to blocks of instructions and terminators. Blocks are laid out as
`compileIf` lays them out (entry, after, true, false), as is the use of an after
block or an else.

Some properties hold of classes of LLVM modules only. The classes are predicates on
the module (`Initialised`, `NoCopies`, `OwnState`, `Sequential`, `CallsLast`,
`NoElse`), which the theorems of section 5 have as hypotheses; no action uses them.
`ClassesAssumption` in `MCSmtGenerator` says which modules of the run `smt_paths`
are in which class.

### Reachability

One action per case of `walk`, per state of a component and per transition. The
states of a component are taken in any order. A chain of `advance()` calls is an
`InfixExpression`, for which `walk` has no case.

### Scenarios

The display of one variable: one action per fork loaded, branch examined, phi
removed and row placed. Values are uninterpreted. A trail is a set, because
`AddChoiceValue` keeps it sorted. Weights only decorate a row and are left out.
`ForksInOrder` and `OneTaken` say what the code takes for granted of a trace: that
the forks are numbered as the generator numbers them, and that the model of the
solver goes through one branch of each. `AnswersAssumption` in `MCScenarios` checks
that the traces of the run are such.

### Parse trees and the listener

A rule of a generated parser is a set of alternatives, an alternative the context
it makes and its children; tokens are kept because handlers count children. Trees
have no bound. The choice a rule makes most often is free, any other costs one, and
TLC takes every tree within a budget. `walk` holds the rules still to be parsed and
the Exit events of open contexts; `Enter` parses the next rule and one action per
handler takes the Exit event. A node is its kind and the kinds of what it was made
from. `Reduce(n, Checked, Cast, Made)` is the shape of nearly every handler: pop
`n`, refuse with a message what `Checked` does not hold of, crash on a failing type
assertion (`Cast`) or an empty stack, push what `Made` gives. A literal that does
not parse is refused (`Number`). An import suspends the listener (`outer`) and walks the
other file with one of its own; its handler has two halves, `ExitImportSpec` up to that
walk and `Imported` after it, where the name is asked for. `OwnNodes` and `OneEach` take
the stack of the listener that waits as that of the import (`Before`, `After`).

### Conditionals

Nodes and blocks are on a heap, because `collapse` and `attachElif` store nodes in
the conditional that is being walked. The walk happens twice, then `compileIf`
makes blocks with terminators. `Means` says what a conditional as written does under
a valuation of the conditions, `Runs` what the blocks do. `MaxDepth` bounds the
depth of calls, and `heap.ok` records that it was not reached; every source of four
conditionals outside `Cyclic` stays below it.

### Asserts

The versions are put into rounds one by one (`AddVarToRound`, `NewRound`), then one
assertion is compiled. A comparison has an operator, where == stands for all but !=,
and a number, a Boolean literal or a second variable. `Constraint` is what the
listener makes of it, `Compiled` what the compiler does, and a clause is its truth under
a valuation that says in which versions the variable has the value, or is true.
`ParseAssert` is what the code writes, `Meant` is the reference: the words over the
states of the run in order. `Inverted` tells the comparisons of which the code writes
the opposite (section 4); `ExpandedAsMeant` and `AlwaysCovers` are about assertions
without one.

### Pipeline, SmtListener and Verdict

One action per phase of a run; a phase before the formula may fail, and otherwise
only decides how the run goes on. The solver is external: it says nothing wrong
about the formula, either of its two processes may fail or give up, and the second
may print no model. `SmtListener` takes an answer as a parse tree; numbers are in
units of the last digit that `%f` prints (`Scale`), `meant` and `said` record what
the answer says. `Verdict` has one step that shows something true and ends the run;
the refinement maps `over` to `phase = "over"` and `stuck` to an answer without a
parenthesis.

## 3. Runs

| Run | Instances | Distinct states | Shows |
|---|---|---|---|
| `smt_paths` | conditionals without else in the run block, nested, and in a function called twice in round 2; conditionals with else in the run block and in a function, with calls in the else branch; groups of two and three functions in two rounds | 316 000 | versions read and merged are those of the path, every permutation starts from the same versions, phi numbers are as the display expects, rounds and results are complete, each block is parsed once, no call is lost, no panic |
| `smt_nested` | everything nested in everything | 557 000 | types, contiguous versions, phi stacks, forks, declared reads, growth, termination |
| `reach` | two components, three states, up to two transitions each | 3 000 | verdict independent of the walk |
| `scenarios` | one fork of up to two versions a branch, or a conditional and a parallel run of one version a branch; branches may read; floats, ints and bools | 92 000 | taken branches kept, dead ones gone, no end removed before it is looked up, rows of floats in place |
| `listener` | all trees with three choices beyond the most common ones, repetitions up to two, imports | 550 000 | own nodes only, one node each, also over an import; two crashes and no other; scope, end of the walk |
| `conditionals` | all nestings of four conditionals, alone in a block or with a statement before or after | 10 000 | walks end, blocks closed, conditionals without elif as written |
| `asserts` | five versions of two variables in up to three rounds; all forms, operators, Boolean literals and numbers, temporal words, and filters up to three; && and \|\| over two sorts of comparison | 515 000 | the clause is the failure unless a comparison is inverted |
| `pipeline` | every mode, input and configuration; answers of up to two definitions over three sorts, with negative numbers | 382 000 | refinement of `Verdict`, end of the run, values kept |

Bounds. Two variables and a constant are the fewest in which one variable is
assigned on a path that another is not, and in which operands differ from
destinations. `MaxParallel` caps a group at three functions: with two each
permutation is the reverse of the other, with three a permutation has a
predecessor other than its reverse. Two rounds reach the second parallel run and
the second conditional, where leaked state shows. In `scenarios` two values
distinguish a dead from a live end, and two versions per branch an end from a
middle. In `listener` a budget of three fires every handler and combines uncommon
alternatives three at a time, such as an operand inside a branch inside a function. Four conditionals are the fewest with an elif below a collapsed
one that is itself in an else. Five versions give a filter fewer, as many and more
states than it counts; `Operands` leaves what && and || join to two comparisons that are
not inverted, with a number and with a Boolean. In `pipeline` `MaxInt16` is 1, so that version 2 stands for
those that do not parse, and with `Scale` 2 thirds have to be rounded.

The run `smt_paths` leaves out programs on which the generator is known to be wrong
(section 4): an else branch that reads what the true branch assigned, a function of
a group that reads two variables that others assign, conditionals and groups nested
in each other; it copies values only between equal version numbers. `smt_nested` has
them all and checks what holds regardless. `listener` leaves
out the alternatives in `Miscounted` (section 4). `pipeline` has negative numbers, but
`AnswerKept` does not say that their values are kept. An elif is in `cond_written` only:
`StraightAsWritten` is about conditionals without one. `asserts` has comparisons that
are inverted, and its properties except them; `assert_negated` is about them. `TakenKept` and `DeadGone` except versions that a dead branch only read, which
the code removes.

Fairness. `Spec` of each module (`Listening` in `Listener`) has weak fairness of its
step where a property needs it: the passes are single recursions or loops over
finite data that nothing preempts, and the processes of the solver end (`Pipeline`
has no timeout, as the code has none). `Terminates`, `Decides`, `Displayed`,
`Walked` and `RunEnds` depend on it. `asserts` may stop, as the generator may stop
adding versions and a spec has no more assertions.

## 4. Where the code and its comments disagree

| Run | Comment or message | What the code does |
|---|---|---|
| `smt_second_operand` | `generator.go:49` "make sure all branches with parallel runs begin from the same point" | holds for the first operand only |
| `cond_written` | `preprocess.go:133` "If Else, convert to elif block and add condition of parent" | `compileIf` compiles an elif first, as an if of its own: both branches run if both conditions hold, and the else of a nested conditional runs with its if |
| `assert_counts` | `README.md:60` "no more than" (nmt), "no fewer than" (nft) | with fewer states than n, all of them count as n; nmt misses that nothing holds; from three on combinations are windows of neighbours; `assert ... nft 1` becomes nmt 0 and panics |
| `assert_negated` | `CONTRIBUTORS.md:151` "Fault assertions are negated by the compiler [...] Assumptions are left the way they are"; `compiler.go:1480` | assertions: `compileAssert` turns the operator round and `negate` a Boolean literal too, so `x == false`, `x != true`, `x != false` and `!x` are asserted as they stand, and the solver looks for runs that keep them. Assumptions: `x != e` becomes `true != (x != e)` in the listener, and the formula says that x equals e; only `x != false` is spared, which is written without = |

Each is a run that TLC refutes with one property.

Seen while modelling, without a run:

* Generator. `inPhiState` ("Flag, are we in a conditional or parallel?",
  `generator.go:47`) stays set after the first parallel run of the run block. The
  display assumes "the phi value is +1 the highest SSA in the branch"
  (`execute.go:87`), which fails with a parallel run in a branch. A constant that
  only one branch reads makes `StoreLastState` index an empty stack. An else branch
  reads the versions of the true branch; conditionals replace the fork of an
  earlier one; a store of a loaded value names the source with the version of the
  destination (`generator.go:1293`).
* Reachability. States that only a chain of `advance()` leads to are reported as
  unreachable; mentions are counted, so a cycle that nothing enters passes.
* Display. `deadBranches` removes versions that a dead branch only read; rows of
  ints and bools overwrite each other (`format.go:90`, `107` against `71`).
* Listener, on inputs that the grammar accepts (`Miscounted`; the run and the
  proofs leave them out): an empty statement and an `if` with an initialiser leave no node or too
  many; a list of expressions leaves all but the last on the stack; a const of
  several names in a function; types with another number of arguments than
  `ExitSolvable` expects; a state function with an empty body. A run step that is a
  call in parentheses crashes `ExitRunBlock` (`BareCall`). Hexadecimal integers and
  literals out of range are refused (`listener.go:1097`). An import under `.`, which
  `FaultParser.g4:51` allows in place of a name, crashes `ExitImportSpec` (`DotImport`):
  the `.` counts as a child and `c.IDENT()` is nil ("If no ident, create one from import
  path", `listener.go:169`). Three or more names in a
  const with a value are refused; `assert 5;` has no constraint; the pairs of a
  start block come in reverse.
* Preprocessor. A conditional that is alone in the block of another and has two
  branches below it can be hung into a cycle, and `walk` does not end (`Cyclic`).
* Assertions. With && or || over different variables states are paired round by
  round, pairs across rounds are missing, and a round without a state panics
  (`asserts.go:311`). Filters on && or || become a plain or. Under a filter `!=`
  is written as (not x e), which is no formula (`asserts.go:533`, `Malformed`). In an
  assumption `x != false` is inverted where it stands under && or ||, which the listener
  does not wrap. A variable that stands alone under && or || is not negated
  (`compiler.go:1507`); a `!x` that is left there, in an assumption or under a filter,
  panics (`asserts.go:147`).
* Command line. && binds tighter than || in `main.go:225`: without SOLVERARG modes
  ast and ir of a spec go on to SMT ("stop compiler at certain milestones", `main.go:194`).
  A number (- x) of the solver's answer is kept as x: the operator is not among the
  parts of a term (`responses.go:134`; `:55` "a negative value", `:81` "Happens in negative
  values"). Input smt2 looks at no mode and panics without a solver,
  after the message that it defaults to SMT output. An error in place of a model is
  shown as an empty scenario, and an answer without a parenthesis keeps
  `cleanExtraOutputs` in its loop.

## 5. Proofs

| Theorem | Module | States | For every |
|---|---|---|---|
| `TypeCorrect`, `Contiguous`, `HandedOut`, `ForkIsOpen`, `Growing` | `SmtGeneratorProofs` | `TypeOK`, `VersionsContiguous`, `PhisHandedOut`, `ForkOpen`, `VersionsGrow` | LLVM module |
| `CallsMade` | `SmtRoundsProofs` | `NoCallLost` | LLVM module |
| `RoundsKept` | `SmtRoundsProofs` | `RoundsComplete` | module that is `Initialised` |
| `LeadBack`, `Declared` | `SmtRoundsProofs` | `ResultsLeadBack`, `ReadsDeclared` | `Initialised`, `NoCopies` |
| `PhisAbove` | `SmtPathsProofs` | `PhiAboveEnds` | `Initialised`, `NoCopies`, `Sequential` |
| `CurrentReads` | `SmtPathsProofs` | `ReadsCurrent` | `Initialised`, `NoCopies`, `NoElse`, `CallsLast` |
| `NoEmptyStack` | `SmtPathsProofs` | `NeverPanics` | `Initialised`, `OwnState` |
| `MergesMeet` | `SmtPathsProofs` | `MergesPathEnds` | `Initialised`, `NoCopies`, `OwnState`, `NoElse`, `Sequential` |
| `Exact`, `TypeCorrect` | `ReachabilityProofs` | `VerdictExact`, `TypeOK` | set of specs |
| `FloatRowsInPlace`, `TypeCorrect` | `ScenariosProofs` | `FloatRows`, `TypeOK` | set of traces and values |
| `NoPanic`, `TakenShown`, `LeftOutGone` | `ScenariosProofs` | `EndsFound`, `TakenKept`, `DeadGone` | trace with `ForksInOrder`, `OneTaken` |
| `CountsAreSound` | `AssertsProofs` | `CountsSound` | number of states |
| `OneVariable` | `AssertsProofs` | `ExpandedAsMeant`, assertions about one variable, no comparison of which is inverted | number of versions and rounds |
| `ListenerTyped`, `ListenerNeverCrashes`, `ListenerOwnNodes`, `ListenerOneEach`, `ListenerScopeTracks` | `ListenerProofs` | `TypeOK`, `NeverCrashes`, `OwnNodes`, `OneEach`, `ScopeTracks` | budget, number of repetitions and set of trees that is `Counted` |
| `Implements` | `PipelineProofs` | `HonestVerdict` | set of variables, sorts, literals, versions; answer; configuration |
| `AnswerIsKept` | `PipelineProofs` | `AnswerKept` | set of variables, sorts, literals, versions; number of repetitions; answer of any length without negative numbers |

"For every LLVM module" means for all sets of variables, blocks, functions and
groups too, with blocks, calls and nesting of any number.

Assumptions. `ConstantsAssumption`: finitely many variables, and the markers for
"no block", "no group", "a literal" are not among what they mark; groups of at most
three (`ParallelPermutations` is written out for these). `ProgramsAssumption`,
`SpecsAssumption`, `TracesAssumption`: inputs are well formed. TLC evaluates all of
them in the runs, and `ClassesAssumption` and `AnswersAssumption`, which show that
the hypotheses below have instances.

Hypothesis on the parse trees. `Counted`: trees have no alternative that is
`Miscounted`, the ones on which a handler counts on children that leave no node or
several (section 4). Each of them is refused, crashes or leaves a node too many in
the code. `MCListener` assumes `Counted`, so TLC checks it of the run's trees. No
tree is too large: `Budget` and `MaxRepeat` are arbitrary.

Hypotheses on the LLVM module. Each theorem but for `Initialised` has those without
which TLC finds a module that violates the property.

* `Initialised`: every variable is a global or stored at the head of the run
  function, as the compiler does for a model that creates its instances before it
  uses them, and no global is listed twice. Otherwise rules read versions that nobody
  declared, the version after the first has no parent, and a global listed twice is
  twice in `RoundVars`. The theorems about paths need it because their invariants say
  what the stacks of all variables are once a conditional is open; no module that
  violates one of their properties for want of it is known.
* `NoCopies`: a store of a loaded value names the source with the version of the
  destination (section 4), which may not exist.
* `Sequential`: no step is parallel; that is, after a call the next call of the same
  group is in another round. `CallsLast`: moreover a round reads nothing after its
  calls. The generator defers a call to the end of its block, so that what is
  written after it is numbered before it.
* `NoElse`: an else reads versions of the true branch (section 4).
* `OwnState`: rules name only what instances own. A global has a version and no phi
  stack until it is stored again: named in a branch it makes `StoreLastState` index
  an empty list, and its merge has no version from before the conditional.

### SmtGenerator

The inductive invariant `IInv` is `TypeOK`, `CallsBounded`, `ForkOpen`,
`VersionsContiguous` and `PhisHandedOut`. `TypeOK` alone is not inductive:
`capParallel` takes the last of `forks`, which needs `ForkOpen`, and the
permutations need a callstack of at most `MaxParallel` (`CallsBounded`).
`PhisHandedOut` speaks of the saved states in the agenda too, because `LoadState`
pushes them later, and needs that `ssa` never shrinks. There is one lemma per
action and one step per conjunct that the action can disturb. `Growing` follows
from `IInv` step by step.

`CallsMade` rests on `CallsCleared`: before each entry of the agenda that drops
pending calls, and before its end, there is one that makes them with no call
deferred in between, or none is pending now. The agenda is the Go stack, so this says
that every `parseBlock` that defers a call also gets to its `executeCallstack`.

`RoundsKept` uses `RInv`: `GlobalsFirst` (while globals remain on the agenda nothing
else has happened), `Started` (a variable without a version is still to be stored at
the head of the run function, before any other kind of instruction) and
`RoundsHold`, which is `RoundsComplete` for arbitrary rounds and declarations, so
that the lemmas about the three ways a version is handed out are stated once.
`LeadBack` and `Declared` add `EndsReached`: the last version in the rules being
built, in those kept by an open conditional or run, and in every fork was handed
out. A parent is taken from these lists long after they were made.

The theorems about paths share the idea that the agenda is a stack of open
conditionals and that a step replaces its head (`Spliced`).

* `QInv(R)`: at most one call is pending, no run is parallel, and other calls of its
  group and the entries of kind `R` come after the pending call is made. It is the step from "no two calls
  of a group in a round" in the module to "no parallel run" in the state.
* `CurrentReads`, `CInv`: `PathsInv` says that `cur` is the last version, except
  between the end of a branch and its merge, where `AroundBranch` holds: a variable
  whose versions differ is one the branch said something about, and `capCond` is the
  next to go, so nothing reads in between.
* `PhisAbove`, `AInv`: `LatestEnds`, the end of the rules being built is the last
  version of the variable, or no rule mentions it; the same for the lists kept on
  the agenda that nothing has come after. The highest end of a fork is then the last
  version and the phi the next one. The proof that the highest end exists uses that
  a fork is finite.
* `NoEmptyStack`, `DInv`: `OpenDeep`, the phi stack of every variable of an instance
  has more lists than conditionals are open, which are counted along the agenda
  (`Stacked`, `Deep`), and no rule mentions any other variable. A bound and not an
  equality, because parallel runs leave lists behind.
* `MergesMeet`, `MInv`: depth is not enough, since the merge compares values. By
  `OpenPaths` the stack of a variable tells the versions at which the open
  conditionals started: each is the first of the list of its conditional and the
  last of the list below (`Fits`), and the last list ends with the version of the
  path (`Traced`). The merge then finds the version before the conditional, and the
  list below is as it was when the conditional began. `LatestEnds` gives the other side of the merge, `NoFalse` that
  the entry after a true branch is its end.

### Listener

`NeverCrashes` and the action properties are about the handler that is next; what it
pops was pushed by handlers of other contexts at any time before. The proof says
once what every rule leaves on the stack (`Yield`), and of every handler what it
finds above its context's base (`Takes`) and what it makes of it (`Makes`).

* Handlers (`Serves...`): one that finds what it takes pops exactly that, passes its
  type assertions and makes what it should, or the walk ends with a message. The
  crashes that remain are `BareCall` and `DotImport`.
* Grammar (`Fits_...`): what the children of an alternative leave, one after the
  other, is what its handler takes; without a handler it is what the rule leaves.
  Here `Miscounted` is needed, and here the tokens that handlers count are compared
  with the children that are rules.
* Walk (`Annotation`): every place in what is left of the walk has a set of stacks,
  together with the listeners that wait for an import, so that each item leads from
  every stack of its place into the set of the next one, and the present stack is in the
  first set; a listener that waits also has as many nodes as before its import
  (`Resumes`). `Enter` puts the sets of the children between two places
  (`ChildrenLead`, `ItemAhead`), an Exit drops one, an import goes on with an empty
  stack and comes back to the one that waits.

`ScopeTracks` needs more: `Scoped` says that the scope is that of the Exit events
that are left and that what precedes the Exit of a struct or of a function is of a
lower level (`LevelOf`), which is proved of the alternatives of all rules: no struct
or import is found inside of a struct, no function inside of a function.

### The other modules

Reachability. `Sorted`: a state mentioned so far is in `found` if it is defined so
far and in `undefined` if not, and with what is still to be walked this is all that
the spec mentions and defines. The order of the walk only moves states between the
two sides, so at the end the verdict depends on the spec alone.

Scenarios. `RowsInv`: `FloatRows`, and that nothing is placed before
`generateRows`. `FloatRowIs` says what placing one version does in the cases the
code tells apart. `LoadInv`: the branches loaded are those of the forks taken from
the list so far. `DeadInv`: no branch ahead has its end or its phi in a branch that
was removed (`Spared`); this needs the order of forks, since the phi of a fork may be
a version of the next one, and that a removed branch was not taken, since its
versions would be missing. `TakenKept`, `DeadGone` and `EndsFound` follow from the
same invariant.

Asserts. `AssertsInv` relates what is compiled to what is written. The clauses are
then compared for each temporal word and each filter, under an arbitrary valuation:
a combination has as many members as the filter says (`CombinationsCount`), so one
that holds bounds the number of states that do, and up to two every combination is
among those that are tried. `ExpandedAsMeant` is proved except for a pair of variables: the
listener's wrap and the double negation are cases of it, and `Upright` excludes those
in which they invert a comparison.

Pipeline. `Implements` is the refinement of `Verdict`: a step that ends the run is
`Finish`, the arrival of an answer without a parenthesis is `Stall`, everything
else, the whole walk of the listener included, is a stutter. The steps need
`PhaseInv`, which says what is known in each phase: from `solve` on the formula is
satisfiable and the solver configured, because `Check` went there, and the mode is
the one asked for, or smt where no solver is configured. Nothing is assumed of the second
answer: the claim rests on the first.

`AnswerIsKept` assumes `~Negatives`: `MergeTermParts` drops the sign of a negative
number (section 4). `ListenInv` has two parts. `Told`: what is in `Results` is what
the definitions so far have said, each number within half a unit of what %f prints
(`Rounded` is the lemma about the quotient), and no more. It is kept because the end
of a definition adds a version that has none (`Pending`, since a solver defines a
version once), and it needs to know that the three texts on top of the stack are the
variable, the sort and the value of this definition. That is `Shaped`: what is left
of the walk is items that no handler is about, then what is left of one definition,
then whole definitions (`Left`), and each stage of a definition goes with a stack and
with what the terms on it mean (`Defining`). Each rule and each handler leads from
one stage to the next: `EnterKept` for rules, of which the terms are those a solver
gives for the sort (`SortedTerm`), and one lemma per handler. When the version is no
`int16` the listener panics, and nothing is claimed.

### Model-checked only

* `Terminates`, `Decides`, `Displayed`, `Walked`, `RunEnds`: liveness under fairness.
* `RunBlocksOnce` and `RoundsCovered`: both count, blocks parsed and rounds that were
  opened, over the whole of an agenda whose entries call one another; they need an
  induction over the call tree.
* `ReadsCurrent`, `MergesPathEnds` and `PhiAboveEnds` with parallel runs, the first
  two with an else: they hold of the programs of `smt_paths` and not of all
  (section 4); `NeverPanics` with globals in branches for the same reason.
* `AlwaysCovers`, and `ExpandedAsMeant` for two variables: `FlattenSeq` and
  `FoldLeft` over the rounds, which are recursive.
* `Conditionals`, which is recursive.
* `AnswerKept` for the rest of an answer that has negative numbers too.

## 6. Not modelled

* Text: names, formatting, SMT-LIB syntax, Mermaid output; of the two ANTLR parsers
  everything but which contexts with which children they make.
* The solver: its answers are inputs of `Pipeline` and `Scenarios`.
* `int16` overflow of version numbers in the generator: versions are natural
  numbers there. That the display cannot parse a larger one is in `SmtListener`.
* The values of weights (`Filter`); which versions get one is in `Pipeline`.
* Listener: `Uncertains`, `Unknowns`, `StructsPropertyOrder`, ids and tokens.
* Preprocessor: names of instances and `SpecRecord`, which are maps of joined
  strings. Compiler: expressions, instances, `compileParallel`, rounds of the run.
  Type checker: inference on single expressions. AST: data types.
* Assertions: && and || over different variables or with a variable that stands alone,
  when/then, several instances.
* That the second pass of `capCond` finds the phis of the first: in the model it is one map.
* In the generator: chains of state changes (`stateRules`, `syncStateRules`),
  `stay()`.

## 7. Plan

Done: generator, variables, display and reachability; parsers and listener;
conditionals from the listener to blocks; assertions; the run of the command, the
solver's answers and the abstract `Verdict`.

Next, in this order:

1. State changes: `parseChoice`, `stateRules`, `orStateRule`, `andStateRule`,
   `syncStateRules` in the generator.
2. The compiler's `compileParallel` and `stateCheck`, with its blocks as the input of
   `SmtGenerator`.
3. `SpecRecord` and the naming of instances; inference of types.
4. Composition of `SmtGenerator` and `Scenarios`: forks left by the one displayed by
   the other, with the values along the path taken as abstract specification.
5. Proofs: `ReadsCurrent` and `MergesPathEnds` with an else that does not read what
   the true branch assigns; `RoundsCovered`.

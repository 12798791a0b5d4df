# TLA+ verification of the OpenSCAD evaluator (C++)

The repository evaluates OpenSCAD programs: it resolves a parsed program into a
tree of CSG nodes, generates geometry for that tree, and writes it to a file.
Two engines resolve: a tree walker and a bytecode VM.  This directory holds TLA+
models of the parts whose correctness depends on order, sharing or agreement,
their model-checking configurations, and machine-checked proofs.

Paths are relative to the repository (`src/` is its root here).

## 1. The system

| Component | Code | State it keeps | Operations | Interacts with |
|---|---|---|---|---|
| Scope trail | `include/.../scope_trail.hpp` | per name a stack of (value, level); per level its parent slot and the names bound at it; views that own levels. Twice: for variables, and for $-variables with two fields an entry | openLevel, set, lookup, popLevel, markDead; view creation and destruction | contexts and closures own views; values own closures |
| Evaluation contexts, closures | `src/eval_context.cpp`, `value.hpp` | `let_`, `dyn`, `dynPositions`, colour, children list and where it came from | childCtx, callCtx, callCtxFromCapturedLet, withScope; closure capture and patching | one per scope, on the C++ stack or in a VM frame |
| Tree walker | `src/stmt_eval.cpp`, `src/expr_eval.cpp`, `src/csg_resolve.cpp` | `treeStack_`, rands() count, what was assigned | statements, expressions, comprehensions, modifiers, splicing | contexts, user calls; its tree feeds the generate pass |
| Bytecode compiler, VM | `src/bytecode_compiler.cpp`, `src/bytecode_vm.cpp` | chunks; frames with slots, operand stacks, pending brackets | compile; run loop, tail calls, brackets, unwinding | everything the tree walker touches |
| User calls | `src/user_calls.cpp` | `callStack_`, depth counters, `activeDeclRefcount_`, VM frames | bindArgs, applyDefaults, tail hops, children forwarding | contexts, both engines |
| Generate pass | `src/csg_generate.cpp`, `src/builtins/` | node bodies, `insideHull`, `generateWarnEntry`, `warnCapture`, `idToNode` | generateTree, generatePartialTree, restampCachedIds, dimension rules, one GenerateFn per operation | reads and fills the cache |
| Geometry cache, measurement | `src/manifold_cache.cpp`, `src/measure_geometry.cpp` | key -> bodies and warnings, behind a mutex; `measuring_` | get, put, clear; render() expressions | shared by evaluators and threads |
| Mesh check | `src/mesh_check.cpp` | - | check, weld, orient, fill, strip | polyhedron(), import(), mesh_repair(), export |
| Values, built-in functions | `src/value.cpp`, `src/utf8.cpp`, `builtins/function_builtins.cpp` | one random generator for the process | operators, ranges, indexing, printing, built-ins | every expression |
| List buffers | `value.hpp`, `src/value.cpp` | shared buffer, `used` claimed by compare-and-swap | makeList, listAppend, destruction | any thread holding a value |
| Debugger, cancellation | `debug_hooks.hpp`, `src/debug_profile.cpp`, `src/debug/`, `tools/cli`, `bindings/module.cpp` | last statement per depth, fast-continue breakpoints, interrupt and cancel flags | checkDebug, stepping, fast continue, pollCancel, the prompt | a host thread |
| Profiler | `src/debug_profile.cpp` | per call site, and per path, calls and times | enter, exit, tail hop, report | user calls |
| Export | `src/export.cpp` | - | splitBodiesForExport, writers | the bodies a pass returned |
| use/include, import, coverage, call chains, fonts, colour tables, zip | the remaining files | little or none | file formats, tables | - |

What is hard in it:

* **Two engines, one language.** Whatever the VM optimises (slots for names,
  jumps for branches, frames reused by tail calls, brackets instead of recursion)
  must not be visible.
* **Lifetimes out of call order.** A closure that escapes keeps a scope and all
  the scopes around it alive while others come and go, and level numbers are reused.
* **Remembered facts.** Cached geometry with its warnings and identities, the
  remembered emptiness of a body, a shared list buffer, compiled chunks found by key.
* **Exceptions everywhere**, through recursive code that saves and restores
  members by hand.
* **Threads.** A host renders, clears the cache, pauses or cancels from others.
* **Pipelines whose stages undo each other's premises**: welding, orienting,
  filling and stripping a mesh; notching sections and carrying transforms.

## 2. Modules

| Module | Models | Kind |
|---|---|---|
| `TrailStorage` | the data operations of `ScopeTrailStorage` | operators |
| `ScopeTrail` | storage, views and their owners; the refinement to `LexicalEnv` | state machine |
| `LexicalEnv` | what nested scopes promise: a heap of cells, each with an enclosing one | abstract specification |
| `TrailStorageProofs` | proofs about the operations of `TrailStorage`, used for both trails | TLAPS |
| `ScopeTrailProofs` | proofs about `ScopeTrail`, the refinement among them | TLAPS |
| `CallFrames` | which context is derived from which, and when it is dropped | operators, shared by the next two |
| `DynTrail` | the $-variables' trail and its two projections | state machine |
| `DynamicScoping` | dynamic scoping with a table copied at every scope | abstract specification |
| `DynTrailProofs` | proofs about `DynTrail`, the refinement among them | TLAPS |
| `GenerateCache` | generate pass, measurement, partial render, cache, several evaluators | state machine |
| `GenerateCacheProofs` | proofs about `GenerateCache` | TLAPS |
| `UserCalls` | calls, tail calls, blocks and exceptions of both engines, with the bookkeeping around them | state machine |
| `UserCallsProofs` | proofs about `UserCalls` | TLAPS |
| `ListAppend`, `ImmutableLists` | list buffers shared by threads; lists as values | state machine, abstract specification |
| `ListAppendProofs` | proofs about `ListAppend`, the refinement among them | TLAPS |
| `Profiler` | the profiler | state machine |
| `ProfilerProofs` | proofs about `Profiler` | TLAPS |
| `Debugger` | checkpoints, the prompt, fast continue, pause, cancel, three hosts | state machine |
| `DebuggerProofs` | proofs about `Debugger` | TLAPS |
| `ExprMemory` | values, contexts and output of an expression evaluation | operators |
| `TreeWalker` | the expression interpreter | operators |
| `BytecodeCompiler` | expressions to code | operators |
| `BytecodeVm` | the VM, an instruction a step, beside the interpreter's answer | state machine |
| `StatementWalker`, `StatementVm` | the same for statements; the second holds compiler and VM | operators, state machine |
| `MeshRepair` | checkMesh and its measures; the life of a mesh through its repairs | state machine |
| `CsgBodies` | solids and sections as sets of cells (the geometry kernel, external); bodies and every GenerateFn over them, what is shown, what is written | state machine |
| `CsgMeaning` | what a tree means, and the properties of `CsgBodies` | abstract definition |
| `OscNumbers` | numbers: fractions, infinities, NaN (the machine's arithmetic, external); trigonometry in degrees | operators |
| `OscText` | UTF-8; printed numbers and string literals | operators |
| `OscValues` | values, operators, ranges, indexing, iteration | operators |
| `FunctionBuiltins` | the built-in functions | operators |
| `ValueScripts` | evaluators that work through expressions and share the generator | state machine |
| `ValueLaws` | the independent definitions the answers are compared with | reference definitions |
| `MC...` | the finite instance of each state machine (`Profiler` needs no more than its .cfg) | MC |

### ScopeTrail

* `parent`, `stacks`, `dirty` are `parent_`, `stacks_`, `dirty_`; levels are
  numbered from 1; a dead slot is `Dead`.  `level[v]` is the level of view `v`, `up[v]`
  its `parentView_`.  `frames` are the contexts alive, each holding its `let_`.
  `acc` is the value in flight; a closure is named by the view it captured.
* Reference counts are not stored: a view is owned while a context, a closure or a
  child view refers to it.  A view nobody owns is `Garbage` and its destructor
  runs: `PopEntry` for each dirty name, then `PopDone`.  Nothing else happens
  until all of them are done; among each other their steps interleave freely,
  which covers every nesting of the recursive destructor calls and more.
* `LeaveCtx` is a return and also an exception: the value in flight survives the
  one and not the other.  A closure that captures a fresh root lives in a storage of its
  own and is left out.

### DynTrail

`frames` and the derivations are in `CallFrames`; `store` and `level` are the
storage and the views.  There is no `up`: nothing keeps an ancestor's level alive.
`Leave` drops a frame's contexts in the order the C++ objects go: the chain
withScope made from the back to the front, then the context of the call.
`dirty_` is collapsed (a level's entries are erased together), as `ScopeTrail` checks the same
bookkeeping.  A script does not assign `$children` itself.

### GenerateCache

* The recursion of `generateTreeImpl` is the explicit `stack[e]` of evaluator `e`,
  with the locals the code saves.  `Hit`, `Miss` and `Finish` are the three
  stretches of code between which other threads can use the cache.  Generation
  and put are one step because nothing else reads what generation writes.
* `Fail` is an exception at any point the code can throw one.  `ReserveIDs` is a
  counter in the manifold library that never repeats; the model takes the least ID
  nothing refers to.
* `Evaluate` is the resolve pass reduced to what the generate pass sees: a script's
  tree, with the maps cleared.

### UserCalls

* `callStack`, `active`, `moduleDepth`, `nativeDepth`, `driveDepth`, `measuring`
  are the members of those names, `tree` the size of `treeStack_`, `vm` the frames
  with their brackets, `native` the C++ stack: one record per activation that has
  something to undo.
* A body is not a list of instructions.  At every point each operation the code
  could execute there may be next, so the behaviours are those of every program.
* `EnterUserCall`, `ExitUserCall` and `RecordTailCallHop` serve both engines.
  `Fail` is an exception from anywhere; `Unwind*` are the catch blocks and
  destructors it meets, a step each.  A tail call hops when the code allows it.
* enterUserCall makes the checkpoint of a function's body after it has counted the
  call (user_calls.cpp:753).  A host that stops or cancels there (`StopAtEntry`)
  leaves a call that nobody will exit: its place on `callStack`, in the bag and among
  the native calls is what the next evaluation finds.
* A native call of a compiled function walks its arguments and defaults before
  its chunk starts (`InWalker`), so they can call, measure and fail below it.
* PushBuiltinWrap and PushCsgWrap are one action, as are the two Pops.  `crossed` and
  `abandoned` (the handles of the calls stopped at entry) are history variables:
  the properties read them, and `abandoned` the bounds `MaxStops` and `MaxCallsAfterStop`.
* Left out: arguments (in the engines' models), upvalue parents, profiling.

### The engines

`TreeWalker` and `StatementWalker` translate the interpreter as operators on a
memory (contexts, output, tree, draws).  `BytecodeCompiler` and the first part of
`StatementVm` translate programs to instruction sequences, and the VM
modules execute them an instruction per step, on the same kind of memory.  `Init`
chooses a program, compiles it and computes what the interpreter makes of it;
that constant part of the state is what the final state is compared with.
A program is an abstract syntax tree given as data.  One arithmetic and one
comparison operator stand for all (`OscValues` has them all); one leaf and two transforms
stand for the modules.  Literals that the interpreter would call back into are
evaluated whole.

### Debugger

`Evaluate` is the evaluation thread, `Signal` and the host's edits are other
threads; `host` is one of the command line's prompt ("repl"), `debug_evaluate()`
of the Python bindings ("gui"), and `evaluate()` with a cancel flag only ("plain").  The script is
data.  `verdict`, `late`, `asked` are history variables that the properties read.

### Profiler, ListAppend

`Profiler` advances a clock wherever it may and counts, in `onTop`, who was
innermost: the reference the profile is compared with.  `ListAppend` has one
action per step of listAppend that another thread can come between; `used` has
width `Width` in place of 2^32.

### MeshRepair

A mesh is its points and faces.  `job` says who asked (polyhedron, import,
mesh_repair, export) and `pc` which stage comes next, one action per stage, one
step per face in the flood that orients.  Coordinates are
integers in 1/128 of the default tolerance; the thin-face test looks at the
largest component of the area.  What the kernel accepts (`Balanced`) is external.

### CsgBodies

A tree is a sequence of nodes, children first; `Generate` takes the next one and
applies its GenerateFn to the bodies below it.  A body has a set of cells (or
segments of a section), a dimension, a role (normal, highlight, background,
show_only), a colour, a name, what it remembers of its emptiness and of the parts
it was merged from, and a transform not yet applied.  Cells are a line or small
grid of unit cubes: enough for everything that is told apart, since the
operations treat cells alike.  `CsgMeaning` defines what a node means as sets,
without roles, memory or order of folding.  Its `Irregular` names the cases in
which code and meaning are known to differ (section 5).

### ValueScripts

A script is a sequence of expressions: an operator, index, literal, printed
number, list or built-in call with operand values.  `log` keeps each with its
answer, and `ValueLaws` says what every answer must be by a definition of another
kind: linear algebra for `*`, a set of intervals for `lookup`, sets of steps for
ranges, exact fractions for printed numbers, symmetries for sin, cos and tan.

## 3. Properties and runs

Twelve runs.  Each state machine has a type invariant; those of `ScopeTrail`,
`DynTrail`, `ListAppend`, `UserCalls`, `GenerateCache` and `Profiler` are proved
(section 4), those of `MeshRepair` and `Debugger` document their variables: a
value out of its type stops TLC in the runs' own invariants.  Deadlock is
checked except where the system really may stop: a `Debugger` session ends with its
program, and a `Profiler` behaviour with its last run.  The engines, meshes,
bodies and values stutter in an action of their own when the work is done, so
a stuck frame or stage is a deadlock.

**scope_safety** (one name, four views, four levels, three contexts, two entries
per stack; views and plain values are symmetric)
* `StorageSound`: no two live views share a number although numbers come back,
  parent slots are those of live views, no binding outlives its scope, dead slots
  are given back, nobody holds a dead view.
* `BindingsKept`: no step takes a binding from a scope that is still held, the
  bug the comment at scope_trail.hpp:154-172 tells of.
* `ImplementsLexicalScoping`: between states whose stacks are in level order every
  step is a step of `LexicalEnv`.  The premise is necessary (section 5).
  Four views are the least that give a captured scope, the scope it continues, one
  opened and closed after it, and a call of the closure.  The proofs cover all
  other sizes.

**dyntrail_scoping** (five scopes, five frames, a chain of two, two names)
* `TrailSound`: no reader looks through a level that was popped, and every stack is
  in the order lookup expects, although nothing keeps ancestors alive.
* `ImplementsDynamicScoping`: value and explicit flag read as if every scope had
  its own copied table, through tail hops, forwarded children and exceptions.

**cache_transparent** (two evaluators, two colouring modes, repeated subtrees, a
literal whose address is used again, eight IDs)
* `PassesTransparent`: a completed pass returns the shapes and says the warnings
  of a run without a cache.
* `PartsClickable`: what a pass shows leads to a node of the script just
  evaluated, and no two parts shown have one ID.
* `AbortsLeaveNothing`: every entry is whole, whoever left it there and however
  its pass ended; `warnCapture` never points into an activation that is over.
  `VIEW LiveState` identifies states that differ only in the numbers of the IDs
  and in maps that are cleared before anything reads them.

**calls_balanced** (one or two declarations of each kind; each limit 2, hops 1,
so that every limit is met below, at and above)
* `CallsAccounted`: call stack, counters and bag of active declarations are those
  of the calls really open, and the depths stay within their limits in any mixture.
* `BracketsBalanced`: every accumulator, and the measuring flag, belong to
  something that will undo them.
* `IdleClean`: however an evaluation ended, it leaves to the next one exactly the calls
  that a stop at a body entry abandoned; without such a stop it leaves nothing.
* `NoRunaway` (liveness): no infinite behaviour only ever starts calls, hops and
  blocks.
  `MaxStops` is 1: one call, entered by either engine, is abandoned at its body,
  and the evaluations that follow start with it on the stack and have
  `MaxCallsAfterStop` calls of their own.  The proofs cover any number.  `MaxActive` is needed since a
  hop that replaces a declaration makes a count grow without end.

**debugger_session** (a script of eight procedures in two files, two runs, one edit)
* `StopsExact`: no execution of a line stops twice, no call on its own line loses
  its stop, no breakpoint known on entry is missed.
* `SessionSound`: the program ends, restarts or returns to the prompt exactly when
  asked; variables set at a prompt stay there; a cancel is late by at most one
  polling interval.
* `CancelHonoured`, `PauseHonoured`, `EditsReachEvaluator` (liveness): a cancel
  ends the evaluation; a pause stops it, or finds it in a compiled body, which has
  no checkpoint; an edit of the breakpoints reaches the evaluator.

**profiler_times** (three sites, five nodes, two runs, five calls, depth four, one tick)
* `TimesExact`: self and cumulative times of table and tree are the ticks spent,
  with recursion, hops, a full tree and a stop at a body's entry.  The proof covers
  all other sizes.

**lists_shared** (three lists, two threads, five elements, a frontier modulo 3;
lists and threads symmetric)
* `BuffersAlive`: the allocation a list's elements lie in exists while the list
  does, kept by one reference.
* `ImplementsImmutableLists`: a list keeps the elements it was made with.

**engines_agree** (1280 functions: each construct inside and beside the others)
* `EnginesAgree`: same value, same lines, same failure.
* `FramesClean`: a frame leaves nothing behind, and none waits below a call that is
  its last act.
* `Terminates` (liveness): every evaluation ends, by the loop guard if need be.

**statements_agree** (2873 files: pairs of fourteen statements under thirteen wrappers,
calls of eleven modules)
* `StatementsAgree`: same tree, operand groups, lines, draws and cacheability.
* `FramesBalanced`: every list and scope opened is closed by its frame or by the
  exception that ends it.
* `BlocksStayLexical`: no local of a module that forwards a block encloses it.

**mesh_closes** (five closed surfaces, up to two faces missing or turned, shared
or separate corners, both tolerances; twelve passes are more than any of them takes)
* `RepairCloses`: what is left of one orientable surface is closed, wound one way
  and outward.
* `SilentRepairsChangeNothing`: with nothing reported nothing was changed.
* `PolyhedronSound`: welding is chosen exactly when it helps.
* `StripKeepsClosed` (action property): stripping opens nothing.

**bodies_denote** (about eleven thousand trees: every operation over every wrapper
and most pairs; both modes of keepMinuendColor)
* `GeometryDenoted` (action property): what a GenerateFn makes covers what the
  operation means of what its children cover.
* `PaintersOrder`: a later section is drawn over earlier ones.
* `NamesAccounted`: no object name is lost without a warning.
* `MemoryTrue`: remembered emptiness and remembered parts are true.
* `ExportFaithful`: the objects of a file share nothing, cover what was shown, and
  each cell is in the object of the last solid over it: the object of its colour
  where colours are split, of its name where they are not.

**values_lawful** (values of every type; widths scaled down; two evaluators)
* `OperatorsLawful`: comparison, arithmetic, bit and index operators obey the laws of
  order, linear algebra, bits and text.
* `BuiltinsRight`: each built-in call answers by a law of its own, or undef with a
  warning if its arguments are refused.  Without a law (`NoLaw`) are exp,
  log, atan and atan2, which are the library's, and the tables version() and
  supported_feature(); sqrt, ln, asin, acos and angles without a closed form have
  laws of domain and symmetry, their values being the library's too.
* `TextExact`: numbers print rounded once; escapes and code points read and write back.
* `IterationExact`: a range is refused by the steps within a relative tolerance of
  its end and walked to an absolute one, exactly; texts and list literals likewise
  give exactly their elements.
* `DrawsRepeat`: a seeded call depends on its arguments alone, unseeded ones
  continue one stream, under any interleaving of the evaluators.
  Numbers print with 2 digits of 11 bits from a 5-digit rendering instead of 6 of 53
  from 17: the relations 2^(Precision-1) > 10^(Digits+1) and 10^(Rendering-1) >
  2^Precision, which the algorithm relies on, hold for both.  Integers have 4 and 5 bits
  for 32 and 64, code points 22 for 32 (all of Unicode is inside), seeds 5 for 31.

### Fairness

`calls_balanced`: `WF_vars(Next)`, the evaluating thread goes on; the limits do
the rest.  `debugger_session`: the evaluation thread and the host's call of
request() are scheduled (`WF` of each); users need never do anything.
`engines_agree`: `Progress`, the weak fairness of `Next` written without ENABLED
(as long as frames are left instructions go on being executed), which together
with the deadlock check is the same.  All other properties are safety.

### Mutants

Each property of each run has a plausible bug in the code's definition that
breaks it, defined next to that definition and marked "Mutant": a pop that takes the last
entry, a key without the colouring mode, a literal's slot that is not patched, a hop
that is not counted, an erased section not notched, a weld always used, a flag
copied from any operand, and so on.

## 4. What is proved

Eight modules of theorems, checked by TLAPS for every value of the constants.  The
only assumptions are those on the constants, next to their declarations.  In each,
an inductive invariant is proved first: it holds initially, each action keeps it (a lemma an
action), and the properties follow from it.  TLC has checked each of them on
the instance of the module's run, except the last, which speaks of tallies that TLC cannot
enumerate.

**ScopeTrailProofs** (any names, values, views, levels, contexts).  `IInv` (in
`ScopeTrail`) ties the storage to the views.  A level number may be given out
again because no entry carries it (`EntriesOfLiveLevels`); that rests on the
dirty list being exact (`DirtyExact`), so that a dying level erases all its
entries and only those.  Slots and views agree (`SlotsMatchViews`), and a view whose
destructor runs was garbage, so nothing names it (`HoldersLive`).
* `StorageStaysSound`: `StorageSound`, with its parts by name (`NumbersDistinct`,
  `AncestryWhole`, `NoStaleEntries`, `SlotsFollowViews`, `NobodyHoldsTheDead`,
  `SlotsGivenBack`), and `TypeCorrect`.
* `HeldScopesKeepBindings`: `BindingsKept`, of a single step from `IInv`.
* `ScopingIsLexical`: `ImplementsLexicalScoping`.  The cell of a scope has the
  bindings its level owns (`OwnBindings`).  lookup() goes through two stacks at once, a name's
  entries and the slots of the parents; that it ends, and at the innermost scope around the
  reader that binds the name, is proved by induction over levels, and `Denotes` of
  `LexicalEnv`, which goes from cell to cell, gives the same.  Each action then maps to an
  abstract one; the cells it lets go of are ones that nothing left refers to
  (`NothingDangles`).

**TrailStorageProofs** (any storage that is well formed, `StorageOK`).  The walk
of lookup() terminates and finds the newest binding on the chain of parents; set(),
markDead() and the erasing of a level change what lookup answers at the level they name and
nowhere else.

**DynTrailProofs** (any names, values, scopes, and any depth of frames and chains).
Here no view owns its parent's, so that a parent slot stays readable is a matter of
order.  `TrailInv`: contexts continue contexts that came before them (`FramesOK`) and have
higher levels (`LevelsOK`, `ScopesInOrder`), so that whatever order they go in a
reader never outlives an ancestor; and the storage is well formed (`StorageOK`).
* `TrailStaysSound`: `TrailSound`, and `TypeCorrect`.
* `ScopingIsDynamic`: `ImplementsDynamicScoping`, action by action: a new scope reads
  what the scope it continues reads, and popping one leaves all other tables as they were.

**ListAppendProofs** (any number of lists and threads, any width of the counter).
The invariant says who may read and who may write which cell of which buffer.
* `BuffersStayAlive`, `BuffersStayPut`, `TypeCorrect`.
* `ListsAreImmutable`: the refinement of `ImmutableLists`, step by step.

**UserCallsProofs** (any declarations, limits and nesting, any number of stops at
body entries).  The state has three
stacks that must agree: native calls, frames of the VM, and `callStack`.  `CallsPlaced` maps
each place of `callStack` above those of abandoned calls to one call, in order, `Above` deciding
which engine is inside which; while an exception passes from an abandoned call the
order is lost, and it is back when the evaluation has ended.  `DrivesNested` ties the VM's drivers to its frames.  So the call
being left is the last of `callStack`, the counters count what is there
(`Counted`), and the depths stay within limits (`WithinLimits`).  `SavedModes` and
`MeasuringScoped`: a measuring flag saved as set was set further out.
`Accumulators`: each element of either stack holds a known number of places of
`treeStack_`, and an exception leaves more there, never fewer.  `Step` says
what any action does to the two stacks, and `StepCases` that no action does anything else.
* `CallsStayAccounted`, `BracketsStayBalanced`, `IdleStaysClean`, `TypeCorrect`.

**DebuggerProofs** (any script, host, breakpoints, bounds).
* `SessionStaysSound` from `SessionInv`: a request that ended the evaluation is
  still the last one made when its exception reaches the host (`RequestPending`),
  and the ticks since a cancel request are fewer than one polling interval
  (`LateCounted`).
* `BreakpointsStayKept`: `BreakpointsNotMissed`, from
  `StopsInv`: a frame that runs compiled has no line that the evaluator knew as a
  breakpoint when its body was entered (`FramesClear`).  `ScriptAssumption` says
  what a compiler leaves behind: jumps lead to operations, and a function's
  statements lie between the `minLine` and `maxLine` of its chunk
  (Compiler::trackSpan).
* `StopsStayExact`: `StopsExact`, from `StopsInv` and `SitesInv`.  A statement
  offered to the user becomes the last at its depth, so only a call site can be
  taken for the execution of its line that stopped before.  `SitesInv`
  follows what `lastStmtByDepth_` holds for each activation: the statement its next
  call site follows, or, in a body that was hopped to, at worst the statement the hop
  left.  The premise `SitesPlaced` says of a script that each call site comes after
  a statement at its depth, and that no tail call lands in a procedure with a call
  on the line it leaves.  The second part excludes the case of section 5;
  the run's script has both, which `MCDebugger` asserts.

**GenerateCacheProofs** (any number of evaluators, any finite trees, jobs, aborts
and clears).  `TreeAssumption`: the trees are finite.  `KeysTell`: two nodes with
one key that are neither tainted by rands() nor hold a closure draw the same and
warn alike, which is what makes a GenerateFn cacheable (its parameters, meshes of
import() included, are what cacheKey serializes).
* `CacheInv`: the stack is a path down the tree; from the first cacheable node on
  every activation is to be stored, and the innermost collects the warnings; an
  activation has drawn and collected what its finished children draw and say, and
  what was printed is the sum over the stack; an entry is right for every node with that key.
  The last part needs that the key decides what a subtree draws and says
  (`KeyDecides`), by induction over the height of the tree.
* `CacheUnnoticed`: `PassesTransparent`; `AbortsHarmless`: `AbortsLeaveNothing`.
* `IdInv` follows the IDs: those of a pass for display are known, and what is known
  leads into the script being evaluated.  It gives `TypeCorrect` and
  `ClicksLeadToSource` (`ClickFindsSource`, one half of `PartsClickable`).
* `PartsStayClickable`: `PartsClickable`.  `SelectInv`: every entry has an ID for
  each part, and so have the parts a pass for display has drawn, over all its
  activations.  A reserved ID is none that is in use, and two reserved at once differ
  (`Reserved`, `ReservedApart`), so restamping a body keeps its parts apart and
  brings in no ID already there (`RestampedApart`).  The premise `NoUnionStored`, that
  a measurement stores no union, is needed (section 5): a measurement
  leaves the IDs of what it reuses alone, and anything else it stores is one part.
* A recursive function such as `Gather` or `Below` is a CHOOSE to the provers.
  That one satisfying its equation exists is proved by induction, here with a set in the place of a property
  (`LeastNumber`, `Induction`, `TreeInduction`, from the well-foundedness of <).

**ProfilerProofs** (any sites, as long as they are finitely many and none is called
"<toplevel>"; any limits on nodes, depth, calls, runs and time).  The profiler never
sees time pass: it subtracts clock readings when a call returns and hands the
difference up.
* The *slice* of a call still open is what it has spent itself: from its
  start to that of the call above it, less what the calls it made handed down to
  `childTime`.  `TableInv`: for each site, what was reported and the slices of
  its open calls add up to the ticks it was on top (`SelfExact`); what was reported as
  cumulative and the time since its outermost open call add up to the ticks it was in
  progress (`CumulativeExact`), which needs that a handle is a re-entry exactly when
  an earlier call from its site goes on (`ReentriesExact`).  Sums over the stack are
  running totals (`IsTally`), so that an action changes them at the top only.
* `TreeInv` does the same for each node of the tree: `g` is the time a node's calls
  were on top, `a` which nodes lie below which (`IsAncestry`).  A site is open exactly
  when the node of the innermost call is at or below one of its nodes (`OpenAbove`,
  `AboveOpen`), so that the ticks at the nodes below are the ticks of the site
  (`OpenByNode`).  A full tree folds a call onto a node that need not be its site's:
  hence the premise `~ cut`; that the root has the whole time holds even then.
* `CumulativeIs`: the backward sweep of finalizeProfilePaths gives each node the sum
  over the nodes at and below it, by induction from the last node to the first.
* `TypeCorrect`, `TableIsExact` (`FlatExact`), `ProfileIsExact` (`TimesExact`).

Checked by TLC only:
* The engines, values, meshes and bodies: their answers are computed by RECURSIVE
  operators, which tlapm does not support.
* Liveness (`NoRunaway`, `CancelHonoured`, `PauseHonoured`,
  `EditsReachEvaluator`, `Terminates`): tlapm has no ENABLED.

## 5. Where code and documentation disagree

Found while modelling; the instances leave these cases out or the properties name
them.  None is a run of its own.

*Scopes.* A name's stack is not always ascending (scope_trail.hpp:193-195, 287): a
closure that captured scope 2 keeps it alive after its call; scope 1 then binds
the same name and is pushed above.  `parent_` shrinks and levels are reused, although
273-276 says never.

*Cache.* Whether an open polyhedron warns depends on `insideHull`, which is not in the
key (manifold_cache.cpp:146).  A measurement leaves the IDs of a hit as they
were stored (csg_generate.cpp:81-87) and stores the union it measures
(185-191).  If that union reuses one cached body twice, two of its parts have one
ID, and a later render that hits the union gives both the same fresh ID
(409-507): a click on one selects both, although evaluator.hpp:1444-1447 calls
such an entry reusable by the real render and 411-419 says a cached subtree of
several parts stays selectable part by part.  The run measures a list without such a union, as `NoUnionStored` asks.
`insideHull` and `generateWarnEntry` stay set after an exception
(csg_generate.cpp:98-102).

*Calls.* A hop changes the declaration of a frame, so the bag of active declarations
is not "exactly equivalent" to the stack (evaluator.hpp:2070-2073).  A stop or
cancel at a body's entry throws after enterUserCall has counted
(user_calls.cpp:753), outside the try of every caller, so that the call stays on the
stack, in the bag and in the depth, of which the next run has one less: the comment at
evaluator.hpp:2022-2023 says enter and exit count symmetrically.  The driver's guard can meet an empty call stack
(bytecode_vm.cpp:569).  Defaults of an interpreted callee run before it is entered
(user_calls.cpp:295), so their recursion is not counted.

*Debugger.*  In a tail-recursive function written on one line the entry's stop
leaves that line in `lastStmtByDepth_`, so the stop at the call site of a
later hop counts as the same statement and is dropped (debug_profile.cpp:112,
user_calls.cpp:563).

*Expressions in the two engines* (bytecode_compiler.hpp:18-21 promises agreement):
`let($a = ..)` in a compiled function leaks to later siblings (bytecode_vm.cpp:657);
closures made in a C-style for share the loop's context in the interpreter and hold
copies in the VM, and its increments overwrite an outer slot there; a slot
declared ahead for recursion hides an outer name from earlier clauses; an unknown
callee's arguments and surplus arguments are evaluated only by the VM; an
unexpected named argument is bound by the interpreter and dropped by the VM; the
default of a literal's parameter does not see an enclosing local
(user_calls.cpp:314).

*Statements in the two engines:* operand groups of children picked one by one
(bytecode_vm.cpp:1440); `children(i, separate=true)` is expanded before the
assignments of its block by the interpreter, after them by the VM, and once rather than per
iteration in intersection_for; a reassignment warns before its evaluation in one
engine and after it in the other, and for a whole chunk at compile time (the comparison
allows for it); rands() among a module call's arguments taints it in one engine
only (bytecode_vm.cpp:1117-1120); two blocks with the same first statement and length
share a chunk (user_calls.cpp:104-109).

*Profiler.* `profilePaths_` is not cleared by evaluate() (csg_resolve.cpp:279-284),
so only the first run's tree is compared with the table.

*Meshes.* A fill is turned with component 0, whichever it closed
(mesh_check.cpp:501).  Stripping opens a closed mesh an edge of which has four
faces.  With needles at three coincident vertices one of two removals is lost
(mesh_check.cpp:709).  `unfilledHoles` is never above 0, although mesh_check.hpp and
topology.cpp report it.

*Bodies* (`Irregular` in `CsgMeaning`): `#` restamps ghosts below it
(modifiers.cpp:14-19, against colored_body.hpp:16-25) and revives bodies below an
operation; an empty body of the other dimension takes part; `#`, `%`, `!`,
export_as, simplify, mesh_repair and render drop the other dimension of a mixed
group where union, color and transforms keep it; simplify() and mesh_repair()
copy remembered emptiness and parts, so a repaired mesh claims to be empty;
offset() drops ghosts and open meshes of sections and passes those of solids;
minkowski() counts bodies instead of statements; a second `!` inside the first
still isolates; a name is announced as lost below simplify(), mesh_repair() and a
single minkowski() operand although it survives; overlapping sections of one
statement are not notched.

*Values.* `*` accepts matrices without columns, against value.hpp; rangeElementCount
says it "agrees exactly" with the walk (value.cpp:636-639), but its tolerance is
relative to the step and the walk's absolute, so that they agree for steps of magnitude
one only (`IterationExact` states both); a named argument given twice takes the
first value for both, against function_builtins.cpp:1243; chr() from 2^32 on,
a list index, parent_module() and bit operands beyond their integer convert outside its range, which is
undefined (the model lets any value come out, or leaves the input out where the build's
outcomes differ in kind); divide ignores the sign of a zero divisor inside lists;
`each` of too large a range is silent where `for` warns; equal empty ranges print
differently; search() for one character skips missing ones but not missing list needles.

## 6. Not modelled

* *Numerical geometry*: curved primitives, resize(), roof(), offset3d(),
  levelset, alpha_wrap(), surface(), the manifold and Clipper libraries, non-square linear_solve,
  snapping of inverse trigonometry: functions of numbers without state, whose
  correctness is an error bound.
* *Formats*: file readers and writers, zip layout, fonts, text metrics, dxf_*,
  colour tables, argument parsing, binding glue: sequential conversions.
* *use<> and include<>*: the modules and functions in scope are given.
* *Coverage, call-chain interning, provenance, profile_time, run colours beyond a
  flag, depth limit of the tree, negative zero, rounding of arithmetic.*
* *Eligibility of chunks*: which bodies are compiled is a parameter (`Compiled`)
  of `UserCalls`.

What comes next: a proof of `StripKeepsClosed`, once the operators of `MeshRepair` that
it rests on are free of RECURSIVE.

`PROJECT.json` lists the hazards this code is exposed to, each with the line where
it bites and the properties that cover it.
